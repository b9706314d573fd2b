SPECIFICATION Spec
CONSTANTS
  Deliverables = {d1, d2, d3}
  Sessions = {s1}
  Calls = {c1}
  Resolvers = {}
  Nothing = Nothing
  RetryLimit = 1
  Threshold = 1
  MaxRetry = 1
SYMMETRY Symmetry
INVARIANTS NoDependencyCycle StartedInOrder SkippedIsBlocked NothingForgotten
