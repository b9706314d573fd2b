SPECIFICATION LiveSpec
CONSTANTS
  Deliverables = {d1}
  Sessions = {s1, s2}
  Calls = {c1}
  Resolvers = {r1}
  Nothing = Nothing
  RetryLimit = 1
  Threshold = 2
  MaxRetry = 2
INVARIANTS SuspensionIsEarned RetryWithinLimit
PROPERTIES FinishedIsFinal LoopEnds
