SPECIFICATION Spec
CONSTANTS
  Projects = {p1, p2}
  DirectorItems = {d1, d2}
  CeoItems = {c1, c2}
  Requests = {q1, q2}
  Nothing = Nothing
SYMMETRY Symmetry
INVARIANTS ResolutionSentOnce ForwardedHasHeir
CHECK_DEADLOCK FALSE
