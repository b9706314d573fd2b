SPECIFICATION LiveSpec
CONSTANTS
  Projects = {p1, p2}
  Types = {t1}
  Scans = {s1, s2}
  Nothing = Nothing
  MaxQueued = 1
INVARIANTS AlertOnce
PROPERTIES EveryItemIsHeard
