SPECIFICATION Spec
CONSTANTS
  Projects = {p1}
  Jobs = {j1, j2}
  Sessions = {s1}
  NoProject = NoProject
  MaxQueued = 1
  MaxBatch = 2
SYMMETRY Symmetry
INVARIANTS PauseStopsWork KeyNotLeaked ActiveIsAttended
