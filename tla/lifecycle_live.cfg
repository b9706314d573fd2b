SPECIFICATION LiveSpec
CONSTANTS
  Projects = {p1}
  Jobs = {j1}
  Sessions = {s1}
  NoProject = NoProject
  MaxQueued = 1
  MaxBatch = 2
PROPERTIES FlagStopsSession ResumeRestartsWork
