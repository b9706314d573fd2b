SPECIFICATION Spec
CONSTANTS
  StageCount = 2
  Required <- MCRequired
  Sessions = {s1, s2}
  StageIds = {r1, r2, r3}
  GroupIds = {g1, g2, g3}
  Nothing = Nothing
SYMMETRY Symmetry
INVARIANTS CompletedHasEvidence StageRowUnique PassingReportHolds
PROPERTIES ImplementsWorkflow
