SPECIFICATION LiveSpec
CONSTANTS
  Workflows = {w1}
  MaxIterations = 2
  MaxDeaths = 3
INVARIANTS RunningIsAttended CompletedIsChecked
PROPERTIES OutcomeStands WorkflowEnds

CHECK_DEADLOCK FALSE
