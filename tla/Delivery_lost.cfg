\* One task of one turn, one run of its parent; nothing fails.
\* CHECK_DEADLOCK FALSE: the turns and runs are used up.
SPECIFICATION Spec
CONSTANTS
  None = None
  Tasks = {"t1"}
  MaxTurns = 1
  MaxRuns = 1
  MaxFaults = 0
PROPERTIES Delivered
CHECK_DEADLOCK FALSE
