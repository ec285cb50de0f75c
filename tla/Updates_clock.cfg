\* A revert that was checked before a run began is numbered while it ends.
\* CHECK_DEADLOCK FALSE: runs, reverts and numbers are used up.
SPECIFICATION Spec
CONSTANTS
  r1 = r1
  r2 = r2
  v1 = v1
  v2 = v2
  NoRun = NoRun
  Runs = {r1, r2}
  Reverts = {v1}
  MaxUpdates = 4
  BufferLimit = 3
  DiskFaults = FALSE
INVARIANTS ClockKept
CHECK_DEADLOCK FALSE
