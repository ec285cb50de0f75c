\* scene "turns": a turn with three calls and an input, cancelled at any time;
\* scene "faults": two turns whose writes fail and in which the process stops.
\* CHECK_DEADLOCK FALSE: the turns and calls are used up.
SPECIFICATION ScenesSpec
CONSTANTS
  c1 = c1
  c2 = c2
  c3 = c3
  NoCall = NoCall
  Calls = {c1, c2, c3}
  MaxBatch = 2
  MaxInputs = 1
  MaxTurns = 2
  Compacts = TRUE
  DiskFaults = TRUE
  Crashes = TRUE
INVARIANTS TypeOK ResultsFollowCalls RequestsTheLedger ContextIsWhole TurnsHold
PROPERTIES StopEnds
CHECK_DEADLOCK FALSE
