\* Two turns of one session, one Steer call, one collaboration message; disk and
\* RunStarted listeners may fail.  CHECK_DEADLOCK FALSE: the run identities are used up.
SPECIFICATION Spec
CONSTANTS
  s1 = s1
  r1 = r1
  r2 = r2
  i1 = i1
  i2 = i2
  m1 = m1
  NoRun = NoRun
  Sessions = {s1}
  Runs = {r1, r2}
  Steers = {i1}
  Messages = {m1}
  Home <- OneHome
  Fallible = {"RunStarted"}
  DiskFaults = TRUE
SYMMETRY Symmetry
INVARIANTS TypeOK OneActiveRun NothingStranded RefusedNeverRecorded RunsAreBlocks
PROPERTIES ClosedIsQuiet
CHECK_DEADLOCK FALSE
