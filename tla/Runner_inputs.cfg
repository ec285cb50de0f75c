\* One turn with two Steer calls and a collaboration message: batches of up to
\* three inputs, of which any tail may fail to be appended; listeners of every
\* kind of event may fail.  Under fairness.
\* CHECK_DEADLOCK FALSE: the calls are used up.
SPECIFICATION FairSpec
CONSTANTS
  s1 = s1
  r1 = r1
  r2 = r2
  i1 = i1
  i2 = i2
  m1 = m1
  NoRun = NoRun
  Sessions = {s1}
  Runs = {r1}
  Steers = {i1, i2}
  Messages = {m1}
  Home <- OneHome
  Fallible = {"Message", "RunStarted", "RunEnded"}
  DiskFaults = TRUE
INVARIANTS AcknowledgedIsRecorded RecordedInOrder StartedIsEnded
PROPERTIES AnswersHold WaiterReturns ClosedRunEnds CloseReturns
CHECK_DEADLOCK FALSE
