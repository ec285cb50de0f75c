\* The writes of one session, none of them of a client that goes.
SPECIFICATION Spec
CONSTANTS
  Subs = {} Calls = {c1, c2, c3} Own = {}
  QueueLimit = 0 PendingLimit = 0 MaxEvents = 0
INVARIANTS OneByOne
CHECK_DEADLOCK FALSE
