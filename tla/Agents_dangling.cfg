\* Two agents besides the default, three sessions: a child's settings are written while
\* its agent is deleted.
\* CHECK_DEADLOCK FALSE: the saves and new sessions are used up.
SPECIFICATION Spec
CONSTANTS
  None = None
  Agents = {"standard", "a1", "a2"}
  Default = "standard"
  Sessions = {"s1", "s2", "s3"}
  MaxSaves = 2
  MaxNew = 2
INVARIANTS NothingDangles
CHECK_DEADLOCK FALSE
