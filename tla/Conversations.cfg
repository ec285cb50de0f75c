\* Two requests at a time, three in all, a second conversation, one end of the process.
\* CHECK_DEADLOCK FALSE: requests, turns and ends of the process are used up.
SPECIFICATION Spec
CONSTANTS
  a = a
  b = b
  k = k
  c1 = c1
  c2 = c2
  None = None
  Roots = {a, b}
  Kids = {k}
  Mother <- OneKid
  First = a
  Callers = {c1, c2}
  MaxTurns = 2
  MaxCalls = 3
  MaxCrashes = 1
SYMMETRY Symmetry
INVARIANTS TypeOK NothingComesBack WholeConversations
PROPERTIES ReadOnlyForward StartsOnlyInOpen
CHECK_DEADLOCK FALSE
