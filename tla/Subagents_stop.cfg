\* One conversation with two turns, two calls of Spawn (children or a grandchild)
\* and two messages; stops, deletion and Close among five calls in all.
\* CHECK_DEADLOCK FALSE: the operations and runs are used up.
SPECIFICATION Spec
CONSTANTS
  root = root
  p1 = p1
  p2 = p2
  o1 = o1
  o2 = o2
  m1 = m1
  m2 = m2
  None = None
  Roots = {root}
  Prompts = {p1, p2}
  Spawns = {o1, o2}
  Sends = {m1, m2}
  MaxDepth = 2
  MaxCalls = 5
SYMMETRY Symmetry
INVARIANTS TypeOK StopsHold FamiliesApart EndsAreFinal
CHECK_DEADLOCK FALSE
