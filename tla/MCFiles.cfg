CONSTANTS
  Task = {p1, p2}
  File = {f1, f2}
  Vnode = {n1, n2}
  MAX_FDS = 2
  None = None
SYMMETRY Symmetry
SPECIFICATION Spec
INVARIANTS TypeOK RefsExact NodeCounted FlockExclusive NoDanglingLock
CHECK_DEADLOCK FALSE
