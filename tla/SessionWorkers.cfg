SPECIFICATION Spec
CONSTANTS
  Sessions = {s1, s2}
  Workers = {w1, w2}
  Stored = {s1}
  Creates = {}
  Opens = {o1, o2}
  Closes = {}
  Forks = {f1}
  Deletes = {d1}
  Compactions = {}
  None = None
  d1 = d1
  f1 = f1
  o1 = o1
  o2 = o2
  s1 = s1
  s2 = s2
  w1 = w1
  w2 = w2
SYMMETRY Symmetry
INVARIANTS TypeOK OneWorkerPerSession DisposedClean Routed NoOrphan
CHECK_DEADLOCK FALSE
