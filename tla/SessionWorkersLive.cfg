SPECIFICATION FairSpec
CONSTANTS
  Sessions = {s1}
  Workers = {w1, w2}
  Stored = {}
  Creates = {n1}
  Opens = {}
  Closes = {c1}
  Forks = {}
  Deletes = {}
  Compactions = {k1}
  None = None
  c1 = c1
  k1 = k1
  n1 = n1
  s1 = s1
  w1 = w1
  w2 = w2
INVARIANT OrphanedTaskRetired
PROPERTY DisposeSettlesCalls
CHECK_DEADLOCK FALSE
