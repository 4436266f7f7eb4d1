SPECIFICATION Spec
CONSTANTS
  Sessions = {s1}
  Workers = {w1, w2}
  Stored = {s1}
  Creates = {}
  Opens = {o1}
  Closes = {}
  Forks = {}
  Deletes = {}
  Compactions = {k1}
  None = None
  k1 = k1
  o1 = o1
  s1 = s1
  w1 = w1
  w2 = w2
SYMMETRY Symmetry
INVARIANT CancelledStaysCancelled
CHECK_DEADLOCK FALSE
