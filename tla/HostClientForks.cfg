SPECIFICATION Spec
CONSTANTS
  Requests = {}
  Forks = {f1}
  bind = bind
  hello = hello
  bye = bye
  Timed = {}
  Sessions = {s1, s2}
  MaxSeq = 2
  None = None
SYMMETRY Symmetry
CHECK_DEADLOCK FALSE
INVARIANTS ForwardedOnce DepthExact FailureKills
