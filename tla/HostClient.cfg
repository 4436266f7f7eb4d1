SPECIFICATION FairSpec
CONSTANTS
  Requests = {r1}
  Forks = {}
  bind = bind
  hello = hello
  bye = bye
  Timed = {r1}
  Sessions = {s1}
  MaxSeq = 0
  None = None
CHECK_DEADLOCK FALSE
INVARIANTS TypeOK PendingExact NothingPending
PROPERTIES ImplementsChannel DisposeSettles TimedRequestSettles
