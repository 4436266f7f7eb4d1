SPECIFICATION FairSpec
CONSTANTS
  Task = {1, 2}
  Once = {1}
  Projects = {{1}, {2}}
  maxGlobalConcurrency = 1
  maxProjectConcurrency = 1
  Run = {r1, r2, r3}
  Sync = {y1}
  Manual = {m1}
  Due = 1
  Horizon = 2
  Requests = 0
  Events = 2
  None = None
INVARIANTS SlotsExact Armed OnceOnly
PROPERTY ManualAnswered
CHECK_DEADLOCK FALSE
