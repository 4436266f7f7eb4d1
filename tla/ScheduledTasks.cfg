SPECIFICATION Spec
CONSTANTS
  Task = {1, 2}
  Once = {1}
  Projects = {{1, 2}}
  maxGlobalConcurrency = 2
  maxProjectConcurrency = 1
  Run = {r1, r2, r3, r4}
  Sync = {y1, y2}
  Manual = {m1}
  Due = 1
  Horizon = 2
  Requests = 1
  Events = 1
  None = None
SYMMETRY Symmetry
INVARIANTS TypeOK SlotsExact OneRunPerTask Armed
PROPERTY LiveRunKept
CHECK_DEADLOCK FALSE
