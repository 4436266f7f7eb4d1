SPECIFICATION FairSpec
CONSTANTS
  Disk = {d1, d2}
  Surface = {s1, s2}
  Abandons = 2
  Edits = 1
  None = None
INVARIANTS TypeOK RolledBack CompleteIsWhole CheckpointAgrees
PROPERTIES EditsKept EveryOperationSettles
CHECK_DEADLOCK FALSE
