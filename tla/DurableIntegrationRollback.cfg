SPECIFICATION Spec
CONSTANTS
  Disk = {d1, d2}
  Surface = {}
  Abandons = 1
  Edits = 0
  None = None
INVARIANT RolledBackClean
CHECK_DEADLOCK FALSE
