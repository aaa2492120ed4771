SPECIFICATION Spec
CONSTANTS
  Backups = {1, 2}
  Cleanups = {c1, c2}
  Recoveries = {r1}
  Counts = {0, 1}
  Switches = {}
  Selectable = {}
  Retainable = {}
  Cancelable = {}
  NoCleanup = NoCleanup
  Redeliver = TRUE
SYMMETRY Symmetry
PROPERTIES
  NothingInUseIsDeleted
