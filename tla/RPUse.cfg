SPECIFICATION Spec
CONSTANTS
  Backups = {1, 2}
  Cleanups = {c1, c2}
  Recoveries = {r1}
  Counts = {0, 1}
  Switches = {}
  Selectable = {1}
  Retainable = {1}
  Cancelable = {}
  NoCleanup = NoCleanup
  Redeliver = FALSE
SYMMETRY Symmetry
INVARIANTS
  QuotaRespected
  PointSafety
  ReplacedPointIsFree
PROPERTIES
  NothingInUseIsDeleted
