SPECIFICATION Spec
CONSTANTS
  Backups = {1, 2}
  Cleanups = {c1}
  Recoveries = {}
  Counts = {0, 1}
  Switches = {1}
  Selectable = {}
  Retainable = {}
  Cancelable = {2}
  NoCleanup = NoCleanup
  Redeliver = TRUE
INVARIANTS
  ReservationSafety
PROPERTIES
  NothingIsTakenBack
