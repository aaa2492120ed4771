SPECIFICATION FairSpec
CONSTANTS
  b = b
  Tasks = {b}
  BackupTasks = {b}
  RecoveryTasks = {}
  Stoppable = {b}
  NumClients = 2
  InProcess = FALSE
INVARIANTS
  DeliverySafety
PROPERTIES
  ReportsAreKept
  LifecycleSpec
  EveryTaskEnds
CHECK_DEADLOCK FALSE
