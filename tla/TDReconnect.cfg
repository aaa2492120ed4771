SPECIFICATION Spec
CONSTANTS
  r = r
  Tasks = {r}
  BackupTasks = {}
  RecoveryTasks = {r}
  Stoppable = {}
  NumClients = 2
  InProcess = TRUE
INVARIANTS
  AckedMeansSettled
  SucceededMeansDone
CHECK_DEADLOCK FALSE
