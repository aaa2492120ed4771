SPECIFICATION FairSpec
CONSTANTS
  Backups = {1, 2}
  MaxClients = 2
  Scenarios <- MCScenarios
  NoTask = NoTask
CHECK_DEADLOCK FALSE
INVARIANTS
  BackupSafety
  RetiredIsGone
PROPERTIES
  OnlySettledIsRemoved
  CompletedIsAnnounced
