SPECIFICATION MCSpec
CONSTANTS
  d1 = d1
  d2 = d2
  Tasks = {d1, d2}
  NoTask = NoTask
  Commands <- MCCommands
  Observers = {1}
  MaxRecovers = 2
  Cleanings <- MCCleanings
  Upkeeps <- MCUpkeeps
  Uninstalls <- MCUninstalls
CHECK_DEADLOCK FALSE
INVARIANTS
  RestoreSafety
  CleaningSafety
  
  UninstallSafety
PROPERTIES
  AgentStepsAreSafe
  AgentWorkEnds
