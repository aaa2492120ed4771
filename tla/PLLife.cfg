SPECIFICATION Spec
CONSTANTS
  MaxAttempts = 2
  Shapes <- Histories
CHECK_DEADLOCK FALSE
INVARIANTS
  
  RemovedIsCleaned
PROPERTIES
  PlanWorkEnds
