SPECIFICATION MCSpec
CONSTANTS
  Agents <- MCAgents
  Seasons <- MCSeasons
  Estates <- MCEstates
  Repos <- MCRepos
  Rollouts <- MCRollouts
  Nodes <- MCNodes
CHECK_DEADLOCK FALSE
INVARIANTS
  
  RemovalSafety
  ComponentSafety
PROPERTIES
  ClusterStepsAreSafe
  
