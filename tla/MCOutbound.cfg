CONSTANTS
  Requests = {r1, r2}
  Inputs <- MCInputs
  certChain = FALSE
  TrafficMatches <- MCTrafficMatches
  ClustersConfigs <- MCClusters
  breaking <- MCBreaking
  EnableEgress = FALSE
  egressEndpoint = "gateway"
  Statuses = {0, 200, 503}
  none = none
SPECIFICATION FairSpec
INVARIANTS
  BreakersOK
  AttemptsSound
  
PROPERTIES
  EveryRequestEnds
  CircuitCloses
CHECK_DEADLOCK FALSE
