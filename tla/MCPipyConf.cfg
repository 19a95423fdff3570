CONSTANTS
  none = none
  Paths <- MCPaths
  Methods = {"GET"}
  TrustDomain = 2
  AddrWithPort = {"v6"}
  Objects <- MCObjects
  EcnetConfigs <- MCEcnetConfigs
SPECIFICATION Spec
INVARIANTS
  RetryWhenIncomplete
  PolicyRespected
  
  
  
CHECK_DEADLOCK FALSE
