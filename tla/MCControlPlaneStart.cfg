CONSTANTS
  Msgs <- MCOneMsg
  ProxyChans = {"listener", "informer"}
  KubeChans = {}
  MaxAdds = 3
  noMsg = noMsg
  MaxFails = 0
SPECIFICATION FairSpec
PROPERTIES
  ProcessingContinues
CHECK_DEADLOCK FALSE
