CONSTANTS
  Msgs <- MCOneMsg
  ProxyChans = {"listener", "informer"}
  KubeChans = {}
  MaxAdds = 2
  noMsg = noMsg
  MaxFails = 1
SPECIFICATION FairSpec

  
PROPERTIES
  NeverPublishesOlder
  
CHECK_DEADLOCK FALSE
