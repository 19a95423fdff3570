CONSTANTS
  Msgs <- MCMsgs
  ProxyChans = {"p1"}
  KubeChans = {"k1"}
  MaxAdds = 2
  noMsg = noMsg
  uuidOf <- MCuuidOf
SPECIFICATION FairClientsSpec
INVARIANTS
  NothingLost
PROPERTIES
  EveryMessageArrives
  UnsubReturns
\* Every bounded run ends once all messages are processed.
CHECK_DEADLOCK FALSE
