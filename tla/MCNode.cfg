CONSTANTS
  none = none
  null = null
  Sockets = {s1, s2}
  Tuples = {t1}
  Cpus = {k1, k2}
  Word = 8
  MaxFaults = 1
  Names = {"imported", "local"}
  Imported = {"imported"}
  Ports = {80, 15001}
  Users = {"root", "app"}
  MaxForgets = 1
SPECIFICATION FairSpec
INVARIANTS
  
  
  DataStaysInConnection
  ReplyIsOwnRecord
  ReplyAcceptable
PROPERTIES
  EventuallyProxied
CHECK_DEADLOCK FALSE
