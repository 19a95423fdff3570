CONSTANTS
  absent = absent
  n1 = n1
  n2 = n2
  b1 = b1
  b2 = b2
  c1 = c1
  g2 = g2
  Namespaces = {n1, n2}
  CrdFiles <- MCCrdFiles
  Bootstraps = {b1, b2}
  Servers = {c1, g2}
  Bridges = {g2}
  NsOf <- MCNsOf
  MaxFaults = 1
  MaxEdits = 1
  Operators = {o1, o2}
  Names = {"ecnet", "other"}
  Commands <- MCCommands
  MaxCommands = 2
  Installed <- MCInstalled
SPECIFICATION FairSpec

  
  
  
PROPERTIES
  UserConfigKept
  EventuallyServes
CHECK_DEADLOCK FALSE
