CONSTANTS
  Hosts = {h1, h2}
  EIPs = {e1}
  CIPs = {c1, c2}
  none = none
  MaxChanges = 4
  MaxFaults = 1
  MaxCrashes = 1
SPECIFICATION FairSpec
INVARIANTS
  MissingIsScheduled
PROPERTIES
  EventuallyAnswered
CHECK_DEADLOCK FALSE
