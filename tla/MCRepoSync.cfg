CONSTANTS
  Confs = {1, 2}
  Width = 4
  hashOf <- MChashOf
  Items <- MCItems
  MaxChanges = 2
  MaxFaults = 2
  MaxUnhandled = 2
  MaxCrashes = 1
SPECIFICATION FairSpec
INVARIANTS
  ETagMeansPublished
PROPERTIES
  NewContentNewVersion
  Converges
CHECK_DEADLOCK FALSE
