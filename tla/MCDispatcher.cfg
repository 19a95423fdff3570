CONSTANTS
  SlidingWindow = 2
  MaxWindow = 5
  MaxEvents = 6
SPECIFICATION FairSpec
INVARIANTS
  IInv
PROPERTIES
  EventuallyDispatched
  Coalesces
\* The dispatcher exits on the stop signal.
CHECK_DEADLOCK FALSE
