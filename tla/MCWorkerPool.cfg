CONSTANTS
  nWorkers = 2
  Jobs = {j1, j2, j3, j4, j5}
  noJob = noJob
SPECIFICATION FairPoolSpec
INVARIANTS
  PoolInv
PROPERTIES
  EveryJobDone
  StopEnds
CHECK_DEADLOCK FALSE
