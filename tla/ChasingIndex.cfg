SPECIFICATION FairSpec
CONSTANTS
  CACHELINE_SIZE = 2
  GLOBAL_WORKSET = 24
  LATENCY_OPS_COUNT = 3
  AccessSizes = {1, 2, 3, 4, 5, 6, 8}
  StrideSizes = {0, 2, 4, 6, 8, 10}
  StaleValues = {0, 3, 99}
  MayFail = TRUE
INVARIANTS
  SingleCycle
  ReturnsWhenDone
  LoadsFollowStores
  WithinRegion
PROPERTIES
  Ends
  ImplementsWalk
\* The job ends.
CHECK_DEADLOCK FALSE
