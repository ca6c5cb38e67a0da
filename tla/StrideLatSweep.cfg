SPECIFICATION Spec
CONSTANTS
  Sweeps <- StrideLatSweeps
  Runtime = 1
  QueueLimit = 2
  Noise = 1
INVARIANTS
  CollectsEachTest
CHECK_DEADLOCK FALSE
