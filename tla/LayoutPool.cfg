SPECIFICATION Spec
CONSTANTS
  TaskCount = 3
  OpsCount = 12
  ResultCnt <- Results
  NameWords = 2
  DataPerOp = 5
  PageWords = 4
  ChaseWords = 3
  Device = 96
  MaxRun = 3
CHECK_DEADLOCK FALSE
INVARIANT PlacesFromPool
