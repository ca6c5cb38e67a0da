SPECIFICATION Spec
CONSTANTS
  Cores <- ThreeCores
  Commands <- AllLines
  Page = 4
  PerThread = 32
  Global = 32
  GlobalNI = 16
  DimmSize = 224
  CheckStop = 8
  Turn = 2
INVARIANTS
  WorksetReach
  OwnDimm
  Disjoint
  CountsWhatMoved
\* On an alignment that sizebw_job does not know all workers have returned.
CHECK_DEADLOCK FALSE
