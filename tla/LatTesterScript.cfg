SPECIFICATION FairSpec
CONSTANTS
  w1 = w1
  Writers = {w1}
  Commands <- ScriptLines
  Client = "script"
  MaxThreads = 2
  MaxRun = 2
  MaxBatch = 2
  ProbeRounds = 2
  DefaultRuntime = 1
INVARIANTS
  OwnParams
  ExclusiveMeasurement
  StopsOnlyLiveWorkers
  ThroughputOfThisRun
PROPERTIES
  CommandReturns
  LatencyReports
  ImplementsContract
\* The machine rests once the last command has been written.
CHECK_DEADLOCK FALSE
