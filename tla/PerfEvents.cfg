SPECIFICATION Spec
CONSTANTS
  NumCpus = 3
  Self = 0
  NumEvents = 4
  NumOps = 3
  MaxRun = 3
INVARIANTS
  UsesLiveEvents
  NothingLeaks
  CountsOwnOperation
\* The machine rests after the last run, or has crashed.
CHECK_DEADLOCK FALSE
