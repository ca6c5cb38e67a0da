SPECIFICATION FairSpec
CONSTANTS
  d1 = d1
  d2 = d2
  m1 = m1
  NoSb = NoSb
  Devices = {d1, d2}
  Mounters = {m1}
  Client = "script"
  MayFail = FALSE
  NewKernel = FALSE
  MaxWrites = 2
  MaxWorkers = 2
INVARIANTS
  CommandOnMounted
PROPERTIES
  Reloads
