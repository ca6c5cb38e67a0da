SPECIFICATION Spec
CONSTANTS
  d1 = d1
  d2 = d2
  d3 = d3
  m1 = m1
  NoSb = NoSb
  Devices = {d1, d2, d3}
  Mounters = {m1}
  Client = "admin"
  MayFail = TRUE
  NewKernel = TRUE
  MaxWrites = 2
  MaxWorkers = 2
INVARIANTS
  ReportPointerValid
  PublishedWhole
  WritesInLoadedModule
\* The kernel may have crashed, or the bound on writes is reached.
CHECK_DEADLOCK FALSE
