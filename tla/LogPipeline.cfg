SPECIFICATION Spec
CONSTANTS
  Sweeps <- ScriptSweeps
  Runtime = 2
  QueueLimit = 2
  Noise = 1
INVARIANTS
  TypeOK
  OneTestAtATime
  CollectsEachTest
  RowPerTest
  UploadsRows
PROPERTIES
  SweepFinishes
\* The sweep is over, and its file is read.
CHECK_DEADLOCK FALSE
