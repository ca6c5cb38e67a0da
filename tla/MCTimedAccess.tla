---------------------------- MODULE MCTimedAccess ----------------------------
EXTENDS TimedAccess, AccessPrograms

\* Two calls of each function of latency_tasks, in line and at places of
\* which two are the same; the longer table's functions; the passes of
\* read_after_write_job over two blocks of two lines; cachefence with
\* flushes and fences at several rates.
TimedPrograms ==
  {SequentialLoop(t[1], t[2], 2) : t \in LatencyTasks}
  \cup {RandomLoop(f, places) : f \in AdvancingFuncs, places \in {<<0, 0>>, <<128, 64>>}}
  \cup UNION {StoreWhole(size) : size \in {64, 256}}
  \cup UNION {StorePart(size) : size \in {4, 8, 16, 32}}
  \cup UNION {LoadWhole(size) : size \in {64, 256}}
  \cup {ReadAfterWriteJob(128, skip, 2) : skip \in {128, 192}}
  \cup {CacheFence(256, rates[1], rates[2]) : rates \in {<<64, 64>>, <<64, 128>>, <<128, 256>>}}

\* overwrite_job's function has none.
OverwritePrograms == {OverwriteLoop(2, 64)}
=============================================================================
