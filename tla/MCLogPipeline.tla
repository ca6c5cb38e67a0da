---------------------------- MODULE MCLogPipeline ----------------------------
EXTENDS LogPipeline

Sized(name, task, sizes, timer_stop) ==
  [script |-> name, timer_stop |-> timer_stop,
   tests |-> [k \in DOMAIN sizes |->
                [task |-> task, access |-> sizes[k][1], stride |-> sizes[k][2]]]]

\* Of 20_stridelat.sh the sizes whose text compares as their numbers do; of
\* 30_stridebw.sh also one that it passes over (64, 128) and one that the
\* module refuses (128, 64), and once a duration that is not the tests'; of
\* 90_flushfence.sh a test that is repeated.
BandwidthSizes == <<<<64, 64>>, <<64, 128>>, <<128, 64>>, <<128, 128>>>>
ScriptSweeps ==
  {Sized("stridelat", 2, <<<<64, 64>>, <<128, 128>>, <<128, 192>>>>, Runtime),
   Sized("raw", 6, <<<<64, 64>>, <<128, 128>>, <<192, 192>>>>, Runtime),
   Sized("stridebw", 3, BandwidthSizes, Runtime),
   Sized("stridebw", 3, BandwidthSizes, Runtime + 1),
   Sized("flushfence", 9, <<<<256, 256>>, <<256, 256>>, <<512, 256>>, <<256, 256>>>>, Runtime)}

\* The first tests of 20_stridelat.sh.
StrideLatSweeps == {Sized("stridelat", 2, <<<<64, 64>>, <<64, 128>>, <<64, 192>>>>, Runtime)}
=============================================================================
