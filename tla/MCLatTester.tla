----------------------------- MODULE MCLatTester -----------------------------
(***************************************************************************)
(* Small instances of LatTester for TLC: one line of each kind of task.    *)
(***************************************************************************)
EXTENDS LatTester

Line(job, threads, runtime) ==
  [job |-> job, threads |-> threads, runtime |-> runtime,
   aligned |-> TRUE, valid |-> TRUE]

\* What the scripts of testscript/subtests write, one line of each kind of
\* task, a rejected line included.
ScriptLines ==
  {Line("latency", 1, 1), Line("bandwidth", 2, 2), Line("sizebw", 1, 1),
   Line("imcprobe", 2, 1), Line("cacheprobe", 1, 1),
   [Line("bandwidth", 2, 1) EXCEPT !.valid = FALSE]}

=============================================================================
