--------------------------- MODULE MCWorkerRegions ---------------------------
(***************************************************************************)
(* Small instances of WorkerRegions: a page of four lines, pools of eight  *)
(* pages.                                                                  *)
(***************************************************************************)
EXTENDS WorkerRegions

Line(job, align, access, stride, block) ==
  [job |-> job, align |-> align, access |-> access, stride |-> stride, block |-> block,
   clwb |-> 1, fence |-> 1]

\* Two neighbours, and one more on the first one's DIMM.
ThreeCores == {0, 1, 6}

\* Strides and sizes whose batches tile the pool, whose rest the cursor test
\* notices, and that overrun it (task 3 with 2 lines every 5, task 12 with 3);
\* sizes below and above a turn, every alignment of task 8.
AllLines ==
  {Line("strided", "PERTHREAD", a, s, 1) : a \in {1, 2}, s \in 1 .. 6}
    \cup {Line("strided", "PERDIMM", 1, 2, 1)}
    \cup {Line("seq", "PERTHREAD", a, 1, 1) : a \in 1 .. 3}
    \cup {[Line("flushfence", "PERTHREAD", a, 1, 1) EXCEPT !.clwb = c, !.fence = f] :
             a \in {1, 2}, c \in 1 .. 2, f \in 1 .. 3}
    \cup {[Line("randfence", "PERTHREAD", 2, 1, 1) EXCEPT !.fence = f] : f \in 2 .. 3}
    \cup {Line("sizebw", al, a, 1, b) : al \in {"GLOBAL", "PERTHREAD", "NI"}, a \in {1, 2}, b \in {2, 4}}
    \cup {Line("thbind", al, 1, 1, b) : al \in Aligns, b \in {2, 8}}
    \cup {Line("imcprobe", "GLOBAL", 2, 1, 1)}

=============================================================================
