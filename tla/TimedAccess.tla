------------------------------ MODULE TimedAccess ------------------------------
(***************************************************************************)
(* What a time stamp measures.  A worker runs one instruction sequence     *)
(* (AccessPrograms); the CPU executes it out of order and its stores and   *)
(* flushes reach memory later, in the order that the x86 manuals allow.    *)
(* The CPU is not part of the repository: Execute and Drain say what       *)
(* common.c and tasks.c have to cope with.                                 *)
(*                                                                         *)
(* done has the instructions that the core has finished with: a load has   *)
(* its value, a store or flush has retired to the buffers, a fence has     *)
(* been passed, a clock has been read.  drained has the stores and flushes *)
(* that have left the buffers; a flush that has left them has brought its  *)
(* line to the persistent memory.                                          *)
(***************************************************************************)
EXTENDS Naturals, Sequences

CONSTANT Programs \* the instruction sequences

StoreOps == {"store", "ntstore"}
FlushOps == {"clwb", "clflush", "clflushopt"}
Buffered == StoreOps \cup FlushOps
AccessOps == Buffered \cup {"load"}
ClockOps == {"rdtsc", "rdtscp"}

Instruction ==
  [op : AccessOps \cup ClockOps \cup {"mfence", "lfence", "sfence"},
   mem : {"region", "results", "index", "none"}, line : Nat]

ASSUME ProgramsAssumption == Programs \subseteq Seq(Instruction)

VARIABLES
  prog,    \* the sequence that is run
  done,    \* the positions the core has finished with
  drained  \* the stores and flushes that have left the buffers

vars == <<prog, done, drained>>

Positions == 1 .. Len(prog)
Op(i) == prog[i].op
Ops(S) == {i \in Positions : Op(i) \in S}
SameLine(i, j) == prog[i].mem = prog[j].mem /\ prog[i].line = prog[j].line

-----------------------------------------------------------------------------
(* The CPU. *)

\* Nothing passes an lfence, no load an mfence; loads are in order; the
\* rest, rdtsc excepted, waits for all that is before it, an
\* mfence for the buffers, too.
CanExecute(i) ==
  /\ \A j \in Ops({"lfence"}) : j < i => j \in done
  /\ Op(i) = "load" => \A j \in Ops({"load", "mfence"}) : j < i => j \in done
  /\ Op(i) \notin {"load", "rdtsc"} => \A j \in Positions : j < i => j \in done
  /\ Op(i) = "mfence" => \A j \in Ops(Buffered) : j < i => j \in drained

Execute(i) ==
  /\ i \notin done
  /\ CanExecute(i)
  /\ done' = done \cup {i}
  /\ UNCHANGED <<prog, drained>>

\* Stores are in order, a clflush is in order with every write, and all keep
\* their order on a line and across an sfence.
KeepsOrder(j, i) ==
  \/ SameLine(j, i)
  \/ Op(j) = "store" /\ Op(i) = "store"
  \/ "clflush" \in {Op(j), Op(i)} /\ {Op(j), Op(i)} \subseteq StoreOps \cup {"clflush"}
  \/ \E f \in Ops({"sfence"}) : j < f /\ f < i

Drain(i) ==
  /\ i \in done \ drained
  /\ Op(i) \in Buffered
  /\ \A j \in Ops(Buffered) : j < i /\ KeepsOrder(j, i) => j \in drained
  /\ drained' = drained \cup {i}
  /\ UNCHANGED <<prog, done>>

Init ==
  /\ prog \in Programs
  /\ done = {}
  /\ drained = {}

Next == \E i \in Positions : Execute(i) \/ Drain(i)

Spec == Init /\ [][Next]_vars

-----------------------------------------------------------------------------
(* Properties. *)

\* The instructions are executed once, and only stores and flushes drain,
\* after their execution (tasks.c, common.c).
TypeOK ==
  /\ prog \in Programs
  /\ done \subseteq Positions
  /\ drained \subseteq done \cap Ops(Buffered)

Complete(i) == i \in done /\ (Op(i) \in Buffered => i \in drained)

\* When the clock is read, every access before it is complete: no store of a
\* timed section, and no store of an earlier result, is still on its way
\* (the fences of REC_TIME, TIMING_BEG, store_help and the passes of
\* read_after_write_job).  The links of init_chasing_index may be: nothing
\* fences them from the stamp that follows.
SectionsClosed ==
  \A s \in done \cap Ops(ClockOps) : \A i \in Ops(AccessOps) :
    i < s /\ prog[i].mem # "index" => Complete(i)

\* No access begins before the clock that stands before it has been read
\* (the lfence after each rdtscp).  TIMING_BEG has none after its rdtsc: a
\* load may pass it, a store retires behind it.
SectionsOpened ==
  \A i \in done \cap Ops(AccessOps) : \A s \in Ops(ClockOps) :
    s < i /\ ~(Op(s) = "rdtsc" /\ Op(i) = "load") => s \in done

Persistent(i) ==
  \/ Op(i) = "ntstore" /\ i \in drained
  \/ \E f \in drained \cap Ops(FlushOps) : i < f /\ SameLine(i, f)

\* A test that flushes has its data in the persistent memory when it reads
\* the clock: the flush is that of the stored line, after the store, and
\* complete (the clwb of common.c, of the strided and of the chasing passes).
StampedDataPersists ==
  Ops(FlushOps) # {} =>
    \A s \in done \cap Ops(ClockOps) : \A i \in Ops(StoreOps) :
      i < s /\ prog[i].mem = "region" => Persistent(i)

\* A load never overtakes an earlier flush of its line: what load_help,
\* store_8_clwb_read and the chasing pass measure is memory, not the cache.
LoadsFromMemory ==
  \A i \in done \cap Ops({"load"}) : \A f \in Ops(FlushOps) :
    f < i /\ SameLine(f, i) => f \in drained

\* After an sfence nothing reaches memory before all that was stored before
\* it is persistent: cachefence flushes each chunk, wholly, before its fence.
FencedIsPersistent ==
  \A f \in Ops({"sfence"}) : \A i \in drained, j \in Ops(StoreOps) :
    j < f /\ f < i => Persistent(j)

-----------------------------------------------------------------------------
(* What a sequence has to look like for that: where it needs its fences    *)
(* and flushes.  The theorems of TimedAccessProofs have these as           *)
(* hypotheses, FencedThroughout is that the code's sequences meet them.    *)

Between(p, i, s, op) == \E m \in 1 .. Len(p) : i < m /\ m < s /\ p[m].op = op

Closing(p, i, s) ==
  \/ p[i].op = "load" /\ p[s].op = "rdtscp"
  \/ \E m \in 1 .. Len(p) :
       /\ i < m /\ m < s /\ p[m].op = "mfence"
       /\ p[s].op = "rdtscp" \/ Between(p, m, s, "lfence")

ClosesSections(p) ==
  \A i, s \in 1 .. Len(p) :
    i < s /\ p[i].op \in AccessOps /\ p[i].mem # "index" /\ p[s].op \in ClockOps
      => Closing(p, i, s)

OpensSections(p) ==
  \A s, i \in 1 .. Len(p) :
    s < i /\ p[s].op \in ClockOps /\ p[i].op = "load" /\ p[s].op # "rdtsc"
      => Between(p, s, i, "lfence")

FlushedBefore(p, j, s) ==
  \E f \in 1 .. Len(p) :
    /\ j < f /\ f < s /\ p[f].op \in FlushOps
    /\ p[f].mem = p[j].mem /\ p[f].line = p[j].line

FlushesSections(p) ==
  (\E f \in 1 .. Len(p) : p[f].op \in FlushOps) =>
    \A j, s \in 1 .. Len(p) :
      j < s /\ p[j].op = "store" /\ p[j].mem = "region" /\ p[s].op \in ClockOps
        => FlushedBefore(p, j, s)

FencesLoads(p) ==
  \A f, i \in 1 .. Len(p) :
    f < i /\ p[f].op \in FlushOps /\ p[i].op = "load"
      /\ p[f].mem = p[i].mem /\ p[f].line = p[i].line
        => Between(p, f, i, "mfence")

FlushesFences(p) ==
  \A j, f \in 1 .. Len(p) :
    j < f /\ p[j].op = "store" /\ p[f].op = "sfence" => FlushedBefore(p, j, f)

WellFenced(p) ==
  /\ ClosesSections(p)
  /\ OpensSections(p)
  /\ FlushesSections(p)
  /\ FencesLoads(p)
  /\ FlushesFences(p)

\* Every fence and flush of a sequence is where the properties above need it,
\* whatever the CPU does: between each access and the stamp behind it, between
\* each stamp and a load behind it, between each store and the stamp or
\* sfence that is to find it persistent (REC_TIME, store_help, load_help and
\* the flushes of common.c, cachefence of memaccess.c).
FencedThroughout == WellFenced(prog)
=============================================================================
