------------------------------ MODULE PerfEvents ------------------------------
(***************************************************************************)
(* The performance counters of perf_util.c, in a build with USE_PERF, as   *)
(* strided_latjob uses them: each run of the job allocates a list of       *)
(* events for every possible CPU, creates the events of its own CPU,       *)
(* counts with them in each of its operations, and releases all.           *)
(*                                                                         *)
(* An event is named by the run that created it and its place in           *)
(* perf_counters.  What an event has counted is the set of the operations  *)
(* in which it was enabled since its last reset, 0 standing for everything *)
(* that is not one of them.                                                *)
(*                                                                         *)
(* Bound: the job is run MaxRun times.                                     *)
(***************************************************************************)
EXTENDS Naturals

CONSTANTS
  NumCpus,    \* the possible CPUs, 0 .. NumCpus - 1
  Self,       \* the CPU the job is bound to
  NumEvents,  \* NUM_PERF_EVENTS
  NumOps,     \* BENCH_SIZE_TASK_COUNT
  MaxRun

ASSUME ConstantsAssumption ==
  /\ NumCpus \in Nat \ {0} /\ Self \in 0 .. NumCpus - 1
  /\ NumEvents \in Nat \ {0} /\ NumOps \in Nat \ {0} /\ MaxRun \in Nat

Cpus == 0 .. NumCpus - 1
Ids == 0 .. NumEvents - 1
Events == (1 .. MaxRun) \X Ids
Null == <<0, 0>>

VARIABLES
  pc,        \* where the job is
  run,       \* how often it has been started
  cpu, op,   \* its loop counters
  id,
  list,      \* lattest_perf_event_list of each CPU: what it points to
  slot,      \* the events in the lists
  event,     \* the state of the events
  counted,   \* what they have counted
  counters   \* the values in perf_counters

vars == <<pc, run, cpu, op, id, list, slot, event, counted, counters>>

Init ==
  /\ pc = "parked" /\ run = 0 /\ cpu = 0 /\ op = 0 /\ id = 0
  /\ list = [c \in Cpus |-> "null"]
  /\ slot = [c \in Cpus |-> [e \in Ids |-> Null]]
  /\ event = [v \in Events |-> "none"]
  /\ counted = [v \in Events |-> {}]
  /\ counters = [e \in Ids |-> {}]

Own == {slot[Self][e] : e \in Ids}
Live(v) == event[v] \in {"disabled", "enabled"}

-----------------------------------------------------------------------------
(* lattest_perf_event_create; its caller does not look at what it returns. *)

StartJob ==
  /\ pc = "parked" /\ run < MaxRun
  /\ pc' = "init" /\ run' = run + 1 /\ cpu' = 0 /\ op' = 0 /\ id' = 0
  /\ UNCHANGED <<list, slot, event, counted, counters>>

\* lattest_perf_init: the old pointers are overwritten.
InitCpu ==
  /\ pc = "init"
  /\ \/ /\ cpu < NumCpus
        /\ list' = [list EXCEPT ![cpu] = "allocated"]
        /\ slot' = [slot EXCEPT ![cpu] = [e \in Ids |-> Null]]
        /\ cpu' = cpu + 1 /\ pc' = pc
     \/ cpu = NumCpus /\ pc' = "create" /\ cpu' = 0 /\ UNCHANGED <<list, slot>>
  /\ UNCHANGED <<run, op, id, event, counted, counters>>

\* kcalloc fails: lattest_perf_exit walks over all lists, this one included.
InitFails ==
  /\ pc = "init" /\ cpu < NumCpus
  /\ list' = [list EXCEPT ![cpu] = "null"]
  /\ pc' = "exit" /\ cpu' = 0
  /\ UNCHANGED <<run, op, id, slot, event, counted, counters>>

CreateEvent ==
  /\ pc = "create"
  /\ \/ /\ id < NumEvents
        /\ event' = [event EXCEPT ![<<run, id>>] = "disabled"]
        /\ slot' = [slot EXCEPT ![Self][id] = <<run, id>>]
        /\ id' = id + 1 /\ UNCHANGED <<pc, op>>
     \/ id = NumEvents /\ pc' = "start" /\ op' = 1 /\ UNCHANGED <<id, slot, event>>
  /\ UNCHANGED <<run, cpu, list, counted, counters>>

\* A counter cannot be had: this and all that follow stay NULL.
CreateFails ==
  /\ pc = "create" /\ id < NumEvents
  /\ pc' = "start" /\ op' = 1
  /\ UNCHANGED <<run, cpu, id, list, slot, event, counted, counters>>

-----------------------------------------------------------------------------
(* An operation between PERF_START and PERF_STOP. *)

\* Mutant: the counts of the operation before stay.
ResetKept(v) == counted[v]

ResetCount(v) == {}

\* Events that are NULL are reset, but not enabled, with care.
PerfStart ==
  /\ pc = "start"
  /\ counted' = [v \in Events |-> IF v \in Own THEN ResetCount(v) ELSE counted[v]]
  /\ IF Null \in Own
     THEN pc' = "oops" /\ event' = event
     ELSE pc' = "work" /\ event' = [v \in Events |-> IF v \in Own THEN "enabled" ELSE event[v]]
  /\ UNCHANGED <<run, cpu, op, id, list, slot, counters>>

Counts(what) ==
  counted' = [v \in Events |-> IF event[v] = "enabled" THEN counted[v] \cup {what} ELSE counted[v]]

Operation ==
  /\ pc = "work"
  /\ Counts(op)
  /\ pc' = "stop"
  /\ UNCHANGED <<run, cpu, op, id, list, slot, event, counters>>

\* Disable, then read into perf_counters.
PerfStop ==
  /\ pc = "stop"
  /\ event' = [v \in Events |-> IF v \in Own THEN "disabled" ELSE event[v]]
  /\ counters' = [e \in Ids |-> counted[slot[Self][e]]]
  /\ pc' = "print"
  /\ UNCHANGED <<run, cpu, op, id, list, slot, counted>>

\* The report, with its own accesses, then the next operation or the release.
PerfPrint ==
  /\ pc = "print"
  /\ Counts(0)
  /\ IF op < NumOps THEN pc' = "start" /\ op' = op + 1 ELSE pc' = "release" /\ op' = op
  /\ UNCHANGED <<run, cpu, id, list, slot, event, counters>>

-----------------------------------------------------------------------------
(* lattest_perf_event_release, lattest_perf_exit. *)

Released(events) == event' = [v \in Events |-> IF v \in events THEN "released" ELSE event[v]]

\* Mutant: the pointers are left in the list.
ReleaseCpuKeeping ==
  /\ pc = "release"
  /\ \/ cpu < NumCpus /\ Released(Own) /\ cpu' = cpu + 1 /\ pc' = pc
     \/ cpu = NumCpus /\ pc' = "exit" /\ cpu' = 0 /\ UNCHANGED event
  /\ UNCHANGED <<run, op, id, list, slot, counted, counters>>

\* _lattest_perf_event_release(cpu): the events of this CPU are released,
\* the pointers of cpu are cleared.
ReleaseCpu ==
  /\ pc = "release"
  /\ \/ /\ cpu < NumCpus
        /\ Released(Own)
        /\ slot' = [slot EXCEPT ![cpu] = [e \in Ids |-> Null]]
        /\ cpu' = cpu + 1 /\ pc' = pc
     \/ cpu = NumCpus /\ pc' = "exit" /\ cpu' = 0 /\ UNCHANGED <<slot, event>>
  /\ UNCHANGED <<run, op, id, list, counted, counters>>

\* Mutant: the list is not freed.
FreedKept == "allocated"

Freed == "freed"

\* One turn of lattest_perf_exit: the list of cpu is read and freed, and
\* the pointer stays.
ExitCpu ==
  /\ pc = "exit"
  /\ \/ /\ cpu < NumCpus /\ list[cpu] # "null"
        /\ Released({slot[cpu][e] : e \in Ids})
        /\ list' = [list EXCEPT ![cpu] = Freed]
        /\ cpu' = cpu + 1 /\ pc' = pc
     \/ cpu < NumCpus /\ list[cpu] = "null" /\ pc' = "oops" /\ UNCHANGED <<cpu, list, event>>
     \/ cpu = NumCpus /\ pc' = "parked" /\ UNCHANGED <<cpu, list, event>>
  /\ UNCHANGED <<run, op, id, slot, counted, counters>>

-----------------------------------------------------------------------------
Next ==
  \/ StartJob \/ InitCpu \/ InitFails \/ CreateEvent \/ CreateFails
  \/ PerfStart \/ Operation \/ PerfStop \/ PerfPrint
  \/ ReleaseCpu \/ ExitCpu

Spec == Init /\ [][Next]_vars

-----------------------------------------------------------------------------
(* Properties. *)

\* The loop counters stay within the lists and the tables they index.
TypeOK ==
  /\ pc \in {"parked", "init", "create", "start", "work", "stop", "print", "release",
             "exit", "oops"}
  /\ run \in 0 .. MaxRun /\ cpu \in 0 .. NumCpus /\ op \in 0 .. NumOps /\ id \in 0 .. NumEvents
  /\ list \in [Cpus -> {"null", "allocated", "freed"}]
  /\ slot \in [Cpus -> [Ids -> Events \cup {Null}]]
  /\ event \in [Events -> {"none", "disabled", "enabled", "released"}]
  /\ counted \in [Events -> SUBSET (0 .. NumOps)]
  /\ counters \in [Ids -> SUBSET (0 .. NumOps)]

\* No list is read that has been freed, and no event is enabled, read or
\* released that has been released: although every CPU's turn of the release
\* is given the events of the worker's CPU, and lattest_perf_exit runs after
\* it, and the pointers of the last run are never cleared (perf_util.c:45,
\* :178, :190).
UsesLiveEvents ==
  /\ pc \in {"create", "start", "work", "stop", "release"} => list[Self] = "allocated"
  /\ pc \in {"start", "work", "stop", "release"} => \A v \in Own \ {Null} : Live(v)
  /\ pc = "exit" /\ cpu < NumCpus =>
       /\ list[cpu] # "freed"
       /\ list[cpu] = "allocated" =>
            \A e \in Ids : slot[cpu][e] # Null => Live(slot[cpu][e])

\* When the job waits to be stopped every event it created is released and
\* every list freed (tasks.c:323).
NothingLeaks ==
  pc = "parked" =>
    /\ \A v \in Events : ~Live(v)
    /\ \A c \in Cpus : list[c] # "allocated"

\* What is printed for an operation was counted in it, in full and alone:
\* nothing of the operation before, of the report or of an earlier run
\* (PERF_START, PERF_STOP, tasks.c:308-321).
CountsOwnOperation == pc = "print" => \A e \in Ids : counters[e] = {op}
=============================================================================
