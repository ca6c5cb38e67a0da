--------------------------- MODULE PerfEventsProofs ---------------------------
(***************************************************************************)
(* The invariants of PerfEvents, for every number of CPUs, events,         *)
(* operations and runs.  UsesLiveEvents and what rests on it is proved for *)
(* a job on CPU 0, where latencyfs_new_threads binds the worker of a       *)
(* single-thread test.                                                     *)
(***************************************************************************)
EXTENDS PerfEvents, TLAPS

\* The events of a run exist: from the first create to the first release.
Counting ==
  pc \in {"create", "start", "work", "stop", "print"} \/ (pc = "release" /\ cpu = 0)

\* The job is in an operation, or has just reported it.
InOperation == pc \in {"start", "work", "stop", "print"}

Ranges ==
  /\ pc = "init" => run \in 1 .. MaxRun /\ id = 0
  /\ Counting => run \in 1 .. MaxRun /\ cpu = 0
  /\ InOperation => op \in 1 .. NumOps
  /\ pc \in {"work", "stop", "print"} => id = NumEvents

\* lattest_perf_exit frees up to list d, which is the first that is NULL.
FreesUpTo(d) ==
  /\ \A c \in Cpus : cpu <= c /\ c < d => list[c] = "allocated"
  /\ d \in Cpus => list[d] = "null"
  /\ \A c \in Cpus : c < cpu \/ c > d => list[c] # "allocated"

Lists ==
  /\ pc = "parked" => \A c \in Cpus : list[c] # "allocated"
  /\ pc = "init" => \A c \in Cpus : list[c] = "allocated" <=> c < cpu
  /\ Counting \/ pc = "release" => \A c \in Cpus : list[c] = "allocated"
  /\ pc = "exit" => \E d \in cpu .. NumCpus : FreesUpTo(d)

\* Only the list of the job's CPU has events, and only while it counts.
Slots ==
  \A c \in Cpus, e \in Ids :
    slot[c][e] = IF Counting /\ c = Self /\ e < id THEN <<run, e>> ELSE Null

LiveEvents ==
  \A r \in 1 .. MaxRun, e \in Ids :
    /\ Live(<<r, e>>) <=> Counting /\ r = run /\ e < id
    /\ event[<<r, e>>] = "enabled" => pc \in {"work", "stop"}
    /\ Counting /\ r = run /\ e < id /\ pc \in {"work", "stop"} => event[<<r, e>>] = "enabled"

Counted ==
  /\ pc = "work" => \A e \in Ids : counted[<<run, e>>] = {}
  /\ pc = "stop" => \A e \in Ids : counted[<<run, e>>] = {op}
  /\ pc = "print" => \A e \in Ids : counters[e] = {op}

IInv == TypeOK /\ (pc # "oops" => Ranges /\ Lists /\ Slots /\ LiveEvents /\ Counted)

LEMMA Sets ==
  /\ NumCpus \in Nat \ {0} /\ Self \in Cpus /\ Self \in Nat
  /\ NumEvents \in Nat \ {0} /\ NumOps \in Nat \ {0} /\ MaxRun \in Nat
  /\ Cpus \subseteq Nat /\ Ids \subseteq Nat
  /\ \A c \in Nat : c \in Cpus <=> c < NumCpus
  /\ \A e \in Nat : e \in Ids <=> e < NumEvents
  /\ \A r \in 1 .. MaxRun, e \in Ids : <<r, e>> \in Events
  /\ \A v \in Events : \E r \in 1 .. MaxRun, e \in Ids : v = <<r, e>>
  /\ Null \notin Events
BY ConstantsAssumption DEF Cpus, Ids, Events, Null

\* What the list of the job's CPU holds while it counts.
LEMMA OwnEvents ==
  ASSUME TypeOK, Ranges, Slots, Counting
  PROVE  /\ \A r \in 1 .. MaxRun, e \in Ids : <<r, e>> \in Own <=> r = run /\ e < id
         /\ Null \in Own => id < NumEvents
         /\ \A v \in Own : v = Null \/ \E e \in Ids : e < id /\ v = <<run, e>>
<1>1. run \in 1 .. MaxRun /\ id \in 0 .. NumEvents
  BY DEF Ranges, TypeOK
<1>2. \A e \in Ids : slot[Self][e] = IF e < id THEN <<run, e>> ELSE Null
  BY Sets DEF Slots
<1>3. \A r \in 1 .. MaxRun, e \in Ids : <<r, e>> # Null
  BY Sets
<1>4. ASSUME NEW r \in 1 .. MaxRun, NEW e \in Ids
      PROVE  <<r, e>> \in Own <=> r = run /\ e < id
  <2>1. CASE <<r, e>> \in Own
    <3>1. PICK f \in Ids : slot[Self][f] = <<r, e>>
      BY <2>1 DEF Own
    <3>2. f < id /\ <<run, f>> = <<r, e>>
      BY <1>2, <1>3, <3>1
    <3> QED  BY <3>2, <2>1
  <2>2. CASE r = run /\ e < id
    BY <2>2, <1>2 DEF Own
  <2> QED  BY <2>1, <2>2
<1>5. Null \in Own => id < NumEvents
  <2> SUFFICES ASSUME NEW f \in Ids, slot[Self][f] = Null
               PROVE  id < NumEvents
    BY DEF Own
  <2>1. ~(f < id)
    BY <1>1, <1>2, <1>3
  <2> QED  BY <2>1, <1>1, Sets
<1>6. \A v \in Own : v = Null \/ \E e \in Ids : e < id /\ v = <<run, e>>
  BY <1>2 DEF Own
<1> QED  BY <1>4, <1>5, <1>6

LEMMA Starts == Init => IInv
<1> SUFFICES ASSUME Init PROVE IInv
  OBVIOUS
<1>1. TypeOK
  <2>1. slot \in [Cpus -> [Ids -> Events \cup {Null}]]
    BY DEF Init
  <2>2. counted \in [Events -> SUBSET (0 .. NumOps)] /\ counters \in [Ids -> SUBSET (0 .. NumOps)]
    BY DEF Init
  <2>3. list \in [Cpus -> {"null", "allocated", "freed"}]
        /\ event \in [Events -> {"none", "disabled", "enabled", "released"}]
    BY DEF Init
  <2>4. run \in 0 .. MaxRun /\ cpu \in 0 .. NumCpus /\ op \in 0 .. NumOps /\ id \in 0 .. NumEvents
        /\ pc = "parked"
    <3>1. 0 \in 0 .. MaxRun /\ 0 \in 0 .. NumCpus /\ 0 \in 0 .. NumOps /\ 0 \in 0 .. NumEvents
      BY ConstantsAssumption
    <3>2. run = 0 /\ cpu = 0 /\ op = 0 /\ id = 0 /\ pc = "parked"
      BY DEF Init
    <3> QED  BY <3>1, <3>2
  <2> QED  BY <2>1, <2>2, <2>3, <2>4 DEF TypeOK
<1>2. ~Counting /\ ~InOperation
  BY DEF Init, Counting, InOperation
<1>3. Ranges /\ Lists /\ Slots /\ Counted
  BY <1>2 DEF Init, Ranges, Lists, Slots, Counted
<1>4. LiveEvents
  BY <1>2, Sets DEF Init, LiveEvents, Live
<1> QED  BY <1>1, <1>3, <1>4 DEF IInv
-----------------------------------------------------------------------------
(* One lemma for each action. *)

LEMMA StartJobKeeps == IInv /\ StartJob => IInv'
<1> SUFFICES ASSUME IInv, StartJob PROVE IInv'
  OBVIOUS
<1>1. TypeOK /\ Lists /\ Slots /\ LiveEvents /\ pc = "parked" /\ pc' = "init"
  BY DEF IInv, StartJob
<1>2. ~Counting /\ ~Counting' /\ ~InOperation'
  BY <1>1 DEF Counting, InOperation
<1>3. TypeOK'
  BY <1>1, Sets DEF TypeOK, StartJob
<1>4. Ranges' /\ Counted'
  BY <1>1, <1>2, Sets DEF Ranges, Counted, StartJob, TypeOK
<1>5. Lists'
  BY <1>1, <1>2, Sets DEF Lists, StartJob
<1>6. Slots'
  BY <1>1, <1>2 DEF Slots, StartJob
<1>7. LiveEvents'
  BY <1>1, <1>2 DEF LiveEvents, Live, StartJob
<1> QED  BY <1>3, <1>4, <1>5, <1>6, <1>7 DEF IInv

LEMMA InitCpuKeeps == IInv /\ InitCpu => IInv'
<1> SUFFICES ASSUME IInv, InitCpu PROVE IInv'
  OBVIOUS
<1>1. TypeOK /\ Ranges /\ Lists /\ Slots /\ LiveEvents /\ pc = "init"
  BY DEF IInv, InitCpu
<1>2. ~Counting
  BY <1>1 DEF Counting
<1>3. CASE cpu < NumCpus
  <2>1. cpu \in Cpus /\ pc' = "init"
    BY <1>1, <1>3, Sets DEF TypeOK, InitCpu
  <2>2. ~Counting' /\ ~InOperation'
    BY <2>1 DEF Counting, InOperation
  <2>3. /\ cpu' = cpu + 1 /\ list' = [list EXCEPT ![cpu] = "allocated"]
        /\ slot' = [slot EXCEPT ![cpu] = [e \in Ids |-> Null]]
        /\ UNCHANGED <<run, op, id, event, counted, counters>>
    BY <1>3, <1>1, Sets DEF InitCpu, TypeOK
  <2>4. slot' \in [Cpus -> [Ids -> Events \cup {Null}]] /\ cpu' \in 0 .. NumCpus
    BY <1>1, <1>3, <2>1, <2>3, Sets DEF TypeOK
  <2>5. TypeOK'
    BY <1>1, <2>1, <2>3, <2>4 DEF TypeOK
  <2>6. Ranges' /\ Counted'
    BY <1>1, <2>1, <2>2, <2>3 DEF Ranges, Counted
  <2>7. Lists'
    BY <1>1, <2>1, <2>2, <2>3, Sets DEF Lists, TypeOK
  <2>8. Slots'
    BY <1>1, <1>2, <2>1, <2>2, <2>3 DEF Slots, TypeOK
  <2>9. LiveEvents'
    BY <1>1, <1>2, <2>2, <2>3 DEF LiveEvents, Live
  <2> QED  BY <2>5, <2>6, <2>7, <2>8, <2>9 DEF IInv
<1>4. CASE cpu = NumCpus
  <2>1. pc' = "create" /\ cpu' = 0 /\ UNCHANGED <<list, slot, run, op, id, event, counted, counters>>
    BY <1>4, Sets DEF InitCpu
  <2>2. Counting' /\ ~InOperation' /\ run \in 1 .. MaxRun /\ id = 0
    BY <1>1, <2>1 DEF Counting, InOperation, Ranges
  <2>3. TypeOK'
    <3>1. 0 \in 0 .. NumCpus
      BY Sets
    <3> QED  BY <1>1, <2>1, <3>1 DEF TypeOK
  <2>4. Ranges' /\ Counted'
    BY <2>1, <2>2 DEF Ranges, Counted
  <2>5. Lists'
    BY <1>1, <1>4, <2>1, <2>2, Sets DEF Lists
  <2>6. Slots'
    BY <1>1, <1>2, <2>1, <2>2, Sets DEF Slots
  <2>7. LiveEvents'
    <3>1. \A e \in Ids : ~(e < id)
      BY <2>2, Sets
    <3>2. \A r \in 1 .. MaxRun, e \in Ids : ~Live(<<r, e>>) /\ event[<<r, e>>] # "enabled"
      BY <1>1, <1>2 DEF LiveEvents, Live
    <3> QED  BY <2>1, <3>1, <3>2 DEF LiveEvents, Live
  <2> QED  BY <2>3, <2>4, <2>5, <2>6, <2>7 DEF IInv
<1> QED  BY <1>1, <1>3, <1>4 DEF InitCpu

LEMMA InitFailsKeeps == IInv /\ InitFails => IInv'
<1> SUFFICES ASSUME IInv, InitFails PROVE IInv'
  OBVIOUS
<1>1. TypeOK /\ Lists /\ Slots /\ LiveEvents /\ pc = "init" /\ cpu \in Cpus /\ cpu \in 0 .. NumCpus
  BY Sets DEF IInv, InitFails, TypeOK
<1>2. ~Counting /\ ~Counting' /\ ~InOperation' /\ pc' = "exit" /\ cpu' = 0
  BY <1>1 DEF Counting, InOperation, InitFails
<1>3. list' = [list EXCEPT ![cpu] = "null"] /\ UNCHANGED <<run, op, id, slot, event, counted, counters>>
     
  BY DEF InitFails
<1>4. TypeOK'
  <2>1. 0 \in 0 .. NumCpus
    BY Sets
  <2> QED  BY <1>1, <1>2, <1>3, <2>1 DEF TypeOK
<1>5. Ranges' /\ Counted'
  BY <1>2 DEF Ranges, Counted
<1>6. Lists'
  <2>1. \A c \in Cpus : list'[c] = IF c = cpu THEN "null" ELSE list[c]
    BY <1>1, <1>3 DEF TypeOK
  <2>2. \A c \in Cpus : list[c] = "allocated" <=> c < cpu
    BY <1>1 DEF Lists
  <2>3. /\ \A c \in Cpus : 0 <= c /\ c < cpu => list'[c] = "allocated"
        /\ cpu \in Cpus => list'[cpu] = "null"
        /\ \A c \in Cpus : c < 0 \/ c > cpu => list'[c] # "allocated"
    BY <1>1, <2>1, <2>2, Sets
  <2>4. \E d \in 0 .. NumCpus :
          /\ \A c \in Cpus : 0 <= c /\ c < d => list'[c] = "allocated"
          /\ d \in Cpus => list'[d] = "null"
          /\ \A c \in Cpus : c < 0 \/ c > d => list'[c] # "allocated"
    BY <1>1, <2>3
  <2> QED  BY <1>2, <2>4 DEF Lists, FreesUpTo
<1>7. Slots'
  BY <1>1, <1>2, <1>3 DEF Slots
<1>8. LiveEvents'
  BY <1>1, <1>2, <1>3 DEF LiveEvents, Live
<1> QED  BY <1>4, <1>5, <1>6, <1>7, <1>8 DEF IInv

LEMMA CreateEventKeeps == IInv /\ CreateEvent => IInv'
<1> SUFFICES ASSUME IInv, CreateEvent PROVE IInv'
  OBVIOUS
<1>1. TypeOK /\ Ranges /\ Lists /\ Slots /\ LiveEvents /\ pc = "create"
  BY DEF IInv, CreateEvent
<1>2. Counting /\ run \in 1 .. MaxRun /\ cpu = 0 /\ id \in 0 .. NumEvents
  BY <1>1 DEF Counting, Ranges, TypeOK
<1>3. pc' \in {"create", "start"} /\ UNCHANGED <<run, cpu, list, counted, counters>>
  BY <1>1 DEF CreateEvent
<1>4. Counting' /\ pc' \notin {"init", "parked", "exit", "work", "stop", "print", "release"}
  BY <1>3 DEF Counting
<1>5. Lists' /\ Counted'
  BY <1>1, <1>2, <1>3, <1>4 DEF Lists, Counted
<1>6. CASE id < NumEvents
  <2>1. id \in Ids /\ id' = id + 1 /\ pc' = "create" /\ op' = op
    BY <1>1, <1>2, <1>6, Sets DEF CreateEvent
  <2>2. /\ event' = [event EXCEPT ![<<run, id>>] = "disabled"]
        /\ slot' = [slot EXCEPT ![Self][id] = <<run, id>>]
    BY <1>2, <1>6, Sets DEF CreateEvent
  <2>3. <<run, id>> \in Events /\ Self \in Cpus
    BY <1>2, <2>1, Sets
  <2>4. /\ \A v \in Events : event'[v] = IF v = <<run, id>> THEN "disabled" ELSE event[v]
        /\ event' \in [Events -> {"none", "disabled", "enabled", "released"}]
    BY <1>1, <2>2, <2>3 DEF TypeOK
  <2>5. \A c \in Cpus, e \in Ids :
          slot'[c][e] = IF c = Self /\ e = id THEN <<run, id>> ELSE slot[c][e]
    BY <1>1, <2>1, <2>2, <2>3 DEF TypeOK
  <2>6. slot' \in [Cpus -> [Ids -> Events \cup {Null}]]
    <3>1. [slot[Self] EXCEPT ![id] = <<run, id>>] \in [Ids -> Events \cup {Null}]
      BY <1>1, <2>1, <2>3 DEF TypeOK
    <3> QED  BY <1>1, <2>2, <2>3, <3>1 DEF TypeOK
  <2>7. TypeOK'
    <3>1. id' \in 0 .. NumEvents
      BY <1>2, <1>6, <2>1, Sets
    <3> QED  BY <1>1, <1>3, <2>1, <2>4, <2>6, <3>1 DEF TypeOK
  <2>8. Ranges'
    BY <1>2, <1>3, <2>1 DEF Ranges, InOperation
  <2>9. \A e \in Ids : e < id' <=> e < id \/ e = id
    BY <1>2, <2>1, Sets
  <2>10. Slots'
    BY <1>1, <1>2, <1>3, <1>4, <2>5, <2>9 DEF Slots
  <2>11. LiveEvents'
    <3> SUFFICES ASSUME NEW r \in 1 .. MaxRun, NEW e \in Ids
                 PROVE  /\ event'[<<r, e>>] \in {"disabled", "enabled"} <=> r = run /\ e < id'
                        /\ event'[<<r, e>>] # "enabled"
      BY <1>3, <1>4 DEF LiveEvents, Live
    <3>1. <<r, e>> \in Events /\ (<<r, e>> = <<run, id>> <=> r = run /\ e = id)
      BY Sets
    <3>2. /\ event[<<r, e>>] \in {"disabled", "enabled"} <=> r = run /\ e < id
          /\ event[<<r, e>>] # "enabled"
      BY <1>1, <1>2 DEF LiveEvents, Live
    <3> QED  BY <2>4, <2>9, <3>1, <3>2
  <2> QED  BY <1>5, <2>7, <2>8, <2>10, <2>11 DEF IInv
<1>7. CASE id = NumEvents
  <2>1. pc' = "start" /\ op' = 1 /\ UNCHANGED <<id, slot, event>>
    BY <1>2, <1>7, Sets DEF CreateEvent
  <2>2. 1 \in 0 .. NumOps /\ 1 \in 1 .. NumOps
    BY Sets
  <2>3. TypeOK'
    BY <1>1, <1>3, <2>1, <2>2 DEF TypeOK
  <2>4. Ranges'
    BY <1>2, <1>3, <2>1, <2>2 DEF Ranges
  <2>5. Slots'
    BY <1>1, <1>2, <1>3, <1>4, <2>1 DEF Slots
  <2>6. LiveEvents'
    BY <1>1, <1>2, <1>3, <1>4, <2>1 DEF LiveEvents, Live
  <2> QED  BY <1>5, <2>3, <2>4, <2>5, <2>6 DEF IInv
<1> QED  BY <1>6, <1>7 DEF CreateEvent

LEMMA CreateFailsKeeps == IInv /\ CreateFails => IInv'
<1> SUFFICES ASSUME IInv, CreateFails PROVE IInv'
  OBVIOUS
<1>1. TypeOK /\ Ranges /\ Lists /\ Slots /\ LiveEvents /\ pc = "create"
  BY DEF IInv, CreateFails
<1>2. Counting /\ run \in 1 .. MaxRun /\ cpu = 0
  BY <1>1 DEF Counting, Ranges
<1>3. pc' = "start" /\ op' = 1
      /\ UNCHANGED <<run, cpu, id, list, slot, event, counted, counters>>
  BY DEF CreateFails
<1>4. Counting'
  BY <1>3 DEF Counting
<1>5. 1 \in 0 .. NumOps /\ 1 \in 1 .. NumOps
  BY Sets
<1>6. TypeOK'
  BY <1>1, <1>3, <1>5 DEF TypeOK
<1>7. Ranges' /\ Lists' /\ Counted'
  BY <1>1, <1>2, <1>3, <1>4, <1>5 DEF Ranges, Lists, Counted
<1>8. Slots'
  BY <1>1, <1>2, <1>3, <1>4 DEF Slots
<1>9. LiveEvents'
  BY <1>1, <1>2, <1>3, <1>4 DEF LiveEvents, Live
<1> QED  BY <1>6, <1>7, <1>8, <1>9 DEF IInv

LEMMA PerfStartKeeps == IInv /\ PerfStart => IInv'
<1> SUFFICES ASSUME IInv, PerfStart PROVE IInv'
  OBVIOUS
<1>1. TypeOK /\ Ranges /\ Lists /\ Slots /\ LiveEvents /\ pc = "start"
  BY DEF IInv, PerfStart
<1>2. Counting /\ InOperation
  BY <1>1 DEF Counting, InOperation
<1>3. run \in 1 .. MaxRun /\ cpu = 0 /\ op \in 1 .. NumOps /\ id \in 0 .. NumEvents
  BY <1>1, <1>2 DEF Ranges, TypeOK
<1>4. /\ counted' = [v \in Events |-> IF v \in Own THEN {} ELSE counted[v]]
      /\ UNCHANGED <<run, cpu, op, id, list, slot, counters>>
  BY DEF PerfStart, ResetCount
<1>5. counted' \in [Events -> SUBSET (0 .. NumOps)]
  BY <1>1, <1>4 DEF TypeOK
<1>6. CASE Null \in Own
  <2>1. pc' = "oops" /\ event' = event
    BY <1>6 DEF PerfStart
  <2>2. TypeOK'
    BY <1>1, <1>4, <1>5, <2>1 DEF TypeOK
  <2> QED  BY <2>1, <2>2 DEF IInv
<1>7. CASE Null \notin Own
  <2>1. pc' = "work" /\ event' = [v \in Events |-> IF v \in Own THEN "enabled" ELSE event[v]]
    BY <1>7 DEF PerfStart
  <2>2. event' \in [Events -> {"none", "disabled", "enabled", "released"}]
    BY <1>1, <2>1 DEF TypeOK
  <2>3. TypeOK'
    BY <1>1, <1>4, <1>5, <2>1, <2>2 DEF TypeOK
  <2>4. Counting'
    BY <2>1 DEF Counting
  <2>5. \A r \in 1 .. MaxRun, e \in Ids : <<r, e>> \in Own <=> r = run /\ e < id
    BY <1>1, <1>2, OwnEvents
  <2>6. id = NumEvents
    <3>1. \A e \in Ids : e < id
      <4> SUFFICES ASSUME NEW e \in Ids, ~(e < id) PROVE FALSE
        OBVIOUS
      <4>1. slot[Self][e] = Null
        BY <1>1, Sets DEF Slots
      <4> QED  BY <4>1, <1>7 DEF Own
    <3>2. NumEvents - 1 \in Ids
      BY Sets
    <3> QED  BY <3>1, <3>2, <1>3, Sets
  <2>7. Ranges' /\ Lists'
    BY <1>1, <1>2, <1>3, <1>4, <2>1, <2>4, <2>6 DEF Ranges, Lists
  <2>8. Slots'
    BY <1>1, <1>2, <1>4, <2>4 DEF Slots
  <2>9. LiveEvents'
    <3> SUFFICES ASSUME NEW r \in 1 .. MaxRun, NEW e \in Ids
                 PROVE  /\ event'[<<r, e>>] \in {"disabled", "enabled"} <=> r = run /\ e < id
                        /\ r = run /\ e < id => event'[<<r, e>>] = "enabled"
      BY <1>4, <2>1, <2>4 DEF LiveEvents, Live
    <3>1. <<r, e>> \in Events
      BY Sets
    <3>2. event[<<r, e>>] \in {"disabled", "enabled"} <=> r = run /\ e < id
      BY <1>1, <1>2 DEF LiveEvents, Live
    <3>3. event'[<<r, e>>] = IF r = run /\ e < id THEN "enabled" ELSE event[<<r, e>>]
      BY <2>1, <2>5, <3>1
    <3> QED  BY <3>2, <3>3
  <2>10. Counted'
    <3>1. \A e \in Ids : <<run, e>> \in Events /\ e < id
      BY <1>3, <2>6, Sets
    <3>2. \A e \in Ids : counted'[<<run, e>>] = {}
      BY <1>3, <1>4, <2>5, <3>1
    <3> QED  BY <1>4, <2>1, <3>2 DEF Counted
  <2> QED  BY <2>3, <2>7, <2>8, <2>9, <2>10 DEF IInv
<1> QED  BY <1>6, <1>7

LEMMA OperationKeeps == IInv /\ Operation => IInv'
<1> SUFFICES ASSUME IInv, Operation PROVE IInv'
  OBVIOUS
<1>1. TypeOK /\ Ranges /\ Lists /\ Slots /\ LiveEvents /\ Counted /\ pc = "work" /\ pc' = "stop"
  BY DEF IInv, Operation
<1>2. Counting /\ InOperation /\ Counting' /\ InOperation'
  BY <1>1 DEF Counting, InOperation
<1>3. run \in 1 .. MaxRun /\ cpu = 0 /\ op \in 1 .. NumOps /\ id = NumEvents
  BY <1>1, <1>2 DEF Ranges
<1>4. /\ counted' = [v \in Events |-> IF event[v] = "enabled" THEN counted[v] \cup {op} ELSE counted[v]]
      /\ UNCHANGED <<run, cpu, op, id, list, slot, event, counters>>
  BY DEF Operation, Counts
<1>5. TypeOK'
  <2>1. op \in 0 .. NumOps
    BY <1>1 DEF TypeOK
  <2>2. counted' \in [Events -> SUBSET (0 .. NumOps)]
    BY <1>1, <1>4, <2>1 DEF TypeOK
  <2> QED  BY <1>1, <1>4, <2>2 DEF TypeOK
<1>6. Ranges' /\ Lists'
  BY <1>1, <1>2, <1>3, <1>4 DEF Ranges, Lists
<1>7. Slots'
  BY <1>1, <1>2, <1>4 DEF Slots
<1>8. LiveEvents'
  BY <1>1, <1>2, <1>4 DEF LiveEvents, Live
<1>9. Counted'
  <2>1. \A e \in Ids : <<run, e>> \in Events /\ event[<<run, e>>] = "enabled"
    BY <1>1, <1>2, <1>3, Sets DEF LiveEvents
  <2>2. \A e \in Ids : counted'[<<run, e>>] = {op}
    BY <1>1, <1>4, <2>1 DEF Counted
  <2> QED  BY <1>1, <1>4, <2>2 DEF Counted
<1> QED  BY <1>5, <1>6, <1>7, <1>8, <1>9 DEF IInv

LEMMA PerfStopKeeps == IInv /\ PerfStop => IInv'
<1> SUFFICES ASSUME IInv, PerfStop PROVE IInv'
  OBVIOUS
<1>1. TypeOK /\ Ranges /\ Lists /\ Slots /\ LiveEvents /\ Counted /\ pc = "stop" /\ pc' = "print"
  BY DEF IInv, PerfStop
<1>2. Counting /\ InOperation /\ Counting' /\ InOperation'
  BY <1>1 DEF Counting, InOperation
<1>3. run \in 1 .. MaxRun /\ cpu = 0 /\ op \in 1 .. NumOps /\ id = NumEvents
  BY <1>1, <1>2 DEF Ranges
<1>4. /\ event' = [v \in Events |-> IF v \in Own THEN "disabled" ELSE event[v]]
      /\ counters' = [e \in Ids |-> counted[slot[Self][e]]]
      /\ UNCHANGED <<run, cpu, op, id, list, slot, counted>>
  BY DEF PerfStop
<1>5. \A e \in Ids : e < id /\ <<run, e>> \in Events /\ slot[Self][e] = <<run, e>>
  BY <1>1, <1>2, <1>3, Sets DEF Slots
<1>6. TypeOK'
  <2>1. counters' \in [Ids -> SUBSET (0 .. NumOps)]
    BY <1>1, <1>4, <1>5 DEF TypeOK
  <2>2. event' \in [Events -> {"none", "disabled", "enabled", "released"}]
    BY <1>1, <1>4 DEF TypeOK
  <2> QED  BY <1>1, <1>4, <2>1, <2>2 DEF TypeOK
<1>7. Ranges' /\ Lists'
  BY <1>1, <1>2, <1>3, <1>4 DEF Ranges, Lists
<1>8. Slots'
  BY <1>1, <1>2, <1>4 DEF Slots
<1>9. LiveEvents'
  <2> SUFFICES ASSUME NEW r \in 1 .. MaxRun, NEW e \in Ids
               PROVE  /\ event'[<<r, e>>] \in {"disabled", "enabled"} <=> r = run /\ e < id
                      /\ event'[<<r, e>>] # "enabled"
    BY <1>1, <1>4, <1>2 DEF LiveEvents, Live
  <2>1. <<r, e>> \in Events /\ (<<r, e>> \in Own <=> r = run /\ e < id)
    BY <1>1, <1>2, OwnEvents, Sets
  <2>2. event[<<r, e>>] \in {"disabled", "enabled"} <=> r = run /\ e < id
    BY <1>1, <1>2 DEF LiveEvents, Live
  <2> QED  BY <1>4, <2>1, <2>2
<1>10. Counted'
  BY <1>1, <1>4, <1>5 DEF Counted
<1> QED  BY <1>6, <1>7, <1>8, <1>9, <1>10 DEF IInv

LEMMA PerfPrintKeeps == IInv /\ PerfPrint => IInv'
<1> SUFFICES ASSUME IInv, PerfPrint PROVE IInv'
  OBVIOUS
<1>1. TypeOK /\ Ranges /\ Lists /\ Slots /\ LiveEvents /\ pc = "print"
  BY DEF IInv, PerfPrint
<1>2. Counting /\ InOperation
  BY <1>1 DEF Counting, InOperation
<1>3. run \in 1 .. MaxRun /\ cpu = 0 /\ op \in 1 .. NumOps /\ id = NumEvents
  BY <1>1, <1>2 DEF Ranges
<1>4. /\ counted' = [v \in Events |-> IF event[v] = "enabled" THEN counted[v] \cup {0} ELSE counted[v]]
      /\ UNCHANGED <<run, cpu, id, list, slot, event, counters>>
  BY DEF PerfPrint, Counts
<1>5. \/ pc' = "start" /\ op' \in 1 .. NumOps
      \/ pc' = "release" /\ op' = op
  <2>1. op < NumOps => op + 1 \in 1 .. NumOps
    BY <1>3, Sets
  <2> QED  BY <2>1 DEF PerfPrint
<1>6. Counting'
  BY <1>3, <1>4, <1>5 DEF Counting
<1>7. TypeOK'
  <2>1. 0 \in 0 .. NumOps /\ op' \in 0 .. NumOps
    BY <1>1, <1>3, <1>5, Sets
  <2>2. counted' \in [Events -> SUBSET (0 .. NumOps)]
    BY <1>1, <1>4, <2>1 DEF TypeOK
  <2> QED  BY <1>1, <1>4, <1>5, <2>1, <2>2 DEF TypeOK
<1>8. Ranges' /\ Lists' /\ Counted'
  BY <1>1, <1>2, <1>3, <1>4, <1>5, <1>6 DEF Ranges, Lists, Counted, InOperation
<1>9. Slots'
  BY <1>1, <1>2, <1>4, <1>6 DEF Slots
<1>10. LiveEvents'
  BY <1>1, <1>2, <1>4, <1>5, <1>6 DEF LiveEvents, Live
<1> QED  BY <1>7, <1>8, <1>9, <1>10 DEF IInv

\* The turn of CPU 0 releases the events and clears the pointers to them;
\* the turns of the others find nothing but NULL.
LEMMA ReleaseCpuKeeps == Self = 0 /\ IInv /\ ReleaseCpu => IInv'
<1> SUFFICES ASSUME Self = 0, IInv, ReleaseCpu PROVE IInv'
  OBVIOUS
<1>1. TypeOK /\ Ranges /\ Lists /\ Slots /\ LiveEvents /\ pc = "release"
  BY DEF IInv, ReleaseCpu
<1>2. UNCHANGED <<run, op, id, list, counted, counters>> /\ cpu \in 0 .. NumCpus
  BY <1>1 DEF ReleaseCpu, TypeOK
<1>3. CASE cpu < NumCpus
  <2>1. /\ event' = [v \in Events |-> IF v \in Own THEN "released" ELSE event[v]]
        /\ slot' = [slot EXCEPT ![cpu] = [e \in Ids |-> Null]]
        /\ cpu' = cpu + 1 /\ pc' = "release"
    BY <1>1, <1>2, <1>3, Sets DEF ReleaseCpu, Released
  <2>2. cpu \in Cpus /\ cpu' \in 1 .. NumCpus /\ Null \in Events \cup {Null}
    BY <1>2, <1>3, <2>1, Sets
  <2>3. ~Counting' /\ ~InOperation'
    BY <2>1, <2>2 DEF Counting, InOperation
  <2>4. \A c \in Cpus, e \in Ids : slot'[c][e] = IF c = cpu THEN Null ELSE slot[c][e]
    BY <1>1, <2>1, <2>2 DEF TypeOK
  <2>5. \A c \in Cpus, e \in Ids : c # cpu => slot[c][e] = Null
    <3>1. CASE cpu = 0
      BY <1>1, <3>1 DEF Slots
    <3>2. CASE cpu # 0
      BY <1>1, <3>2 DEF Slots, Counting
    <3> QED  BY <3>1, <3>2
  <2>6. TypeOK'
    <3>1. slot' \in [Cpus -> [Ids -> Events \cup {Null}]]
      BY <1>1, <2>1, <2>2 DEF TypeOK
    <3>2. event' \in [Events -> {"none", "disabled", "enabled", "released"}]
      BY <1>1, <2>1 DEF TypeOK
    <3>3. cpu' \in 0 .. NumCpus
      BY <2>2, Sets
    <3> QED  BY <1>1, <1>2, <2>1, <3>1, <3>2, <3>3 DEF TypeOK
  <2>7. Ranges' /\ Counted'
    BY <2>1, <2>3 DEF Ranges, Counted
  <2>8. Lists'
    BY <1>1, <1>2, <2>1, <2>3 DEF Lists
  <2>9. Slots'
    BY <2>3, <2>4, <2>5 DEF Slots
  <2>10. \A r \in 1 .. MaxRun, e \in Ids : event'[<<r, e>>] \notin {"disabled", "enabled"}
    <3> SUFFICES ASSUME NEW r \in 1 .. MaxRun, NEW e \in Ids
                 PROVE  event'[<<r, e>>] \notin {"disabled", "enabled"}
      OBVIOUS
    <3>1. <<r, e>> \in Events
      BY Sets
    <3>2. <<r, e>> \in Own \/ event[<<r, e>>] \notin {"disabled", "enabled"}
      <4>1. CASE cpu = 0
        <5>1. Counting
          BY <1>1, <4>1 DEF Counting
        <5>2. <<r, e>> \in Own <=> r = run /\ e < id
          BY <1>1, <5>1, OwnEvents
        <5> QED  BY <1>1, <5>1, <5>2 DEF LiveEvents, Live
      <4>2. CASE cpu # 0
        <5>1. ~Counting
          BY <1>1, <4>2 DEF Counting
        <5> QED  BY <1>1, <5>1 DEF LiveEvents, Live
      <4> QED  BY <4>1, <4>2
    <3> QED  BY <2>1, <3>1, <3>2
  <2>11. LiveEvents'
    BY <2>3, <2>10 DEF LiveEvents, Live
  <2> QED  BY <2>6, <2>7, <2>8, <2>9, <2>11 DEF IInv
<1>4. CASE cpu = NumCpus
  <2>1. pc' = "exit" /\ cpu' = 0 /\ UNCHANGED <<slot, event>>
    BY <1>4, Sets DEF ReleaseCpu
  <2>2. ~Counting /\ ~Counting' /\ ~InOperation'
    BY <1>1, <1>4, <2>1, Sets DEF Counting, InOperation
  <2>3. TypeOK'
    <3>1. 0 \in 0 .. NumCpus
      BY Sets
    <3> QED  BY <1>1, <1>2, <2>1, <3>1 DEF TypeOK
  <2>4. Ranges' /\ Counted'
    BY <2>1, <2>2 DEF Ranges, Counted
  <2>5. Lists'
    <3>1. \A c \in Cpus : list[c] = "allocated" /\ ~(c < 0 \/ c > NumCpus)
      BY <1>1, Sets DEF Lists
    <3>2. NumCpus \in 0 .. NumCpus /\ NumCpus \notin Cpus
      BY Sets
    <3>3. \E d \in cpu' .. NumCpus : FreesUpTo(d)'
      BY <1>2, <2>1, <3>1, <3>2 DEF FreesUpTo
    <3> QED  BY <2>1, <2>2, <3>3 DEF Lists
  <2>6. Slots'
    BY <1>1, <1>2, <2>1, <2>2 DEF Slots
  <2>7. LiveEvents'
    BY <1>1, <1>2, <2>1, <2>2 DEF LiveEvents, Live
  <2> QED  BY <2>3, <2>4, <2>5, <2>6, <2>7 DEF IInv
<1> QED  BY <1>3, <1>4 DEF ReleaseCpu

LEMMA ExitCpuKeeps == IInv /\ ExitCpu => IInv'
<1> SUFFICES ASSUME IInv, ExitCpu PROVE IInv'
  OBVIOUS
<1>1. TypeOK /\ Lists /\ Slots /\ LiveEvents /\ pc = "exit"
  BY DEF IInv, ExitCpu
<1>2. UNCHANGED <<run, op, id, slot, counted, counters>> /\ cpu \in 0 .. NumCpus /\ ~Counting
  BY <1>1 DEF ExitCpu, TypeOK, Counting
<1>3. \A c \in Cpus, e \in Ids : slot[c][e] = Null
  BY <1>1, <1>2 DEF Slots
<1>4. PICK d \in cpu .. NumCpus : FreesUpTo(d)
  BY <1>1 DEF Lists
<1>5. CASE cpu < NumCpus /\ list[cpu] # "null"
  <2>1. /\ Released({slot[cpu][e] : e \in Ids})
        /\ list' = [list EXCEPT ![cpu] = "freed"]
        /\ cpu' = cpu + 1 /\ pc' = "exit"
    BY <1>1, <1>2, <1>5, Sets DEF ExitCpu, Freed
  <2>2. cpu \in Cpus /\ cpu' \in 0 .. NumCpus
    BY <1>2, <1>5, <2>1, Sets
  <2>3. \A v \in Events : v \notin {slot[cpu][e] : e \in Ids}
    BY <1>3, <2>2, Sets
  <2>4. event' = event
    <3>1. event' = [v \in Events |-> event[v]]
      BY <2>1, <2>3 DEF Released
    <3> QED  BY <1>1, <3>1 DEF TypeOK
  <2>5. ~Counting' /\ ~InOperation'
    BY <2>1 DEF Counting, InOperation
  <2>6. TypeOK'
    BY <1>1, <1>2, <2>1, <2>2, <2>4 DEF TypeOK
  <2>7. Ranges' /\ Counted'
    BY <2>1, <2>5 DEF Ranges, Counted
  <2>8. Lists'
    <3>1. \A c \in Cpus : list'[c] = IF c = cpu THEN "freed" ELSE list[c]
      BY <1>1, <2>1 DEF TypeOK
    <3>2. cpu # d /\ d \in cpu' .. NumCpus
      BY <1>2, <1>4, <1>5, <2>1, <2>2, Sets DEF FreesUpTo
    <3>3. FreesUpTo(d)'
      BY <1>2, <1>4, <2>1, <3>1, <3>2, Sets DEF FreesUpTo
    <3> QED  BY <2>1, <2>5, <3>2, <3>3 DEF Lists
  <2>9. Slots'
    BY <1>1, <1>2, <2>5 DEF Slots
  <2>10. LiveEvents'
    BY <1>1, <1>2, <2>4, <2>5 DEF LiveEvents, Live
  <2> QED  BY <2>6, <2>7, <2>8, <2>9, <2>10 DEF IInv
<1>6. CASE cpu < NumCpus /\ list[cpu] = "null"
  <2>1. pc' = "oops" /\ UNCHANGED <<cpu, list, event>>
    BY <1>2, <1>6, Sets DEF ExitCpu
  <2>2. TypeOK'
    BY <1>1, <1>2, <2>1 DEF TypeOK
  <2> QED  BY <2>1, <2>2 DEF IInv
<1>7. CASE cpu = NumCpus
  <2>1. pc' = "parked" /\ UNCHANGED <<cpu, list, event>>
    BY <1>2, <1>7, Sets DEF ExitCpu
  <2>2. ~Counting' /\ ~InOperation'
    BY <2>1 DEF Counting, InOperation
  <2>3. TypeOK'
    BY <1>1, <1>2, <2>1 DEF TypeOK
  <2>4. Ranges' /\ Counted' /\ Slots'
    BY <1>1, <1>2, <2>1, <2>2 DEF Ranges, Counted, Slots
  <2>5. Lists'
    <3>1. \A c \in Cpus : list[c] # "allocated"
      BY <1>4, <1>7, Sets DEF FreesUpTo
    <3> QED  BY <2>1, <2>2, <3>1 DEF Lists
  <2>6. LiveEvents'
    BY <1>1, <1>2, <2>1, <2>2 DEF LiveEvents, Live
  <2> QED  BY <2>3, <2>4, <2>5, <2>6 DEF IInv
<1> QED  BY <1>2, <1>5, <1>6, <1>7, Sets DEF ExitCpu

-----------------------------------------------------------------------------
(* The theorems. *)

LEMMA StutterKeeps == IInv /\ UNCHANGED vars => IInv'
<1> SUFFICES ASSUME IInv, UNCHANGED vars PROVE IInv'
  OBVIOUS
<1>1. UNCHANGED <<pc, run, cpu, op, id, list, slot, event, counted, counters>>
  BY DEF vars
<1>2. TypeOK'
  BY <1>1 DEF IInv, TypeOK
<1>3. pc # "oops" => Ranges' /\ Lists' /\ Slots' /\ LiveEvents' /\ Counted'
  BY <1>1 DEF IInv, Ranges, Lists, FreesUpTo, Slots, LiveEvents, Live, Counted, Counting, InOperation
<1> QED  BY <1>1, <1>2, <1>3 DEF IInv

LEMMA StepKeeps == Self = 0 /\ IInv /\ [Next]_vars => IInv'
<1> SUFFICES ASSUME Self = 0, IInv, [Next]_vars PROVE IInv'
  OBVIOUS
<1>1. CASE StartJob \/ InitFails \/ CreateFails
  BY <1>1, StartJobKeeps, InitFailsKeeps, CreateFailsKeeps
<1>2. CASE InitCpu \/ CreateEvent \/ ReleaseCpu \/ ExitCpu
  BY <1>2, InitCpuKeeps, CreateEventKeeps, ReleaseCpuKeeps, ExitCpuKeeps
<1>3. CASE PerfStart \/ Operation \/ PerfStop \/ PerfPrint
  BY <1>3, PerfStartKeeps, OperationKeeps, PerfStopKeeps, PerfPrintKeeps
<1>4. CASE UNCHANGED vars
  BY <1>4, StutterKeeps
<1> QED  BY <1>1, <1>2, <1>3, <1>4 DEF Next

\* The inductive invariant: which lists are allocated, which pointers set
\* and which events live, for each point of lattest_perf_event_create, of
\* an operation and of lattest_perf_event_release.
THEOREM Invariant == ASSUME Self = 0 PROVE Spec => []IInv
<1>1. Init => IInv
  BY Starts
<1>2. IInv /\ [Next]_vars => IInv'
  BY StepKeeps
<1> QED  BY <1>1, <1>2, PTL DEF Spec

\* The loop counters of perf_util.c stay within the lists, the tables and
\* the operations they index.
THEOREM TypeCorrect == ASSUME Self = 0 PROVE Spec => []TypeOK
<1>1. IInv => TypeOK
  BY DEF IInv
<1> QED  BY <1>1, Invariant, PTL

\* A job on CPU 0 never touches a list or an event after its release,
\* however many CPUs there are: it is the first turn that both releases
\* the events and clears the pointers the later turns look at.
THEOREM LiveEventsUsed == ASSUME Self = 0 PROVE Spec => []UsesLiveEvents
<1>1. IInv => UsesLiveEvents
  <2> SUFFICES ASSUME IInv, pc # "oops" PROVE UsesLiveEvents
    BY DEF UsesLiveEvents
  <2>1. TypeOK /\ Ranges /\ Lists /\ Slots /\ LiveEvents
    BY DEF IInv
  <2>2. pc \in {"create", "start", "work", "stop", "release"} => list[Self] = "allocated"
    BY <2>1, Sets DEF Lists, Counting
  <2>3. ASSUME Counting PROVE \A v \in Own \ {Null} : Live(v)
    <3> SUFFICES ASSUME NEW v \in Own, v # Null PROVE Live(v)
      OBVIOUS
    <3>1. PICK e \in Ids : e < id /\ v = <<run, e>>
      BY <2>1, <2>3, OwnEvents
    <3>2. run \in 1 .. MaxRun
      BY <2>1, <2>3 DEF Ranges
    <3> QED  BY <2>1, <2>3, <3>1, <3>2 DEF LiveEvents
  <2>4. ASSUME ~Counting PROVE \A c \in Cpus, e \in Ids : slot[c][e] = Null
    BY <2>1, <2>4 DEF Slots
  <2>5. pc \in {"start", "work", "stop", "release"} => \A v \in Own \ {Null} : Live(v)
    <3>1. CASE Counting
      BY <2>3, <3>1
    <3>2. CASE ~Counting
      BY <2>4, <3>2, Sets DEF Own
    <3> QED  BY <3>1, <3>2
  <2>6. ASSUME pc = "exit", cpu < NumCpus
        PROVE  /\ list[cpu] # "freed"
               /\ \A e \in Ids : slot[cpu][e] = Null
    <3>1. cpu \in Cpus /\ ~Counting
      BY <2>1, <2>6, Sets DEF TypeOK, Counting
    <3>2. PICK d \in cpu .. NumCpus : FreesUpTo(d)
      BY <2>1, <2>6 DEF Lists
    <3>3. CASE cpu < d
      BY <2>4, <3>1, <3>2, <3>3, Sets DEF FreesUpTo
    <3>4. CASE cpu = d
      BY <2>4, <3>1, <3>2, <3>4, Sets DEF FreesUpTo
    <3>5. cpu < d \/ cpu = d
      BY <3>1, <3>2, Sets
    <3> QED  BY <3>3, <3>4, <3>5
  <2> QED  BY <2>2, <2>5, <2>6 DEF UsesLiveEvents
<1> QED  BY <1>1, Invariant, PTL

\* When the job is parked nothing it has created or allocated is left.
THEOREM LeavesNothing == ASSUME Self = 0 PROVE Spec => []NothingLeaks
<1>1. IInv => NothingLeaks
  <2> SUFFICES ASSUME IInv, pc = "parked" PROVE NothingLeaks
    BY DEF NothingLeaks
  <2>1. Lists /\ LiveEvents /\ ~Counting
    BY DEF IInv, Counting
  <2>2. \A v \in Events : ~Live(v)
    BY <2>1, Sets DEF LiveEvents
  <2> QED  BY <2>1, <2>2 DEF Lists, NothingLeaks
<1> QED  BY <1>1, Invariant, PTL

\* What PERF_PRINT prints was counted between this operation's PERF_START
\* and PERF_STOP and nowhere else, in every run of the job.
THEOREM OwnOperationCounted == ASSUME Self = 0 PROVE Spec => []CountsOwnOperation
<1>1. IInv => CountsOwnOperation
  BY DEF IInv, Counted, CountsOwnOperation
<1> QED  BY <1>1, Invariant, PTL
=============================================================================
