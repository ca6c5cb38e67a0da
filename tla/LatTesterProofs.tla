--------------------------- MODULE LatTesterProofs ---------------------------
(***************************************************************************)
(* Proofs about LatTester for every number of writers, threads, commands   *)
(* and batches: type correctness for every client; for a script, which     *)
(* waits for each result, that workers use their own command's parameters, *)
(* never measure beside another command's, and that the whole implements   *)
(* BenchmarkContract; for any client that writes one line at a time, that  *)
(* only live workers are stopped and that the throughput is the run's own. *)
(***************************************************************************)
EXTENDS LatTester, FiniteSetTheorems, WellFoundedInduction, TLAPS

-----------------------------------------------------------------------------
(***************************************************************************)
(* Type correctness.  The type of a step's result rests on three facts     *)
(* about a command in progress.                                            *)
(***************************************************************************)
AllocatedPc == {"create", "launch", "monitor", "wake", "sample", "stop", "join"}

WriterInv ==
  \A w \in Writers :
    /\ ~PcIs(w, "idle") => writer[w].run \in Runs
    /\ writer[w].pc \in AllocatedPc => sbi.arrays \in Runs
    /\ PcIs(w, "join") => writer[w].i < writer[w].cnt

TypeInv == TypeOK /\ WriterInv

\* The bounds are natural numbers.
LEMMA Bounds ==
  /\ MaxThreads \in Nat \ {0} /\ MaxRun \in Nat
  /\ MaxBatch \in Nat \ {0} /\ ProbeRounds \in Nat \ {0} /\ DefaultRuntime \in Nat
BY ConstantsAssumption

\* The records that steps write as a whole are well typed, and so are the
\* ones that a wake-up or a stop request turns a thread's record into.
LEMMA RecordTypes ==
  /\ IdleWriter \in WriterRecord
  /\ NewThread \in ThreadRecord
  /\ \A th \in ThreadRecord : Woken(th) \in ThreadRecord
  /\ \A th \in ThreadRecord : StopRequested(th) \in ThreadRecord
<1>1. IdleWriter \in WriterRecord
  BY Bounds DEF IdleWriter, WriterRecord, WriterPc
<1>2. NewThread \in ThreadRecord
  BY Bounds DEF NewThread, ThreadRecord, ThreadPc
<1>3. \A th \in ThreadRecord : Woken(th) \in ThreadRecord
  BY DEF Woken, ThreadRecord
<1>4. \A th \in ThreadRecord : StopRequested(th) \in ThreadRecord
  BY DEF StopRequested, Woken, ThreadRecord
<1> QED
  BY <1>1, <1>2, <1>3, <1>4

\* The initial state is well typed.
LEMMA TypeInit == Init => TypeInv
<1> SUFFICES ASSUME Init PROVE TypeInv
  OBVIOUS
<1>1. sbi \in SbiRecord
  BY Bounds DEF Init, SbiRecord
<1>2. workers \in [Runs -> [Cores -> Threads \cup {NoThread}]]
  BY DEF Init
<1>3. timing \in [Runs -> [Cores -> 0 .. MaxBatch]]
  BY Bounds DEF Init
<1>4. command \in [Runs -> Command]
  BY ConstantsAssumption DEF Init
<1>5. writer \in [Writers -> WriterRecord]
  BY RecordTypes DEF Init
<1>6. thread \in [Threads -> ThreadRecord]
  BY RecordTypes DEF Init
<1>7. issued \in 0 .. MaxRun /\ DOMAIN last = Writers
  BY Bounds DEF Init
<1>8. WriterInv
  BY DEF Init, WriterInv, PcIs, AllocatedPc, IdleWriter
<1> QED
  BY <1>1, <1>2, <1>3, <1>4, <1>5, <1>6, <1>7, <1>8 DEF TypeInv, TypeOK

\* What a step may use of the state before it.
LEMMA Typed ==
  ASSUME TypeInv
  PROVE  /\ writer \in [Writers -> WriterRecord]
         /\ sbi \in SbiRecord
         /\ workers \in [Runs -> [Cores -> Threads \cup {NoThread}]]
         /\ timing \in [Runs -> [Cores -> 0 .. MaxBatch]]
         /\ command \in [Runs -> Command]
         /\ thread \in [Threads -> ThreadRecord]
         /\ issued \in 0 .. MaxRun
         /\ WriterInv
BY DEF TypeInv, TypeOK

\* A writer's step keeps its record typed and WriterInv if the new record
\* satisfies it and the arrays pointer stays or is set.
LEMMA WriterUpdate ==
  ASSUME TypeInv, NEW w \in Writers, NEW r \in WriterRecord, Becomes(w, r),
         sbi'.arrays = sbi.arrays \/ sbi'.arrays \in Runs,
         r.pc # "idle" => r.run \in Runs,
         r.pc \in AllocatedPc => sbi'.arrays \in Runs,
         r.pc = "join" => r.i < r.cnt
  PROVE  writer' \in [Writers -> WriterRecord] /\ WriterInv'
<1>1. writer' \in [Writers -> WriterRecord]
  BY Typed DEF Becomes
<1>2. WriterInv'
  <2> SUFFICES ASSUME NEW v \in Writers
               PROVE  /\ writer'[v].pc # "idle" => writer'[v].run \in Runs
                      /\ writer'[v].pc \in AllocatedPc => sbi'.arrays \in Runs
                      /\ writer'[v].pc = "join" => writer'[v].i < writer'[v].cnt
    BY DEF WriterInv, PcIs
  <2>1. CASE v = w
    <3>1. writer'[v] = r
      BY <2>1, Typed DEF Becomes
    <3> QED
      BY <3>1
  <2>2. CASE v # w
    <3>1. writer'[v] = writer[v]
      BY <2>2, Typed DEF Becomes
    <3> QED
      BY <3>1, Typed DEF WriterInv, PcIs
  <2> QED
    BY <2>1, <2>2
<1> QED
  BY <1>1, <1>2

\* A thread's record may be replaced by any well-typed one.
LEMMA ThreadUpdate ==
  ASSUME TypeInv, NEW t, NEW th \in ThreadRecord, ThreadBecomes(t, th)
  PROVE  thread' \in [Threads -> ThreadRecord]
BY Typed DEF ThreadBecomes

\* A new command, and the steps that write the shared parameters.
LEMMA TypeWriteCommand ==
  ASSUME TypeInv, NEW w \in Writers, WriteCommand(w)
  PROVE  TypeInv'
<1> DEFINE r == [IdleWriter EXCEPT !.pc = "defaults", !.run = issued + 1]
<1>1. issued + 1 \in 1 .. MaxRun /\ issued' = issued + 1
  BY Typed, Bounds DEF WriteCommand
<1>2. r \in WriterRecord /\ r.run \in Runs /\ r.pc = "defaults"
  <2>1. issued + 1 \in 0 .. MaxRun /\ issued + 1 \in Runs /\ "defaults" \in WriterPc
    BY <1>1, Bounds DEF WriterPc, Runs
  <2> QED
    BY <2>1, RecordTypes DEF WriterRecord
<1>3. Becomes(w, r) /\ sbi' = sbi
  BY DEF WriteCommand
<1>4. writer' \in [Writers -> WriterRecord] /\ WriterInv'
  <2> HIDE DEF r
  <2> QED
    BY <1>2, <1>3, WriterUpdate DEF AllocatedPc
<1>5. command' \in [Runs -> Command]
  BY Typed, ConstantsAssumption DEF WriteCommand
<1>6. issued' \in 0 .. MaxRun
  BY <1>1, Bounds
<1> QED
  BY <1>4, <1>5, <1>6 DEF TypeInv, TypeOK, WriteCommand

\* The assignments of the defaults keep the types.
LEMMA TypeSetDefaults ==
  ASSUME TypeInv, NEW w \in Writers, SetDefaults(w)
  PROVE  TypeInv'
<1> DEFINE r == [writer[w] EXCEPT !.pc = "options"]
<1>1. r \in WriterRecord /\ r.run \in Runs /\ r.pc = "options"
  BY Typed DEF SetDefaults, WriterInv, PcIs, WriterRecord, WriterPc
<1>2. sbi' \in SbiRecord /\ sbi'.arrays = sbi.arrays
  BY Typed, Bounds DEF SetDefaults, SbiRecord
<1>3. Becomes(w, r)
  BY DEF SetDefaults
<1>4. writer' \in [Writers -> WriterRecord] /\ WriterInv'
  <2> HIDE DEF r
  <2> QED
    BY <1>1, <1>2, <1>3, WriterUpdate DEF AllocatedPc
<1> QED
  BY <1>2, <1>4 DEF TypeInv, TypeOK, SetDefaults

\* So do those of the options.
LEMMA TypeSetOptions ==
  ASSUME TypeInv, NEW w \in Writers, SetOptions(w)
  PROVE  TypeInv'
<1> DEFINE r == [writer[w] EXCEPT !.pc =
                   IF command[writer[w].run].valid THEN "start" ELSE "idle"]
<1>1. r \in WriterRecord /\ r.run \in Runs /\ r.pc \in {"start", "idle"}
  BY Typed DEF SetOptions, WriterInv, PcIs, WriterRecord, WriterPc
<1>2. sbi' \in SbiRecord /\ sbi'.arrays = sbi.arrays
  <2>1. writer[w].run \in 0 .. MaxRun
    BY Typed DEF WriterRecord
  <2> QED
    BY Typed, <2>1 DEF SetOptions, SbiRecord
<1>3. Becomes(w, r)
  BY DEF SetOptions
<1>4. writer' \in [Writers -> WriterRecord] /\ WriterInv'
  <2> HIDE DEF r
  <2> QED
    BY <1>1, <1>2, <1>3, WriterUpdate DEF AllocatedPc
<1> QED
  BY <1>2, <1>4 DEF TypeInv, TypeOK, SetOptions

\* The start of a task, or its refusal, keeps the types.
LEMMA TypeStartTask ==
  ASSUME TypeInv, NEW w \in Writers, StartTask(w)
  PROVE  TypeInv'
<1> DEFINE r == [writer[w] EXCEPT !.pc = "alloc"]
<1>1. r \in WriterRecord /\ r.run \in Runs /\ r.pc = "alloc"
  BY Typed DEF StartTask, WriterInv, PcIs, WriterRecord, WriterPc
<1>2. command[r.run].threads \in 1 .. MaxThreads /\ r.run = writer[w].run
  BY <1>1, Typed DEF Command, WriterRecord
<1>3. sbi' \in SbiRecord /\ sbi'.arrays = sbi.arrays
  <2>1. \E n \in 0 .. MaxThreads : sbi' = [sbi EXCEPT !.worker_cnt = n]
    BY <1>2, Bounds DEF StartTask
  <2> QED
    BY <2>1, Typed DEF SbiRecord
<1>4. Becomes(w, r)
  BY DEF StartTask
<1>5. writer' \in [Writers -> WriterRecord] /\ WriterInv'
  <2> HIDE DEF r
  <2> QED
    BY <1>1, <1>3, <1>4, WriterUpdate DEF AllocatedPc
<1> QED
  BY <1>3, <1>5 DEF TypeInv, TypeOK, StartTask

\* latencyfs_new_threads and the wake-up of a single worker.
LEMMA TypeAllocArrays ==
  ASSUME TypeInv, NEW w \in Writers, AllocArrays(w)
  PROVE  TypeInv'
<1> DEFINE r == [writer[w] EXCEPT !.pc = "create", !.cnt = sbi.worker_cnt, !.i = 0]
<1>1. writer[w] \in WriterRecord /\ writer[w].run \in Runs /\ sbi.worker_cnt \in 0 .. MaxThreads
  BY Typed DEF AllocArrays, WriterInv, PcIs, SbiRecord
<1>2. r \in WriterRecord /\ r.run \in Runs /\ r.pc = "create"
  <2>1. "create" \in WriterPc /\ 0 \in 0 .. MaxThreads
    BY Bounds DEF WriterPc
  <2> QED
    BY <1>1, <2>1 DEF WriterRecord
<1>3. sbi' \in SbiRecord /\ sbi'.arrays \in Runs
  <2>1. writer[w].run \in 0 .. MaxRun
    BY <1>1 DEF WriterRecord
  <2>2. sbi' = [sbi EXCEPT !.arrays = writer[w].run]
    BY DEF AllocArrays
  <2> QED
    BY <1>1, <2>1, <2>2, Typed DEF SbiRecord
<1>4. timing' \in [Runs -> [Cores -> 0 .. MaxBatch]]
  <2>1. PICK g \in {0, MaxBatch} : timing' = [timing EXCEPT ![writer[w].run] = [c \in Cores |-> g]]
    BY DEF AllocArrays
  <2>2. [c \in Cores |-> g] \in [Cores -> 0 .. MaxBatch]
    BY Bounds
  <2> QED
    BY <2>1, <2>2, Typed
<1>5. Becomes(w, r)
  BY DEF AllocArrays
<1>6. writer' \in [Writers -> WriterRecord] /\ WriterInv'
  <2> HIDE DEF r
  <2> QED
    BY <1>2, <1>3, <1>5, WriterUpdate DEF AllocatedPc
<1> QED
  BY <1>3, <1>4, <1>6 DEF TypeInv, TypeOK, AllocArrays

\* A new worker has a context and a counter of the right types.
LEMMA TypeCreateWorker ==
  ASSUME TypeInv, NEW w \in Writers, CreateWorker(w)
  PROVE  TypeInv'
<1> DEFINE i == writer[w].i
           t == <<writer[w].run, i>>
           r == [writer[w] EXCEPT !.i = i + 1]
<1>1. writer[w] \in WriterRecord /\ writer[w].run \in Runs /\ sbi.arrays \in Runs
  BY Typed DEF CreateWorker, WriterInv, PcIs, AllocatedPc
<1>2. i \in Cores /\ i + 1 \in 0 .. MaxThreads
  BY <1>1, Bounds DEF CreateWorker, WriterRecord, Cores
<1>3. t \in Threads
  BY <1>1, <1>2 DEF Threads
<1>4. r \in WriterRecord /\ r.run \in Runs /\ r.pc = "create"
  BY <1>1, <1>2 DEF CreateWorker, PcIs, WriterRecord
<1>5. Becomes(w, r)
  BY DEF CreateWorker
<1>6. writer' \in [Writers -> WriterRecord] /\ WriterInv'
  <2>1. sbi'.arrays = sbi.arrays
    BY DEF CreateWorker
  <2> HIDE DEF r
  <2> QED
    BY <2>1, <1>1, <1>4, <1>5, WriterUpdate DEF AllocatedPc
<1>7. workers' \in [Runs -> [Cores -> Threads \cup {NoThread}]]
  <2> HIDE DEF t, i
  <2>1. workers' = [workers EXCEPT ![sbi.arrays][i] = t]
    BY DEF CreateWorker, t, i
  <2> QED
    BY <2>1, <1>3, Typed
<1>8. timing' \in [Runs -> [Cores -> 0 .. MaxBatch]]
  <2> HIDE DEF i
  <2>1. timing' = [timing EXCEPT ![sbi.arrays][i] = 0]
    BY DEF CreateWorker, InitialCount, i
  <2>2. timing[sbi.arrays] \in [Cores -> 0 .. MaxBatch]
    BY <1>1, Typed
  <2>3. [timing[sbi.arrays] EXCEPT ![i] = 0] \in [Cores -> 0 .. MaxBatch]
    <3>1. 0 \in 0 .. MaxBatch
      BY Bounds
    <3> QED
      BY <2>2, <3>1
  <2>4. timing' = [timing EXCEPT ![sbi.arrays] = [timing[sbi.arrays] EXCEPT ![i] = 0]]
    BY <2>1, <1>1, Typed
  <2> QED
    BY <2>3, <2>4, Typed
<1>9. thread' \in [Threads -> ThreadRecord]
  <2>1. [NewThread EXCEPT !.pc = "created"] \in ThreadRecord
    BY RecordTypes DEF ThreadRecord, ThreadPc
  <2> QED
    BY <2>1, Typed DEF CreateWorker
<1> QED
  BY <1>6, <1>7, <1>8, <1>9, Typed DEF TypeInv, TypeOK, CreateWorker

\* The end of the creating loop keeps the types.
LEMMA TypeWorkersCreated ==
  ASSUME TypeInv, NEW w \in Writers, WorkersCreated(w)
  PROVE  TypeInv'
<1> DEFINE r == [writer[w] EXCEPT !.i = 0, !.pc =
                   IF JobOf(writer[w].run) \in SingleJobs THEN "launch" ELSE "monitor"]
<1>1. writer[w] \in WriterRecord /\ writer[w].run \in Runs /\ sbi.arrays \in Runs
  BY Typed DEF WorkersCreated, WriterInv, PcIs, AllocatedPc
<1>2. r \in WriterRecord /\ r.run \in Runs /\ r.pc \in {"launch", "monitor"}
  <2>1. {"launch", "monitor"} \subseteq WriterPc /\ 0 \in 0 .. MaxThreads
    BY Bounds DEF WriterPc
  <2> QED
    BY <1>1, <2>1 DEF WriterRecord
<1>3. Becomes(w, r) /\ sbi' = sbi
  BY DEF WorkersCreated
<1>4. writer' \in [Writers -> WriterRecord] /\ WriterInv'
  <2> HIDE DEF r
  <2> QED
    BY <1>1, <1>2, <1>3, WriterUpdate DEF AllocatedPc
<1> QED
  BY <1>4 DEF TypeInv, TypeOK, WorkersCreated

\* A single-thread task starts its one worker and keeps the types.
LEMMA TypeLaunchSingle ==
  ASSUME TypeInv, NEW w \in Writers, LaunchSingle(w)
  PROVE  TypeInv'
<1>1. writer' \in [Writers -> WriterRecord] /\ WriterInv'
  <2>1. Becomes(w, IdleWriter) /\ sbi' = sbi
    BY DEF LaunchSingle
  <2>2. IdleWriter.pc = "idle"
    BY DEF IdleWriter
  <2> QED
    BY <2>1, <2>2, RecordTypes, WriterUpdate DEF AllocatedPc
<1>2. thread' \in [Threads -> ThreadRecord]
  BY Typed, RecordTypes DEF LaunchSingle
<1> QED
  BY <1>1, <1>2 DEF TypeInv, TypeOK, LaunchSingle

\* latencyfs_monitor_threads and latencyfs_stop_threads.
LEMMA TypeEnterMonitor ==
  ASSUME TypeInv, NEW w \in Writers, EnterMonitor(w)
  PROVE  TypeInv'
<1> DEFINE n == RuntimeOf(sbi.params)
           r == [writer[w] EXCEPT !.pc = "wake", !.i = 0, !.elapsed = 0, !.runtime = n]
<1>1. writer[w] \in WriterRecord /\ writer[w].run \in Runs /\ sbi.arrays \in Runs
  BY Typed DEF EnterMonitor, WriterInv, PcIs, AllocatedPc
<1>2. n \in Nat
  <2>1. sbi.params \in 0 .. MaxRun
    BY Typed DEF SbiRecord
  <2>2. CASE sbi.params = 0
    BY <2>2, Bounds DEF RuntimeOf
  <2>3. CASE sbi.params # 0
    <3>1. command[sbi.params] \in Command
      BY <2>1, <2>3, Typed, Bounds DEF Runs
    <3> QED
      BY <2>3, <3>1 DEF RuntimeOf, Command
  <2> QED
    BY <2>2, <2>3
<1>3. r \in WriterRecord /\ r.run \in Runs /\ r.pc = "wake"
  <2>1. "wake" \in WriterPc /\ 0 \in 0 .. MaxThreads /\ 0 \in Nat
    BY Bounds DEF WriterPc
  <2> HIDE DEF n
  <2> QED
    BY <1>1, <1>2, <2>1 DEF WriterRecord
<1>4. Becomes(w, r) /\ sbi' = sbi
  BY DEF EnterMonitor
<1>5. writer' \in [Writers -> WriterRecord] /\ WriterInv'
  <2> HIDE DEF r
  <2> QED
    BY <1>1, <1>3, <1>4, WriterUpdate DEF AllocatedPc
<1> QED
  BY <1>5, Typed DEF TypeInv, TypeOK, EnterMonitor

\* A wake-up keeps the types.
LEMMA TypeWakeWorker ==
  ASSUME TypeInv, NEW w \in Writers, WakeWorker(w)
  PROVE  TypeInv'
<1> DEFINE r == [writer[w] EXCEPT !.i = writer[w].i + 1]
<1>1. writer[w] \in WriterRecord /\ writer[w].run \in Runs /\ sbi.arrays \in Runs
  BY Typed DEF WakeWorker, WriterInv, PcIs, AllocatedPc
<1>2. writer[w].i + 1 \in 0 .. MaxThreads
  <2>1. writer[w].i \in 0 .. MaxThreads /\ sbi.worker_cnt \in 0 .. MaxThreads
    BY <1>1, Typed DEF WriterRecord, SbiRecord
  <2> QED
    BY <2>1, Bounds DEF WakeWorker
<1>3. r \in WriterRecord /\ r.run \in Runs /\ r.pc = "wake"
  BY <1>1, <1>2 DEF WakeWorker, PcIs, WriterRecord
<1>4. Becomes(w, r) /\ sbi' = sbi
  BY DEF WakeWorker
<1>5. writer' \in [Writers -> WriterRecord] /\ WriterInv'
  <2> HIDE DEF r
  <2> QED
    BY <1>1, <1>3, <1>4, WriterUpdate DEF AllocatedPc
<1>6. thread' \in [Threads -> ThreadRecord]
  BY Typed, RecordTypes DEF WakeWorker
<1> QED
  BY <1>5, <1>6 DEF TypeInv, TypeOK, WakeWorker

\* The end of the waking loop keeps the types.
LEMMA TypeWorkersWoken ==
  ASSUME TypeInv, NEW w \in Writers, WorkersWoken(w)
  PROVE  TypeInv'
<1> DEFINE r == [writer[w] EXCEPT !.pc = "sample"]
<1>1. writer[w] \in WriterRecord /\ writer[w].run \in Runs /\ sbi.arrays \in Runs
  BY Typed DEF WorkersWoken, WriterInv, PcIs, AllocatedPc
<1>2. r \in WriterRecord /\ r.run \in Runs /\ r.pc = "sample"
  BY <1>1 DEF WriterRecord, WriterPc
<1>3. Becomes(w, r) /\ sbi' = sbi
  BY DEF WorkersWoken
<1>4. writer' \in [Writers -> WriterRecord] /\ WriterInv'
  <2> HIDE DEF r
  <2> QED
    BY <1>1, <1>2, <1>3, WriterUpdate DEF AllocatedPc
<1> QED
  BY <1>4 DEF TypeInv, TypeOK, WorkersWoken

\* A sample of the counters keeps the types.
LEMMA TypeSample ==
  ASSUME TypeInv, NEW w \in Writers, Sample(w)
  PROVE  TypeInv'
<1> DEFINE r == [writer[w] EXCEPT !.elapsed = writer[w].elapsed + 1]
<1>1. writer[w] \in WriterRecord /\ writer[w].run \in Runs /\ sbi.arrays \in Runs
  BY Typed DEF Sample, WriterInv, PcIs, AllocatedPc
<1>2. r \in WriterRecord /\ r.run \in Runs /\ r.pc = "sample"
  BY <1>1 DEF Sample, PcIs, WriterRecord
<1>3. Becomes(w, r) /\ sbi' = sbi
  BY DEF Sample
<1>4. writer' \in [Writers -> WriterRecord] /\ WriterInv'
  <2> HIDE DEF r
  <2> QED
    BY <1>1, <1>2, <1>3, WriterUpdate DEF AllocatedPc
<1> QED
  BY <1>4 DEF TypeInv, TypeOK, Sample

\* The end of the seconds keeps the types.
LEMMA TypeBeginStop ==
  ASSUME TypeInv, NEW w \in Writers, BeginStop(w)
  PROVE  TypeInv'
<1> DEFINE r == [writer[w] EXCEPT !.pc = "stop", !.i = 0, !.cnt = sbi.worker_cnt]
<1>1. writer[w] \in WriterRecord /\ writer[w].run \in Runs /\ sbi.arrays \in Runs
  BY Typed DEF BeginStop, WriterInv, PcIs, AllocatedPc
<1>2. r \in WriterRecord /\ r.run \in Runs /\ r.pc = "stop"
  <2>1. "stop" \in WriterPc /\ 0 \in 0 .. MaxThreads /\ sbi.worker_cnt \in 0 .. MaxThreads
    BY Typed, Bounds DEF WriterPc, SbiRecord
  <2> QED
    BY <1>1, <2>1 DEF WriterRecord
<1>3. Becomes(w, r) /\ sbi' = sbi
  BY DEF BeginStop
<1>4. writer' \in [Writers -> WriterRecord] /\ WriterInv'
  <2> HIDE DEF r
  <2> QED
    BY <1>1, <1>2, <1>3, WriterUpdate DEF AllocatedPc
<1> QED
  BY <1>4 DEF TypeInv, TypeOK, BeginStop

\* A request to stop keeps the types.
LEMMA TypeStopWorker ==
  ASSUME TypeInv, NEW w \in Writers, StopWorker(w)
  PROVE  TypeInv'
<1> DEFINE t == workers[sbi.arrays][writer[w].i]
           r == [writer[w] EXCEPT !.pc = "join", !.target = t]
<1>1. writer[w] \in WriterRecord /\ writer[w].run \in Runs /\ sbi.arrays \in Runs
  BY Typed DEF StopWorker, WriterInv, PcIs, AllocatedPc
<1>2. writer[w].i \in Cores /\ writer[w].i < writer[w].cnt
  BY <1>1, Bounds DEF StopWorker, WriterRecord, Cores
<1>3. t \in Threads \cup {NoThread}
  BY <1>1, <1>2, Typed
<1>4. r \in WriterRecord /\ r.run \in Runs /\ r.pc = "join" /\ r.i < r.cnt
  <2>1. "join" \in WriterPc
    BY DEF WriterPc
  <2> HIDE DEF t
  <2> QED
    BY <1>1, <1>2, <1>3, <2>1 DEF WriterRecord
<1>5. Becomes(w, r) /\ sbi' = sbi
  BY DEF StopWorker
<1>6. writer' \in [Writers -> WriterRecord] /\ WriterInv'
  <2> HIDE DEF r
  <2> QED
    BY <1>1, <1>4, <1>5, WriterUpdate DEF AllocatedPc
<1>7. thread' \in [Threads -> ThreadRecord]
  BY Typed, RecordTypes DEF StopWorker
<1> QED
  BY <1>6, <1>7 DEF TypeInv, TypeOK, StopWorker

\* The wait for a stopped worker keeps the types.
LEMMA TypeJoinWorker ==
  ASSUME TypeInv, NEW w \in Writers, JoinWorker(w)
  PROVE  TypeInv'
<1> DEFINE r == [writer[w] EXCEPT !.pc = "stop", !.i = writer[w].i + 1, !.target = NoThread]
<1>1. writer[w] \in WriterRecord /\ writer[w].run \in Runs /\ sbi.arrays \in Runs
  BY Typed DEF JoinWorker, WriterInv, PcIs, AllocatedPc
<1>2. writer[w].i + 1 \in 0 .. MaxThreads
  <2>1. writer[w].i < writer[w].cnt
    BY Typed DEF JoinWorker, WriterInv
  <2>2. writer[w].i \in 0 .. MaxThreads /\ writer[w].cnt \in 0 .. MaxThreads
    BY <1>1 DEF WriterRecord
  <2> QED
    BY <2>1, <2>2, Bounds
<1>3. r \in WriterRecord /\ r.run \in Runs /\ r.pc = "stop"
  <2>1. "stop" \in WriterPc
    BY DEF WriterPc
  <2> QED
    BY <1>1, <1>2, <2>1 DEF WriterRecord
<1>4. Becomes(w, r) /\ sbi' = sbi
  BY DEF JoinWorker
<1>5. writer' \in [Writers -> WriterRecord] /\ WriterInv'
  <2> HIDE DEF r
  <2> QED
    BY <1>1, <1>3, <1>4, WriterUpdate DEF AllocatedPc
<1> QED
  BY <1>5 DEF TypeInv, TypeOK, JoinWorker

\* The end of the stopping loop keeps the types.
LEMMA TypeWorkersStopped ==
  ASSUME TypeInv, NEW w \in Writers, WorkersStopped(w)
  PROVE  TypeInv'
<1>1. Becomes(w, IdleWriter) /\ sbi' = sbi
  BY DEF WorkersStopped
<1>2. IdleWriter.pc = "idle"
  BY DEF IdleWriter
<1>3. writer' \in [Writers -> WriterRecord] /\ WriterInv'
  BY <1>1, <1>2, RecordTypes, WriterUpdate DEF AllocatedPc
<1> QED
  BY <1>3 DEF TypeInv, TypeOK, WorkersStopped

\* Kernel threads change their own record, and a bandwidth worker its counter.
LEMMA TypeThread ==
  ASSUME TypeInv, NEW t \in Threads, ThreadStep(t)
  PROVE  TypeInv'
<1> DEFINE ThreadOK == thread' \in [Threads -> ThreadRecord]
<1>t. thread[t] \in ThreadRecord
  BY Typed
<1>a. ASSUME NEW pc \in ThreadPc PROVE [thread[t] EXCEPT !.pc = pc] \in ThreadRecord
  BY <1>t DEF ThreadRecord
<1>1. WorkerUnchanged
  BY DEF ThreadStep, EnterThread, ReadParams, BandwidthBatch, ProbeRound, LatencyTest,
         CacheProbe, CheckStop, WaitSet, WaitTest, WaitSched
<1>2. timing' \in [Runs -> [Cores -> 0 .. MaxBatch]]
  <2>1. CASE UNCHANGED timing
    BY <2>1, Typed
  <2>2. CASE BandwidthBatch(t)
    <3> DEFINE a == thread[t].arrays
               c == CoreOf(t)
    <3>1. timing' = [timing EXCEPT ![a][c] = Counted(@)]
      BY <2>2 DEF BandwidthBatch
    <3>2. CASE a \in Runs
      <4>1. timing[a] \in [Cores -> 0 .. MaxBatch] /\ c \in Cores
        BY <3>2, Typed DEF Threads, CoreOf
      <4>2. Counted(timing[a][c]) \in 0 .. MaxBatch
        BY <4>1, Bounds DEF Counted
      <4>3. [timing[a] EXCEPT ![c] = Counted(timing[a][c])] \in [Cores -> 0 .. MaxBatch]
        BY <4>1, <4>2
      <4>4. timing' = [timing EXCEPT ![a] = [timing[a] EXCEPT ![c] = Counted(timing[a][c])]]
        BY <3>1
      <4> HIDE DEF a, c
      <4> QED
        BY <4>3, <4>4, Typed
    <3>3. CASE a \notin Runs
      BY <3>1, <3>3, Typed
    <3> QED
      BY <3>2, <3>3
  <2> QED
    BY <2>1, <2>2
    DEF ThreadStep, EnterThread, ReadParams, ProbeRound, LatencyTest,
        CacheProbe, CheckStop, WaitSet, WaitTest, WaitSched
<1>3. ThreadOK
  <2>1. CASE EnterThread(t)
    BY <2>1, <1>a, ThreadUpdate DEF EnterThread, ThreadPc
  <2>2. CASE ReadParams(t)
    <3>1. sbi.params \in 0 .. MaxRun /\ sbi.arrays \in 0 .. MaxRun
      BY Typed DEF SbiRecord
    <3>2. ASSUME NEW pc \in ThreadPc
          PROVE  [thread[t] EXCEPT !.params = sbi.params, !.arrays = sbi.arrays,
                                   !.pc = pc] \in ThreadRecord
      BY <1>t, <3>1 DEF ThreadRecord
    <3> QED
      BY <2>2, <3>2, ThreadUpdate DEF ReadParams, ThreadPc
  <2>3. CASE BandwidthBatch(t)
    BY <2>3, <1>a, ThreadUpdate DEF BandwidthBatch, ThreadPc
  <2>4. CASE ProbeRound(t)
    <3>1. thread[t].round + 1 \in 0 .. ProbeRounds
      BY <2>4, <1>t, Bounds DEF ProbeRound, Exhausted, ThreadRecord
    <3>2. [thread[t] EXCEPT !.pc = "check", !.round = thread[t].round + 1] \in ThreadRecord
      <4>1. "check" \in ThreadPc
        BY DEF ThreadPc
      <4> QED
        BY <1>t, <3>1, <4>1 DEF ThreadRecord
    <3> QED
      BY <2>4, <3>2, ThreadUpdate DEF ProbeRound
  <2>5. CASE LatencyTest(t)
    BY <2>5, <1>a, ThreadUpdate DEF LatencyTest, ThreadPc
  <2>6. CASE CacheProbe(t)
    BY <2>6, <1>a, ThreadUpdate DEF CacheProbe, ThreadPc
  <2>7. CASE CheckStop(t)
    BY <2>7, <1>a, ThreadUpdate DEF CheckStop, ThreadPc
  <2>8. CASE WaitSet(t)
    <3>1. [thread[t] EXCEPT !.state = "INTERRUPTIBLE", !.pc = "test"] \in ThreadRecord
      <4>1. "test" \in ThreadPc
        BY DEF ThreadPc
      <4> QED
        BY <1>t, <4>1 DEF ThreadRecord
    <3> QED
      BY <2>8, <3>1, ThreadUpdate DEF WaitSet
  <2>9. CASE WaitTest(t)
    BY <2>9, <1>a, ThreadUpdate DEF WaitTest, ThreadPc
  <2>10. CASE WaitSched(t)
    BY <2>10, <1>a, ThreadUpdate DEF WaitSched, ThreadPc
  <2> QED
    BY <2>1, <2>2, <2>3, <2>4, <2>5, <2>6, <2>7, <2>8, <2>9, <2>10 DEF ThreadStep
<1> QED
  BY <1>1, <1>2, <1>3 DEF TypeInv, TypeOK, WorkerUnchanged, WriterInv, PcIs

\* TypeInv is inductive.
LEMMA TypeNext == TypeInv /\ [Next]_vars => TypeInv'
<1> SUFFICES ASSUME TypeInv, [Next]_vars PROVE TypeInv'
  OBVIOUS
<1>1. ASSUME NEW w \in Writers, WriteCommand(w) \/ WriterStep(w) PROVE TypeInv'
  BY <1>1, TypeWriteCommand, TypeSetDefaults, TypeSetOptions, TypeStartTask,
     TypeAllocArrays, TypeCreateWorker, TypeWorkersCreated, TypeLaunchSingle,
     TypeEnterMonitor, TypeWakeWorker, TypeWorkersWoken, TypeSample, TypeBeginStop,
     TypeStopWorker, TypeJoinWorker, TypeWorkersStopped DEF WriterStep
<1>2. ASSUME NEW t \in Threads, ThreadStep(t) PROVE TypeInv'
  BY <1>2, TypeThread
<1>3. CASE UNCHANGED vars
  BY <1>3 DEF vars, TypeInv, TypeOK, WriterInv, PcIs
<1> QED
  BY <1>1, <1>2, <1>3 DEF Next

\* Every reachable state is well typed, whoever writes whatever commands.
THEOREM TypeCorrect == Spec => []TypeOK
<1>1. TypeInv => TypeOK
  BY DEF TypeInv
<1> QED
  BY <1>1, TypeInit, TypeNext, PTL DEF Spec

-----------------------------------------------------------------------------
(***************************************************************************)
(* What the steps do to the program counters, loop counters and shared     *)
(* fields, once for all the proofs below.                                  *)
(***************************************************************************)

\* A step of a command by the handler: where it stands before and after, and
\* what it leaves alone.
LEMMA WriterMoves ==
  ASSUME TypeInv, NEW w \in Writers, WriterStep(w)
  PROVE  /\ \A v \in Writers : v # w => writer'[v] = writer[v]
         /\ issued' = issued /\ command' = command /\ writer[w].pc # "idle"
         /\ writer'[w].pc # "idle" => writer'[w].run = writer[w].run
         /\ SetDefaults(w) =>
              /\ writer[w].pc = "defaults" /\ writer'[w].pc = "options"
              /\ UNCHANGED <<thread, timing, workers, last>>
              /\ sbi'.arrays = sbi.arrays
         /\ SetOptions(w) =>
              /\ writer[w].pc = "options"
              /\ writer'[w].pc \in {"start", "idle"}
              /\ sbi'.params = writer[w].run /\ sbi'.arrays = sbi.arrays
              /\ UNCHANGED <<thread, timing, workers, last>>
         /\ StartTask(w) =>
              /\ writer[w].pc = "start" /\ writer'[w].pc = "alloc"
              /\ sbi'.params = sbi.params /\ sbi'.arrays = sbi.arrays
              /\ UNCHANGED <<thread, timing, workers, last>>
         /\ AllocArrays(w) =>
              /\ writer[w].pc = "alloc" /\ writer'[w].pc = "create"
              /\ writer'[w].i = 0 /\ writer'[w].cnt = sbi.worker_cnt
              /\ sbi'.params = sbi.params /\ sbi'.arrays = writer[w].run
              /\ sbi'.worker_cnt = sbi.worker_cnt
              /\ UNCHANGED <<thread, workers, last>>
         /\ CreateWorker(w) =>
              /\ writer[w].pc = "create" /\ writer'[w].pc = "create"
              /\ writer[w].i < writer[w].cnt
              /\ writer'[w].i = writer[w].i + 1
              /\ writer'[w].cnt = writer[w].cnt
              /\ UNCHANGED <<sbi, last>>
         /\ WorkersCreated(w) =>
              /\ writer[w].pc = "create"
              /\ writer'[w].pc = (IF JobOf(writer[w].run) \in SingleJobs
                             THEN "launch" ELSE "monitor")
              /\ writer[w].i = writer[w].cnt
              /\ UNCHANGED <<sbi, thread, timing, workers, last>>
         /\ LaunchSingle(w) =>
              /\ writer[w].pc = "launch" /\ writer'[w].pc = "idle"
              /\ UNCHANGED <<sbi, timing, workers, last>>
         /\ EnterMonitor(w) =>
              /\ writer[w].pc = "monitor" /\ writer'[w].pc = "wake"
              /\ UNCHANGED <<sbi, thread, timing, workers>>
         /\ WakeWorker(w) =>
              /\ writer[w].pc = "wake" /\ writer'[w].pc = "wake"
              /\ UNCHANGED <<sbi, timing, workers, last>>
         /\ WorkersWoken(w) =>
              /\ writer[w].pc = "wake" /\ writer'[w].pc = "sample"
              /\ UNCHANGED <<sbi, thread, timing, workers, last>>
         /\ Sample(w) =>
              /\ writer[w].pc = "sample" /\ writer'[w].pc = "sample"
              /\ UNCHANGED <<sbi, thread, timing, workers>>
         /\ BeginStop(w) =>
              /\ writer[w].pc = "sample" /\ writer'[w].pc = "stop"
              /\ writer'[w].i = 0 /\ writer'[w].cnt = sbi.worker_cnt
              /\ UNCHANGED <<sbi, thread, timing, workers, last>>
         /\ StopWorker(w) =>
              /\ writer[w].pc = "stop" /\ writer'[w].pc = "join"
              /\ writer[w].i < writer[w].cnt
              /\ writer'[w].i = writer[w].i
              /\ writer'[w].cnt = writer[w].cnt
              /\ writer'[w].target = workers[sbi.arrays][writer[w].i]
              /\ UNCHANGED <<sbi, timing, workers, last>>
         /\ JoinWorker(w) =>
              /\ writer[w].pc = "join" /\ writer'[w].pc = "stop"
              /\ writer'[w].i = writer[w].i + 1
              /\ writer'[w].cnt = writer[w].cnt
              /\ At(writer[w].target, "exited")
              /\ UNCHANGED <<sbi, thread, timing, workers, last>>
         /\ WorkersStopped(w) =>
              /\ writer[w].pc = "stop" /\ writer'[w].pc = "idle"
              /\ writer[w].i >= writer[w].cnt
              /\ UNCHANGED <<sbi, thread, timing, workers, last>>
<1>t. /\ writer \in [Writers -> WriterRecord] /\ writer[w] \in WriterRecord
      /\ sbi \in SbiRecord
  BY Typed
<1> USE <1>t DEF PcIs, Becomes, WriterRecord, SbiRecord, IdleWriter
<1>1. CASE SetDefaults(w)
  BY <1>1 DEF SetDefaults, SetOptions, StartTask, AllocArrays, CreateWorker, WorkersCreated, LaunchSingle, EnterMonitor, WakeWorker, WorkersWoken, Sample, BeginStop, StopWorker, JoinWorker, WorkersStopped
<1>2. CASE SetOptions(w)
  BY <1>2 DEF SetDefaults, SetOptions, StartTask, AllocArrays, CreateWorker, WorkersCreated, LaunchSingle, EnterMonitor, WakeWorker, WorkersWoken, Sample, BeginStop, StopWorker, JoinWorker, WorkersStopped
<1>3. CASE StartTask(w)
  BY <1>3 DEF SetDefaults, SetOptions, StartTask, AllocArrays, CreateWorker, WorkersCreated, LaunchSingle, EnterMonitor, WakeWorker, WorkersWoken, Sample, BeginStop, StopWorker, JoinWorker, WorkersStopped
<1>4. CASE AllocArrays(w)
  BY <1>4 DEF SetDefaults, SetOptions, StartTask, AllocArrays, CreateWorker, WorkersCreated, LaunchSingle, EnterMonitor, WakeWorker, WorkersWoken, Sample, BeginStop, StopWorker, JoinWorker, WorkersStopped
<1>5. CASE CreateWorker(w)
  BY <1>5 DEF SetDefaults, SetOptions, StartTask, AllocArrays, CreateWorker, WorkersCreated, LaunchSingle, EnterMonitor, WakeWorker, WorkersWoken, Sample, BeginStop, StopWorker, JoinWorker, WorkersStopped
<1>6. CASE WorkersCreated(w)
  BY <1>6 DEF SetDefaults, SetOptions, StartTask, AllocArrays, CreateWorker, WorkersCreated, LaunchSingle, EnterMonitor, WakeWorker, WorkersWoken, Sample, BeginStop, StopWorker, JoinWorker, WorkersStopped
<1>7. CASE LaunchSingle(w)
  BY <1>7 DEF SetDefaults, SetOptions, StartTask, AllocArrays, CreateWorker, WorkersCreated, LaunchSingle, EnterMonitor, WakeWorker, WorkersWoken, Sample, BeginStop, StopWorker, JoinWorker, WorkersStopped
<1>8. CASE EnterMonitor(w)
  BY <1>8 DEF SetDefaults, SetOptions, StartTask, AllocArrays, CreateWorker, WorkersCreated, LaunchSingle, EnterMonitor, WakeWorker, WorkersWoken, Sample, BeginStop, StopWorker, JoinWorker, WorkersStopped
<1>9. CASE WakeWorker(w)
  BY <1>9 DEF SetDefaults, SetOptions, StartTask, AllocArrays, CreateWorker, WorkersCreated, LaunchSingle, EnterMonitor, WakeWorker, WorkersWoken, Sample, BeginStop, StopWorker, JoinWorker, WorkersStopped
<1>10. CASE WorkersWoken(w)
  BY <1>10 DEF SetDefaults, SetOptions, StartTask, AllocArrays, CreateWorker, WorkersCreated, LaunchSingle, EnterMonitor, WakeWorker, WorkersWoken, Sample, BeginStop, StopWorker, JoinWorker, WorkersStopped
<1>11. CASE Sample(w)
  BY <1>11 DEF SetDefaults, SetOptions, StartTask, AllocArrays, CreateWorker, WorkersCreated, LaunchSingle, EnterMonitor, WakeWorker, WorkersWoken, Sample, BeginStop, StopWorker, JoinWorker, WorkersStopped
<1>12. CASE BeginStop(w)
  BY <1>12 DEF SetDefaults, SetOptions, StartTask, AllocArrays, CreateWorker, WorkersCreated, LaunchSingle, EnterMonitor, WakeWorker, WorkersWoken, Sample, BeginStop, StopWorker, JoinWorker, WorkersStopped
<1>13. CASE StopWorker(w)
  BY <1>13 DEF SetDefaults, SetOptions, StartTask, AllocArrays, CreateWorker, WorkersCreated, LaunchSingle, EnterMonitor, WakeWorker, WorkersWoken, Sample, BeginStop, StopWorker, JoinWorker, WorkersStopped
<1>14. CASE JoinWorker(w)
  BY <1>14 DEF SetDefaults, SetOptions, StartTask, AllocArrays, CreateWorker, WorkersCreated, LaunchSingle, EnterMonitor, WakeWorker, WorkersWoken, Sample, BeginStop, StopWorker, JoinWorker, WorkersStopped
<1>15. CASE WorkersStopped(w)
  BY <1>15 DEF SetDefaults, SetOptions, StartTask, AllocArrays, CreateWorker, WorkersCreated, LaunchSingle, EnterMonitor, WakeWorker, WorkersWoken, Sample, BeginStop, StopWorker, JoinWorker, WorkersStopped
<1> QED
  BY <1>1, <1>2, <1>3, <1>4, <1>5, <1>6, <1>7, <1>8,
     <1>9, <1>10, <1>11, <1>12, <1>13, <1>14, <1>15 DEF WriterStep

\* A step of a kernel thread: the turns its program counter can take, and
\* that only a bandwidth batch counts.
LEMMA ThreadMoves ==
  ASSUME TypeInv, NEW t \in Threads, ThreadStep(t)
  PROVE  /\ UNCHANGED <<sbi, workers, issued, command, writer, last>>
         /\ \A u \in Threads : u # t => thread'[u] = thread[u]
         /\ thread'[t].stop = thread[t].stop
         /\ BandwidthBatch(t) \/ UNCHANGED timing
         /\ ReadParams(t) \/ (/\ thread'[t].params = thread[t].params
                              /\ thread'[t].arrays = thread[t].arrays)
         /\ \/ /\ thread[t].pc = "created" /\ thread'[t].pc \in {"entry", "exited"}
               /\ thread'[t].pc = "exited" => thread[t].stop
            \/ /\ thread[t].pc = "entry" /\ ReadParams(t)
               /\ thread'[t].params = sbi.params /\ thread'[t].arrays = sbi.arrays
               /\ thread'[t].pc = (IF Unsupported(t) THEN "exited" ELSE "batch")
            \/ /\ thread[t].pc = "batch" /\ thread'[t].pc \in {"check", "set", "exited"}
               /\ thread'[t].pc = "exited" => JobOf(RunOf(t)) = "cacheprobe"
            \/ thread[t].pc = "check" /\ thread'[t].pc \in {"set", "batch"}
            \/ /\ thread[t].pc \in {"set", "test", "sched"}
               /\ thread'[t].pc \in {"set", "test", "sched", "exited"}
               /\ thread'[t].pc = "exited" => thread[t].stop
<1>t. thread \in [Threads -> ThreadRecord] /\ thread[t] \in ThreadRecord
  BY Typed
<1> USE <1>t DEF At, ThreadBecomes, WorkerUnchanged, ThreadRecord
<1>1. CASE EnterThread(t)
  BY <1>1 DEF EnterThread
<1>2. CASE ReadParams(t)
  BY <1>2 DEF ReadParams
<1>3. CASE BandwidthBatch(t)
  BY <1>3 DEF BandwidthBatch
<1>4. CASE ProbeRound(t)
  BY <1>4 DEF ProbeRound
<1>5. CASE LatencyTest(t)
  BY <1>5 DEF LatencyTest
<1>6. CASE CacheProbe(t)
  BY <1>6 DEF CacheProbe
<1>7. CASE CheckStop(t)
  BY <1>7 DEF CheckStop
<1>8. CASE WaitSet(t)
  BY <1>8 DEF WaitSet
<1>9. CASE WaitTest(t)
  BY <1>9 DEF WaitTest
<1>10. CASE WaitSched(t)
  BY <1>10 DEF WaitSched
<1> QED
  BY <1>1, <1>2, <1>3, <1>4, <1>5, <1>6, <1>7, <1>8, <1>9, <1>10 DEF ThreadStep

-----------------------------------------------------------------------------
(***************************************************************************)
(* A script's commands.  OwnParams is not inductive: a worker may read sbi *)
(* long after it was woken, so the invariant says what sbi holds as long   *)
(* as some worker has not finished, and that at most one command is inside *)
(* the handler, the latest.                                                *)
(***************************************************************************)
EarlyPc == {"defaults", "options", "start", "alloc"}

OneCommand ==
  \A w \in Writers : ~PcIs(w, "idle") =>
    /\ writer[w].run = issued
    /\ \A v \in Writers : ~PcIs(v, "idle") => v = w
    /\ writer[w].pc \in {"start", "alloc"} \cup AllocatedPc => sbi.params = issued
    /\ writer[w].pc \in AllocatedPc => sbi.arrays = issued

PendingIsLatest ==
  \A t \in Pending :
    /\ RunOf(t) = issued
    /\ sbi.params = issued
    /\ sbi.arrays = issued
    /\ \A w \in Writers : writer[w].pc \notin EarlyPc

ScriptInv == TypeInv /\ OneCommand /\ PendingIsLatest /\ OwnParams

\* ScriptInv speaks of a thread's counter, parameters and arrays only.
SameView ==
  \A t \in Threads : /\ thread'[t].pc = thread[t].pc
                     /\ thread'[t].params = thread[t].params
                     /\ thread'[t].arrays = thread[t].arrays

\* Waking a thread, or asking it to stop, does not change that view.
LEMMA WakingKeepsView ==
  ASSUME TypeInv, NEW t,
         \/ thread' = thread
         \/ thread' = [thread EXCEPT ![t] = Woken(@)]
         \/ thread' = [thread EXCEPT ![t] = StopRequested(@)]
  PROVE  SameView
<1> SUFFICES ASSUME NEW u \in Threads
             PROVE  /\ thread'[u].pc = thread[u].pc
                    /\ thread'[u].params = thread[u].params
                    /\ thread'[u].arrays = thread[u].arrays
  BY DEF SameView
<1>1. thread[u] \in ThreadRecord
  BY Typed
<1>2. thread'[u] \in {thread[u], Woken(thread[u]), StopRequested(thread[u])}
  BY Typed
<1> QED
  BY <1>1, <1>2 DEF Woken, StopRequested, ThreadRecord

\* Unfinished workers and OwnParams depend on nothing else.
LEMMA ViewOfInvariants ==
  ASSUME SameView
  PROVE  Pending' = Pending /\ (OwnParams => OwnParams')
<1>1. Pending' = Pending
  BY DEF SameView, Pending
<1>2. OwnParams => OwnParams'
  BY DEF SameView, OwnParams, Started, At
<1> QED
  BY <1>1, <1>2

\* A step of the one command that leaves sbi's parameters and arrays alone,
\* and does not start over.
LEMMA QuietStep ==
  ASSUME ScriptInv, TypeInv', NEW w \in Writers, NEW r \in WriterRecord, Becomes(w, r),
         ~PcIs(w, "idle"), SameView, issued' = issued,
         sbi'.params = sbi.params, sbi'.arrays = sbi.arrays,
         \/ r.pc = "idle"
         \/ /\ r.run = writer[w].run
            /\ r.pc \in {"start", "alloc"} \cup AllocatedPc => sbi.params = issued
            /\ r.pc \in AllocatedPc => sbi.arrays = issued,
         r.pc \in EarlyPc => writer[w].pc \in EarlyPc
  PROVE  ScriptInv'
<1> USE DEF ScriptInv
<1>1. writer'[w] = r /\ \A v \in Writers : v # w => writer'[v] = writer[v]
  BY Typed DEF Becomes
<1>2. \A v \in Writers : v # w => writer[v].pc = "idle"
  BY DEF OneCommand, PcIs
<1>3. OneCommand'
  BY <1>1, <1>2 DEF OneCommand, PcIs
<1>4. PendingIsLatest'
  BY <1>1, <1>2, ViewOfInvariants DEF PendingIsLatest, EarlyPc
<1>5. OwnParams'
  BY ViewOfInvariants
<1> QED
  BY <1>3, <1>4, <1>5

\* The steps of a command that are quiet in this sense.
LEMMA ScriptQuietSteps ==
  ASSUME ScriptInv, NEW w \in Writers,
         \/ StartTask(w) \/ WorkersCreated(w) \/ LaunchSingle(w) \/ EnterMonitor(w)
         \/ WakeWorker(w) \/ WorkersWoken(w) \/ Sample(w) \/ BeginStop(w)
         \/ StopWorker(w) \/ JoinWorker(w) \/ WorkersStopped(w),
         TypeInv'
  PROVE  ScriptInv'
<1> DEFINE r == writer'[w]
<1>1. /\ writer[w] \in WriterRecord /\ TypeInv
      /\ writer'[w] \in WriterRecord
  BY Typed DEF ScriptInv, TypeInv, TypeOK
<1>2. Becomes(w, r)
  BY Typed, <1>1 DEF Becomes, StartTask, WorkersCreated, LaunchSingle, EnterMonitor,
     WakeWorker, WorkersWoken, Sample, BeginStop, StopWorker, JoinWorker, WorkersStopped
<1>3. SameView
  BY WakingKeepsView, <1>1 DEF StartTask, WorkersCreated, LaunchSingle, EnterMonitor,
     WakeWorker, WorkersWoken, Sample, BeginStop, StopWorker, JoinWorker, WorkersStopped
<1>4. issued' = issued /\ ~PcIs(w, "idle")
  BY DEF PcIs, StartTask, WorkersCreated, LaunchSingle, EnterMonitor,
     WakeWorker, WorkersWoken, Sample, BeginStop, StopWorker, JoinWorker, WorkersStopped
<1>5. sbi'.params = sbi.params /\ sbi'.arrays = sbi.arrays
  BY <1>1, Typed DEF SbiRecord, StartTask, WorkersCreated, LaunchSingle, EnterMonitor,
     WakeWorker, WorkersWoken, Sample, BeginStop, StopWorker, JoinWorker, WorkersStopped
<1>6. /\ writer[w].pc \in {"start", "alloc"} \cup AllocatedPc => sbi.params = issued
      /\ writer[w].pc \in AllocatedPc => sbi.arrays = issued
  BY <1>4 DEF ScriptInv, OneCommand
<1>7. \/ r.pc = "idle"
      \/ /\ r.run = writer[w].run
         /\ r.pc \in {"start", "alloc"} \cup AllocatedPc => sbi.params = issued
         /\ r.pc \in AllocatedPc => sbi.arrays = issued
  BY <1>1, <1>6, WriterMoves DEF WriterStep, AllocatedPc
<1>8. r.pc \in EarlyPc => writer[w].pc \in EarlyPc
  BY <1>1, WriterMoves DEF WriterStep, EarlyPc
<1>9. r \in WriterRecord
  BY <1>1
<1> HIDE DEF r
<1> QED
  BY <1>2, <1>3, <1>4, <1>5, <1>7, <1>8, <1>9, QuietStep

\* The steps that write the shared sbi, or create a worker.
LEMMA ScriptLoudSteps ==
  ASSUME Client = "script", ScriptInv, NEW w \in Writers,
         \/ WriteCommand(w) \/ SetDefaults(w) \/ SetOptions(w)
         \/ AllocArrays(w) \/ CreateWorker(w),
         TypeInv'
  PROVE  ScriptInv'
<1> USE DEF ScriptInv
<1>t. /\ writer \in [Writers -> WriterRecord] /\ writer[w] \in WriterRecord
      /\ sbi \in SbiRecord /\ thread \in [Threads -> ThreadRecord]
      /\ issued \in Nat
  BY Typed, Bounds
<1>1. CASE WriteCommand(w)
  <2>1. Pending = {} /\ (\A v \in Writers : PcIs(v, "idle")) /\ thread' = thread
    BY <1>1 DEF WriteCommand, ClientReady
  <2>2. /\ writer'[w].pc = "defaults" /\ writer'[w].run = issued'
        /\ \A v \in Writers : v # w => writer'[v] = writer[v]
    BY <1>1, <1>t DEF WriteCommand, Becomes, IdleWriter
  <2>3. OneCommand'
    BY <2>1, <2>2 DEF OneCommand, PcIs, AllocatedPc
  <2>4. PendingIsLatest' /\ OwnParams'
    BY <2>1 DEF PendingIsLatest, Pending, OwnParams, Started, At
  <2> QED
    BY <2>3, <2>4
<1>2. CASE SetDefaults(w) \/ SetOptions(w) \/ AllocArrays(w)
  <2>1. writer[w].pc \in EarlyPc /\ thread' = thread /\ issued' = issued
    BY <1>2 DEF SetDefaults, SetOptions, AllocArrays, PcIs, EarlyPc
  <2>2. Pending' = {}
    BY <2>1 DEF PendingIsLatest, Pending
  <2>3. \A v \in Writers : v # w => PcIs(v, "idle") /\ writer'[v] = writer[v]
    BY <1>2, <1>t, <2>1 DEF OneCommand, PcIs, EarlyPc, SetDefaults, SetOptions,
       AllocArrays, Becomes
  <2>4. writer[w].run = issued
    BY <2>1 DEF OneCommand, PcIs, EarlyPc
  <2>5. /\ writer'[w].run = issued
        /\ writer'[w].pc \in {"start", "alloc"} \cup AllocatedPc => sbi'.params = issued
        /\ writer'[w].pc \in AllocatedPc => sbi'.arrays = issued
    <3>1. CASE SetDefaults(w)
      BY <3>1, <1>t, <2>4 DEF SetDefaults, Becomes, WriterRecord, AllocatedPc
    <3>2. CASE SetOptions(w)
      BY <3>2, <1>t, <2>4 DEF SetOptions, Becomes, WriterRecord, SbiRecord, AllocatedPc
    <3>3. CASE AllocArrays(w)
      <4>1. sbi.params = issued
        BY <3>3 DEF AllocArrays, OneCommand, PcIs
      <4> QED
        BY <3>3, <4>1, <1>t, <2>4 DEF AllocArrays, Becomes, WriterRecord, SbiRecord
    <3> QED
      BY <1>2, <3>1, <3>2, <3>3
  <2>6. OneCommand'
    BY <2>1, <2>3, <2>5 DEF OneCommand, PcIs
  <2> QED
    BY <2>1, <2>2, <2>6 DEF PendingIsLatest, OwnParams, Started, At
<1>3. CASE CreateWorker(w)
  <2> DEFINE t == <<writer[w].run, writer[w].i>>
  <2>1. /\ writer[w].run = issued /\ sbi.params = issued /\ sbi.arrays = issued
        /\ \A v \in Writers : v # w => PcIs(v, "idle")
    BY <1>3 DEF CreateWorker, OneCommand, PcIs, AllocatedPc
  <2>2. /\ sbi' = sbi /\ issued' = issued
        /\ writer'[w].pc = "create" /\ writer'[w].run = issued
        /\ \A v \in Writers : v # w => writer'[v] = writer[v]
    BY <1>3, <1>t, <2>1 DEF CreateWorker, Becomes, PcIs, WriterRecord
  <2>3. OneCommand'
    BY <2>1, <2>2 DEF OneCommand, PcIs
  <2>4. /\ \A u \in Threads : u # t => thread'[u] = thread[u]
        /\ t \in Threads => thread'[t].pc = "created"
    BY <1>3, <1>t DEF CreateWorker, NewThread
  <2>5. RunOf(t) = issued
    BY <2>1 DEF RunOf
  <2>6. PendingIsLatest'
    <3>1. \A v \in Writers : writer'[v].pc \notin EarlyPc
      BY <2>1, <2>2 DEF PcIs, EarlyPc
    <3>2. \A u \in Pending' : u = t \/ u \in Pending
      BY <2>4 DEF Pending
    <3> HIDE DEF t
    <3> QED
      BY <2>1, <2>2, <2>5, <3>1, <3>2 DEF PendingIsLatest
  <2>7. OwnParams'
    <3> HIDE DEF t
    <3> QED
      BY <2>4 DEF OwnParams, Started, At
  <2> QED
    BY <2>3, <2>6, <2>7
<1> QED
  BY <1>1, <1>2, <1>3

\* A worker that starts finds its own command's parameters in sbi.
LEMMA ScriptThreadSteps ==
  ASSUME ScriptInv, NEW t \in Threads, ThreadStep(t), TypeInv'
  PROVE  ScriptInv'
<1> USE DEF ScriptInv
<1>t. thread \in [Threads -> ThreadRecord] /\ thread[t] \in ThreadRecord
  BY Typed
<1>1. UNCHANGED <<sbi, issued, writer>>
  BY ThreadMoves
<1>2. \A u \in Threads : u # t => thread'[u] = thread[u]
  BY ThreadMoves
<1> DEFINE Keeps == thread'[t].params = thread[t].params /\ thread'[t].arrays = thread[t].arrays
<1>3. \/ At(t, "created") /\ thread'[t].pc \in {"entry", "exited"}
      \/ ReadParams(t) /\ At(t, "entry") /\ thread'[t].pc \in {"batch", "exited"}
      \/ thread[t].pc \in {"batch", "check"} /\ Keeps
      \/ thread[t].pc \in {"set", "test", "sched"} /\ Keeps
           /\ thread'[t].pc \in {"set", "test", "sched", "exited"}
  BY ThreadMoves DEF ReadParams, At
<1>4. ReadParams(t) => thread'[t].params = RunOf(t) /\ thread'[t].arrays = RunOf(t)
  <2> SUFFICES ASSUME ReadParams(t)
               PROVE  thread'[t].params = RunOf(t) /\ thread'[t].arrays = RunOf(t)
    OBVIOUS
  <2>1. t \in Pending
    BY DEF ReadParams, At, Pending
  <2> QED
    BY <2>1, <1>t DEF ReadParams, ThreadBecomes, ThreadRecord, PendingIsLatest
<1>5. OneCommand'
  BY <1>1 DEF OneCommand, PcIs
<1>6. PendingIsLatest'
  <2>1. Pending' \subseteq Pending
    BY <1>2, <1>3 DEF Pending, At
  <2> QED
    BY <2>1, <1>1 DEF PendingIsLatest
<1>7. OwnParams'
  <2> SUFFICES ASSUME NEW u \in Started'
               PROVE  At(u, "exited")' \/ (thread'[u].params = RunOf(u)
                                            /\ thread'[u].arrays = RunOf(u))
    BY DEF OwnParams
  <2>1. CASE u # t
    BY <2>1, <1>2 DEF OwnParams, Started, At
  <2>2. CASE u = t
    BY <2>2, <1>3, <1>4 DEF OwnParams, Started, At
  <2> QED
    BY <2>1, <2>2
<1> QED
  BY <1>5, <1>6, <1>7

\* Every step of the script client keeps its invariant.
LEMMA ScriptNext ==
  ASSUME Client = "script"
  PROVE  ScriptInv /\ [Next]_vars => ScriptInv'
<1> SUFFICES ASSUME ScriptInv, [Next]_vars PROVE ScriptInv'
  OBVIOUS
<1>1. TypeInv'
  BY TypeNext DEF ScriptInv
<1>2. ASSUME NEW w \in Writers, WriteCommand(w) \/ WriterStep(w) PROVE ScriptInv'
  BY <1>1, <1>2, ScriptQuietSteps, ScriptLoudSteps DEF WriterStep
<1>3. ASSUME NEW t \in Threads, ThreadStep(t) PROVE ScriptInv'
  BY <1>1, <1>3, ScriptThreadSteps
<1>4. CASE UNCHANGED vars
  BY <1>1, <1>4 DEF vars, ScriptInv, OneCommand, PendingIsLatest, Pending, OwnParams,
     Started, At, PcIs
<1> QED
  BY <1>2, <1>3, <1>4 DEF Next

\* The script's invariant holds at the start.
LEMMA ScriptInit == Init => ScriptInv
<1> SUFFICES ASSUME Init PROVE ScriptInv
  OBVIOUS
<1>1. TypeInv
  BY TypeInit
<1>2. \A t \in Threads : thread[t].pc = "none"
  BY DEF Init, NewThread
<1>3. \A w \in Writers : writer[w].pc = "idle"
  BY DEF Init, IdleWriter
<1> QED
  BY <1>1, <1>2, <1>3 DEF ScriptInv, OneCommand, PcIs, PendingIsLatest, Pending,
     OwnParams, Started

\* When the lines are written by a script that waits for each result, every
\* worker of every command runs with the parameters, and counts in the array,
\* of its own command, though it reads both from the shared sbi.
THEOREM ScriptOwnParams ==
  ASSUME Client = "script"
  PROVE  Spec => []OwnParams
<1>1. ScriptInv => OwnParams
  BY DEF ScriptInv
<1> QED
  BY <1>1, ScriptInit, ScriptNext, PTL DEF Spec

\* And no two commands measure at the same time.
THEOREM ScriptExclusive ==
  ASSUME Client = "script"
  PROVE  Spec => []ExclusiveMeasurement
<1>1. ScriptInv => ExclusiveMeasurement
  BY DEF ScriptInv, PendingIsLatest, ExclusiveMeasurement, Measuring, Pending
<1> QED
  BY <1>1, ScriptInit, ScriptNext, PTL DEF Spec

-----------------------------------------------------------------------------
(***************************************************************************)
(* Commands served one at a time, by a script or by a client that only     *)
(* waits for write() to return.  latencyfs_stop_threads and the sum of     *)
(* monitor_threads trust sbi and the worker array they find: ServedInv     *)
(* says, core by core, which workers of the latest command exist, which of *)
(* them have been told to stop and which have exited; that a worker of a   *)
(* monitored command exits for no other reason than being told; that it    *)
(* lives inside its command; and that it counts in its own array.          *)
(***************************************************************************)
Served == Client \in {"script", "serial"}

\* sizebw_job returns at once on five of the seven alignments (tasks.c): the
\* client asks for it with the two others.
Supported == \A c \in Commands : c.job = "sizebw" => c.aligned

\* No worker of a command to come exists.
Unborn == \A t \in Threads : RunOf(t) > issued => At(t, "none") /\ ~thread[t].stop

PhaseInv ==
  \A w \in Writers :
    /\ writer[w].pc \in {"create", "stop", "join"} => writer[w].cnt = sbi.worker_cnt
    /\ writer[w].pc \in {"monitor", "wake", "sample", "stop", "join"} =>
         JobOf(writer[w].run) \in MultiJobs
    /\ PcIs(w, "launch") => JobOf(writer[w].run) \in SingleJobs
    /\ PcIs(w, "join") => writer[w].target = <<writer[w].run, writer[w].i>>

\* The handler has created the worker of core c, or told it to stop.
Hired(w, c) == c < IF PcIs(w, "create") THEN writer[w].i ELSE sbi.worker_cnt
Asked(w, c) ==
  \/ PcIs(w, "stop") /\ c < writer[w].i
  \/ PcIs(w, "join") /\ c <= writer[w].i

CoreInv(w, c) ==
  LET t == <<issued, c>> IN
  /\ writer[w].pc \in EarlyPc => At(t, "none")
  /\ writer[w].pc \in AllocatedPc =>
       IF Hired(w, c) THEN workers[issued][c] = t /\ ~At(t, "none") ELSE At(t, "none")
  /\ ~Asked(w, c) => ~thread[t].stop
  /\ Asked(w, c) /\ c < writer[w].i /\ c < sbi.worker_cnt => At(t, "exited")

CrewInv == \A w \in Writers : ~PcIs(w, "idle") => \A c \in Cores : CoreInv(w, c)

LivesInside ==
  \A t \in Threads : JobOf(RunOf(t)) \in MultiJobs /\ thread[t].pc \notin {"none", "exited"} =>
    RunOf(t) = issued /\ \E w \in Writers : writer[w].pc \in AllocatedPc

ExitsWhenAsked ==
  Supported => \A t \in Threads :
    At(t, "exited") => JobOf(RunOf(t)) = "cacheprobe" \/ thread[t].stop

OwnArrays ==
  \A t \in Measuring : JobOf(RunOf(t)) \in MultiJobs => thread[t].arrays = RunOf(t)

ServedInv ==
  /\ TypeInv /\ OneCommand /\ command \in [Runs -> Commands]
  /\ Unborn /\ PhaseInv /\ CrewInv
  /\ LivesInside /\ ExitsWhenAsked /\ OwnArrays

\* The one command in the handler is the latest, as for a script.
LEMMA OneCommandStep ==
  ASSUME Served, TypeInv, OneCommand, [Next]_vars
  PROVE  OneCommand'
<1> SUFFICES ASSUME NEW w \in Writers, ~PcIs(w, "idle")'
             PROVE  /\ writer'[w].run = issued'
                    /\ \A v \in Writers : ~PcIs(v, "idle")' => v = w
                    /\ writer'[w].pc \in {"start", "alloc"} \cup AllocatedPc => sbi'.params = issued'
                    /\ writer'[w].pc \in AllocatedPc => sbi'.arrays = issued'
  BY DEF OneCommand
<1> USE DEF PcIs
<1>1. CASE \E x \in Writers : WriteCommand(x)
  <2>1. PICK x \in Writers : WriteCommand(x)
    BY <1>1
  <2>2. \A v \in Writers : writer[v].pc = "idle"
    BY <2>1 DEF WriteCommand, ClientReady, Served
  <2>3. /\ writer'[x].pc = "defaults" /\ writer'[x].run = issued'
        /\ \A v \in Writers : v # x => writer'[v] = writer[v]
    BY <2>1, Typed DEF WriteCommand, Becomes, IdleWriter
  <2> QED
    BY <2>2, <2>3 DEF AllocatedPc
<1>2. CASE \E x \in Writers : WriterStep(x)
  <2>1. PICK x \in Writers : WriterStep(x)
    BY <1>2
  <2>2. /\ writer[x].pc # "idle" /\ issued' = issued
        /\ \A v \in Writers : v # x => writer'[v] = writer[v]
        /\ writer'[x].pc # "idle" => writer'[x].run = writer[x].run
    BY <2>1, WriterMoves
  <2>3. /\ \A v \in Writers : v # x => writer[v].pc = "idle"
        /\ writer[x].run = issued
        /\ writer[x].pc \in {"start", "alloc"} \cup AllocatedPc => sbi.params = issued
        /\ writer[x].pc \in AllocatedPc => sbi.arrays = issued
    BY <2>2 DEF OneCommand
  <2>4. w = x
    BY <2>2, <2>3
  <2>5. writer'[x].pc \in {"start", "alloc"} \cup AllocatedPc => sbi'.params = issued
    BY <2>1, <2>3, WriterMoves DEF WriterStep, AllocatedPc
  <2>6. writer'[x].pc \in AllocatedPc => sbi'.arrays = issued
    BY <2>1, <2>3, WriterMoves DEF WriterStep, AllocatedPc
  <2> QED
    BY <2>2, <2>3, <2>4, <2>5, <2>6
<1>3. CASE \E t \in Threads : ThreadStep(t)
  BY <1>3, ThreadMoves DEF OneCommand
<1>4. CASE UNCHANGED vars
  BY <1>4 DEF OneCommand, vars
<1> QED
  BY <1>1, <1>2, <1>3, <1>4 DEF Next

\* A kernel thread's step: it exits only when told to, or at the end of a
\* cache probe, because a sizebw worker finds an alignment it supports.
LEMMA ServedThread ==
  ASSUME Served, ServedInv, NEW t \in Threads, ThreadStep(t), TypeInv', OneCommand'
  PROVE  ServedInv'
<1>1. /\ UNCHANGED <<sbi, workers, issued, command, writer, last>>
      /\ \A u \in Threads : u # t => thread'[u] = thread[u]
      /\ thread'[t].stop = thread[t].stop
      /\ thread[t].pc \notin {"none", "exited"} /\ thread'[t].pc # "none"
  BY ThreadMoves DEF ServedInv
<1>2. t[1] \in Runs /\ t[2] \in Cores /\ t = <<RunOf(t), CoreOf(t)>>
  BY DEF Threads, RunOf, CoreOf
<1>3. Unborn'
  <2>1. RunOf(t) <= issued
    <3>1. ~(RunOf(t) > issued)
      BY <1>1 DEF ServedInv, Unborn, At
    <3> QED
      BY <1>2, <3>1, Typed, Bounds DEF ServedInv, RunOf, Runs
  <2> QED
    BY <1>1, <2>1, <1>2, Typed, Bounds DEF Unborn, ServedInv, RunOf, Runs, At
<1>4. PhaseInv'
  BY <1>1 DEF ServedInv, PhaseInv, PcIs, JobOf
<1>5. CrewInv'
  <2> SUFFICES ASSUME NEW w \in Writers, ~PcIs(w, "idle"), NEW c \in Cores
               PROVE  CoreInv(w, c)'
    BY <1>1 DEF CrewInv, PcIs
  <2>1. CoreInv(w, c)
    BY DEF ServedInv, CrewInv
  <2> DEFINE u == <<issued, c>>
  <2>2. /\ thread'[u].pc = "none" <=> thread[u].pc = "none"
        /\ thread'[u].stop = thread[u].stop
        /\ thread[u].pc = "exited" => thread'[u].pc = "exited"
    <3>1. issued \in Runs
      BY DEF ServedInv, OneCommand, TypeInv, WriterInv
    <3>2. u \in Threads
      BY <3>1 DEF Threads
    <3> HIDE DEF u
    <3> QED
      BY <1>1, <3>2
  <2> QED
    BY <2>1, <2>2, <1>1 DEF CoreInv, Hired, Asked, PcIs, At
<1>6. LivesInside'
  BY <1>1 DEF ServedInv, LivesInside, JobOf
<1>7. Supported => ~(ReadParams(t) /\ Unsupported(t))
  <2> SUFFICES ASSUME Supported, ReadParams(t), Unsupported(t) PROVE FALSE
    OBVIOUS
  <2>1. JobOf(RunOf(t)) = "sizebw" /\ sbi.params # 0 /\ ~command[sbi.params].aligned
    BY DEF Unsupported
  <2>2. RunOf(t) = issued /\ \E w \in Writers : writer[w].pc \in AllocatedPc
    BY <1>1, <2>1 DEF ServedInv, LivesInside, MultiJobs
  <2>3. sbi.params = issued
    BY <2>2 DEF ServedInv, OneCommand, PcIs, AllocatedPc
  <2>4. command[issued] \in Commands
    BY <1>2, <2>2 DEF ServedInv, RunOf
  <2> QED
    BY <2>1, <2>2, <2>3, <2>4 DEF Supported, JobOf
<1>8. ExitsWhenAsked'
  BY <1>1, <1>7, ThreadMoves DEF ServedInv, ExitsWhenAsked, At, JobOf
<1>9. OwnArrays'
  <2> SUFFICES ASSUME NEW u \in Measuring', JobOf(RunOf(u)) \in MultiJobs
               PROVE  thread'[u].arrays = RunOf(u)
    BY <1>1 DEF OwnArrays, JobOf
  <2>1. CASE u # t \/ (t \in Measuring /\ thread'[t].arrays = thread[t].arrays)
    BY <2>1, <1>1 DEF ServedInv, OwnArrays, Measuring
  <2>2. CASE u = t /\ ReadParams(t)
    <3>1. RunOf(t) = issued /\ \E w \in Writers : writer[w].pc \in AllocatedPc
      BY <2>2, <1>1 DEF ServedInv, LivesInside
    <3>2. sbi.arrays = issued
      BY <3>1 DEF ServedInv, OneCommand, PcIs, AllocatedPc
    <3>3. thread'[t].arrays = sbi.arrays
      BY <2>2, ThreadMoves DEF ServedInv, ReadParams, At
    <3> QED
      BY <2>2, <3>1, <3>2, <3>3
  <2> QED
    BY <2>1, <2>2, ThreadMoves DEF ServedInv, Measuring
<1> QED
  BY <1>1, <1>3, <1>4, <1>5, <1>6, <1>8, <1>9 DEF ServedInv

\* A new line, when nobody is in the handler: none of its workers exist.
LEMMA ServedWriteCommand ==
  ASSUME Served, ServedInv, NEW w \in Writers, WriteCommand(w), TypeInv', OneCommand'
  PROVE  ServedInv'
<1> USE DEF PcIs
<1>1. /\ UNCHANGED <<sbi, workers, timing, thread, last>>
      /\ issued' = issued + 1 /\ issued \in Nat /\ issued + 1 \in Runs
      /\ \A v \in Writers : writer[v].pc = "idle"
      /\ writer'[w].pc = "defaults"
      /\ \A v \in Writers : v # w => writer'[v].pc = "idle"
  <2>1. issued + 1 \in Runs /\ issued \in Nat
    BY Typed, Bounds DEF ServedInv, WriteCommand, Runs
  <2>2. \A v \in Writers : writer[v].pc = "idle"
    BY DEF WriteCommand, ClientReady, Served
  <2>3. /\ writer'[w].pc = "defaults"
        /\ \A v \in Writers : v # w => writer'[v] = writer[v]
    BY Typed DEF ServedInv, WriteCommand, Becomes, IdleWriter
  <2> QED
    BY <2>1, <2>2, <2>3 DEF WriteCommand
<1>2. command' \in [Runs -> Commands] /\ \A r \in Runs : r <= issued => command'[r] = command[r]
  BY <1>1 DEF ServedInv, WriteCommand, Runs
<1>3. \A t \in Threads : RunOf(t) \in Runs /\ (RunOf(t) > issued' => RunOf(t) > issued)
  BY <1>1 DEF Threads, RunOf, Runs
<1>4. \A t \in Threads : ~At(t, "none") => RunOf(t) <= issued
  BY <1>1, <1>3 DEF ServedInv, Unborn, At, Runs
<1>5. Unborn'
  BY <1>1, <1>3 DEF ServedInv, Unborn, At
<1>6. PhaseInv'
  BY <1>1 DEF PhaseInv
<1>7. CrewInv'
  <2> SUFFICES ASSUME NEW c \in Cores PROVE CoreInv(w, c)'
    BY <1>1 DEF CrewInv
  <2>1. thread[<<issued + 1, c>>].pc = "none" /\ ~thread[<<issued + 1, c>>].stop
    <3>1. <<issued + 1, c>> \in Threads
      BY <1>1 DEF Threads
    <3>2. RunOf(<<issued + 1, c>>) > issued
      BY <1>1 DEF RunOf
    <3> QED
      BY <3>1, <3>2 DEF ServedInv, Unborn, At
  <2>2. thread'[<<issued', c>>].pc = "none" /\ ~thread'[<<issued', c>>].stop
    BY <1>1, <2>1
  <2> QED
    BY <1>1, <2>2 DEF CoreInv, AllocatedPc, Asked, At
<1>8. LivesInside' /\ ExitsWhenAsked' /\ OwnArrays'
  <2>1. \A t \in Threads : ~At(t, "none") => JobOf(RunOf(t))' = JobOf(RunOf(t))
    BY <1>2, <1>3, <1>4 DEF JobOf
  <2>2. LivesInside'
    <3>1. \A t \in Threads : JobOf(RunOf(t)) \in MultiJobs => thread[t].pc \in {"none", "exited"}
      BY <1>1 DEF ServedInv, LivesInside, AllocatedPc
    <3> QED
      BY <1>1, <2>1, <3>1 DEF LivesInside, At
  <2>3. ExitsWhenAsked'
    BY <1>1, <2>1 DEF ServedInv, ExitsWhenAsked, At
  <2>4. OwnArrays'
    BY <1>1, <2>1 DEF ServedInv, OwnArrays, Measuring, At
  <2> QED
    BY <2>2, <2>3, <2>4
<1> QED
  BY <1>2, <1>5, <1>6, <1>7, <1>8 DEF ServedInv

\* What the steps of the handler have in common: nobody else is in it, and
\* the command they serve is the latest.
LEMMA ServedAlone ==
  ASSUME ServedInv, NEW w \in Writers, WriterStep(w)
  PROVE  /\ writer[w].run = issued /\ issued \in Runs
         /\ writer[w] \in WriterRecord /\ sbi \in SbiRecord
         /\ \A v \in Writers : v # w => writer[v].pc = "idle" /\ writer'[v].pc = "idle"
         /\ \A c \in Cores : CoreInv(w, c) /\ <<issued, c>> \in Threads
<1>1. writer[w].pc # "idle" /\ \A v \in Writers : v # w => writer'[v] = writer[v]
  BY WriterMoves DEF ServedInv
<1>2. writer[w].run = issued /\ \A v \in Writers : v # w => writer[v].pc = "idle"
  BY <1>1 DEF ServedInv, OneCommand, PcIs
<1>3. issued \in Runs
  BY <1>1, <1>2, Typed DEF ServedInv, WriterInv, PcIs
<1>4. \A c \in Cores : CoreInv(w, c) /\ <<issued, c>> \in Threads
  BY <1>1, <1>3 DEF ServedInv, CrewInv, PcIs, Threads
<1>5. writer[w] \in WriterRecord /\ sbi \in SbiRecord
  BY Typed DEF ServedInv
<1> QED
  BY <1>1, <1>2, <1>3, <1>4, <1>5

\* The phase of a command, after each of its steps.
LEMMA ServedPhase ==
  ASSUME ServedInv, NEW w \in Writers, WriterStep(w)
  PROVE  PhaseInv'
<1> SUFFICES /\ writer'[w].pc \in {"create", "stop", "join"} => writer'[w].cnt = sbi'.worker_cnt
             /\ writer'[w].pc \in {"monitor", "wake", "sample", "stop", "join"} =>
                  JobOf(issued) \in MultiJobs
             /\ writer'[w].pc = "launch" => JobOf(issued) \in SingleJobs
             /\ writer'[w].pc = "join" => writer'[w].target = <<issued, writer'[w].i>>
  BY ServedAlone, WriterMoves DEF ServedInv, PhaseInv, PcIs, JobOf
<1> USE ServedAlone DEF ServedInv, PhaseInv, PcIs
<1>1. writer'[w].pc \in {"create", "stop", "join"} => writer'[w].cnt = sbi'.worker_cnt
  BY WriterMoves DEF WriterStep
<1>2. JobOf(issued) \in SingleJobs \cup MultiJobs
  BY Typed DEF JobOf, Command
<1>3. /\ writer'[w].pc \in {"monitor", "wake", "sample", "stop", "join"} =>
           JobOf(issued) \in MultiJobs
      /\ writer'[w].pc = "launch" => JobOf(issued) \in SingleJobs
  BY WriterMoves, <1>2 DEF WriterStep
<1>4. writer'[w].pc = "join" => writer'[w].target = <<issued, writer'[w].i>>
  <2> SUFFICES ASSUME StopWorker(w) PROVE writer'[w].target = <<issued, writer'[w].i>>
    BY WriterMoves DEF WriterStep
  <2>1. /\ writer[w].pc = "stop" /\ writer[w].i < sbi.worker_cnt /\ writer'[w].i = writer[w].i
        /\ writer'[w].target = workers[sbi.arrays][writer[w].i]
    BY WriterMoves
  <2>2. writer[w].i \in Cores
    BY <2>1, Bounds DEF WriterRecord, SbiRecord, Cores
  <2>3. sbi.arrays = issued
    BY <2>1 DEF OneCommand, AllocatedPc
  <2>4. workers[issued][writer[w].i] = <<issued, writer[w].i>>
    BY <2>1, <2>2 DEF CoreInv, AllocatedPc, Hired
  <2> QED
    BY <2>1, <2>3, <2>4
<1> QED
  BY <1>1, <1>3, <1>4

\* The steps that only move the command along.
LEMMA ServedQuietSteps ==
  ASSUME ServedInv, NEW w \in Writers,
         \/ SetDefaults(w) \/ SetOptions(w) \/ StartTask(w) \/ AllocArrays(w)
         \/ WorkersCreated(w) \/ EnterMonitor(w) \/ WorkersWoken(w) \/ Sample(w)
         \/ BeginStop(w) \/ JoinWorker(w) \/ WorkersStopped(w),
         TypeInv', OneCommand'
  PROVE  ServedInv'
<1>1. WriterStep(w)
  BY DEF WriterStep
<1>2. UNCHANGED <<thread, workers, issued, command>>
  BY <1>1, WriterMoves DEF ServedInv
<1>3. command' \in [Runs -> Commands] /\ Unborn' /\ ExitsWhenAsked' /\ OwnArrays'
  BY <1>2 DEF ServedInv, Unborn, ExitsWhenAsked, OwnArrays, Measuring, At, JobOf
<1>4. PhaseInv'
  BY <1>1, ServedPhase
<1>5. CrewInv'
  <2> SUFFICES ASSUME NEW c \in Cores, writer'[w].pc # "idle" PROVE CoreInv(w, c)'
    BY <1>1, ServedAlone DEF CrewInv, PcIs
  <2>1. CoreInv(w, c) /\ c \in Nat /\ writer[w].i \in Nat
    <3>1. CoreInv(w, c) /\ writer[w] \in WriterRecord
      BY <1>1, ServedAlone
    <3> QED
      BY <3>1, Bounds DEF Cores, WriterRecord
  <2> USE <1>1, <1>2, <2>1, WriterMoves
      DEF CoreInv, Hired, Asked, PcIs, At, EarlyPc, AllocatedPc, ServedInv
  <2>2. CASE SetDefaults(w) \/ SetOptions(w) \/ StartTask(w)
    BY <2>2
  <2>3. CASE AllocArrays(w)
    BY <2>3
  <2>4. CASE WorkersCreated(w)
    BY <2>4 DEF PhaseInv
  <2>5. CASE EnterMonitor(w) \/ WorkersWoken(w) \/ Sample(w)
    BY <2>5
  <2>6. CASE BeginStop(w)
    BY <2>6
  <2>7. CASE JoinWorker(w)
    <3>1. c = writer[w].i => At(<<issued, c>>, "exited")
      BY <2>7, ServedAlone DEF PhaseInv
    <3> QED
      BY <2>7, <3>1
  <2> QED
    BY <2>2, <2>3, <2>4, <2>5, <2>6, <2>7
<1>6. LivesInside'
  <2> SUFFICES ASSUME NEW t \in Threads, JobOf(RunOf(t)) \in MultiJobs,
                      thread[t].pc \notin {"none", "exited"}
               PROVE  RunOf(t) = issued /\ writer'[w].pc \in AllocatedPc
    BY <1>2 DEF LivesInside, JobOf
  <2>1. RunOf(t) = issued /\ writer[w].pc \in AllocatedPc
    BY <1>1, ServedAlone DEF ServedInv, LivesInside, AllocatedPc
  <2>2. ~WorkersStopped(w)
    <3> SUFFICES ASSUME WorkersStopped(w) PROVE FALSE
      OBVIOUS
    <3>1. writer[w].pc = "stop" /\ writer[w].i >= sbi.worker_cnt
      BY <1>1, WriterMoves DEF ServedInv, PhaseInv
    <3>2. CoreOf(t) \in Cores /\ t = <<issued, CoreOf(t)>>
      BY <2>1 DEF Threads, RunOf, CoreOf
    <3>3. CoreInv(w, CoreOf(t)) /\ CoreOf(t) \in Nat
          /\ writer[w].i \in Nat /\ sbi.worker_cnt \in Nat
      BY <1>1, <3>2, ServedAlone DEF Cores, WriterRecord, SbiRecord
    <3> QED
      BY <3>1, <3>2, <3>3 DEF CoreInv, Hired, Asked, PcIs, At, AllocatedPc
  <2> QED
    BY <1>1, <2>1, <2>2, WriterMoves DEF ServedInv, AllocatedPc
<1> QED
  BY <1>3, <1>4, <1>5, <1>6 DEF ServedInv

\* The steps that wake a worker, or ask it to stop.
LEMMA ServedWakingSteps ==
  ASSUME ServedInv, NEW w \in Writers,
         LaunchSingle(w) \/ WakeWorker(w) \/ StopWorker(w), TypeInv', OneCommand'
  PROVE  ServedInv'
<1>1. WriterStep(w)
  BY DEF WriterStep
<1>2. UNCHANGED <<sbi, workers, issued, command>>
  BY <1>1, WriterMoves DEF ServedInv
<1>3. SameView
  BY WakingKeepsView DEF ServedInv, LaunchSingle, WakeWorker, StopWorker
<1>4. \A t \in Threads :
        \/ thread'[t].stop = thread[t].stop
        \/ StopWorker(w) /\ t = <<issued, writer[w].i>> /\ thread'[t].stop
  <2>1. thread \in [Threads -> ThreadRecord]
    BY Typed DEF ServedInv
  <2>2. CASE LaunchSingle(w)
    BY <2>1, <2>2 DEF LaunchSingle, Woken, ThreadRecord
  <2>3. CASE WakeWorker(w)
    BY <2>1, <2>3 DEF WakeWorker, Woken, ThreadRecord
  <2>4. CASE StopWorker(w)
    <3> DEFINE u == <<issued, writer[w].i>>
    <3>1. u = workers[sbi.arrays][writer[w].i]
      BY <1>1, <2>4, WriterMoves, ServedPhase, ServedAlone DEF ServedInv, PhaseInv, PcIs
    <3>2. thread' = [thread EXCEPT ![u] = StopRequested(@)]
      BY <2>4, <3>1 DEF StopWorker
    <3> HIDE DEF u
    <3>3. \A t \in Threads : t # u => thread'[t] = thread[t]
      BY <2>1, <3>2
    <3>4. u \in Threads => thread'[u].stop
      BY <2>1, <3>2 DEF StopRequested, Woken, ThreadRecord
    <3> QED
      BY <2>4, <3>3, <3>4 DEF u
  <2> QED
    BY <2>2, <2>3, <2>4
<1>5. command' \in [Runs -> Commands] /\ OwnArrays'
  BY <1>2, <1>3 DEF ServedInv, OwnArrays, Measuring, SameView, JobOf
<1>6. Unborn' /\ ExitsWhenAsked'
  BY <1>1, <1>2, <1>3, <1>4, ServedAlone
  DEF ServedInv, Unborn, ExitsWhenAsked, SameView, At, JobOf, RunOf, Runs
<1>7. PhaseInv'
  BY <1>1, ServedPhase
<1>8. CrewInv'
  <2> SUFFICES ASSUME NEW c \in Cores, writer'[w].pc # "idle" PROVE CoreInv(w, c)'
    BY <1>1, ServedAlone DEF CrewInv, PcIs
  <2> DEFINE t == <<issued, c>>
  <2>1. /\ CoreInv(w, c) /\ t \in Threads
        /\ c \in Nat /\ writer[w].i \in Nat
    <3>1. CoreInv(w, c) /\ t \in Threads /\ writer[w] \in WriterRecord
      BY <1>1, ServedAlone
    <3> QED
      BY <3>1, Bounds DEF Cores, WriterRecord
  <2>2. /\ thread'[t].pc = thread[t].pc
        /\ \/ thread'[t].stop = thread[t].stop
           \/ StopWorker(w) /\ c = writer[w].i
    BY <2>1, <1>3, <1>4 DEF SameView
  <2> USE <1>1, <1>2, <2>1, <2>2, WriterMoves
      DEF CoreInv, Hired, Asked, PcIs, At, EarlyPc, AllocatedPc, ServedInv
  <2>3. CASE WakeWorker(w)
    BY <2>3
  <2>4. CASE StopWorker(w)
    BY <2>4
  <2> QED
    BY <2>3, <2>4
<1>9. LivesInside'
  <2> SUFFICES ASSUME NEW t \in Threads, JobOf(RunOf(t)) \in MultiJobs,
                      thread[t].pc \notin {"none", "exited"}
               PROVE  RunOf(t) = issued /\ writer'[w].pc \in AllocatedPc
    BY <1>2, <1>3 DEF LivesInside, JobOf, SameView
  <2>1. RunOf(t) = issued /\ writer[w].pc \in AllocatedPc
    BY <1>1, ServedAlone DEF ServedInv, LivesInside, AllocatedPc
  <2>2. ~LaunchSingle(w)
    BY <1>1, <2>1, WriterMoves, ServedAlone
    DEF ServedInv, PhaseInv, PcIs, SingleJobs, MultiJobs
  <2> QED
    BY <1>1, <2>1, <2>2, WriterMoves DEF ServedInv, AllocatedPc
<1> QED
  BY <1>5, <1>6, <1>7, <1>8, <1>9 DEF ServedInv

\* The creation of a worker, which nobody has told to stop.
LEMMA ServedCreateWorker ==
  ASSUME ServedInv, NEW w \in Writers, CreateWorker(w), TypeInv', OneCommand'
  PROVE  ServedInv'
<1> DEFINE i == writer[w].i
           t == <<issued, i>>
<1>1. WriterStep(w)
  BY DEF WriterStep
<1>2. /\ UNCHANGED <<sbi, issued, command>>
      /\ writer[w].pc = "create" /\ writer'[w].pc = "create"
      /\ i < writer[w].cnt /\ writer'[w].i = i + 1
      /\ sbi.arrays = issued /\ writer[w].run = issued
  BY <1>1, WriterMoves, ServedAlone DEF ServedInv, OneCommand, AllocatedPc, PcIs
<1>3. i \in Cores /\ i \in Nat /\ t \in Threads
  <2>1. i \in Cores /\ i \in Nat
    BY <1>1, <1>2, ServedAlone, Bounds DEF WriterRecord, Cores
  <2> QED
    BY <1>1, <2>1, ServedAlone
<1>4. /\ workers' = [workers EXCEPT ![issued][i] = t]
      /\ thread' = [thread EXCEPT ![t] = [NewThread EXCEPT !.pc = "created"]]
  BY <1>2 DEF CreateWorker
<1> HIDE DEF t
<1>5. /\ thread'[t].pc = "created" /\ ~thread'[t].stop
      /\ \A u \in Threads : u # t => thread'[u] = thread[u]
  BY <1>3, <1>4, Typed DEF ServedInv, NewThread
<1>6. /\ workers'[issued][i] = t
      /\ \A c \in Cores : c # i => workers'[issued][c] = workers[issued][c]
  BY <1>1, <1>3, <1>4, Typed, ServedAlone DEF ServedInv
<1>7. RunOf(t) = issued /\ \A c \in Cores : <<issued, c>> = t => c = i
  BY DEF t, RunOf
<1>8. command' \in [Runs -> Commands] /\ Unborn' /\ ExitsWhenAsked' /\ OwnArrays'
  <2>1. ~(issued > issued)
    BY <1>1, ServedAlone DEF Runs
  <2>2. Unborn'
    BY <1>2, <1>5, <1>7, <2>1 DEF ServedInv, Unborn, At
  <2>3. ExitsWhenAsked' /\ OwnArrays'
    BY <1>2, <1>5, <1>7 DEF ServedInv, ExitsWhenAsked, OwnArrays, Measuring, At, JobOf
  <2> QED
    BY <1>2, <2>2, <2>3 DEF ServedInv
<1>9. PhaseInv'
  BY <1>1, ServedPhase
<1>10. CrewInv'
  <2> SUFFICES ASSUME NEW c \in Cores PROVE CoreInv(w, c)'
    BY <1>1, ServedAlone DEF CrewInv, PcIs
  <2>1. CoreInv(w, c) /\ <<issued, c>> \in Threads /\ c \in Nat
    <3>1. CoreInv(w, c) /\ <<issued, c>> \in Threads
      BY <1>1, ServedAlone
    <3> QED
      BY <3>1 DEF Cores
  <2> USE DEF CoreInv, Hired, Asked, PcIs, At, EarlyPc, AllocatedPc
  <2>2. CASE c = i
    <3>1. <<issued, c>> = t
      BY <2>2 DEF t
    <3> QED
      BY <1>2, <1>3, <1>5, <1>6, <2>2, <3>1
  <2>3. CASE c # i
    <3>1. <<issued, c>> # t
      BY <2>3, <1>7
    <3> DEFINE u == <<issued, c>>
    <3>2. thread'[u] = thread[u] /\ workers'[issued][c] = workers[issued][c]
      BY <1>5, <1>6, <2>1, <2>3, <3>1
    <3> QED
      BY <1>2, <1>3, <2>1, <2>3, <3>2
  <2> QED
    BY <2>2, <2>3
<1>11. LivesInside'
  BY <1>2, <1>5, <1>7 DEF ServedInv, LivesInside, AllocatedPc, JobOf
<1> QED
  BY <1>8, <1>9, <1>10, <1>11 DEF ServedInv

\* ServedInv holds at the start.
LEMMA ServedInit == Init => ServedInv
<1> SUFFICES ASSUME Init PROVE ServedInv
  OBVIOUS
<1>1. TypeInv
  BY TypeInit
<1>2. command \in [Runs -> Commands]
  BY ConstantsAssumption DEF Init
<1>3. \A t \in Threads : thread[t].pc = "none" /\ ~thread[t].stop
  BY DEF Init, NewThread
<1>4. \A w \in Writers : writer[w].pc = "idle"
  BY DEF Init, IdleWriter
<1> QED
  BY <1>1, <1>2, <1>3, <1>4
  DEF ServedInv, OneCommand, Unborn, PhaseInv, CrewInv, LivesInside, ExitsWhenAsked,
      OwnArrays, Measuring, PcIs, At

\* Every step keeps it.
LEMMA ServedNext ==
  ASSUME Served
  PROVE  ServedInv /\ [Next]_vars => ServedInv'
<1> SUFFICES ASSUME ServedInv, [Next]_vars PROVE ServedInv'
  OBVIOUS
<1>1. TypeInv' /\ OneCommand'
  BY TypeNext, OneCommandStep DEF ServedInv
<1>2. ASSUME NEW w \in Writers, WriteCommand(w) \/ WriterStep(w) PROVE ServedInv'
  BY <1>1, <1>2, ServedWriteCommand, ServedQuietSteps, ServedWakingSteps,
     ServedCreateWorker DEF WriterStep
<1>3. ASSUME NEW t \in Threads, ThreadStep(t) PROVE ServedInv'
  BY <1>1, <1>3, ServedThread
<1>4. CASE UNCHANGED vars
  BY <1>1, <1>4
  DEF vars, ServedInv, Unborn, PhaseInv, CrewInv, CoreInv, Hired, Asked, LivesInside,
      ExitsWhenAsked, OwnArrays, Measuring, PcIs, At, JobOf
<1> QED
  BY <1>2, <1>3, <1>4 DEF Next

\* kthread_stop finds its task alive: while the handler has workers left to
\* stop, the next one has not been told to, and of its own accord no worker of
\* a monitored task exits, provided sizebw is asked for with an alignment it
\* supports.
THEOREM ServedStopsOnlyLiveWorkers ==
  ASSUME Served, Supported
  PROVE  Spec => []StopsOnlyLiveWorkers
<1>1. ServedInv => StopsOnlyLiveWorkers
  <2> SUFFICES ASSUME ServedInv, NEW w \in Writers, PcIs(w, "stop"),
                      writer[w].i < writer[w].cnt
               PROVE  ~At(workers[sbi.arrays][writer[w].i], "exited")
    BY DEF StopsOnlyLiveWorkers
  <2> DEFINE i == writer[w].i
             t == <<issued, i>>
  <2>1. /\ writer[w].run = issued /\ sbi.arrays = issued /\ issued \in Runs
        /\ writer[w].cnt = sbi.worker_cnt /\ JobOf(issued) \in MultiJobs
    BY Typed DEF ServedInv, OneCommand, WriterInv, PhaseInv, PcIs, AllocatedPc
  <2>2. i \in Cores /\ i \in Nat
    BY Typed, Bounds DEF ServedInv, WriterRecord, Cores
  <2>3. t \in Threads /\ RunOf(t) = issued
    BY <2>1, <2>2 DEF Threads, RunOf
  <2>4. workers[issued][i] = t /\ ~thread[t].stop
    <3>1. CoreInv(w, i)
      BY <2>2 DEF ServedInv, CrewInv, PcIs
    <3> QED
      BY <2>1, <2>2, <3>1 DEF CoreInv, Hired, Asked, PcIs, AllocatedPc
  <2>5. ~At(t, "exited")
    BY <2>1, <2>3, <2>4 DEF ServedInv, ExitsWhenAsked, MultiJobs
  <2> QED
    BY <2>1, <2>4, <2>5
<1> QED
  BY <1>1, ServedInit, ServedNext, PTL DEF Spec

-----------------------------------------------------------------------------
(***************************************************************************)
(* Sums of counters.  SumFunctionOnSet is a fold, computed by recursion on *)
(* the set; that the recursion has a solution, and what it adds up to, is  *)
(* by induction on the size of the set, stated about sets of numbers so    *)
(* that a lemma without operator parameters can be cited for it.           *)
(***************************************************************************)

\* Induction over the natural numbers for a set, which the provers can
\* instantiate where they cannot instantiate a predicate.
LEMMA NatSetInduction ==
  ASSUME NEW S, 0 \in S, \A n \in Nat : n \in S => n + 1 \in S
  PROVE  Nat \subseteq S
<1> DEFINE R == OpToRel(<, Nat)
           T == Nat \ S
<1>1. SUFFICES ASSUME T # {} PROVE FALSE
  OBVIOUS
<1>2. T \subseteq Nat
  OBVIOUS
<1>3. PICK x \in T : \A y \in T : ~ (<<y, x>> \in R)
  <2> HIDE DEF R, T
  <2>1. IsWellFoundedOn(R, Nat)
    BY NatLessThanWellFounded DEF R
  <2> QED
    BY <2>1, <1>1, <1>2, WFMin
<1>4. x # 0 /\ x - 1 \in Nat
  OBVIOUS
<1>5. x - 1 \in T
  BY <1>4
<1>6. <<x - 1, x>> \in R
  BY <1>4 DEF OpToRel
<1> QED
  BY <1>3, <1>5, <1>6

\* The element that the fold takes out of a set first.
PartOf(s) == CHOOSE x \in s : TRUE

\* The equation that SumFunctionOnSet(f, S) is computed by.
SumStep(f, iter, s) == IF s = {} THEN 0 ELSE f[PartOf(s)] + iter[s \ {PartOf(s)}]

\* The function that the fold defines, on all the subsets.
PartialSums(f, S) == CHOOSE iter : iter = [s \in SUBSET S |-> SumStep(f, iter, s)]

\* SumFunctionOnSet is its value on the whole set.
LEMMA SumIsPartialSum ==
  ASSUME NEW f, NEW S
  PROVE  SumFunctionOnSet(f, S) = PartialSums(f, S)[S]
BY DEF SumFunctionOnSet, FoldFunctionOnSet, MapThenFoldSet, PartialSums, SumStep, PartOf

\* The equation has a solution when the set is finite: one for the subsets
\* of at most n elements, for every n.
LEMMA PartialSumsDefined ==
  ASSUME NEW f, NEW S, IsFiniteSet(S)
  PROVE  \A s \in SUBSET S :
           PartialSums(f, S)[s] = SumStep(f, PartialSums(f, S), s)
<1> DEFINE Small(n) == {s \in SUBSET S : Cardinality(s) <= n}
           Solves(iter, n) == iter = [s \in Small(n) |-> SumStep(f, iter, s)]
           N == {n \in Nat : \E iter : Solves(iter, n)}
<1>1. \A s \in SUBSET S : IsFiniteSet(s) /\ Cardinality(s) \in Nat
  BY FS_Subset, FS_CardinalityType
<1>2. \A s \in SUBSET S : s # {} =>
        /\ PartOf(s) \in s
        /\ s \ {PartOf(s)} \in SUBSET S
        /\ Cardinality(s \ {PartOf(s)}) = Cardinality(s) - 1
  BY <1>1, FS_RemoveElement DEF PartOf
<1>3. 0 \in N
  <2> DEFINE h == [s \in Small(0) |-> 0]
  <2>1. \A s \in Small(0) : s = {}
    BY <1>1, FS_EmptySet
  <2>2. \A s \in Small(0) : SumStep(f, h, s) = 0
    BY <2>1 DEF SumStep
  <2>3. Solves(h, 0)
    BY <2>2
  <2> QED
    BY <2>3
<1>4. \A n \in Nat : n \in N => n + 1 \in N
  <2> SUFFICES ASSUME NEW n \in Nat, n \in N PROVE n + 1 \in N
    OBVIOUS
  <2>1. PICK g : Solves(g, n)
    OBVIOUS
  <2> DEFINE h == [s \in Small(n + 1) |-> IF s \in Small(n) THEN g[s] ELSE SumStep(f, g, s)]
  <2>2. \A s \in Small(n + 1) : s # {} => s \ {PartOf(s)} \in Small(n)
    BY <1>1, <1>2
  <2>3. \A s \in Small(n) : s \in Small(n + 1)
    BY <1>1
  <2>4. \A s \in Small(n) : h[s] = g[s]
    BY <2>3
  <2>5. \A s \in Small(n + 1) : SumStep(f, h, s) = SumStep(f, g, s)
    <3> HIDE DEF h, Small
    <3> QED
      BY <2>2, <2>4 DEF SumStep
  <2>6. \A s \in Small(n) : g[s] = SumStep(f, g, s)
    <3> HIDE DEF Small
    <3> QED BY <2>1
  <2>7. \A s \in Small(n + 1) : h[s] = SumStep(f, h, s)
    <3> HIDE DEF Small
    <3> QED
      BY <2>5, <2>6
  <2>8. Solves(h, n + 1)
    <3>1. h = [s \in Small(n + 1) |-> h[s]]
      OBVIOUS
    <3> HIDE DEF h, Small
    <3> QED
      BY <2>7, <3>1
  <2> HIDE DEF h, Solves
  <2> QED
    BY <2>8
<1>5. Cardinality(S) \in N
  <2> HIDE DEF N
  <2> QED
    BY <1>3, <1>4, NatSetInduction, FS_CardinalityType
<1>6. Small(Cardinality(S)) = SUBSET S
  BY FS_Subset
<1>7. PICK iter : iter = [s \in SUBSET S |-> SumStep(f, iter, s)]
  <2>1. PICK i : Solves(i, Cardinality(S))
    BY <1>5
  <2> HIDE DEF Small
  <2> QED BY <2>1, <1>6
<1> DEFINE F == PartialSums(f, S)
<1>8. F = [s \in SUBSET S |-> SumStep(f, F, s)]
  <2> HIDE DEF N, Solves, Small
  <2> QED
    BY <1>7 DEF PartialSums
<1> HIDE DEF F
<1>9. \A s \in SUBSET S : F[s] = SumStep(f, F, s)
  BY <1>8
<1> QED
  BY <1>9 DEF F

\* A sum of counters is a number, and grows when a counter does.
LEMMA SumGrows ==
  ASSUME NEW S, IsFiniteSet(S), NEW f, NEW g,
         \A s \in S : f[s] \in Nat /\ g[s] \in Nat /\ f[s] <= g[s]
  PROVE  /\ SumFunctionOnSet(f, S) \in Nat
         /\ SumFunctionOnSet(g, S) \in Nat
         /\ SumFunctionOnSet(f, S) <= SumFunctionOnSet(g, S)
<1> DEFINE F == PartialSums(f, S)
           G == PartialSums(g, S)
           Ordered(s) == F[s] \in Nat /\ G[s] \in Nat /\ F[s] <= G[s]
           N == {n \in Nat : \A s \in SUBSET S : Cardinality(s) = n => Ordered(s)}
<1>1. \A s \in SUBSET S : F[s] = SumStep(f, F, s) /\ G[s] = SumStep(g, G, s)
  BY PartialSumsDefined
<1>2. \A s \in SUBSET S : s # {} =>
        /\ PartOf(s) \in S
        /\ s \ {PartOf(s)} \in SUBSET S
        /\ Cardinality(s) \in Nat
        /\ Cardinality(s \ {PartOf(s)}) = Cardinality(s) - 1
  BY FS_Subset, FS_CardinalityType, FS_RemoveElement DEF PartOf
<1> HIDE DEF F, G
<1>3. 0 \in N
  <2> SUFFICES ASSUME NEW s \in SUBSET S, Cardinality(s) = 0 PROVE Ordered(s)
    OBVIOUS
  <2>1. s = {}
    BY FS_Subset, FS_EmptySet
  <2> QED
    <3>1. F[s] = 0 /\ G[s] = 0
      BY <2>1, <1>1 DEF SumStep
    <3> QED
      BY <3>1
<1>4. \A n \in Nat : n \in N => n + 1 \in N
  <2> SUFFICES ASSUME NEW n \in Nat, n \in N, NEW s \in SUBSET S, Cardinality(s) = n + 1
               PROVE  Ordered(s)
    OBVIOUS
  <2>1. s # {}
    BY FS_EmptySet
  <2> DEFINE x == PartOf(s)
             r == s \ {x}
  <2>2. x \in S /\ Ordered(r)
    BY <1>2, <2>1
  <2>3. F[s] = f[x] + F[r] /\ G[s] = g[x] + G[r]
    BY <1>1, <2>1 DEF SumStep
  <2> HIDE DEF x, r
  <2> QED
    BY <2>2, <2>3
<1>5. Cardinality(S) \in N
  <2> HIDE DEF N
  <2> QED
    BY <1>3, <1>4, NatSetInduction, FS_CardinalityType
<1>6. Ordered(S)
  BY <1>5
<1> QED
  BY <1>6, SumIsPartialSum DEF F, G

-----------------------------------------------------------------------------
(***************************************************************************)
(* The throughput of a second.                                             *)
(***************************************************************************)
FreshCounts ==
  \A t \in Threads : thread[t].pc \in {"created", "entry"} =>
    timing[RunOf(t)][CoreOf(t)] = 0

SampleBelow ==
  \A w \in Writers : writer[w].pc \in {"wake", "sample"} =>
    last[w] \in Nat /\ last[w] <= Total

CountInv == ServedInv /\ FreshCounts /\ SampleBelow

\* The total is a number, and the batches of a second only add to it.
LEMMA TotalGrows ==
  ASSUME TypeInv, TypeInv', sbi' = sbi, sbi.arrays \in Runs,
         \A c \in Cores : timing[sbi.arrays][c] <= timing'[sbi.arrays][c]
  PROVE  Total \in Nat /\ Total' \in Nat /\ Total <= Total'
<1> DEFINE S == {c \in Cores : c < sbi.worker_cnt}
           f == timing[sbi.arrays]
           g == timing'[sbi.arrays]
<1>1. IsFiniteSet(S)
  <2>1. IsFiniteSet(Cores)
    BY FS_Interval, Bounds DEF Cores
  <2>2. S \in SUBSET Cores
    OBVIOUS
  <2> HIDE DEF S
  <2> QED
    BY <2>1, <2>2, FS_Subset
<1>2. \A c \in S : f[c] \in Nat /\ g[c] \in Nat /\ f[c] <= g[c]
  BY Typed, Bounds DEF TypeInv, TypeOK
<1>3. Total = SumFunctionOnSet(f, S) /\ Total' = SumFunctionOnSet(g, S)
  BY DEF Total
<1> HIDE DEF S, f, g
<1> QED
  BY <1>1, <1>2, <1>3, SumGrows

\* A counter is zero until its worker starts.
LEMMA FreshNext ==
  ASSUME Served, CountInv, [Next]_vars, ServedInv'
  PROVE  FreshCounts'
<1> USE DEF CountInv, FreshCounts
<1>1. \A t \in Threads : t = <<RunOf(t), CoreOf(t)>> /\ RunOf(t) \in Runs /\ CoreOf(t) \in Cores
  BY DEF Threads, RunOf, CoreOf
<1>2. CASE \E w \in Writers : WriteCommand(w)
  BY <1>2 DEF WriteCommand
<1>3. ASSUME NEW w \in Writers, WriterStep(w) PROVE FreshCounts'
  <2>1. CASE AllocArrays(w)
    <3>1. \A c \in Cores : thread[<<issued, c>>].pc = "none"
      BY <1>3, <2>1, ServedAlone, WriterMoves DEF ServedInv, CoreInv, At, EarlyPc
    <3>2. \A r \in Runs : r # issued => timing'[r] = timing[r]
      BY <1>3, <2>1, ServedAlone, Typed DEF ServedInv, AllocArrays
    <3>3. thread' = thread
      BY <1>3, <2>1, WriterMoves DEF ServedInv
    <3> QED
      BY <1>1, <3>1, <3>2, <3>3
  <2>2. CASE CreateWorker(w)
    <3> DEFINE i == writer[w].i
               t == <<issued, i>>
    <3>1. writer[w].run = issued /\ sbi.arrays = issued /\ issued \in Runs
      BY <1>3, <2>2, ServedAlone, WriterMoves DEF ServedInv, OneCommand, AllocatedPc, PcIs
    <3>2. i \in Cores
      <4>1. writer[w] \in WriterRecord /\ i < writer[w].cnt
        BY <1>3, <2>2, ServedAlone, WriterMoves DEF ServedInv
      <4> QED
        BY <4>1, Bounds DEF WriterRecord, Cores
    <3>3. /\ timing' = [timing EXCEPT ![issued][i] = 0]
          /\ thread' = [thread EXCEPT ![t] = [NewThread EXCEPT !.pc = "created"]]
      BY <2>2, <3>1 DEF CreateWorker, InitialCount
    <3> SUFFICES ASSUME NEW u \in Threads, thread'[u].pc \in {"created", "entry"}
                 PROVE  timing'[RunOf(u)][CoreOf(u)] = 0
      OBVIOUS
    <3>4. CASE u = t
      BY <3>1, <3>2, <3>3, <3>4, Typed DEF ServedInv, RunOf, CoreOf
    <3>5. CASE u # t
      <4>1. thread'[u] = thread[u]
        BY <3>3, <3>5, Typed DEF ServedInv
      <4>2. RunOf(u) # issued \/ CoreOf(u) # i
        BY <1>1, <3>5
      <4> HIDE DEF i, t
      <4>3. timing'[RunOf(u)][CoreOf(u)] = timing[RunOf(u)][CoreOf(u)]
        BY <1>1, <3>1, <3>2, <3>3, <4>2, Typed DEF ServedInv
      <4> QED
        BY <4>1, <4>3
    <3> QED
      BY <3>4, <3>5
  <2>3. CASE ~AllocArrays(w) /\ ~CreateWorker(w)
    <3>1. timing' = timing
      BY <1>3, <2>3, WriterMoves DEF ServedInv, WriterStep
    <3>2. SameView
      BY <1>3, <2>3, WriterMoves, WakingKeepsView
      DEF ServedInv, WriterStep, LaunchSingle, WakeWorker, StopWorker
    <3> QED
      BY <3>1, <3>2 DEF SameView
  <2> QED
    BY <2>1, <2>2, <2>3
<1>4. ASSUME NEW t \in Threads, ThreadStep(t) PROVE FreshCounts'
  <2>1. /\ \A u \in Threads : u # t => thread'[u] = thread[u]
        /\ thread'[t].pc \in {"created", "entry"} => thread[t].pc = "created" /\ timing' = timing
    BY <1>4, ThreadMoves DEF ServedInv, BandwidthBatch, At
  <2>2. CASE timing' = timing
    BY <2>1, <2>2
  <2>3. CASE BandwidthBatch(t)
    <3>1. thread[t].arrays = RunOf(t) /\ thread[t].pc = "batch"
      BY <2>3 DEF BandwidthBatch, ServedInv, OwnArrays, Measuring, At, MultiJobs
    <3>2. timing' = [timing EXCEPT ![RunOf(t)][CoreOf(t)] = Counted(@)]
      BY <2>3, <3>1 DEF BandwidthBatch
    <3>3. \A u \in Threads : u # t =>
            timing'[RunOf(u)][CoreOf(u)] = timing[RunOf(u)][CoreOf(u)]
      <4> SUFFICES ASSUME NEW u \in Threads, u # t
                   PROVE  timing'[RunOf(u)][CoreOf(u)] = timing[RunOf(u)][CoreOf(u)]
        OBVIOUS
      <4>1. RunOf(u) # RunOf(t) \/ CoreOf(u) # CoreOf(t)
        BY <1>1
      <4> QED
        BY <1>1, <3>2, <4>1, Typed DEF ServedInv
    <3>4. thread'[t].pc \notin {"created", "entry"}
      BY <2>1, <3>1
    <3> QED
      BY <2>1, <3>3, <3>4
  <2> QED
    BY <1>4, <2>2, <2>3, ThreadMoves DEF ServedInv
<1>5. CASE UNCHANGED vars
  BY <1>5 DEF vars
<1> QED
  BY <1>2, <1>3, <1>4, <1>5 DEF Next

\* The previous total stays below the present one.
LEMMA SampleNext ==
  ASSUME Served, CountInv, [Next]_vars, ServedInv'
  PROVE  SampleBelow'
<1> SUFFICES ASSUME NEW w \in Writers, writer'[w].pc \in {"wake", "sample"}
             PROVE  last'[w] \in Nat /\ last'[w] <= Total'
  BY DEF SampleBelow
<1> USE DEF CountInv
<1>1. TypeInv /\ TypeInv'
  BY DEF ServedInv
<1>2. CASE \E v \in Writers : WriteCommand(v)
  <2>1. PICK v \in Writers : WriteCommand(v)
    BY <1>2
  <2>2. /\ writer[w].pc = "idle" /\ writer'[v].pc = "defaults"
        /\ v # w => writer'[w] = writer[w]
    BY <2>1, <1>1, Typed DEF WriteCommand, ClientReady, Served, Becomes, IdleWriter, PcIs
  <2> QED
    BY <2>2
<1>3. ASSUME NEW v \in Writers, WriterStep(v)
      PROVE  last'[w] \in Nat /\ last'[w] <= Total'
  <2>1. v = w
    BY <1>3, ServedAlone
  <2>2. \/ EnterMonitor(w) \/ WakeWorker(w) \/ WorkersWoken(w) \/ Sample(w)
    BY <1>3, <2>1, <1>1, WriterMoves DEF WriterStep
  <2>3. sbi' = sbi /\ timing' = timing /\ writer[w].pc \in AllocatedPc
    BY <2>1, <2>2, <1>3, <1>1, WriterMoves DEF AllocatedPc
  <2>4. sbi.arrays \in Runs
    BY <2>3, <1>1, Typed DEF WriterInv
  <2>5. \A c \in Cores : timing[sbi.arrays][c] <= timing'[sbi.arrays][c]
    BY <2>3, <2>4, <1>1, Typed, Bounds
  <2>6. Total \in Nat /\ Total' = Total
    <3>1. Total \in Nat
      BY <1>1, <2>3, <2>4, <2>5, TotalGrows
    <3> QED
      BY <2>3, <3>1 DEF Total
  <2>7. CASE WakeWorker(w) \/ WorkersWoken(w)
    <3>1. last' = last /\ writer[w].pc \in {"wake", "sample"}
      BY <1>3, <2>1, <2>7, <1>1, WriterMoves
    <3> QED
      BY <2>6, <3>1 DEF SampleBelow
  <2>8. DOMAIN last = Writers
    BY <1>1 DEF TypeInv, TypeOK
  <2>9. CASE EnterMonitor(w)
    BY <2>6, <2>8, <2>9 DEF EnterMonitor
  <2>10. CASE Sample(w)
    BY <2>6, <2>8, <2>10 DEF Sample
  <2> QED
    BY <2>2, <2>7, <2>9, <2>10
<1>4. ASSUME NEW t \in Threads, ThreadStep(t)
      PROVE  last'[w] \in Nat /\ last'[w] <= Total'
  <2>1. UNCHANGED <<sbi, writer, last>>
    BY <1>4, <1>1, ThreadMoves
  <2>2. sbi.arrays \in Runs
    BY <2>1, <1>1, Typed DEF WriterInv, AllocatedPc
  <2>3. \A c \in Cores : timing[sbi.arrays][c] <= timing'[sbi.arrays][c]
    <3>1. \A r \in Runs, c \in Cores : timing[r][c] \in 0 .. MaxBatch
      BY <1>1, Typed
    <3>2. CASE timing' = timing
      BY <2>2, <3>1, <3>2, Bounds
    <3>3. CASE BandwidthBatch(t)
      <4> DEFINE a == thread[t].arrays
                 b == CoreOf(t)
      <4>1. timing' = [timing EXCEPT ![a][b] = Counted(@)]
        BY <3>3 DEF BandwidthBatch
      <4> HIDE DEF a, b
      <4>2. \A r \in Runs, c \in Cores :
              timing'[r][c] = timing[r][c] \/ timing'[r][c] = Counted(timing[r][c])
        BY <4>1, <1>1, Typed
      <4>3. \A r \in Runs, c \in Cores : timing[r][c] <= Counted(timing[r][c])
        BY <3>1, Bounds DEF Counted
      <4> QED
        BY <2>2, <3>1, <4>2, <4>3, Bounds
    <3> QED
      BY <1>4, <1>1, <3>2, <3>3, ThreadMoves
  <2>4. Total \in Nat /\ Total' \in Nat /\ Total <= Total'
    BY <1>1, <2>1, <2>2, <2>3, TotalGrows
  <2>5. last[w] \in Nat /\ last[w] <= Total
    BY <2>1 DEF SampleBelow
  <2> QED
    BY <2>1, <2>4, <2>5
<1>5. CASE UNCHANGED vars
  <2>1. UNCHANGED <<sbi, timing, writer, last>>
    BY <1>5 DEF vars
  <2> QED
    BY <2>1 DEF SampleBelow, Total
<1> QED
  BY <1>2, <1>3, <1>4, <1>5 DEF Next

\* The throughput a monitored command prints for a second is made of its own
\* workers' batches: a counter is zero until its worker starts, whatever
\* kmalloc returned, and no sample is above the next.
THEOREM ServedThroughput ==
  ASSUME Served
  PROVE  Spec => []ThroughputOfThisRun
<1>1. Init => CountInv
  <2> SUFFICES ASSUME Init PROVE CountInv
    OBVIOUS
  <2>1. \A t \in Threads : thread[t].pc = "none"
    BY DEF Init, NewThread
  <2>2. \A w \in Writers : writer[w].pc = "idle"
    BY DEF Init, IdleWriter
  <2> QED
    BY <2>1, <2>2, ServedInit DEF CountInv, FreshCounts, SampleBelow
<1>2. CountInv /\ [Next]_vars => CountInv'
  BY ServedNext, FreshNext, SampleNext DEF CountInv
<1>3. CountInv => ThroughputOfThisRun
  BY DEF CountInv, FreshCounts, SampleBelow, ThroughputOfThisRun, PcIs
<1> QED
  BY <1>1, <1>2, <1>3, PTL DEF Spec

-----------------------------------------------------------------------------
(***************************************************************************)
(* A script's commands implement BenchmarkContract, its safety part: the   *)
(* steps of the handler are stutters of the contract, and each turn of a   *)
(* thread's program counter is one of its steps.                           *)
(***************************************************************************)

\* A thread that does not exist yet holds no parameters.
NoneUsesNothing == \A t \in Threads : At(t, "none") => thread[t].params = 0

ContractInv == ScriptInv /\ ServedInv /\ NoneUsesNothing

\* The contract's state is a function of the threads' counters and parameters.
LEMMA ContractOfView ==
  ASSUME \A t \in Threads : /\ \/ thread'[t].pc = thread[t].pc
                               \/ thread[t].pc = "none" /\ thread'[t].pc = "created"
                            /\ thread'[t].params = thread[t].params
  PROVE  UNCHANGED Contract!vars
<1>1. Measuring' = Measuring
  BY DEF Measuring
<1>2. Done' = Done
  BY DEF Done
<1> QED
  BY <1>1, <1>2 DEF Contract!vars

\* The steps of the handler, and a new command.
LEMMA ContractWriter ==
  ASSUME ContractInv, NEW w \in Writers, WriteCommand(w) \/ WriterStep(w)
  PROVE  UNCHANGED Contract!vars /\ NoneUsesNothing'
<1>1. TypeInv
  BY DEF ContractInv, ServedInv
<1>2. CASE CreateWorker(w)
  <2> DEFINE t == <<writer[w].run, writer[w].i>>
  <2>1. /\ writer[w].run = issued /\ writer[w].pc = "create"
        /\ writer[w].i < writer[w].cnt /\ writer[w] \in WriterRecord
        /\ \A c \in Cores : CoreInv(w, c) /\ <<issued, c>> \in Threads
    BY <1>1, <1>2, WriterMoves, ServedAlone DEF ContractInv, WriterStep
  <2>2. writer[w].i \in Cores /\ writer[w].i \in Nat
    BY <2>1, Bounds DEF WriterRecord, Cores
  <2>3. t \in Threads /\ thread[t].pc = "none"
    BY <2>1, <2>2 DEF CoreInv, Hired, PcIs, At, AllocatedPc
  <2>4. /\ thread'[t].pc = "created" /\ thread'[t].params = 0
        /\ \A u \in Threads : u # t => thread'[u] = thread[u]
    BY <1>1, <1>2, <2>3, Typed DEF CreateWorker, NewThread
  <2>5. thread[t].params = 0
    BY <2>3 DEF ContractInv, NoneUsesNothing, At
  <2> HIDE DEF t
  <2> QED
    BY <2>3, <2>4, <2>5, ContractOfView DEF ContractInv, NoneUsesNothing, At
<1>3. CASE ~CreateWorker(w)
  <2>1. SameView
    BY <1>1, <1>3, WriterMoves, WakingKeepsView
    DEF WriterStep, LaunchSingle, WakeWorker, StopWorker, WriteCommand
  <2> QED
    BY <2>1, ContractOfView DEF SameView, ContractInv, NoneUsesNothing, At
<1> QED
  BY <1>2, <1>3

\* The steps of a thread.
LEMMA ContractThread ==
  ASSUME ContractInv, NEW t \in Threads, ThreadStep(t)
  PROVE  [Contract!Next]_(Contract!vars) /\ NoneUsesNothing'
<1> DEFINE uses == [u \in Threads |-> thread[u].params]
<1>1. TypeInv /\ thread[t] \in ThreadRecord
  BY Typed DEF ContractInv, ServedInv
<1>2. /\ \A u \in Threads : u # t => thread'[u] = thread[u]
      /\ thread[t].pc # "none" /\ thread'[t].pc # "none"
  BY <1>1, ThreadMoves
<1>3. NoneUsesNothing'
  BY <1>2 DEF ContractInv, NoneUsesNothing, At
<1>4. t \in Contract!Workers /\ t[1] = RunOf(t)
  BY DEF Contract!Workers, Threads, RunOf
<1>5. \A u \in Threads : u # t =>
        /\ (u \in Measuring' <=> u \in Measuring) /\ (u \in Done' <=> u \in Done)
        /\ uses'[u] = uses[u]
  BY <1>2 DEF Measuring, Done
<1>6. Measuring \subseteq Threads /\ Measuring' \subseteq Threads
      /\ Done \subseteq Threads /\ Done' \subseteq Threads
  BY DEF Measuring, Done
<1>m. (t \in Measuring' <=> t \in Measuring) => Measuring' = Measuring
  BY <1>2 DEF Measuring
<1>d. (t \in Done' <=> t \in Done) => Done' = Done
  BY <1>2 DEF Done
<1>7. uses' = uses \/ uses' = [uses EXCEPT ![t] = thread'[t].params]
  BY <1>5
<1>8. thread'[t].params = thread[t].params => uses' = uses
  BY <1>5
<1>n. \A u \in Threads : Contract!Begin(u) \/ Contract!End(u) \/ Contract!Skip(u) => Contract!Next
  BY DEF Contract!Next, Contract!Workers, Threads
<1>9. CASE t \notin Measuring /\ t \notin Done /\ t \in Measuring'
  <2>1. ReadParams(t) /\ At(t, "entry")
    BY <1>1, <1>9, ThreadMoves DEF Measuring, Done, At
  <2>2. /\ t \in Pending /\ RunOf(t) = issued
        /\ thread'[t].params = issued
    BY <1>1, <2>1, ThreadMoves DEF Pending, At, ContractInv, ScriptInv, PendingIsLatest
  <2>3. \A u \in Measuring : u[1] = t[1]
    BY <1>4, <2>2 DEF Measuring, Pending, RunOf, ContractInv, ScriptInv, PendingIsLatest
  <2>4. \A u \in Done : u[1] <= t[1]
    <3> SUFFICES ASSUME NEW u \in Done PROVE u[1] <= issued
      BY <1>4, <2>2
    <3>1. ~(RunOf(u) > issued) /\ RunOf(u) \in Runs
      BY DEF Done, ContractInv, ServedInv, Unborn, At, Threads, RunOf
    <3>2. issued \in Nat
      BY <1>1, Typed, Bounds
    <3> QED
      BY <3>1, <3>2 DEF RunOf, Runs
  <2>5. Measuring' = Measuring \cup {t} /\ Done' = Done
    BY <1>5, <1>6, <1>9 DEF Measuring, Done
  <2>6. uses' = [uses EXCEPT ![t] = t[1]]
    BY <1>4, <1>5, <2>2
  <2>7. Contract!Begin(t)
    BY <1>9, <2>3, <2>4, <2>5, <2>6 DEF Contract!Begin
  <2> QED
    BY <1>3, <1>n, <2>7
<1>10. CASE t \in Measuring
  <2>1. thread'[t].params = thread[t].params
    BY <1>1, <1>10, ThreadMoves DEF Measuring, ReadParams, At
  <2>2. CASE t \in Measuring'
    <3>1. Measuring' = Measuring /\ Done' = Done
      BY <1>5, <1>6, <1>10, <2>2 DEF Measuring, Done
    <3> QED
      BY <1>3, <1>8, <2>1, <3>1 DEF Contract!vars
  <2>3. CASE t \notin Measuring'
    <3>1. t \in Done'
      BY <1>1, <1>10, <2>3, ThreadMoves DEF Measuring, Done
    <3>2. Measuring' = Measuring \ {t} /\ Done' = Done \cup {t}
      BY <1>5, <1>6, <2>3, <3>1
    <3>3. Contract!End(t)
      BY <1>8, <1>10, <2>1, <3>2 DEF Contract!End
    <3> QED
      BY <1>3, <1>n, <3>3
  <2> QED
    BY <2>2, <2>3
<1>11. CASE t \in Done
  <2>1. thread'[t].params = thread[t].params /\ t \in Done' /\ t \notin Measuring /\ t \notin Measuring'
    BY <1>1, <1>11, ThreadMoves DEF Done, Measuring, ReadParams, At
  <2>2. Measuring' = Measuring
    BY <1>m, <2>1
  <2>3. Done' = Done
    BY <1>d, <1>11, <2>1
  <2> QED
    BY <1>3, <1>8, <2>1, <2>2, <2>3 DEF Contract!vars
<1>12. CASE t \notin Measuring /\ t \notin Done /\ t \notin Measuring'
  <2>1. CASE t \notin Done'
    <3>1. thread'[t].params = thread[t].params
      BY <1>1, <1>12, <2>1, ThreadMoves DEF Measuring, Done, ReadParams, At
    <3>2. Measuring' = Measuring
      BY <1>m, <1>12
    <3>3. Done' = Done
      BY <1>d, <1>12, <2>1
    <3> QED
      BY <1>3, <1>8, <3>1, <3>2, <3>3 DEF Contract!vars
  <2>2. CASE t \in Done'
    <3>1. Measuring' = Measuring /\ Done' = Done \cup {t}
      BY <1>5, <1>6, <1>12, <2>2
    <3>2. uses' = uses \/ uses' = [uses EXCEPT ![t] = t[1]]
      <4>1. CASE ReadParams(t)
        <5>1. thread'[t].params = RunOf(t)
          BY <1>1, <4>1, ThreadMoves
          DEF ReadParams, Pending, At, ContractInv, ScriptInv, PendingIsLatest
        <5> QED
          BY <1>4, <1>7, <5>1
      <4>2. CASE ~ReadParams(t)
        BY <1>1, <1>8, <4>2, ThreadMoves
      <4> QED
        BY <4>1, <4>2
    <3>3. Contract!Skip(t)
      BY <1>12, <3>1, <3>2 DEF Contract!Skip
    <3> QED
      BY <1>3, <1>n, <3>3
  <2> QED
    BY <2>1, <2>2
<1> QED
  BY <1>9, <1>10, <1>11, <1>12

\* When a script writes the commands, every behaviour of the module is one of
\* the contract's: each worker measures at most once, with its own command's
\* parameters, never beside a worker of another command nor after one of a
\* later command.
THEOREM ScriptKeepsContract ==
  ASSUME Client = "script"
  PROVE  Spec => Contract!Init /\ [][Contract!Next]_(Contract!vars)
<1>s. Served
  BY DEF Served
<1>1. Init => ContractInv
  <2> SUFFICES ASSUME Init PROVE NoneUsesNothing
    BY ScriptInit, ServedInit DEF ContractInv
  <2> QED
    BY DEF Init, NewThread, NoneUsesNothing
<1>2. ContractInv /\ [Next]_vars => ContractInv' /\ [Contract!Next]_(Contract!vars)
  <2> SUFFICES ASSUME ContractInv, [Next]_vars
               PROVE  NoneUsesNothing' /\ [Contract!Next]_(Contract!vars)
    BY <1>s, ScriptNext, ServedNext DEF ContractInv
  <2>1. CASE \E w \in Writers : WriteCommand(w) \/ WriterStep(w)
    BY <2>1, ContractWriter
  <2>2. CASE \E t \in Threads : ThreadStep(t)
    BY <2>2, ContractThread
  <2>3. CASE UNCHANGED vars
    <3>1. thread' = thread
      BY <2>3 DEF vars
    <3> QED
      BY <3>1, ContractOfView DEF ContractInv, NoneUsesNothing, At
  <2> QED
    BY <2>1, <2>2, <2>3 DEF Next
<1>3. Init => Contract!Init
  <2> SUFFICES ASSUME Init PROVE Contract!Init
    OBVIOUS
  <2>1. \A t \in Threads : thread[t].pc = "none" /\ thread[t].params = 0
    BY DEF Init, NewThread
  <2> QED
    BY <2>1 DEF Contract!Init, Contract!Workers, Measuring, Done, Threads
<1> QED
  BY <1>1, <1>2, <1>3, PTL DEF Spec
=============================================================================
