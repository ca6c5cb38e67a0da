------------------------------ MODULE LatTester ------------------------------
(***************************************************************************)
(* The life of a benchmark command in the latfs kernel module: a process   *)
(* writes a line to /proc/lattester (proc.c), the handler overwrites the   *)
(* parameters of the one shared latency_sbi, allocates fresh worker        *)
(* arrays, creates and wakes kernel threads (lat.c), and for the bandwidth *)
(* tasks samples their counters every second and stops them.  The workers  *)
(* (tasks.c) read the shared parameters when they first run, loop over     *)
(* batches, and wait to be stopped.                                        *)
(*                                                                         *)
(* Each command gets a number, its run.  Run r's worker on core c is the   *)
(* thread <<r, c>>, and r also names the arrays that latencyfs_new_threads *)
(* allocated for it.  The value of a parameter is abstracted to the run    *)
(* whose command wrote it (0: the defaults of proc.c).                     *)
(*                                                                         *)
(* Bounds: MaxRun commands are written in all, a worker's counter          *)
(* saturates at MaxBatch batches, and the eight rounds of imcprobe_job are *)
(* ProbeRounds.                                                            *)
(***************************************************************************)
EXTENDS Naturals, Functions

CONSTANTS
  Writers,      \* processes that write to /proc/lattester
  Commands,     \* the lines they may write
  Client,       \* when a line is written: "script", "serial" or "concurrent"
  MaxThreads,   \* LFS_THREAD_MAX - 1: the largest accepted parallel=
  MaxRun,       \* bound: commands written in a behaviour
  MaxBatch,     \* bound: a counter saturates here
  ProbeRounds,  \* rounds of imcprobe_job
  DefaultRuntime

Cores == 0 .. MaxThreads - 1
Runs == 1 .. MaxRun
Threads == Runs \X Cores
NoThread == <<0, 0>>

RunOf(t) == t[1]
CoreOf(t) == t[2]

(***************************************************************************)
(* What matters of a task: setup_singlethread_op wakes one worker and      *)
(* returns, setup_multithread_op monitors.  "latency" stands for tasks 1,  *)
(* 2, 5, 6 and 7 (6 while RDRAND answers: ChasingIndex has its failure),   *)
(* "bandwidth" for 3, 8, 9 and 12, whose jobs have the same control;       *)
(* "sizebw" (4) is apart because it returns at once on most alignments.    *)
(***************************************************************************)
SingleJobs == {"latency", "cacheprobe"}
MultiJobs == {"bandwidth", "sizebw", "imcprobe"}

Command == [job : SingleJobs \cup MultiJobs, threads : 1 .. MaxThreads,
            runtime : Nat \ {0}, aligned : BOOLEAN, valid : BOOLEAN]

ASSUME ConstantsAssumption ==
  /\ MaxThreads \in Nat \ {0}
  /\ MaxRun \in Nat
  /\ MaxBatch \in Nat \ {0}
  /\ ProbeRounds \in Nat \ {0}
  /\ DefaultRuntime \in Nat \ {0}
  /\ Commands \subseteq Command /\ Commands # {}
  /\ Client \in {"script", "serial", "concurrent"}

VARIABLES
  sbi,      \* the shared latency_sbi: params, worker_cnt, and the arrays
  workers,  \* sbi->workers of each run: the task_struct pointers
  timing,   \* sbi->timing of each run: the batches each worker has counted
  issued,   \* the number of commands written so far
  command,  \* the command of each run
  writer,   \* the state of each process inside latencyfs_proc_write
  last,     \* its local of that name: the total at the previous sample
  thread    \* the state of each kernel thread

vars == <<sbi, workers, timing, issued, command, writer, last, thread>>

WriterPc == {"idle", "defaults", "options", "start", "alloc", "create",
             "launch", "monitor", "wake", "sample", "stop", "join"}
ThreadPc == {"none", "created", "entry", "batch", "check",
             "set", "test", "sched", "exited"}

SbiRecord == [params : 0 .. MaxRun, worker_cnt : 0 .. MaxThreads, arrays : 0 .. MaxRun]
WriterRecord == [pc : WriterPc, run : 0 .. MaxRun, cnt : 0 .. MaxThreads,
                 i : 0 .. MaxThreads, runtime : Nat, elapsed : Nat,
                 target : Threads \cup {NoThread}]
ThreadRecord == [pc : ThreadPc, state : {"NEW", "RUNNING", "INTERRUPTIBLE"},
                 stop : BOOLEAN, params : 0 .. MaxRun, arrays : 0 .. MaxRun,
                 round : 0 .. ProbeRounds]

\* A total is a sum of counters; ThroughputOfThisRun is about its value.
TypeOK ==
  /\ sbi \in SbiRecord
  /\ workers \in [Runs -> [Cores -> Threads \cup {NoThread}]]
  /\ timing \in [Runs -> [Cores -> 0 .. MaxBatch]]
  /\ issued \in 0 .. MaxRun
  /\ command \in [Runs -> Command]
  /\ writer \in [Writers -> WriterRecord]
  /\ DOMAIN last = Writers
  /\ thread \in [Threads -> ThreadRecord]
-----------------------------------------------------------------------------
IdleWriter == [pc |-> "idle", run |-> 0, cnt |-> 0, i |-> 0, runtime |-> 0,
               elapsed |-> 0, target |-> NoThread]
NewThread == [pc |-> "none", state |-> "NEW", stop |-> FALSE, params |-> 0,
              arrays |-> 0, round |-> 0]

Init ==
  /\ sbi = [params |-> 0, worker_cnt |-> 0, arrays |-> 0]
  /\ workers = [r \in Runs |-> [c \in Cores |-> NoThread]]
  /\ timing = [r \in Runs |-> [c \in Cores |-> 0]]
  /\ issued = 0
  /\ command = [r \in Runs |-> CHOOSE c \in Commands : TRUE]
  /\ writer = [w \in Writers |-> IdleWriter]
  /\ last = [w \in Writers |-> 0]
  /\ thread = [t \in Threads |-> NewThread]

JobOf(r) == command[r].job
PcIs(w, pc) == writer[w].pc = pc
Becomes(w, wr) == writer' = [writer EXCEPT ![w] = wr]
At(t, pc) == thread[t].pc = pc

\* A worker that has been created and has not yet done its work.
Pending == {t \in Threads : thread[t].pc \in {"created", "entry", "batch", "check"}}
\* A worker that is between its first and its last access to the medium.
Measuring == {t \in Threads : thread[t].pc \in {"batch", "check"}}
\* A worker that has read its parameters.
Started == {t \in Threads : thread[t].pc \notin {"none", "created", "entry"}}
-----------------------------------------------------------------------------
(***************************************************************************)
(* The command's side: latencyfs_proc_write, _parse_cmd and _start_task.   *)
(***************************************************************************)

\* Mutant: the poll matched the LATTester_LAT_END of an earlier run.
ClientReadyStaleLog == \A w \in Writers : PcIs(w, "idle")

\* When a line may be written.  A script writes one at a time and polls the
\* log for the result of a single-thread task before the next; a serial
\* client only waits for write() to return.
ClientReady ==
  CASE Client = "script" -> (\A w \in Writers : PcIs(w, "idle")) /\ Pending = {}
    [] Client = "serial" -> \A w \in Writers : PcIs(w, "idle")
    [] Client = "concurrent" -> TRUE

WriteCommand(w) ==
  /\ PcIs(w, "idle")
  /\ ClientReady
  /\ issued < MaxRun
  /\ issued' = issued + 1
  /\ \E c \in Commands : command' = [command EXCEPT ![issued + 1] = c]
  /\ Becomes(w, [IdleWriter EXCEPT !.pc = "defaults", !.run = issued + 1])
  /\ UNCHANGED <<sbi, workers, timing, thread, last>>

\* The defaults go to the shared sbi before a single option is parsed.
SetDefaults(w) ==
  /\ PcIs(w, "defaults")
  /\ sbi' = [sbi EXCEPT !.params = 0]
  /\ Becomes(w, [writer[w] EXCEPT !.pc = "options"])
  /\ UNCHANGED <<workers, timing, issued, command, thread, last>>

\* The options follow, and only then the sanity checks: a rejected command
\* leaves its parameters behind.
SetOptions(w) ==
  /\ PcIs(w, "options")
  /\ sbi' = [sbi EXCEPT !.params = writer[w].run]
  /\ Becomes(w, [writer[w] EXCEPT !.pc =
                   IF command[writer[w].run].valid THEN "start" ELSE "idle"])
  /\ UNCHANGED <<workers, timing, issued, command, thread, last>>

\* LATTester_START, then worker_cnt by the kind of task.
StartTask(w) ==
  /\ PcIs(w, "start")
  /\ LET c == command[writer[w].run] IN
     sbi' = [sbi EXCEPT !.worker_cnt = IF c.job \in SingleJobs THEN 1 ELSE c.threads]
  /\ Becomes(w, [writer[w] EXCEPT !.pc = "alloc"])
  /\ UNCHANGED <<workers, timing, issued, command, thread, last>>
-----------------------------------------------------------------------------
(***************************************************************************)
(* latencyfs_new_threads.                                                  *)
(***************************************************************************)

\* The three kmallocs replace the previous arrays, which nobody frees.  The
\* new counters hold whatever the allocator returned.
AllocArrays(w) ==
  LET r == writer[w].run IN
  /\ PcIs(w, "alloc")
  /\ sbi' = [sbi EXCEPT !.arrays = r]
  /\ \E garbage \in {0, MaxBatch} :
       timing' = [timing EXCEPT ![r] = [c \in Cores |-> garbage]]
  /\ Becomes(w, [writer[w] EXCEPT !.pc = "create", !.cnt = sbi.worker_cnt, !.i = 0])
  /\ UNCHANGED <<workers, issued, command, thread, last>>

\* Mutant: the counter is left as kmalloc returned it.
InitialCountKept(v) == v

\* The value timing[i] has when its worker is created.
InitialCount(v) == 0

\* One turn of the creation loop: reset the counter, create and bind.
CreateWorker(w) ==
  LET i == writer[w].i
      t == <<writer[w].run, i>> IN
  /\ PcIs(w, "create")
  /\ i < writer[w].cnt
  /\ timing' = [timing EXCEPT ![sbi.arrays][i] = InitialCount(@)]
  /\ workers' = [workers EXCEPT ![sbi.arrays][i] = t]
  /\ thread' = [thread EXCEPT ![t] = [NewThread EXCEPT !.pc = "created"]]
  /\ Becomes(w, [writer[w] EXCEPT !.i = i + 1])
  /\ UNCHANGED <<sbi, issued, command, last>>

WorkersCreated(w) ==
  /\ PcIs(w, "create")
  /\ writer[w].i = writer[w].cnt
  /\ Becomes(w, [writer[w] EXCEPT !.i = 0, !.pc =
                   IF JobOf(writer[w].run) \in SingleJobs THEN "launch" ELSE "monitor"])
  /\ UNCHANGED <<sbi, workers, timing, issued, command, thread, last>>

\* wake_up_process: a task that has not run yet or sleeps becomes runnable.
Woken(th) == [th EXCEPT !.state = "RUNNING"]

\* Mutant: the single worker is never woken.
LaunchSingleAsleep(w) ==
  /\ PcIs(w, "launch")
  /\ Becomes(w, IdleWriter)
  /\ UNCHANGED <<sbi, workers, timing, issued, command, thread, last>>

\* The end of setup_singlethread_op: one wake-up, LATTester_END, return.
LaunchSingle(w) ==
  LET t == workers[sbi.arrays][0] IN
  /\ PcIs(w, "launch")
  /\ thread' = [thread EXCEPT ![t] = Woken(@)]
  /\ Becomes(w, IdleWriter)
  /\ UNCHANGED <<sbi, workers, timing, issued, command, last>>
-----------------------------------------------------------------------------
(***************************************************************************)
(* latencyfs_monitor_threads and latencyfs_stop_threads.                   *)
(***************************************************************************)
RuntimeOf(r) == IF r = 0 THEN DefaultRuntime ELSE command[r].runtime

\* The runtime is read once; then the random buffer is filled.
EnterMonitor(w) ==
  /\ PcIs(w, "monitor")
  /\ Becomes(w, [writer[w] EXCEPT !.pc = "wake", !.i = 0, !.elapsed = 0,
                                   !.runtime = RuntimeOf(sbi.params)])
  /\ last' = [last EXCEPT ![w] = 0]
  /\ UNCHANGED <<sbi, workers, timing, issued, command, thread>>

WakeWorker(w) ==
  LET i == writer[w].i
      t == workers[sbi.arrays][i] IN
  /\ PcIs(w, "wake")
  /\ i < sbi.worker_cnt
  /\ thread' = [thread EXCEPT ![t] = Woken(@)]
  /\ Becomes(w, [writer[w] EXCEPT !.i = i + 1])
  /\ UNCHANGED <<sbi, workers, timing, issued, command, last>>

WorkersWoken(w) ==
  /\ PcIs(w, "wake")
  /\ writer[w].i >= sbi.worker_cnt
  /\ Becomes(w, [writer[w] EXCEPT !.pc = "sample"])
  /\ UNCHANGED <<sbi, workers, timing, issued, command, thread, last>>

Total == SumFunctionOnSet(timing[sbi.arrays], {c \in Cores : c < sbi.worker_cnt})

\* After a second of sleep: print (total - last) and keep total.
Sample(w) ==
  /\ PcIs(w, "sample")
  /\ writer[w].elapsed < writer[w].runtime
  /\ Becomes(w, [writer[w] EXCEPT !.elapsed = @ + 1])
  /\ last' = [last EXCEPT ![w] = Total]
  /\ UNCHANGED <<sbi, workers, timing, issued, command, thread>>

BeginStop(w) ==
  /\ PcIs(w, "sample")
  /\ writer[w].elapsed >= writer[w].runtime
  /\ Becomes(w, [writer[w] EXCEPT !.pc = "stop", !.i = 0, !.cnt = sbi.worker_cnt])
  /\ UNCHANGED <<sbi, workers, timing, issued, command, thread, last>>

\* Mutant: the flag is raised and the thread is not woken.
StopRequestedAsleep(th) == [th EXCEPT !.stop = TRUE]

\* kthread_stop, first half: raise the flag and wake the thread.
StopRequested(th) == Woken([th EXCEPT !.stop = TRUE])

StopWorker(w) ==
  LET t == workers[sbi.arrays][writer[w].i] IN
  /\ PcIs(w, "stop")
  /\ writer[w].i < writer[w].cnt
  /\ thread' = [thread EXCEPT ![t] = StopRequested(@)]
  /\ Becomes(w, [writer[w] EXCEPT !.pc = "join", !.target = t])
  /\ UNCHANGED <<sbi, workers, timing, issued, command, last>>

\* kthread_stop, second half: wait for the thread to exit.
JoinWorker(w) ==
  /\ PcIs(w, "join")
  /\ At(writer[w].target, "exited")
  /\ Becomes(w, [writer[w] EXCEPT !.pc = "stop", !.i = @ + 1, !.target = NoThread])
  /\ UNCHANGED <<sbi, workers, timing, issued, command, thread, last>>

\* LATTester_END, and the write returns.
WorkersStopped(w) ==
  /\ PcIs(w, "stop")
  /\ writer[w].i >= writer[w].cnt
  /\ Becomes(w, IdleWriter)
  /\ UNCHANGED <<sbi, workers, timing, issued, command, thread, last>>
-----------------------------------------------------------------------------
(***************************************************************************)
(* The kernel threads: kthread's own prologue, the jobs, wait_for_stop.    *)
(***************************************************************************)
ThreadBecomes(t, th) == thread' = [thread EXCEPT ![t] = th]
WorkerUnchanged == UNCHANGED <<sbi, workers, issued, command, writer, last>>

\* A thread that is woken runs its function unless it is already told to stop.
EnterThread(t) ==
  /\ At(t, "created") /\ thread[t].state = "RUNNING"
  /\ ThreadBecomes(t, [thread[t] EXCEPT !.pc = IF thread[t].stop THEN "exited" ELSE "entry"])
  /\ WorkerUnchanged /\ UNCHANGED timing

\* sizebw_job knows two of the seven alignments.
Unsupported(t) ==
  /\ JobOf(RunOf(t)) = "sizebw"
  /\ sbi.params # 0
  /\ ~command[sbi.params].aligned

\* Every job copies what it needs out of the shared sbi when it starts.
ReadParams(t) ==
  /\ At(t, "entry")
  /\ ThreadBecomes(t, [thread[t] EXCEPT !.params = sbi.params, !.arrays = sbi.arrays,
                               !.pc = IF Unsupported(t) THEN "exited" ELSE "batch"])
  /\ WorkerUnchanged /\ UNCHANGED timing

Counted(v) == IF v < MaxBatch THEN v + 1 ELSE v

\* One batch of a bandwidth job, with its counter.
BandwidthBatch(t) ==
  /\ At(t, "batch") /\ JobOf(RunOf(t)) \in {"bandwidth", "sizebw"}
  /\ timing' = [timing EXCEPT ![thread[t].arrays][CoreOf(t)] = Counted(@)]
  /\ ThreadBecomes(t, [thread[t] EXCEPT !.pc = "check"])
  /\ WorkerUnchanged

\* imcprobe_job runs eight rounds at most, the bandwidth jobs go on for ever.
Exhausted(t) == JobOf(RunOf(t)) = "imcprobe" /\ thread[t].round >= ProbeRounds

ProbeRound(t) ==
  /\ At(t, "batch") /\ JobOf(RunOf(t)) = "imcprobe" /\ ~Exhausted(t)
  /\ ThreadBecomes(t, [thread[t] EXCEPT !.pc = "check", !.round = @ + 1])
  /\ WorkerUnchanged /\ UNCHANGED timing

\* The whole latency test, its report and LATTester_LAT_END.
LatencyTest(t) ==
  /\ At(t, "batch") /\ JobOf(RunOf(t)) = "latency"
  /\ ThreadBecomes(t, [thread[t] EXCEPT !.pc = "set"])
  /\ WorkerUnchanged /\ UNCHANGED timing

\* cacheprobe_job returns without waiting.
CacheProbe(t) ==
  /\ At(t, "batch") /\ JobOf(RunOf(t)) = "cacheprobe"
  /\ ThreadBecomes(t, [thread[t] EXCEPT !.pc = "exited"])
  /\ WorkerUnchanged /\ UNCHANGED timing

\* Mutant: a job that has finished returns without wait_for_stop.
CheckStopReturns(t) ==
  /\ At(t, "check")
  /\ ThreadBecomes(t, [thread[t] EXCEPT !.pc =
                IF Exhausted(t) THEN "exited"
                ELSE IF thread[t].stop THEN "set" ELSE "batch"])
  /\ WorkerUnchanged /\ UNCHANGED timing

\* kthread_should_stop between batches; otherwise schedule() and go on.
CheckStop(t) ==
  /\ At(t, "check")
  /\ ThreadBecomes(t, [thread[t] EXCEPT !.pc =
                IF thread[t].stop \/ Exhausted(t) THEN "set" ELSE "batch"])
  /\ WorkerUnchanged /\ UNCHANGED timing

\* wait_for_stop: announce sleep, look at the flag, then sleep.
WaitSet(t) ==
  /\ At(t, "set")
  /\ ThreadBecomes(t, [thread[t] EXCEPT !.state = "INTERRUPTIBLE", !.pc = "test"])
  /\ WorkerUnchanged /\ UNCHANGED timing

WaitTest(t) ==
  /\ At(t, "test")
  /\ ThreadBecomes(t, [thread[t] EXCEPT !.pc = IF thread[t].stop THEN "exited" ELSE "sched"])
  /\ WorkerUnchanged /\ UNCHANGED timing

\* schedule() comes back once the task has been made runnable.
WaitSched(t) ==
  /\ At(t, "sched") /\ thread[t].state = "RUNNING"
  /\ ThreadBecomes(t, [thread[t] EXCEPT !.pc = "set"])
  /\ WorkerUnchanged /\ UNCHANGED timing
-----------------------------------------------------------------------------
WriterStep(w) ==
  \/ SetDefaults(w) \/ SetOptions(w) \/ StartTask(w)
  \/ AllocArrays(w) \/ CreateWorker(w) \/ WorkersCreated(w) \/ LaunchSingle(w)
  \/ EnterMonitor(w) \/ WakeWorker(w) \/ WorkersWoken(w)
  \/ Sample(w) \/ BeginStop(w) \/ StopWorker(w) \/ JoinWorker(w) \/ WorkersStopped(w)

ThreadStep(t) ==
  \/ EnterThread(t) \/ ReadParams(t)
  \/ BandwidthBatch(t) \/ ProbeRound(t) \/ LatencyTest(t) \/ CacheProbe(t)
  \/ CheckStop(t) \/ WaitSet(t) \/ WaitTest(t) \/ WaitSched(t)

Next ==
  \/ \E w \in Writers : WriteCommand(w) \/ WriterStep(w)
  \/ \E t \in Threads : ThreadStep(t)

Spec == Init /\ [][Next]_vars

\* The scheduler runs every runnable process and kernel thread; nobody is
\* obliged to write another command.
Fairness ==
  /\ \A w \in Writers : WF_vars(WriterStep(w))
  /\ \A t \in Threads : WF_vars(ThreadStep(t))

FairSpec == Spec /\ Fairness
-----------------------------------------------------------------------------
(***************************************************************************)
(* Safety.                                                                 *)
(***************************************************************************)

\* A worker measures with the parameters, and counts in the array, of the
\* command that created it: no other command writes the shared sbi between
\* its wake-up and the moment it reads sbi (tasks.c reads, proc.c writes).
OwnParams ==
  \A t \in Started : At(t, "exited") \/ (thread[t].params = RunOf(t)
                                          /\ thread[t].arrays = RunOf(t))

\* Workers of two commands never use the medium at the same time: what one
\* test measures is not disturbed by another.
ExclusiveMeasurement ==
  \A t, u \in Measuring : RunOf(t) = RunOf(u)

\* kthread_stop is never called on a task that has already exited, whose
\* task_struct the kernel may have freed (lat.c:213).
StopsOnlyLiveWorkers ==
  \A w \in Writers : PcIs(w, "stop") /\ writer[w].i < writer[w].cnt =>
    ~At(workers[sbi.arrays][writer[w].i], "exited")

\* The throughput of a second, (total - last) on unsigned integers, is that
\* of this run's batches: the counters of workers that have not started are
\* zero, whatever kmalloc returned, and the difference is never one to a
\* larger number (lat.c:187, :241).
ThroughputOfThisRun ==
  /\ \A t \in Threads : thread[t].pc \in {"created", "entry"} =>
       timing[RunOf(t)][CoreOf(t)] = 0
  /\ \A w \in Writers : PcIs(w, "sample") => last[w] <= Total

(***************************************************************************)
(* Liveness, under FairSpec.                                               *)
(***************************************************************************)

\* A write to /proc/lattester returns: kthread_stop does not wait for ever,
\* because no wake-up is lost in wait_for_stop.
CommandReturns == \A w \in Writers : ~PcIs(w, "idle") ~> PcIs(w, "idle")

\* A latency worker that was created ends its test and reports.
LatencyReports ==
  \A t \in Threads : (At(t, "created") /\ JobOf(RunOf(t)) = "latency")
                       ~> thread[t].pc \in {"set", "test", "sched", "exited"}
-----------------------------------------------------------------------------
\* The workers that have measured, and those that never will.
Done == {t \in Threads : thread[t].pc \in {"set", "test", "sched", "exited"}}

\* A series of commands implements BenchmarkContract: a worker measures when
\* it is in its batch loop, with the parameters it has read.
Contract == INSTANCE BenchmarkContract WITH
  measuring <- Measuring, done <- Done, uses <- [t \in Threads |-> thread[t].params]

\* Each command measures once per worker, with its own parameters, alone and
\* in the order of the commands, and no measurement goes on for ever.
ImplementsContract == Contract!Spec
=============================================================================
