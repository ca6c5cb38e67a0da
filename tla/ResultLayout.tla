----------------------------- MODULE ResultLayout -----------------------------
(***************************************************************************)
(* The contents of the ReportFS device: what latency_job writes there      *)
(* (tasks.c: the task info, the pool of random numbers, the result of      *)
(* every access), which other jobs write over it, and where parse_data     *)
(* looks for the results.                                                  *)
(*                                                                         *)
(* The unit is the 8-byte word.  A word is abstracted to what was written  *)
(* there: by which test, for which report, at which index.  Report n is    *)
(* the sequential test of task n, or, from TaskCount on, the random test   *)
(* of task n - TaskCount + 1 (the baseline has no random test).            *)
(*                                                                         *)
(* Tests are written one after the other, as the scripts do (LatTester);   *)
(* parse_data may be started at any time.  Bound: MaxRun commands.         *)
(***************************************************************************)
EXTENDS Naturals

CONSTANTS
  TaskCount,  \* BASIC_OPS_TASK_COUNT
  OpsCount,   \* LATENCY_OPS_COUNT
  ResultCnt,  \* the results of one call of each task's bench_func
  NameWords,  \* the 64 bytes of a name
  DataPerOp,  \* data_per_op, what read_all takes of each report
  PageWords,  \* PAGE_SIZE
  ChaseWords, \* the largest csize of init_chasing_index
  Device,     \* the words of the device
  MaxRun      \* bound: commands written in a behaviour

Tasks == 0 .. TaskCount - 1
Reports == 0 .. 2 * TaskCount - 2
Words == 0 .. Device - 1

\* The info fits before the pool, and every call fills its report evenly.
ASSUME LayoutAssumption ==
  /\ TaskCount \in Nat \ {0} /\ OpsCount \in Nat \ {0} /\ NameWords \in Nat \ {0}
  /\ ResultCnt \in [Tasks -> Nat \ {0}]
  /\ \A t \in Tasks : OpsCount % ResultCnt[t] = 0
  /\ 2 + NameWords * (2 * TaskCount - 1) <= OpsCount
  /\ DataPerOp \in 1 .. OpsCount /\ ChaseWords \in 1 .. OpsCount
  /\ PageWords \in Nat \ {0}
  /\ Device \in Nat /\ (2 * TaskCount + 1) * OpsCount <= Device
  /\ MaxRun \in Nat

VARIABLES
  pc,      \* where latency_job is
  run,     \* the number of the command that runs, or ran last
  rbuf,    \* the report it fills: its first word
  op,      \* and its number
  j,       \* the results it has
  report,  \* the words of the device
  place,   \* the word that the last random access took its place from
  intact,  \* a latency test has ended and nothing has been written since
  parse,   \* parse_data
  names,   \* the names it has read
  data     \* the words of the report it has read last

job == <<pc, run, rbuf, op, j, report, place, intact>>
vars == <<job, parse, names, data>>

Word == [kind : {"other", "task_cnt", "repeat_cnt", "name", "random", "result"},
         run : 0 .. MaxRun, op : Reports, k : Nat]

Nothing == [kind |-> "other", run |-> 0, op |-> 0, k |-> 0]
Result(r, n, k) == [kind |-> "result", run |-> r, op |-> n, k |-> k]

\* clean: what it reads was in place when it began, and has been since.
Parser == [pc : {"off", "info", "all", "one", "done", "refused", "failed"},
           clean : BOOLEAN, of : 0 .. MaxRun, ops : 0 .. 2 * TaskCount, op : 0 .. 2 * TaskCount]

TypeOK ==
  /\ pc \in {"idle", "info", "begin", "call"}
  /\ run \in 0 .. MaxRun
  /\ rbuf \in Nat /\ op \in 0 .. 2 * TaskCount - 1 /\ j \in 0 .. OpsCount
  /\ report \in [Words -> Word]
  /\ place \in Word
  /\ intact \in BOOLEAN
  /\ parse \in Parser
  /\ names \in [Reports -> Word]
  /\ data \in [0 .. OpsCount - 1 -> Word] \cup [0 .. DataPerOp - 1 -> Word]
-----------------------------------------------------------------------------
(***************************************************************************)
(* latency_job.                                                            *)
(***************************************************************************)
Init ==
  /\ pc = "idle" /\ run = 0 /\ rbuf = 0 /\ op = 0 /\ j = 0
  /\ report = [w \in Words |-> Nothing]
  /\ place = Nothing
  /\ intact = FALSE
  /\ parse = [pc |-> "off", clean |-> FALSE, of |-> 0, ops |-> 0, op |-> 0]
  /\ names = [n \in Reports |-> Nothing]
  /\ data = [k \in 0 .. DataPerOp - 1 |-> Nothing]

\* Mutant: one slot for each report and one for the info.
FilledPagesTwice == (2 * TaskCount * OpsCount + PageWords - 1) \div PageWords

\* rpages: the pages of the report area that are touched before the tests.
FilledPages == ((2 * TaskCount + 1) * OpsCount + PageWords - 1) \div PageWords

IsRandom(n) == n >= TaskCount
TaskOf(n) == IF IsRandom(n) THEN n - TaskCount + 1 ELSE n

\* The random numbers go behind the info.
PoolStart == OpsCount

PoolSize == OpsCount

\* The results go behind the pool.
FirstReport == 2 * OpsCount

\* A command is written; it is a disturbance to a parser that is reading.
BeginCommand ==
  /\ pc = "idle" /\ run < MaxRun
  /\ run' = run + 1
  /\ intact' = FALSE
  /\ parse' = [parse EXCEPT !.clean = FALSE]
  /\ UNCHANGED <<names, data>>

BeginTest ==
  /\ BeginCommand
  /\ pc' = "info"
  /\ UNCHANGED <<rbuf, op, j, report, place>>

\* What the info holds at word w, for words that are written.
Info(r, w) ==
  CASE w = 0 -> [Nothing EXCEPT !.kind = "task_cnt", !.run = r]
    [] w = 1 -> [Nothing EXCEPT !.kind = "repeat_cnt", !.run = r]
    [] OTHER -> [Nothing EXCEPT !.kind = "name", !.run = r, !.op = (w - 2) \div NameWords]

\* The two counts, and a name every 64 bytes; a name is its first word.
InfoWords == {0, 1} \cup {2 + n * NameWords : n \in Reports}

WriteInfo ==
  /\ pc = "info"
  /\ report' = [w \in Words |-> IF w \in InfoWords THEN Info(run, w) ELSE report[w]]
  /\ rbuf' = FirstReport /\ op' = 0
  /\ pc' = "begin"
  /\ UNCHANGED <<run, j, place, intact, parse, names, data>>

\* A random test first fills the pool with new numbers.
BeginOp ==
  /\ pc = "begin" /\ op \in Reports
  /\ j' = 0 /\ place' = Nothing
  /\ report' = [w \in Words |->
       IF IsRandom(op) /\ w \in PoolStart .. PoolStart + PoolSize - 1
       THEN [kind |-> "random", run |-> run, op |-> op, k |-> w - PoolStart]
       ELSE report[w]]
  /\ pc' = "call"
  /\ UNCHANGED <<run, rbuf, op, intact, parse, names, data>>

\* One call of bench_func and its results; a random test takes its place in
\* the medium from loc[j], and loc is the first word of the device.
Call ==
  LET cnt == ResultCnt[TaskOf(op)] IN
  /\ pc = "call" /\ j < OpsCount
  /\ place' = IF IsRandom(op) THEN report[j] ELSE Nothing
  /\ report' = [w \in Words |->
       IF w \in rbuf + j .. rbuf + j + cnt - 1 THEN Result(run, op, w - rbuf) ELSE report[w]]
  /\ j' = j + cnt
  /\ UNCHANGED <<pc, run, rbuf, op, intact, parse, names, data>>

\* Mutant: the next report is written over this one.
EndOpStays ==
  /\ pc = "call" /\ j >= OpsCount
  /\ op' = op + 1
  /\ pc' = "begin"
  /\ UNCHANGED <<run, rbuf, j, report, place, intact, parse, names, data>>

EndOp ==
  /\ pc = "call" /\ j >= OpsCount
  /\ rbuf' = rbuf + OpsCount /\ op' = op + 1
  /\ pc' = "begin"
  /\ UNCHANGED <<run, j, report, place, intact, parse, names, data>>

\* LATTester_LAT_END.
EndTest ==
  /\ pc = "begin" /\ op \notin Reports
  /\ pc' = "idle" /\ intact' = TRUE
  /\ UNCHANGED <<run, rbuf, op, j, report, place, parse, names, data>>
-----------------------------------------------------------------------------
(***************************************************************************)
(* The other jobs that write to the device; each is taken as one step.     *)
(***************************************************************************)
Overwrites(n) ==
  /\ BeginCommand
  /\ report' = [w \in Words |-> IF w < n THEN Nothing ELSE report[w]]
  /\ UNCHANGED <<pc, rbuf, op, j, place>>

OverwriteJob == Overwrites(2 * OpsCount)

\* The links of the pointer-chasing test.
ChasingJob == \E csize \in 1 .. ChaseWords : Overwrites(csize)

\* PERTHREAD_WORKSET bytes of random numbers for each worker of a bandwidth
\* test: even one worker's cover all reports.
CreateSeed == Overwrites(Device)
-----------------------------------------------------------------------------
(***************************************************************************)
(* parse_data: all of the reports, or with a number one of them.           *)
(***************************************************************************)
ParseStart ==
  /\ parse.pc \notin {"info", "all", "one"}
  /\ \E ops \in 0 .. 2 * TaskCount :
       parse' = [pc |-> "info", clean |-> intact, of |-> run, ops |-> ops, op |-> 0]
  /\ UNCHANGED <<job, names, data>>

\* read_latency_tasks_info.  Without the info, or with one that is just
\* being written, anything may happen: it fails.
ReadInfo ==
  /\ parse.pc = "info"
  /\ names' = [n \in Reports |-> report[2 + n * NameWords]]
  /\ parse' = [parse EXCEPT !.pc =
       CASE report[0].kind # "task_cnt" \/ report[1].kind # "repeat_cnt"
            \/ (\E n \in Reports : names'[n].kind # "name") -> "failed"
         [] OTHER -> IF parse.ops > 2 * TaskCount - 1 THEN "refused"
                     ELSE IF parse.ops = 0 THEN "all" ELSE "one"]
  /\ UNCHANGED <<job, data>>

\* Mutant: the reports are looked for right behind the info.
ReadAllNoPool ==
  /\ parse.pc = "all"
  /\ data' = [k \in 0 .. DataPerOp - 1 |-> report[(parse.op + 1) * OpsCount + k]]
  /\ parse' = [parse EXCEPT !.op = @ + 1,
                             !.pc = IF parse.op + 1 \in Reports THEN "all" ELSE "done"]
  /\ UNCHANGED <<job, names>>

\* read_all, report by report: the first data_per_op words of each.
ReadAll ==
  /\ parse.pc = "all"
  /\ data' = [k \in 0 .. DataPerOp - 1 |-> report[(parse.op + 2) * OpsCount + k]]
  /\ parse' = [parse EXCEPT !.op = @ + 1,
                             !.pc = IF parse.op + 1 \in Reports THEN "all" ELSE "done"]
  /\ UNCHANGED <<job, names>>

\* read_one_op.  latency_job prints i + 1 for report i (tasks.c:201, :255) and
\* main.rs:113 lets 1 .. task_cnt through, but slot ops is read: the random
\* pool for 1, report ops - 2 for the others, and the last two for none.
ReadOne ==
  /\ parse.pc = "one"
  /\ data' = [k \in 0 .. OpsCount - 1 |-> report[parse.ops * OpsCount + k]]
  /\ parse' = [parse EXCEPT !.pc = "done"]
  /\ UNCHANGED <<job, names>>
-----------------------------------------------------------------------------
Next ==
  \/ BeginTest \/ WriteInfo \/ BeginOp \/ Call \/ EndOp \/ EndTest
  \/ OverwriteJob \/ ChasingJob \/ CreateSeed
  \/ ParseStart \/ ReadInfo \/ ReadAll \/ ReadOne

Spec == Init /\ [][Next]_vars
-----------------------------------------------------------------------------
Testing == pc \in {"begin", "call"}

\* The results of a test that has ended stay where they were written, while
\* the pool is filled anew and the later tests write theirs.
KeepsResults ==
  Testing \/ intact =>
    \A n \in Reports : n < op => \A k \in 0 .. OpsCount - 1 :
      report[FirstReport + n * OpsCount + k] = Result(run, n, k)

\* Neither the pool nor a report runs into the info.
KeepsInfo == Testing \/ intact => \A w \in InfoWords : report[w] = Info(run, w)

\* During a random test the pool holds the numbers that were drawn for it.
KeepsPool ==
  pc = "call" /\ IsRandom(op) => \A k \in 0 .. OpsCount - 1 :
    report[OpsCount + k] = [kind |-> "random", run |-> run, op |-> op, k |-> k]

\* The areas of the report device keep out of each other: results, info and
\* pool stay what they are while the others are written (lattester.h:29-50).
KeepsLayout == KeepsResults /\ KeepsInfo /\ KeepsPool

\* Every word that is written between two time stamps lies in a page that was
\* touched before: no page fault is measured, or taken with interrupts off.
WritesFilledPages ==
  pc = "call" /\ j < OpsCount =>
    rbuf + j + ResultCnt[TaskOf(op)] <= FilledPages * PageWords

\* "parse_data all", if a latency test has ended and no other command has begun
\* until the reading is done: it finds the info, and under each name the
\* results of that report, of that test, in their order.  Nothing is said of
\* the results that a later command has written over, which parse_data cannot
\* tell from those of a test, nor of a single report: read_one_op does not
\* read the one that latency_job has given the number (see ReadOne).
ParsedRight ==
  parse.clean =>
    /\ parse.pc # "failed"
    /\ parse.op > 0 => LET name == names[parse.op - 1] IN
         /\ name.op = parse.op - 1
         /\ \A k \in 0 .. DataPerOp - 1 : data[k] = Result(parse.of, name.op, k)

\* "For random latency tests": the places come from the "Random Pool", which
\* is not in the slot of the "Task Info" (lattester.h:32-36).
PlacesFromPool ==
  pc = "call" /\ IsRandom(op) /\ j > 0 => place.kind = "random"
=============================================================================
