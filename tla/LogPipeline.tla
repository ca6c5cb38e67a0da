----------------------------- MODULE LogPipeline -----------------------------
(***************************************************************************)
(* From a sweep to its results.  A script of testscript/subtests writes    *)
(* the commands of its sweep; latfs, its workers and the rest of the       *)
(* kernel print to one log; the script looks into the log for the end of a *)
(* test, cuts the test's lines out of it and appends them to output.txt;   *)
(* parse_bw.py reads that file, prints a row for each bandwidth test and   *)
(* uploads the rows in batches.                                            *)
(*                                                                         *)
(* Test r is the r-th of the sweep.  Its name stands for its message; two  *)
(* tests of a sweep may have the same.  Of a line of the log there is who  *)
(* printed it for which test; the number of a second is its n, its value   *)
(* the pair of both.                                                       *)
(*                                                                         *)
(* The store that the rows go to is external; of it is known that a batch  *)
(* should not hold a name twice, which update_flush sees to.               *)
(*                                                                         *)
(* Bounds: Sweeps are short, Runtime seconds are few, QueueLimit stands    *)
(* for 500, and others print at most Noise lines.                          *)
(***************************************************************************)
EXTENDS Naturals, Sequences, SequencesExt

CONSTANTS
  Sweeps,      \* the sweeps that may be run: a script, its tests, and the
               \* duration that parse_bw.py is given
  Runtime,     \* runtime= of the bandwidth tests
  QueueLimit,  \* rows in an upload
  Noise        \* bound: lines printed by others

Scripts == {"stridelat", "raw", "stridebw", "flushfence"}
Test == [task : {2, 3, 6, 9}, access : Nat, stride : Nat]

ASSUME ConstantsAssumption ==
  /\ \A s \in Sweeps : s.script \in Scripts /\ s.tests \in Seq(Test) /\ s.timer_stop \in Nat
  /\ Runtime \in Nat \ {0}
  /\ QueueLimit \in Nat \ {0} /\ Noise \in Nat

VARIABLES
  sweep,     \* the sweep that is run
  script,    \* the script: its pc, the test it is at, and (a history) whether
             \* its sleep was always enough for the worker to begin
  seconds,   \* the seconds that the command has printed
  worker,    \* the worker of each latency test
  log,       \* the kernel log
  noise,     \* lines that others have printed
  output,    \* output.txt
  parser,    \* parse_bw.py: lines read, timer, task, throughput, pc
  rows,      \* the rows it has printed
  upqueue,
  uploads    \* the batches that the store has taken from it

vars == <<sweep, script, seconds, worker, log, noise, output, parser, rows, upqueue, uploads>>
scriptVars == <<script, output>>
kernelVars == <<seconds, worker, log, noise>>
parserVars == <<parser, rows, upqueue, uploads>>

Tests == 1 .. Len(sweep.tests)
Named(r) == sweep.tests[r]
TimerStop == sweep.timer_stop
Polls == sweep.script \in {"stridelat", "raw"}

Line(tag, r, n) == [tag |-> tag, test |-> r, n |-> n]
NoTest == [task |-> 0, access |-> 0, stride |-> 0]
Idle == [pos |-> 0, timer |-> 0, task |-> NoTest, throughput |-> <<>>, pc |-> "reading"]

Init ==
  /\ sweep \in Sweeps
  /\ script = [pc |-> "next", test |-> 0, sleep |-> "enough"]
  /\ seconds = 0
  /\ worker = [r \in Tests |-> "none"]
  /\ log = <<>> /\ noise = 0 /\ output = <<>>
  /\ parser = Idle /\ rows = <<>> /\ upqueue = <<>> /\ uploads = <<>>

-----------------------------------------------------------------------------
(* The script. *)

Digits(n) ==
  LET w == CHOOSE k \in 1 .. 6 : n < 10 ^ k /\ (k = 1 \/ n >= 10 ^ (k - 1)) IN
  [i \in 1 .. w |-> (n \div 10 ^ (w - i)) % 10]

\* [[ a > b ]] of bash compares text.
TextGreater(a, b) ==
  LET s == Digits(a) t == Digits(b) IN
  \E i \in 1 .. Len(s) :
    /\ \A j \in 1 .. i - 1 : j <= Len(t) /\ s[j] = t[j]
    /\ i > Len(t) \/ s[i] > t[i]

Passes(t) == t.task \in {2, 3} /\ TextGreater(t.access, t.stride)

GoesTo(pc) == script' = [script EXCEPT !.pc = pc]

\* A polling script notes the command in output.txt; 30_stridebw.sh passes
\* over what it takes for an access that is larger than its stride.
NextTest ==
  /\ script.pc = "next" /\ script.test < Len(sweep.tests)
  /\ LET r == script.test + 1 IN
     /\ script' = [script EXCEPT !.pc = IF ~Polls /\ Passes(Named(r)) THEN "next" ELSE "write",
                                 !.test = r]
     /\ output' = IF Polls THEN Append(output, Line("header", r, 0)) ELSE output
  /\ UNCHANGED <<sweep, kernelVars, parserVars>>

\* 20_stridelat.sh passes over it when it has written the command.
Returned ==
  /\ script.pc = "returned"
  /\ GoesTo(CASE ~Polls -> "collect"
              [] Polls /\ Passes(Named(script.test)) -> "next"
              [] OTHER -> "poll")
  /\ UNCHANGED <<sweep, output, kernelVars, parserVars>>

LastOf(tag) ==
  IF \E k \in DOMAIN log : log[k].tag = tag
  THEN CHOOSE k \in DOMAIN log :
         log[k].tag = tag /\ \A j \in DOMAIN log : log[j].tag = tag => j <= k
  ELSE 0

\* Mutants: tail shows one line more, and one line only.
TailLinesMore == IF sweep.script = "stridelat" THEN 4 ELSE 5
TailLinesOne == 1

TailLines == IF sweep.script = "stridelat" THEN 3 ELSE 4
LastLines == SubSeq(log, IF Len(log) > TailLines THEN Len(log) - TailLines + 1 ELSE 1, Len(log))

\* dmesg | tail | grep LATTester_LAT_END.  60_raw.sh sleeps two seconds
\* first: long enough for the worker to have printed that it begins, or not.
Poll ==
  /\ script.pc = "poll"
  /\ \E k \in DOMAIN LastLines : LastLines[k].tag = "latend"
  /\ script' = [script EXCEPT !.pc = "collect",
                              !.sleep = IF sweep.script = "raw" /\ worker[script.test] = "created"
                                        THEN "short" ELSE @]
  /\ UNCHANGED <<sweep, output, kernelVars, parserVars>>

\* sed -n "$msgstart,$msgend": the first line at least, nothing without both.
Cut(from, to) ==
  IF 0 \in {from, to} THEN <<>> ELSE SubSeq(log, from, IF to < from THEN from ELSE to)

\* grep, of lines that carry the tag; SelectSeq written out, since the proofs
\* have to look into it.
Grep(tag, s) ==
  LET found[k \in 0 .. Len(s)] ==
        IF k = 0 THEN <<>>
        ELSE IF s[k].tag = tag THEN Append(found[k - 1], s[k]) ELSE found[k - 1]
  IN  found[Len(s)]

Collect ==
  /\ script.pc = "collect"
  /\ output' = output \o
       IF Polls THEN Grep("average", Cut(LastOf("start"), LastOf("latend")))
       ELSE Cut(LastOf("start"), LastOf("end"))
  /\ GoesTo("next")
  /\ UNCHANGED <<sweep, kernelVars, parserVars>>

SweepEnds ==
  /\ script.pc = "next" /\ script.test = Len(sweep.tests)
  /\ GoesTo("ended")
  /\ UNCHANGED <<sweep, output, kernelVars, parserVars>>

-----------------------------------------------------------------------------
(* The kernel. *)

Accepted(t) ==
  t.task \in {2, 3, 6} => t.stride >= t.access \/ (t.task = 6 /\ t.stride = 0)
IsLatency(t) == t.task \in {2, 6}
Prints(lines) == log' = log \o lines

\* A line is written: the handler echoes it, then either refuses it or
\* announces the test and, for a latency test, wakes its worker.
Write ==
  /\ script.pc = "write"
  /\ LET r == script.test
         t == Named(r)
     IN IF Accepted(t)
        THEN /\ Prints(<<Line("command", r, 0), Line("start", r, 0)>>)
             /\ worker' = IF IsLatency(t) THEN [worker EXCEPT ![r] = "created"] ELSE worker
             /\ GoesTo("inside")
        ELSE /\ Prints(<<Line("command", r, 0), Line("error", r, 0), Line("error", r, 0)>>)
             /\ worker' = worker
             /\ GoesTo("returned")
  /\ UNCHANGED <<sweep, seconds, noise, output, parserVars>>

\* Mutant: one second more than asked for.
SecondMore ==
  /\ script.pc = "inside" /\ ~IsLatency(Named(script.test)) /\ seconds <= Runtime
  /\ Prints(<<Line("second", script.test, seconds + 1)>>)
  /\ seconds' = seconds + 1
  /\ UNCHANGED <<sweep, scriptVars, worker, noise, parserVars>>

Second ==
  /\ script.pc = "inside" /\ ~IsLatency(Named(script.test)) /\ seconds < Runtime
  /\ Prints(<<Line("second", script.test, seconds + 1)>>)
  /\ seconds' = seconds + 1
  /\ UNCHANGED <<sweep, scriptVars, worker, noise, parserVars>>

WriteReturns ==
  /\ script.pc = "inside"
  /\ IsLatency(Named(script.test)) \/ seconds = Runtime
  /\ Prints(<<Line("end", script.test, 0)>>)
  /\ seconds' = 0
  /\ GoesTo("returned")
  /\ UNCHANGED <<sweep, output, worker, noise, parserVars>>

WorkerPrints(r, from, tag, to) ==
  /\ worker[r] = from
  /\ Prints(<<Line(tag, r, 0)>>)
  /\ worker' = [worker EXCEPT ![r] = to]
  /\ UNCHANGED <<sweep, scriptVars, seconds, noise, parserVars>>

WorkerBegins(r) == WorkerPrints(r, "created", "begin", "begun")
WorkerMeasures(r) == WorkerPrints(r, "begun", "average", "measured")
WorkerReports(r) == WorkerPrints(r, "measured", "latend", "reported")

OthersPrint ==
  /\ noise < Noise
  /\ noise' = noise + 1
  /\ Prints(<<Line("noise", 0, 0)>>)
  /\ UNCHANGED <<sweep, scriptVars, seconds, worker, parserVars>>

-----------------------------------------------------------------------------
(* parse_bw.py, which run.example.sh calls when a bandwidth sweep is over. *)

Reading(tags) ==
  /\ script.pc = "ended" /\ ~Polls
  /\ parser.pc = "reading" /\ parser.pos < Len(output)
  /\ output[parser.pos + 1].tag \in tags

Current == output[parser.pos + 1]
Reads(p) == parser' = [p EXCEPT !.pos = @ + 1]
ParserOnly == UNCHANGED <<sweep, scriptVars, kernelVars>>

Asserts(condition) ==
  ~condition /\ parser' = [parser EXCEPT !.pc = "failed"] /\ UNCHANGED <<rows, upqueue, uploads>>

\* Mutant: the samples of the previous test are kept.
ReadStartKeeping ==
  /\ Reading({"start"})
  /\ \/ Asserts(parser.timer = 0)
     \/ /\ parser.timer = 0
        /\ Reads([parser EXCEPT !.task = Named(Current.test)])
        /\ UNCHANGED <<rows, upqueue, uploads>>
  /\ ParserOnly

ReadStart ==
  /\ Reading({"start"})
  /\ \/ Asserts(parser.timer = 0)
     \/ /\ parser.timer = 0
        /\ Reads([parser EXCEPT !.task = Named(Current.test), !.throughput = <<>>])
        /\ UNCHANGED <<rows, upqueue, uploads>>
  /\ ParserOnly

Row == [name |-> parser.task, throughput |-> parser.throughput]

\* Mutant: update_flush without its search.
QueuedNever(name) == FALSE

\* update_flush looks for the name in the queue, upload_datastore does not.
Queued(name) == name.task = 9 /\ \E k \in DOMAIN upqueue : upqueue[k].name = name

Enqueued == IF Queued(Row.name) THEN upqueue ELSE Append(upqueue, Row)

Upload(queue) ==
  IF Len(queue) >= QueueLimit
  THEN uploads' = Append(uploads, queue) /\ upqueue' = <<>>
  ELSE uploads' = uploads /\ upqueue' = queue

NamesOnce(batch) == \A j, k \in DOMAIN batch : batch[j].name = batch[k].name => j = k

\* The store may refuse a batch that has a name twice; put_multi raises, and
\* nothing catches it: the row is not printed, the batch is lost.
Refused(batch) ==
  /\ ~NamesOnce(batch)
  /\ parser' = [parser EXCEPT !.pc = "refused"]
  /\ upqueue' = batch
  /\ UNCHANGED <<rows, uploads>>

ReadEnd ==
  /\ Reading({"end"})
  /\ \/ Asserts(parser.timer = TimerStop)
     \/ /\ parser.timer = TimerStop /\ Len(Enqueued) >= QueueLimit
        /\ Refused(Enqueued)
     \/ /\ parser.timer = TimerStop
        /\ Reads([parser EXCEPT !.timer = 0])
        /\ rows' = Append(rows, Row)
        /\ Upload(Enqueued)
  /\ ParserOnly

\* Any other line counts only if it is the next second.
ReadOther ==
  /\ Reading({"second", "noise"})
  /\ Reads(IF Current.tag = "second" /\ Current.n = parser.timer + 1
           THEN [parser EXCEPT !.throughput = Append(@, <<Current.test, Current.n>>),
                               !.timer = @ + 1]
           ELSE parser)
  /\ UNCHANGED <<rows, upqueue, uploads>>
  /\ ParserOnly

ReadEof ==
  /\ script.pc = "ended" /\ ~Polls
  /\ parser.pc = "reading" /\ parser.pos = Len(output)
  /\ \/ Refused(upqueue)
     \/ /\ parser' = [parser EXCEPT !.pc = "finished"]
        /\ uploads' = Append(uploads, upqueue)
        /\ UNCHANGED <<rows, upqueue>>
  /\ ParserOnly

-----------------------------------------------------------------------------
ScriptStep == NextTest \/ Write \/ Second \/ WriteReturns \/ Returned \/ Poll \/ Collect \/ SweepEnds
WorkerStep(r) == WorkerBegins(r) \/ WorkerMeasures(r) \/ WorkerReports(r)
ParserStep == ReadStart \/ ReadEnd \/ ReadOther \/ ReadEof

Next == ScriptStep \/ (\E r \in Tests : WorkerStep(r)) \/ OthersPrint \/ ParserStep

\* The script, the workers and the parser run; others need not print.
Fairness ==
  /\ WF_vars(ScriptStep)
  /\ WF_vars(\E r \in Tests : WorkerStep(r))
  /\ WF_vars(ParserStep)

Spec == Init /\ [][Next]_vars /\ Fairness

-----------------------------------------------------------------------------
(* Properties. *)

LineType == [tag : {"header", "command", "start", "second", "end", "error", "begin",
                    "average", "latend", "noise"},
             test : 0 .. Len(sweep.tests), n : 0 .. Runtime]

\* No line, counter or queue leaves its range: the monitor prints no second
\* past its runtime (lat.c), the queue of parse_bw.py holds less than an
\* upload, but for one that the store has refused.
TypeOK ==
  /\ sweep \in Sweeps
  /\ script \in [pc : {"next", "write", "inside", "returned", "poll", "collect", "ended"},
                 test : 0 .. Len(sweep.tests), sleep : {"enough", "short"}]
  /\ seconds \in 0 .. Runtime
  /\ worker \in [Tests -> {"none", "created", "begun", "measured", "reported"}]
  /\ log \in Seq(LineType) /\ output \in Seq(LineType)
  /\ noise \in 0 .. Noise
  /\ parser.pos \in 0 .. Len(output) /\ parser.timer \in 0 .. Runtime
  /\ parser.pc \in {"reading", "failed", "refused", "finished"}
  /\ Len(upqueue) < QueueLimit \/ parser.pc = "refused"

Running == {r \in Tests : worker[r] \in {"created", "begun", "measured"}}

\* A polling script writes no command while the worker of an earlier test
\* still runs: the LATTester_LAT_END it has found was that test's, not an
\* older one in the tail of the log (60_raw.sh:18, 20_stridelat.sh:19).
\* Of 60_raw.sh that holds as long as two seconds are enough for a worker to
\* come through its allocations and page touches to its first line
\* (60_raw.sh:22, tasks.c:477-504), which no line of the code waits for.
\* This is what LatTester takes for granted of its client "script".
OneTestAtATime == script.pc = "write" /\ script.sleep = "enough" => Running = {}

\* Past a test that was accepted output.txt has its averages, and only its,
\* under its own header (20_stridelat.sh:12, :25-28); for 60_raw.sh under the
\* same assumption.
CollectsEachTest ==
  LET Past(r) ==
        /\ Polls /\ Accepted(Named(r)) /\ script.sleep = "enough"
        /\ r < script.test \/ (r = script.test /\ script.pc \in {"next", "ended"})
  IN
  \A r \in Tests : Past(r) =>
    \E k \in DOMAIN output :
      /\ output[k] = Line("header", r, 0)
      /\ k < Len(output) /\ output[k + 1] = Line("average", r, 0)
      /\ k + 1 < Len(output) => output[k + 2].tag = "header"

SamplesOf(r) == [n \in 1 .. Runtime |-> <<r, n>>]
TestOf(row) == row.throughput[1][1]

\* The script has written the test, and the kernel has accepted it.
Measured(r) == Accepted(Named(r)) /\ ~Passes(Named(r))

\* A command that was written behind test r, before the next test that was
\* accepted, was refused: the script cuts the lines of r out of the log again.
CutAgain(r) ==
  \E s \in Tests :
    /\ r < s /\ ~Passes(Named(s)) /\ ~Accepted(Named(s))
    /\ \A t \in r + 1 .. s : ~Measured(t)

\* Test s may have a row behind one of test r.
Precedes(r, s) == r < s \/ (r = s /\ CutAgain(r))

\* The rows are the tests of the sweep, be there refused, repeated or left
\* out commands in the file.
\*  - An assertion fails only if the parser was given another duration than
\*    the tests ran (parse_bw.py:169, :173), as run.example.sh:36 does; then
\*    there is no row at all.
\*  - The average in a row is that of all the seconds of one test, and that
\*    test has the row's name: nothing of another test, nothing twice
\*    (parse_bw.py:171, :235).
\*  - The rows are in the order of the tests, and a test has a second row
\*    only when a command behind it was refused, which makes the script append
\*    its lines again (30_stridebw.sh:48-51).
\*  - When the parser has ended each test that was written and accepted has
\*    its row: no seconds were left out of the file.
RowPerTest ==
  /\ TimerStop = Runtime => parser.pc # "failed"
  /\ TimerStop # Runtime => rows = <<>>
  /\ \A k \in DOMAIN rows :
       \E r \in Tests : rows[k] = [name |-> Named(r), throughput |-> SamplesOf(r)]
  /\ \A j, k \in DOMAIN rows : j < k => Precedes(TestOf(rows[j]), TestOf(rows[k]))
  /\ parser.pc = "finished" =>
       \A r \in Tests : Measured(r) => \E k \in DOMAIN rows : rows[k].throughput = SamplesOf(r)

Uploaded == FlattenSeq(uploads)
HasRow(s, row) == \E k \in DOMAIN s : s[k].name = row.name

\* What has been printed is in the store or still in the queue: in its order
\* for the sweeps of task 3; by its name for those of task 9, which repeat
\* tests and queue a name once (parse_bw.py:81, :108-116).  A batch is refused
\* only because it has a name twice, and never one of task 9; then the rows in
\* it are not stored, and the last one is not even printed.
UploadsRows ==
  LET sent == IF parser.pc = "finished" THEN Uploaded ELSE Uploaded \o upqueue IN
  /\ IF sweep.script = "flushfence"
     THEN /\ \A k \in DOMAIN rows : HasRow(sent, rows[k])
          /\ \A k \in DOMAIN sent : \E j \in DOMAIN rows : sent[k] = rows[j]
     ELSE sent = rows \/ (parser.pc = "refused" /\ sent = Append(rows, Row))
  /\ parser.pc = "refused" => sweep.script # "flushfence" /\ ~NamesOnce(upqueue)

\* A sweep comes to its end: the script does not poll for ever for a line
\* that others have pushed out of the tail it looks at, as long as these
\* print one line only (after LATTester_LAT_END comes LATTester_END, if the
\* worker was the faster one); and its file is read to the end.
SweepFinishes == <>(script.pc = "ended" /\ (Polls \/ parser.pc # "reading"))
=============================================================================
