-------------------------- MODULE ResultLayoutProofs --------------------------
(***************************************************************************)
(* Proofs about ResultLayout: for every number of tasks, of operations and *)
(* of results a call, and every size of name, page and device that fits.   *)
(***************************************************************************)
EXTENDS ResultLayout, TLAPS

-----------------------------------------------------------------------------
(***************************************************************************)
(* Arithmetic.                                                             *)
(***************************************************************************)

LEMMA Times ==
  ASSUME NEW a \in Nat, NEW b \in Nat, NEW c \in Nat, a <= b
  PROVE  a * c \in Nat /\ b * c \in Nat /\ a * c <= b * c
<1>1. PICK d \in Nat : b = a + d
  <2>. b - a \in Nat /\ b = a + (b - a)
    OBVIOUS
  <2>. QED
    OBVIOUS
<1>2. b * c = a * c + d * c /\ d * c \in Nat /\ a * c \in Nat
  BY <1>1
<1>. QED
  BY <1>2

LEMMA Division ==
  ASSUME NEW n \in Nat, NEW u \in Nat \ {0}
  PROVE  /\ n \div u \in Nat
         /\ (n % u) \in 0 .. u - 1
         /\ n = u * (n \div u) + (n % u)
  OBVIOUS

\* The next multiple of u is no further than a multiple above n.
LEMMA NextMultiple ==
  ASSUME NEW n \in Nat, NEW m \in Nat, NEW u \in Nat \ {0},
         n % u = 0, m % u = 0, n < m
  PROVE  n + u <= m /\ (n + u) % u = 0
<1>. DEFINE p == n \div u
            q == m \div u
<1>1. p \in Nat /\ q \in Nat /\ n = u * p /\ m = u * q
  BY Division
<1>. HIDE DEF p, q
<1>2. p < q
  <2>. SUFFICES ASSUME q <= p PROVE FALSE
    BY <1>1
  <2>1. q * u <= p * u
    BY <1>1, Times
  <2>. QED
    BY <2>1, <1>1
<1>3. (p + 1) * u <= q * u
  BY <1>1, <1>2, Times
<1>4. n + u = u * (p + 1)
  BY <1>1
<1>5. n + u <= m
  BY <1>3, <1>4, <1>1
<1>6. (u * (p + 1)) % u = 0
  BY <1>1
<1>. QED
  BY <1>4, <1>5, <1>6

\* A product is divided by its factor.
LEMMA DividesBack ==
  ASSUME NEW n \in Nat, NEW u \in Nat \ {0}
  PROVE  (n * u) \div u = n
  OBVIOUS

LEMMA Sizes ==
  /\ TaskCount \in Nat \ {0} /\ OpsCount \in Nat \ {0} /\ NameWords \in Nat \ {0}
  /\ PageWords \in Nat \ {0} /\ Device \in Nat /\ MaxRun \in Nat
  /\ DataPerOp \in 1 .. OpsCount /\ ChaseWords \in 1 .. OpsCount
  /\ 2 + NameWords * (2 * TaskCount - 1) <= OpsCount
  /\ (2 * TaskCount + 1) * OpsCount <= Device
  BY LayoutAssumption

-----------------------------------------------------------------------------
(***************************************************************************)
(* The areas of the device.                                                *)
(***************************************************************************)

ReportAt(n) == FirstReport + n * OpsCount

\* A report lies behind the pool and within the pages that are filled.
LEMMA ReportRoom ==
  ASSUME NEW n \in Reports
  PROVE  /\ ReportAt(n) \in Nat /\ 2 * OpsCount <= ReportAt(n)
         /\ ReportAt(n) + OpsCount <= (2 * TaskCount + 1) * OpsCount
         /\ (n + 2) * OpsCount = ReportAt(n)
<1>1. n \in Nat /\ n + 3 \in Nat /\ n + 3 <= 2 * TaskCount + 1 /\ 2 * TaskCount + 1 \in Nat
  BY Sizes DEF Reports
<1>2. (n + 3) * OpsCount <= (2 * TaskCount + 1) * OpsCount
  BY <1>1, Sizes, Times
<1>3. /\ n * OpsCount \in Nat
      /\ (n + 3) * OpsCount = n * OpsCount + 3 * OpsCount
      /\ (n + 2) * OpsCount = n * OpsCount + 2 * OpsCount
  BY <1>1, Sizes
<1>4. (2 * TaskCount + 1) * OpsCount \in Nat
  BY Sizes
<1>. QED
  BY <1>2, <1>3, <1>4, Sizes DEF ReportAt, FirstReport

LEMMA ReportWord ==
  ASSUME NEW n \in Reports, NEW k \in 0 .. OpsCount - 1
  PROVE  ReportAt(n) + k \in Words /\ ReportAt(n) + k >= 2 * OpsCount
<1>1. (2 * TaskCount + 1) * OpsCount \in Nat
  BY Sizes
<1>. QED
  BY <1>1, ReportRoom, Sizes DEF Words

\* Two reports share no word.
LEMMA ReportsApart ==
  ASSUME NEW m \in Nat, NEW n \in Nat, m < n
  PROVE  ReportAt(m) + OpsCount <= ReportAt(n)
<1>1. (m + 1) * OpsCount <= n * OpsCount /\ n * OpsCount \in Nat /\ m * OpsCount \in Nat
  BY Times, Sizes
<1>2. (m + 1) * OpsCount = m * OpsCount + OpsCount
  BY Sizes
<1>. QED
  BY <1>1, <1>2, Sizes DEF ReportAt, FirstReport

\* The info lies before the pool; each name has its own words.
LEMMA NameRoom ==
  ASSUME NEW n \in Reports, NEW v, v = 2 + n * NameWords
  PROVE  v \in 2 .. OpsCount - 1 /\ (v - 2) \div NameWords = n
<1>1. n \in Nat /\ n + 1 <= 2 * TaskCount - 1 /\ 2 * TaskCount - 1 \in Nat
  BY Sizes DEF Reports
<1>2. (n + 1) * NameWords <= (2 * TaskCount - 1) * NameWords
  BY <1>1, Sizes, Times
<1>3. /\ n * NameWords \in Nat
      /\ (n + 1) * NameWords = n * NameWords + NameWords
      /\ (2 * TaskCount - 1) * NameWords = NameWords * (2 * TaskCount - 1)
      /\ NameWords * (2 * TaskCount - 1) \in Nat
  BY <1>1, Sizes
<1>4. (n * NameWords) \div NameWords = n
  BY <1>1, Sizes, DividesBack
<1>5. v - 2 = n * NameWords
  BY <1>3
<1>6. v \in 2 .. OpsCount - 1
  BY <1>2, <1>3, Sizes
<1>7. (v - 2) \div NameWords = n
  BY <1>4, <1>5, Zenon
<1>. QED
  BY <1>6, <1>7

LEMMA InfoRoom ==
  /\ 3 <= OpsCount /\ 2 * OpsCount <= Device
  /\ \A w \in InfoWords : w \in 0 .. OpsCount - 1 /\ w \in Words
<1>1. 0 \in Reports
  BY Sizes DEF Reports
<1>2. 3 <= OpsCount
  BY <1>1, NameRoom, Sizes
<1>3. 2 * OpsCount <= Device
  <2>1. 2 * OpsCount <= (2 * TaskCount + 1) * OpsCount /\ (2 * TaskCount + 1) * OpsCount \in Nat
    BY Times, Sizes
  <2>. QED
    BY <2>1, Sizes
<1>4. ASSUME NEW w \in InfoWords PROVE w \in 0 .. OpsCount - 1
  <2>1. CASE w \in {0, 1}
    BY <2>1, <1>2, Sizes
  <2>2. CASE w \in {2 + n * NameWords : n \in Reports}
    BY <2>2, NameRoom, Sizes
  <2>. QED
    BY <2>1, <2>2 DEF InfoWords
<1>. QED
  BY <1>2, <1>3, <1>4, Sizes DEF Words

LEMMA InfoType ==
  ASSUME NEW r \in 0 .. MaxRun, NEW w \in InfoWords
  PROVE  Info(r, w) \in Word
<1>0. 0 \in Reports /\ 0 \in Nat
  BY Sizes DEF Reports
<1>1. CASE w = 0
  BY <1>0, <1>1 DEF Info, Word, Nothing
<1>2. CASE w = 1
  BY <1>0, <1>2 DEF Info, Word, Nothing
<1>3. ASSUME NEW n \in Reports PROVE Info(r, 2 + n * NameWords) \in Word
  <2>. DEFINE v == 2 + n * NameWords
  <2>1. v \in 2 .. OpsCount - 1 /\ (v - 2) \div NameWords = n
    BY NameRoom
  <2>. HIDE DEF v
  <2>2. v # 0 /\ v # 1
    BY <2>1
  <2>3. Info(r, v) = [Nothing EXCEPT !.kind = "name", !.run = r, !.op = n]
    BY <2>1, <2>2 DEF Info
  <2>4. Info(r, v) \in Word
    BY <1>0, <2>3 DEF Word, Nothing
  <2>. QED
    BY <2>4 DEF v
<1>. QED
  BY <1>1, <1>2, <1>3 DEF InfoWords

LEMMA NothingType == Nothing \in Word
<1>1. 0 \in Reports /\ 0 \in 0 .. MaxRun /\ 0 \in Nat
  BY Sizes DEF Reports
<1>. QED
  BY <1>1 DEF Nothing, Word

-----------------------------------------------------------------------------
(***************************************************************************)
(* Types.                                                                  *)
(***************************************************************************)

\* Where latency_job is: its report begins where the formula of the layout
\* says, and the results in it are whole calls.
Job ==
  /\ pc \in {"begin", "call"} => rbuf = ReportAt(op)
  /\ pc = "call" => op \in Reports /\ j % ResultCnt[TaskOf(op)] = 0
  /\ intact => pc = "idle" /\ op = 2 * TaskCount - 1

\* Where parse_data is.
Reader ==
  /\ parse.pc = "all" => parse.op \in Reports
  /\ parse.pc = "one" => parse.ops \in 1 .. 2 * TaskCount - 1
  /\ parse.pc = "all" => parse.ops = 0
  /\ parse.pc \notin {"all", "done"} => parse.op = 0
  /\ parse.op > 0 => parse.op - 1 \in Reports

TypeInv == TypeOK /\ Job /\ Reader

LEMMA TaskOfType ==
  ASSUME NEW n \in Reports
  PROVE  /\ TaskOf(n) \in Tasks /\ ResultCnt[TaskOf(n)] \in Nat \ {0}
         /\ OpsCount % ResultCnt[TaskOf(n)] = 0
<1>1. TaskOf(n) \in Tasks
  BY Sizes DEF TaskOf, IsRandom, Tasks, Reports
<1>. QED
  BY <1>1, LayoutAssumption

\* A call stays within its report.
LEMMA CallFits ==
  ASSUME NEW n \in Reports, NEW i \in 0 .. OpsCount, i < OpsCount,
         i % ResultCnt[TaskOf(n)] = 0
  PROVE  LET cnt == ResultCnt[TaskOf(n)] IN
         /\ cnt \in Nat \ {0} /\ i + cnt \in 0 .. OpsCount /\ (i + cnt) % cnt = 0
<1>. DEFINE cnt == ResultCnt[TaskOf(n)]
<1>1. cnt \in Nat \ {0} /\ OpsCount % cnt = 0 /\ i % cnt = 0
  BY TaskOfType
<1>. HIDE DEF cnt
<1>0. i \in Nat /\ OpsCount \in Nat /\ i < OpsCount
  BY Sizes
<1>2. i + cnt <= OpsCount /\ (i + cnt) % cnt = 0
  BY <1>0, <1>1, NextMultiple
<1>3. i + cnt \in 0 .. OpsCount
  BY <1>1, <1>2, Sizes
<1>. QED
  BY <1>1, <1>2, <1>3 DEF cnt

LEMMA InitTypes == Init => TypeInv
<1>. SUFFICES ASSUME Init PROVE TypeInv
  OBVIOUS
<1>1. 0 \in 0 .. MaxRun /\ 0 \in 0 .. 2 * TaskCount - 1 /\ 0 \in 0 .. OpsCount /\ 0 \in 0 .. 2 * TaskCount
  BY Sizes
<1>2. TypeOK
  <2>1. report \in [Words -> Word] /\ names \in [Reports -> Word] /\ data \in [0 .. DataPerOp - 1 -> Word]
    BY NothingType DEF Init
  <2>2. parse \in Parser
    BY <1>1 DEF Init, Parser
  <2>. QED
    BY <1>1, <2>1, <2>2, NothingType DEF Init, TypeOK
<1>. QED
  BY <1>2 DEF Init, TypeInv, Job, Reader

\* The types, one by one, as the provers want them.
LEMMA Typed ==
  ASSUME TypeInv
  PROVE  /\ pc \in {"idle", "info", "begin", "call"} /\ run \in 0 .. MaxRun
         /\ rbuf \in Nat /\ op \in 0 .. 2 * TaskCount - 1 /\ j \in 0 .. OpsCount
         /\ report \in [Words -> Word] /\ place \in Word /\ intact \in BOOLEAN
         /\ parse \in Parser /\ names \in [Reports -> Word]
         /\ Job /\ Reader
  BY DEF TypeInv, TypeOK

DataType == [0 .. OpsCount - 1 -> Word] \cup [0 .. DataPerOp - 1 -> Word]

\* A word that some command has written before is other again.
LEMMA OverwritesTypes ==
  ASSUME TypeInv, NEW n, Overwrites(n)
  PROVE  TypeInv'
<1>1. run' \in 0 .. MaxRun /\ intact' = FALSE
  <2>1. run + 1 \in 0 .. MaxRun
    BY Typed, Sizes DEF Overwrites, BeginCommand
  <2>. QED
    BY <2>1 DEF Overwrites, BeginCommand
<1>2. parse' \in Parser /\ parse'.pc = parse.pc /\ parse'.op = parse.op /\ parse'.ops = parse.ops
  BY Typed DEF Overwrites, BeginCommand, Parser
<1>3. report' \in [Words -> Word]
  <2>1. report' = [w \in Words |-> IF w < n THEN Nothing ELSE report[w]]
    BY DEF Overwrites
  <2>2. \A w \in Words : (IF w < n THEN Nothing ELSE report[w]) \in Word
    BY Typed, NothingType
  <2>. QED
    BY <2>1, <2>2
<1>4. UNCHANGED <<pc, rbuf, op, j, place, names, data>> /\ pc = "idle"
  BY DEF Overwrites, BeginCommand
<1>5. TypeOK'
  BY <1>1, <1>2, <1>3, <1>4 DEF TypeInv, TypeOK
<1>6. Job' /\ Reader'
  BY <1>1, <1>2, <1>4, Typed DEF Job, Reader
<1>. QED
  BY <1>5, <1>6 DEF TypeInv

LEMMA BeginTestTypes ==
  ASSUME TypeInv, BeginTest
  PROVE  TypeInv'
<1>1. run' \in 0 .. MaxRun /\ intact' = FALSE
  <2>1. run + 1 \in 0 .. MaxRun
    BY Typed, Sizes DEF BeginTest, BeginCommand
  <2>. QED
    BY <2>1 DEF BeginTest, BeginCommand
<1>2. parse' \in Parser /\ parse'.pc = parse.pc /\ parse'.op = parse.op /\ parse'.ops = parse.ops
  BY Typed DEF BeginTest, BeginCommand, Parser
<1>4. UNCHANGED <<rbuf, op, j, report, place, names, data>> /\ pc' = "info"
  BY DEF BeginTest, BeginCommand
<1>5. TypeOK'
  BY <1>1, <1>2, <1>4 DEF TypeInv, TypeOK
<1>6. Job' /\ Reader'
  BY <1>1, <1>2, <1>4, Typed DEF Job, Reader
<1>. QED
  BY <1>5, <1>6 DEF TypeInv

LEMMA WriteInfoTypes ==
  ASSUME TypeInv, WriteInfo
  PROVE  TypeInv'
<1>1. report' \in [Words -> Word]
  <2>1. report' = [w \in Words |-> IF w \in InfoWords THEN Info(run, w) ELSE report[w]]
    BY DEF WriteInfo
  <2>2. \A w \in Words : (IF w \in InfoWords THEN Info(run, w) ELSE report[w]) \in Word
    BY Typed, InfoType
  <2>. QED
    BY <2>1, <2>2
<1>2. /\ rbuf' \in Nat /\ rbuf' = ReportAt(0)
      /\ op' \in 0 .. 2 * TaskCount - 1 /\ op' = 0
  BY Sizes DEF WriteInfo, FirstReport, ReportAt
<1>3. pc' = "begin" /\ pc = "info" /\ UNCHANGED <<run, j, place, intact, parse, names, data>>
  BY DEF WriteInfo
<1>4. TypeOK'
  BY <1>1, <1>2, <1>3 DEF TypeInv, TypeOK
<1>5. Job' /\ Reader'
  BY <1>2, <1>3, Typed DEF Job, Reader
<1>. QED
  BY <1>4, <1>5 DEF TypeInv

LEMMA BeginOpTypes ==
  ASSUME TypeInv, BeginOp
  PROVE  TypeInv'
<1>1. report' \in [Words -> Word]
  <2>. DEFINE Drawn(w) == [kind |-> "random", run |-> run, op |-> op, k |-> w - PoolStart]
  <2>1. report' = [w \in Words |->
          IF IsRandom(op) /\ w \in PoolStart .. PoolStart + PoolSize - 1 THEN Drawn(w) ELSE report[w]]
    BY DEF BeginOp
  <2>2. ASSUME NEW w \in Words, w \in PoolStart .. PoolStart + PoolSize - 1
        PROVE  Drawn(w) \in Word
    <3>1. w - PoolStart \in Nat
      BY <2>2, Sizes DEF Words, PoolStart, PoolSize
    <3>. QED
      BY <3>1, Typed DEF Word, BeginOp
  <2>. HIDE DEF Drawn
  <2>3. \A w \in Words : (IF IsRandom(op) /\ w \in PoolStart .. PoolStart + PoolSize - 1
                           THEN Drawn(w) ELSE report[w]) \in Word
    BY <2>2, Typed
  <2>. QED
    BY <2>1, <2>3
<1>2. j' = 0 /\ j' \in 0 .. OpsCount /\ 0 % ResultCnt[TaskOf(op)] = 0 /\ op \in Reports
  <2>1. op \in Reports /\ j' = 0
    BY DEF BeginOp
  <2>2. ResultCnt[TaskOf(op)] \in Nat \ {0}
    BY <2>1, TaskOfType
  <2>3. \A u \in Nat \ {0} : 0 % u = 0
    OBVIOUS
  <2>. QED
    BY <2>1, <2>2, <2>3, Sizes
<1>3. /\ pc' = "call" /\ pc = "begin" /\ place' = Nothing
      /\ UNCHANGED <<run, rbuf, op, intact, parse, names, data>>
  BY DEF BeginOp
<1>4. TypeOK'
  BY <1>1, <1>2, <1>3, NothingType DEF TypeInv, TypeOK
<1>5. Job' /\ Reader'
  <2>1. (j % ResultCnt[TaskOf(op)])' = 0
    BY <1>2, <1>3 DEF TaskOf, IsRandom
  <2>. QED
    BY <1>2, <1>3, <2>1, Typed DEF Job, Reader
<1>. QED
  BY <1>4, <1>5 DEF TypeInv

LEMMA CallTypes ==
  ASSUME TypeInv, Call
  PROVE  TypeInv'
<1>. DEFINE cnt == ResultCnt[TaskOf(op)]
<1>0. op \in Reports /\ j \in 0 .. OpsCount /\ j < OpsCount /\ j % cnt = 0
  BY Typed DEF Call, Job
<1>1. cnt \in Nat \ {0} /\ j + cnt \in 0 .. OpsCount /\ (j + cnt) % cnt = 0
  BY <1>0, CallFits
<1>2. report' \in [Words -> Word]
  <2>1. report' = [w \in Words |->
          IF w \in rbuf + j .. rbuf + j + cnt - 1 THEN Result(run, op, w - rbuf) ELSE report[w]]
    BY DEF Call
  <2>2. ASSUME NEW w \in Words, w \in rbuf + j .. rbuf + j + cnt - 1
        PROVE  Result(run, op, w - rbuf) \in Word
    <3>1. w - rbuf \in Nat
      BY <1>0, <2>2, Typed, Sizes DEF Words
    <3>. QED
      BY <3>1, <1>0, Typed DEF Word, Result
  <2>. HIDE DEF cnt
  <2>3. \A w \in Words : (IF w \in rbuf + j .. rbuf + j + cnt - 1
                           THEN Result(run, op, w - rbuf) ELSE report[w]) \in Word
    BY <2>2, Typed
  <2>. QED
    BY <2>1, <2>3
<1>3. place' \in Word
  <2>1. j \in Words
    BY <1>0, InfoRoom, Sizes DEF Words
  <2>. QED
    BY <2>1, Typed, NothingType DEF Call
<1>4. pc = "call" /\ j' = j + cnt /\ UNCHANGED <<pc, run, rbuf, op, intact, parse, names, data>>
  BY DEF Call
<1>5. (ResultCnt[TaskOf(op)])' = cnt
  BY <1>4 DEF TaskOf, IsRandom
<1>. HIDE DEF cnt
<1>6. TypeOK'
  BY <1>1, <1>2, <1>3, <1>4 DEF TypeInv, TypeOK
<1>7. Job' /\ Reader'
  <2>1. (j % ResultCnt[TaskOf(op)])' = 0
    BY <1>1, <1>4, <1>5
  <2>. QED
    BY <1>0, <1>4, <2>1, Typed DEF Job, Reader
<1>. QED
  BY <1>6, <1>7 DEF TypeInv

LEMMA EndOpTypes ==
  ASSUME TypeInv, EndOp
  PROVE  TypeInv'
<1>1. op \in Reports /\ rbuf = ReportAt(op) /\ op' = op + 1 /\ rbuf' = rbuf + OpsCount
  BY Typed DEF EndOp, Job
<1>2. op + 1 \in 0 .. 2 * TaskCount - 1 /\ op \in Nat
  BY <1>1, Sizes DEF Reports
<1>3. rbuf' \in Nat /\ rbuf' = ReportAt(op')
  <2>1. (op + 1) * OpsCount = op * OpsCount + OpsCount /\ op * OpsCount \in Nat
    BY <1>2, Sizes
  <2>. QED
    BY <1>1, <2>1, Sizes DEF ReportAt, FirstReport
<1>4. pc' = "begin" /\ pc = "call" /\ UNCHANGED <<run, j, report, place, intact, parse, names, data>>
  BY DEF EndOp
<1>5. TypeOK'
  BY <1>1, <1>2, <1>3, <1>4 DEF TypeInv, TypeOK
<1>6. Job' /\ Reader'
  BY <1>3, <1>4, Typed DEF Job, Reader
<1>. QED
  BY <1>5, <1>6 DEF TypeInv

LEMMA EndTestTypes ==
  ASSUME TypeInv, EndTest
  PROVE  TypeInv'
<1>1. op = 2 * TaskCount - 1
  BY Typed, Sizes DEF EndTest, Reports
<1>2. pc' = "idle" /\ intact' = TRUE /\ UNCHANGED <<run, rbuf, op, j, report, place, parse, names, data>>
  BY DEF EndTest
<1>3. TypeOK'
  BY <1>2 DEF TypeInv, TypeOK
<1>4. Job' /\ Reader'
  BY <1>1, <1>2, Typed DEF Job, Reader
<1>. QED
  BY <1>3, <1>4 DEF TypeInv

\* A step of parse_data leaves the job alone.
LEMMA ParserTypes ==
  ASSUME TypeInv, UNCHANGED job, parse' \in Parser, names' \in [Reports -> Word],
         data' \in DataType, Reader'
  PROVE  TypeInv'
<1>1. UNCHANGED <<pc, run, rbuf, op, j, report, place, intact>>
  BY DEF job
<1>2. TypeOK'
  BY <1>1 DEF TypeInv, TypeOK, DataType
<1>3. Job'
  BY <1>1, Typed DEF Job, ReportAt, TaskOf, IsRandom
<1>. QED
  BY <1>2, <1>3 DEF TypeInv

LEMMA ParseStartTypes ==
  ASSUME TypeInv, ParseStart
  PROVE  TypeInv'
<1>1. UNCHANGED <<job, names, data>>
  BY DEF ParseStart
<1>2. PICK ops \in 0 .. 2 * TaskCount :
        parse' = [pc |-> "info", clean |-> intact, of |-> run, ops |-> ops, op |-> 0]
  BY DEF ParseStart
<1>3. parse' \in Parser
  <2>1. 0 \in 0 .. 2 * TaskCount
    BY Sizes
  <2>. QED
    BY <1>2, <2>1, Typed DEF Parser
<1>4. Reader'
  BY <1>2 DEF Reader
<1>5. names' \in [Reports -> Word] /\ data' \in DataType
  BY <1>1 DEF TypeInv, TypeOK, DataType
<1>. QED
  BY <1>1, <1>3, <1>4, <1>5, ParserTypes

LEMMA ReadInfoTypes ==
  ASSUME TypeInv, ReadInfo
  PROVE  TypeInv'
<1>1. UNCHANGED <<job, data>> /\ parse.pc = "info" /\ parse.op = 0
  BY Typed DEF ReadInfo, Reader
<1>2. names' \in [Reports -> Word]
  <2>1. names' = [n \in Reports |-> report[2 + n * NameWords]]
    BY DEF ReadInfo
  <2>2. ASSUME NEW n \in Reports PROVE report[2 + n * NameWords] \in Word
    <3>1. 2 + n * NameWords \in InfoWords
      BY DEF InfoWords
    <3>. QED
      BY <3>1, InfoRoom, Typed
  <2>. QED
    BY <2>1, <2>2
<1>3. PICK to \in {"failed", "refused", "all", "one"} :
        /\ parse' = [parse EXCEPT !.pc = to]
        /\ to = "one" => parse.ops # 0 /\ ~(parse.ops > 2 * TaskCount - 1)
        /\ to = "all" => parse.ops = 0
  BY DEF ReadInfo
<1>4. parse' \in Parser /\ parse'.pc = to /\ parse'.op = 0 /\ parse'.ops = parse.ops
  BY <1>1, <1>3, Typed DEF Parser
<1>5. Reader'
  <2>1. 0 \in Reports
    BY Sizes DEF Reports
  <2>2. to = "one" => parse.ops \in 1 .. 2 * TaskCount - 1
    BY <1>3, Typed, Sizes DEF Parser
  <2>. QED
    BY <1>3, <1>4, <2>1, <2>2 DEF Reader
<1>6. data' \in DataType
  BY <1>1 DEF TypeInv, TypeOK, DataType
<1>. QED
  BY <1>1, <1>2, <1>4, <1>5, <1>6, ParserTypes

LEMMA ReadAllTypes ==
  ASSUME TypeInv, ReadAll
  PROVE  TypeInv'
<1>1. UNCHANGED <<job, names>> /\ parse.pc = "all" /\ parse.op \in Reports
  BY Typed DEF ReadAll, Reader
<1>2. data' \in DataType
  <2>1. data' = [k \in 0 .. DataPerOp - 1 |-> report[(parse.op + 2) * OpsCount + k]]
    BY DEF ReadAll
  <2>2. ASSUME NEW k \in 0 .. DataPerOp - 1
        PROVE  report[(parse.op + 2) * OpsCount + k] \in Word
    <3>1. k \in 0 .. OpsCount - 1
      BY Sizes
    <3>2. ReportAt(parse.op) + k \in Words
      BY <1>1, <3>1, ReportWord
    <3>3. (parse.op + 2) * OpsCount = ReportAt(parse.op)
      BY <1>1, ReportRoom
    <3>. QED
      BY <3>2, <3>3, Typed
  <2>. QED
    BY <2>1, <2>2 DEF DataType
<1>3. PICK to \in {"all", "done"} :
        /\ parse' = [parse EXCEPT !.op = parse.op + 1, !.pc = to]
        /\ to = "all" => parse.op + 1 \in Reports
  BY DEF ReadAll
<1>4. parse' \in Parser /\ parse'.pc = to /\ parse'.op = parse.op + 1
  <2>1. parse.op + 1 \in 0 .. 2 * TaskCount
    BY <1>1, Sizes DEF Reports
  <2>. QED
    BY <1>3, <2>1, Typed DEF Parser
<1>5. Reader'
  <2>2. parse.ops = 0 /\ parse'.ops = 0
    BY <1>1, <1>3, Typed DEF Reader, Parser
  <2>3. parse'.op - 1 \in Reports
    BY <1>1, <1>4, Sizes DEF Reports
  <2>4. to = "all" => parse'.op \in Reports
    BY <1>3, <1>4
  <2>. QED
    BY <1>4, <2>2, <2>3, <2>4 DEF Reader
<1>6. names' \in [Reports -> Word]
  BY <1>1, Typed
<1>. QED
  BY <1>1, <1>2, <1>4, <1>5, <1>6, ParserTypes

LEMMA ReadOneTypes ==
  ASSUME TypeInv, ReadOne
  PROVE  TypeInv'
<1>1. UNCHANGED <<job, names>> /\ parse.pc = "one" /\ parse.ops \in 1 .. 2 * TaskCount - 1
  BY Typed DEF ReadOne, Reader
<1>2. data' \in DataType
  <2>1. data' = [k \in 0 .. OpsCount - 1 |-> report[parse.ops * OpsCount + k]]
    BY DEF ReadOne
  <2>2. ASSUME NEW k \in 0 .. OpsCount - 1
        PROVE  report[parse.ops * OpsCount + k] \in Word
    <3>1. (parse.ops + 1) * OpsCount <= (2 * TaskCount + 1) * OpsCount
      BY <1>1, Times, Sizes
    <3>2. /\ (parse.ops + 1) * OpsCount = parse.ops * OpsCount + OpsCount
          /\ parse.ops * OpsCount \in Nat /\ (2 * TaskCount + 1) * OpsCount \in Nat
      BY <1>1, Sizes
    <3>3. parse.ops * OpsCount + k \in Words
      BY <3>1, <3>2, Sizes DEF Words
    <3>. QED
      BY <3>3, Typed
  <2>. QED
    BY <2>1, <2>2 DEF DataType
<1>3. parse' = [parse EXCEPT !.pc = "done"]
  BY DEF ReadOne
<1>4. parse' \in Parser /\ parse'.pc = "done" /\ parse'.op = 0
  BY <1>1, <1>3, Typed DEF Parser, Reader
<1>5. Reader'
  BY <1>4 DEF Reader
<1>6. names' \in [Reports -> Word]
  BY <1>1, Typed
<1>. QED
  BY <1>1, <1>2, <1>4, <1>5, <1>6, ParserTypes

LEMMA NextTypes == TypeInv /\ [Next]_vars => TypeInv'
<1>. SUFFICES ASSUME TypeInv, [Next]_vars PROVE TypeInv'
  OBVIOUS
<1>1. CASE OverwriteJob \/ ChasingJob \/ CreateSeed
  BY <1>1, OverwritesTypes DEF OverwriteJob, ChasingJob, CreateSeed
<1>2. CASE UNCHANGED vars
  BY <1>2 DEF TypeInv, TypeOK, Job, Reader, vars, job, ReportAt, TaskOf, IsRandom
<1>. QED
  BY <1>1, <1>2, BeginTestTypes, WriteInfoTypes, BeginOpTypes, CallTypes, EndOpTypes,
     EndTestTypes, ParseStartTypes, ReadInfoTypes, ReadAllTypes, ReadOneTypes DEF Next

LEMMA Types == Spec => []TypeInv
BY InitTypes, NextTypes, PTL DEF Spec

\* Every command, and the parser whenever it is started, stays within the
\* device, the reports and the info: no index leaves its range whatever the
\* tests leave behind (tasks.c latency_job, parse_data).
THEOREM TypeCorrect == Spec => []TypeOK
<1>1. TypeInv => TypeOK
  BY DEF TypeInv
<1>. QED
  BY <1>1, Types, PTL

-----------------------------------------------------------------------------
(***************************************************************************)
(* The layout.                                                             *)
(***************************************************************************)

\* The report that is being filled has its results so far.
Filled ==
  pc = "call" => \A k \in 0 .. j - 1 : report[ReportAt(op) + k] = Result(run, op, k)

LayoutInv == KeepsLayout /\ Filled

LEMMA InitLayout == Init => LayoutInv
BY DEF Init, LayoutInv, KeepsLayout, KeepsResults, KeepsInfo, KeepsPool, Filled, Testing

\* A command has begun: there is nothing to keep yet.
LEMMA BeginLayout ==
  ASSUME pc' \in {"idle", "info"}, intact' = FALSE
  PROVE  LayoutInv'
BY DEF LayoutInv, KeepsLayout, KeepsResults, KeepsInfo, KeepsPool, Filled, Testing

LEMMA WriteInfoLayout ==
  ASSUME TypeInv, WriteInfo
  PROVE  LayoutInv'
<1>1. op' = 0 /\ pc' = "begin" /\ run' = run
  BY DEF WriteInfo
<1>2. \A w \in InfoWords : report'[w] = Info(run, w)
  BY InfoRoom DEF WriteInfo
<1>3. KeepsInfo'
  BY <1>1, <1>2 DEF KeepsInfo, Info
<1>4. KeepsResults'
  <2>1. \A n \in Reports : ~(n < 0)
    BY DEF Reports
  <2>. QED
    BY <1>1, <2>1 DEF KeepsResults
<1>. QED
  BY <1>1, <1>3, <1>4 DEF LayoutInv, KeepsLayout, KeepsPool, Filled

LEMMA BeginOpLayout ==
  ASSUME TypeInv, LayoutInv, BeginOp
  PROVE  LayoutInv'
<1>1. /\ pc = "begin" /\ op \in Reports /\ pc' = "call" /\ j' = 0
      /\ op' = op /\ run' = run /\ intact' = intact
  BY DEF BeginOp
<1>2. \A w \in Words : w \notin OpsCount .. 2 * OpsCount - 1 => report'[w] = report[w]
  BY Sizes DEF BeginOp, PoolStart, PoolSize
<1>3. KeepsInfo'
  <2>1. ASSUME NEW w \in InfoWords PROVE report'[w] = report[w]
    <3>1. w \in Words /\ w \in 0 .. OpsCount - 1
      BY InfoRoom
    <3>2. w \notin OpsCount .. 2 * OpsCount - 1
      BY <3>1, Sizes
    <3>. QED
      BY <3>1, <3>2, <1>2
  <2>2. \A w \in InfoWords : report[w] = Info(run, w)
    BY <1>1 DEF LayoutInv, KeepsLayout, KeepsInfo, Testing
  <2>. QED
    BY <1>1, <2>1, <2>2 DEF KeepsInfo, Info
<1>4. KeepsResults'
  <2>1. ASSUME NEW n \in Reports, n < op, NEW k \in 0 .. OpsCount - 1
        PROVE  report'[FirstReport + n * OpsCount + k] = Result(run, n, k)
    <3>1. ReportAt(n) + k \in Words /\ ReportAt(n) + k \notin OpsCount .. 2 * OpsCount - 1
      BY ReportWord, Sizes
    <3>2. report'[ReportAt(n) + k] = report[ReportAt(n) + k]
      BY <3>1, <1>2
    <3>3. report[ReportAt(n) + k] = Result(run, n, k)
      BY <1>1, <2>1 DEF LayoutInv, KeepsLayout, KeepsResults, Testing, ReportAt
    <3>. QED
      BY <3>2, <3>3 DEF ReportAt
  <2>. QED
    BY <1>1, <2>1 DEF KeepsResults, FirstReport, Result
<1>5. KeepsPool'
  <2>1. ASSUME IsRandom(op), NEW k \in 0 .. OpsCount - 1
        PROVE  report'[OpsCount + k] = [kind |-> "random", run |-> run, op |-> op, k |-> k]
    <3>. DEFINE w == OpsCount + k
    <3>1. w \in Words /\ w \in PoolStart .. PoolStart + PoolSize - 1 /\ w - PoolStart = k
      BY InfoRoom, Sizes DEF Words, PoolStart, PoolSize
    <3>. HIDE DEF w
    <3>2. report'[w] = [kind |-> "random", run |-> run, op |-> op, k |-> w - PoolStart]
      BY <2>1, <3>1 DEF BeginOp
    <3>3. report'[w] = [kind |-> "random", run |-> run, op |-> op, k |-> k]
      BY <3>1, <3>2
    <3>. QED
      BY <3>3 DEF w
  <2>. QED
    BY <1>1, <2>1 DEF KeepsPool, IsRandom
<1>6. Filled'
  BY <1>1 DEF Filled
<1>. QED
  BY <1>3, <1>4, <1>5, <1>6 DEF LayoutInv, KeepsLayout

LEMMA CallLayout ==
  ASSUME TypeInv, LayoutInv, Call
  PROVE  LayoutInv'
<1>. DEFINE cnt == ResultCnt[TaskOf(op)]
<1>1. /\ pc = "call" /\ op \in Reports /\ j \in 0 .. OpsCount /\ j < OpsCount
      /\ rbuf = ReportAt(op) /\ rbuf \in Nat /\ j % cnt = 0
  BY Typed DEF Call, Job
<1>2. cnt \in Nat \ {0} /\ j + cnt \in 0 .. OpsCount
  BY <1>1, CallFits
<1>3. j' = j + cnt /\ UNCHANGED <<pc, run, op, intact>>
  BY DEF Call
<1>4. report' = [w \in Words |->
        IF w \in rbuf + j .. rbuf + j + cnt - 1 THEN Result(run, op, w - rbuf) ELSE report[w]]
  BY DEF Call
<1>. HIDE DEF cnt
<1>5. \A w \in Words : w < rbuf => report'[w] = report[w]
  BY <1>1, <1>2, <1>4 DEF Words
<1>6. 2 * OpsCount <= rbuf
  BY <1>1, ReportRoom
<1>7. KeepsInfo'
  <2>1. ASSUME NEW w \in InfoWords PROVE report'[w] = report[w]
    BY InfoRoom, <1>5, <1>6, <1>1, Sizes
  <2>2. \A w \in InfoWords : report[w] = Info(run, w)
    BY <1>1 DEF LayoutInv, KeepsLayout, KeepsInfo, Testing
  <2>. QED
    BY <1>3, <2>1, <2>2 DEF KeepsInfo, Info
<1>8. KeepsResults'
  <2>1. ASSUME NEW n \in Reports, n < op, NEW k \in 0 .. OpsCount - 1
        PROVE  report'[ReportAt(n) + k] = Result(run, n, k)
    <3>1. ReportAt(n) + k \in Words
      BY ReportWord
    <3>2. ReportAt(n) + OpsCount <= rbuf /\ ReportAt(n) \in Nat
      BY <1>1, <2>1, ReportsApart, ReportRoom DEF Reports
    <3>3. ReportAt(n) + k < rbuf
      BY <3>2, <1>1, Sizes
    <3>4. report[ReportAt(n) + k] = Result(run, n, k)
      BY <1>1, <2>1 DEF LayoutInv, KeepsLayout, KeepsResults, Testing, ReportAt
    <3>. QED
      BY <3>1, <3>3, <3>4, <1>5
  <2>. QED
    BY <1>3, <2>1 DEF KeepsResults, FirstReport, ReportAt, Result
<1>9. KeepsPool'
  <2>1. ASSUME IsRandom(op), NEW k \in 0 .. OpsCount - 1
        PROVE  report'[OpsCount + k] = [kind |-> "random", run |-> run, op |-> op, k |-> k]
    <3>1. OpsCount + k \in Words /\ OpsCount + k < rbuf
      BY InfoRoom, Sizes, <1>1, <1>6 DEF Words
    <3>2. report[OpsCount + k] = [kind |-> "random", run |-> run, op |-> op, k |-> k]
      BY <1>1, <2>1 DEF LayoutInv, KeepsLayout, KeepsPool
    <3>. QED
      BY <3>1, <3>2, <1>5
  <2>. QED
    BY <1>3, <2>1 DEF KeepsPool, IsRandom
<1>10. Filled'
  <2>1. ASSUME NEW k \in 0 .. j + cnt - 1
        PROVE  report'[ReportAt(op) + k] = Result(run, op, k)
    <3>. DEFINE w == ReportAt(op) + k
    <3>1. k \in 0 .. OpsCount - 1 /\ k \in Nat
      BY <1>1, <1>2, Sizes
    <3>2. w \in Words /\ w - rbuf = k /\ w = rbuf + k
      BY <3>1, <1>1, ReportWord
    <3>3. CASE k < j
      <4>1. w \notin rbuf + j .. rbuf + j + cnt - 1
        BY <3>1, <3>2, <3>3, <1>1, <1>2
      <4>2. k \in 0 .. j - 1
        BY <3>1, <3>3, <1>1
      <4>3. report[w] = Result(run, op, k)
        BY <4>2, <1>1 DEF LayoutInv, Filled
      <4>. HIDE DEF w
      <4>4. report'[w] = report[w]
        BY <4>1, <3>2, <1>4
      <4>5. report'[w] = Result(run, op, k)
        BY <4>3, <4>4
      <4>. QED
        BY <4>5 DEF w
    <3>4. CASE ~(k < j)
      <4>1. w \in rbuf + j .. rbuf + j + cnt - 1
        BY <3>1, <3>2, <3>4, <1>1, <1>2
      <4>. HIDE DEF w
      <4>2. report'[w] = Result(run, op, w - rbuf)
        BY <4>1, <3>2, <1>4
      <4>3. report'[w] = Result(run, op, k)
        BY <4>2, <3>2
      <4>. QED
        BY <4>3 DEF w
    <3>. QED
      BY <3>3, <3>4
  <2>. QED
    BY <1>1, <1>2, <1>3, <2>1, SMT DEF Filled, ReportAt, FirstReport, Result
<1>. QED
  BY <1>7, <1>8, <1>9, <1>10 DEF LayoutInv, KeepsLayout

LEMMA EndOpLayout ==
  ASSUME TypeInv, LayoutInv, EndOp
  PROVE  LayoutInv'
<1>1. /\ pc = "call" /\ op \in Reports /\ j \in 0 .. OpsCount /\ j >= OpsCount
      /\ pc' = "begin" /\ op' = op + 1 /\ UNCHANGED <<run, report, intact>>
  BY Typed DEF EndOp, Job
<1>2. j = OpsCount
  BY <1>1, Sizes
<1>3. KeepsResults'
  <2>1. ASSUME NEW n \in Reports, n < op + 1, NEW k \in 0 .. OpsCount - 1
        PROVE  report[ReportAt(n) + k] = Result(run, n, k)
    <3>1. CASE n = op
      BY <1>1, <1>2, <3>1 DEF LayoutInv, Filled
    <3>2. CASE n # op
      <4>1. n < op
        BY <1>1, <2>1, <3>2 DEF Reports
      <4>. QED
        BY <1>1, <4>1 DEF LayoutInv, KeepsLayout, KeepsResults, Testing, ReportAt
    <3>. QED
      BY <3>1, <3>2
  <2>. QED
    BY <1>1, <2>1 DEF KeepsResults, FirstReport, ReportAt, Result
<1>4. KeepsInfo'
  <2>1. \A w \in InfoWords : report[w] = Info(run, w)
    BY <1>1 DEF LayoutInv, KeepsLayout, KeepsInfo, Testing
  <2>. QED
    BY <1>1, <2>1 DEF KeepsInfo, Info
<1>5. KeepsPool' /\ Filled'
  BY <1>1 DEF KeepsPool, Filled
<1>. QED
  BY <1>3, <1>4, <1>5 DEF LayoutInv, KeepsLayout

LEMMA EndTestLayout ==
  ASSUME TypeInv, LayoutInv, EndTest
  PROVE  LayoutInv'
<1>1. pc = "begin" /\ pc' = "idle" /\ UNCHANGED <<run, report, op>>
  BY DEF EndTest
<1>2. KeepsResults'
  BY <1>1 DEF LayoutInv, KeepsLayout, KeepsResults, Testing, Result
<1>3. KeepsInfo'
  BY <1>1 DEF LayoutInv, KeepsLayout, KeepsInfo, Testing, Info
<1>4. KeepsPool' /\ Filled'
  BY <1>1 DEF KeepsPool, Filled
<1>. QED
  BY <1>2, <1>3, <1>4 DEF LayoutInv, KeepsLayout

\* The parser, or nobody, moves.
LEMMA JobLayout ==
  ASSUME LayoutInv, UNCHANGED job
  PROVE  LayoutInv'
<1>1. UNCHANGED <<pc, run, rbuf, op, j, report, place, intact>>
  BY DEF job
<1>2. KeepsResults'
  BY <1>1 DEF LayoutInv, KeepsLayout, KeepsResults, Testing, Result
<1>3. KeepsInfo'
  BY <1>1 DEF LayoutInv, KeepsLayout, KeepsInfo, Testing, Info
<1>4. KeepsPool'
  BY <1>1 DEF LayoutInv, KeepsLayout, KeepsPool, IsRandom
<1>5. Filled'
  BY <1>1 DEF LayoutInv, Filled, ReportAt, Result
<1>. QED
  BY <1>2, <1>3, <1>4, <1>5 DEF LayoutInv, KeepsLayout

LEMMA NextLayout == TypeInv /\ LayoutInv /\ [Next]_vars => LayoutInv'
<1>. SUFFICES ASSUME TypeInv, LayoutInv, [Next]_vars PROVE LayoutInv'
  OBVIOUS
<1>1. CASE OverwriteJob \/ ChasingJob \/ CreateSeed \/ BeginTest
  <2>1. ASSUME NEW n, Overwrites(n) PROVE LayoutInv'
    <3>1. pc' = "idle" /\ intact' = FALSE
      BY <2>1 DEF Overwrites, BeginCommand
    <3>. QED
      BY <3>1, BeginLayout
  <2>2. CASE BeginTest
    <3>1. pc' = "info" /\ intact' = FALSE
      BY <2>2 DEF BeginTest, BeginCommand
    <3>. QED
      BY <3>1, BeginLayout
  <2>. QED
    BY <1>1, <2>1, <2>2 DEF OverwriteJob, ChasingJob, CreateSeed
<1>2. CASE ParseStart \/ ReadInfo \/ ReadAll \/ ReadOne \/ UNCHANGED vars
  <2>1. UNCHANGED job
    BY <1>2 DEF ParseStart, ReadInfo, ReadAll, ReadOne, vars
  <2>. QED
    BY <2>1, JobLayout
<1>. QED
  BY <1>1, <1>2, WriteInfoLayout, BeginOpLayout, CallLayout, EndOpLayout, EndTestLayout DEF Next

LEMMA Layout == Spec => []LayoutInv
BY InitLayout, Types, NextLayout, PTL DEF Spec

\* The results of the reports that are complete, the info and the numbers of
\* the pool stay what they are through a whole test and, until the next
\* command, after it: each area keeps to its slot (lattester.h:29-50).
THEOREM AreasKeptApart == Spec => []KeepsLayout
<1>1. LayoutInv => KeepsLayout
  BY DEF LayoutInv
<1>. QED
  BY <1>1, Layout, PTL

\* The pages that latency_job touches beforehand cover whatever it writes
\* between two time stamps, for every size of a page (tasks.c:126).
THEOREM NoFaultMeasured == Spec => []WritesFilledPages
<1>1. ASSUME TypeInv PROVE WritesFilledPages
  <2>. DEFINE cnt == ResultCnt[TaskOf(op)]
              area == (2 * TaskCount + 1) * OpsCount
  <2>. SUFFICES ASSUME pc = "call", j < OpsCount
                PROVE  rbuf + j + cnt <= FilledPages * PageWords
    BY DEF WritesFilledPages
  <2>1. op \in Reports /\ rbuf = ReportAt(op) /\ j \in 0 .. OpsCount /\ j % cnt = 0
    BY <1>1, Typed DEF Job
  <2>2. cnt \in Nat /\ j + cnt \in 0 .. OpsCount
    BY <2>1, CallFits
  <2>3. rbuf \in Nat /\ rbuf + OpsCount <= area /\ area \in Nat
    BY <2>1, ReportRoom, Sizes
  <2>. HIDE DEF cnt, area
  <2>4. area <= FilledPages * PageWords /\ FilledPages * PageWords \in Nat
    <3>. DEFINE n == area + PageWords - 1
    <3>1. n \in Nat /\ PageWords \in Nat \ {0}
      BY <2>3, Sizes
    <3>2. /\ n \div PageWords \in Nat /\ (n % PageWords) \in 0 .. PageWords - 1
          /\ n = PageWords * (n \div PageWords) + (n % PageWords)
      BY <3>1, Division
    <3>3. FilledPages = n \div PageWords
      BY DEF FilledPages, area
    <3>. DEFINE q == n \div PageWords
                r == n % PageWords
    <3>4. q \in Nat /\ r \in 0 .. PageWords - 1 /\ n = PageWords * q + r /\ FilledPages = q
      BY <3>2, <3>3
    <3>5. n = area + PageWords - 1
      OBVIOUS
    <3>. HIDE DEF n, q, r
    <3>6. q * PageWords \in Nat /\ q * PageWords = PageWords * q
      BY <3>1, <3>4
    <3>7. area <= q * PageWords
      BY <2>3, <3>1, <3>4, <3>5, <3>6
    <3>. QED
      BY <3>4, <3>6, <3>7
  <2>. QED
    BY <2>1, <2>2, <2>3, <2>4, Sizes
<1>. QED
  BY <1>1, Types, PTL

-----------------------------------------------------------------------------
(***************************************************************************)
(* parse_data.                                                             *)
(***************************************************************************)

\* What it has read, as long as no command has begun under it.
Fresh ==
  parse.clean =>
    /\ intact /\ parse.of = run /\ parse.pc # "failed"
    /\ parse.pc \in {"all", "one", "done"} =>
         \A n \in Reports : names[n] = Info(run, 2 + n * NameWords)
    /\ parse.op > 0 =>
         \A k \in 0 .. DataPerOp - 1 : data[k] = Result(run, parse.op - 1, k)

Inv == TypeInv /\ LayoutInv

\* A device that nobody has written since the test ended.
LEMMA IntactDevice ==
  ASSUME Inv, intact
  PROVE  /\ \A w \in InfoWords : report[w] = Info(run, w)
         /\ \A n \in Reports, k \in 0 .. OpsCount - 1 : report[ReportAt(n) + k] = Result(run, n, k)
<1>1. \A n \in Reports : n < op
  BY Typed, Sizes DEF Inv, Job, Reports
<1>. QED
  BY <1>1 DEF Inv, LayoutInv, KeepsLayout, KeepsInfo, KeepsResults, ReportAt

LEMMA InitFresh == Init => Fresh
BY DEF Init, Fresh

LEMMA CommandFresh ==
  ASSUME Inv, BeginCommand
  PROVE  Fresh'
<1>1. parse' = [parse EXCEPT !.clean = FALSE]
  BY DEF BeginCommand
<1>2. parse'.clean = FALSE
  BY <1>1, Typed DEF Inv, Parser
<1>. QED
  BY <1>2 DEF Fresh

\* While latency_job runs, whatever parse_data reads is not clean.
LEMMA JobFresh ==
  ASSUME Inv, Fresh, pc # "idle", UNCHANGED parse
  PROVE  Fresh'
<1>1. ~parse.clean
  BY Typed DEF Inv, Fresh, Job
<1>. QED
  BY <1>1 DEF Fresh

LEMMA ParseStartFresh ==
  ASSUME Inv, ParseStart
  PROVE  Fresh'
<1>1. UNCHANGED <<pc, run, report, intact>> /\ UNCHANGED <<names, data>>
  BY DEF ParseStart, job
<1>2. /\ parse'.pc = "info" /\ parse'.clean = intact /\ parse'.of = run /\ parse'.op = 0
  BY DEF ParseStart
<1>. QED
  BY <1>1, <1>2 DEF Fresh

LEMMA ReadInfoFresh ==
  ASSUME Inv, Fresh, ReadInfo
  PROVE  Fresh'
<1>. SUFFICES ASSUME parse'.clean PROVE Fresh'
  BY DEF Fresh
<1>1. UNCHANGED <<pc, run, report, intact>> /\ UNCHANGED data /\ parse.pc = "info" /\ parse.op = 0
  BY Typed DEF ReadInfo, Reader, job, Inv
<1>2. parse'.clean = parse.clean /\ parse'.of = parse.of /\ parse'.op = parse.op
  BY Typed DEF ReadInfo, Inv, Parser
<1>3. intact /\ parse.of = run
  BY <1>2 DEF Fresh
<1>4. \A w \in InfoWords : report[w] = Info(run, w)
  BY <1>3, IntactDevice
<1>5. report[0].kind = "task_cnt" /\ report[1].kind = "repeat_cnt"
  <2>1. 0 \in InfoWords /\ 1 \in InfoWords
    BY DEF InfoWords
  <2>2. Info(run, 0).kind = "task_cnt" /\ Info(run, 1).kind = "repeat_cnt"
    <3>1. ASSUME NEW w, w = 0 PROVE Info(run, w).kind = "task_cnt"
      <4>1. Info(run, w) = [Nothing EXCEPT !.kind = "task_cnt", !.run = run]
        BY <3>1 DEF Info
      <4>2. [Nothing EXCEPT !.kind = "task_cnt", !.run = run].kind = "task_cnt"
        BY DEF Nothing
      <4>. QED
        BY <4>1, <4>2
    <3>2. ASSUME NEW w, w = 1 PROVE Info(run, w).kind = "repeat_cnt"
      <4>1. Info(run, w) = [Nothing EXCEPT !.kind = "repeat_cnt", !.run = run]
        BY <3>2 DEF Info
      <4>2. [Nothing EXCEPT !.kind = "repeat_cnt", !.run = run].kind = "repeat_cnt"
        BY DEF Nothing
      <4>. QED
        BY <4>1, <4>2
    <3>. QED
      BY <3>1, <3>2
  <2>. QED
    BY <1>4, <2>1, <2>2
<1>6. ASSUME NEW n \in Reports
      PROVE  names'[n] = Info(run, 2 + n * NameWords) /\ names'[n].kind = "name"
  <2>. DEFINE v == 2 + n * NameWords
  <2>1. v \in 2 .. OpsCount - 1 /\ v \in InfoWords
    BY NameRoom DEF InfoWords
  <2>2. names'[n] = report[v]
    BY DEF ReadInfo
  <2>. HIDE DEF v
  <2>3. v # 0 /\ v # 1
    BY <2>1
  <2>4. Info(run, v).kind = "name"
    BY <2>3 DEF Info, Nothing
  <2>5. names'[n] = Info(run, v) /\ names'[n].kind = "name"
    BY <2>1, <2>2, <2>4, <1>4
  <2>. QED
    BY <2>5 DEF v
<1>7. parse'.pc \in {"refused", "all", "one"}
  BY <1>5, <1>6, Typed DEF ReadInfo, Inv, Parser
<1>. QED
  BY <1>1, <1>2, <1>3, <1>6, <1>7 DEF Fresh

LEMMA ReadAllFresh ==
  ASSUME Inv, Fresh, ReadAll
  PROVE  Fresh'
<1>. SUFFICES ASSUME parse'.clean PROVE Fresh'
  BY DEF Fresh
<1>1. /\ UNCHANGED <<pc, run, report, intact>> /\ UNCHANGED names
      /\ parse.pc = "all" /\ parse.op \in Reports
  BY Typed DEF ReadAll, Reader, job, Inv
<1>2. /\ parse'.clean = parse.clean /\ parse'.of = parse.of
      /\ parse'.op = parse.op + 1 /\ parse'.pc \in {"all", "done"}
  BY Typed DEF ReadAll, Inv, Parser
<1>3. intact /\ parse.of = run /\ \A n \in Reports : names[n] = Info(run, 2 + n * NameWords)
  BY <1>1, <1>2 DEF Fresh
<1>4. ASSUME NEW k \in 0 .. DataPerOp - 1
      PROVE  data'[k] = Result(run, parse.op, k)
  <2>1. k \in 0 .. OpsCount - 1
    BY Sizes
  <2>2. data'[k] = report[(parse.op + 2) * OpsCount + k]
    BY DEF ReadAll
  <2>3. (parse.op + 2) * OpsCount = ReportAt(parse.op)
    BY <1>1, ReportRoom
  <2>4. report[ReportAt(parse.op) + k] = Result(run, parse.op, k)
    BY <1>1, <1>3, <2>1, IntactDevice
  <2>. QED
    BY <2>2, <2>3, <2>4
<1>5. parse'.op - 1 = parse.op
  BY <1>1, <1>2, Sizes DEF Reports
<1>6. \A k \in 0 .. DataPerOp - 1 : data'[k] = Result(run', parse'.op - 1, k)
  BY <1>1, <1>4, <1>5
<1>. QED
  BY <1>1, <1>2, <1>3, <1>6 DEF Fresh

LEMMA ReadOneFresh ==
  ASSUME Inv, Fresh, ReadOne
  PROVE  Fresh'
<1>. SUFFICES ASSUME parse'.clean PROVE Fresh'
  BY DEF Fresh
<1>1. /\ UNCHANGED <<pc, run, report, intact>> /\ UNCHANGED names
      /\ parse.pc = "one" /\ parse.op = 0
  BY Typed DEF ReadOne, Reader, job, Inv
<1>2. /\ parse'.clean = parse.clean /\ parse'.of = parse.of
      /\ parse'.op = parse.op /\ parse'.pc = "done"
  BY Typed DEF ReadOne, Inv, Parser
<1>3. intact /\ parse.of = run /\ \A n \in Reports : names[n] = Info(run, 2 + n * NameWords)
  BY <1>1, <1>2 DEF Fresh
<1>4. ~(parse'.op > 0)
  BY <1>1, <1>2
<1>. QED
  BY <1>1, <1>2, <1>3, <1>4 DEF Fresh

LEMMA NextFresh == Inv /\ Fresh /\ [Next]_vars => Fresh'
<1>. SUFFICES ASSUME Inv, Fresh, [Next]_vars PROVE Fresh'
  OBVIOUS
<1>1. CASE OverwriteJob \/ ChasingJob \/ CreateSeed \/ BeginTest
  <2>1. BeginCommand
    BY <1>1 DEF OverwriteJob, ChasingJob, CreateSeed, BeginTest, Overwrites
  <2>. QED
    BY <2>1, CommandFresh
<1>2. CASE WriteInfo \/ BeginOp \/ Call \/ EndOp \/ EndTest
  <2>1. pc # "idle" /\ UNCHANGED parse
    BY <1>2 DEF WriteInfo, BeginOp, Call, EndOp, EndTest
  <2>. QED
    BY <2>1, JobFresh
<1>3. CASE UNCHANGED vars
  BY <1>3 DEF vars, job, Fresh, Info, Result
<1>. QED
  BY <1>1, <1>2, <1>3, ParseStartFresh, ReadInfoFresh, ReadAllFresh, ReadOneFresh DEF Next

LEMMA ReadsFresh == Spec => []Fresh
<1>1. Inv <=> TypeInv /\ LayoutInv
  BY DEF Inv
<1>. QED
  BY <1>1, InitFresh, Types, Layout, NextFresh, PTL DEF Spec

\* "parse_data all" and latency_job agree where the info and the reports are:
\* after a test, and if no other command begins meanwhile, the parser finds
\* under each name that report's own results, for every number and kind of
\* tasks.
THEOREM ParserAgrees == Spec => []ParsedRight
<1>1. ASSUME Inv, Fresh PROVE ParsedRight
  <2>. SUFFICES ASSUME parse.clean PROVE ParsedRight
    BY DEF ParsedRight
  <2>1. parse.pc # "failed" /\ parse.of = run
    BY <1>1 DEF Fresh
  <2>2. ASSUME parse.op > 0
        PROVE  /\ names[parse.op - 1].op = parse.op - 1
               /\ \A k \in 0 .. DataPerOp - 1 : data[k] = Result(run, parse.op - 1, k)
    <3>. DEFINE n == parse.op - 1
    <3>1. n \in Reports /\ parse.pc \in {"all", "done"}
      BY <1>1, <2>2, Typed DEF Inv, Reader
    <3>2. \A k \in 0 .. DataPerOp - 1 : data[k] = Result(run, n, k)
      BY <1>1, <2>2 DEF Fresh
    <3>. HIDE DEF n
    <3>. DEFINE v == 2 + n * NameWords
    <3>3. v \in 2 .. OpsCount - 1 /\ (v - 2) \div NameWords = n
      BY <3>1, NameRoom
    <3>4. names[n] = Info(run, v)
      BY <1>1, <3>1 DEF Fresh
    <3>. HIDE DEF v
    <3>5. v # 0 /\ v # 1
      BY <3>3
    <3>6. Info(run, v).op = n
      BY <3>3, <3>5 DEF Info, Nothing
    <3>7. names[n].op = n
      BY <3>4, <3>6
    <3>. QED
      BY <3>2, <3>7 DEF n
  <2>. QED
    BY <2>1, <2>2 DEF ParsedRight
<1>2. Inv <=> TypeInv /\ LayoutInv
  BY DEF Inv
<1>. QED
  BY <1>1, <1>2, Types, Layout, ReadsFresh, PTL
=============================================================================
