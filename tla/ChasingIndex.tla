---------------------------- MODULE ChasingIndex ----------------------------
(***************************************************************************)
(* The read-after-write test, task 6 (read_after_write_job in tasks.c).    *)
(* After two strided passes over the medium, init_chasing_index threads    *)
(* the csize cache lines of a block into one random cycle, chasing_        *)
(* storeclwb walks that cycle in each block and stores in every line the   *)
(* number of the next one, and chasing_loadnt follows the numbers it loads *)
(* from the medium.  What the loads visit is thus decided by what the      *)
(* stores left there, by the index and by the layout of the blocks.        *)
(*                                                                         *)
(* Sizes are in bytes, as in the code; the medium is modelled line by      *)
(* line, and of the 64 bytes of a line the 8 that hold the number.         *)
(***************************************************************************)
EXTENDS Naturals, FiniteSets

CONSTANTS
  CACHELINE_SIZE,
  GLOBAL_WORKSET,     \* bytes of the region
  LATENCY_OPS_COUNT,  \* the most blocks of a pass
  AccessSizes,        \* values of access_size=
  StrideSizes,        \* values of stride_size=
  StaleValues,        \* what index and medium may hold before the test
  MayFail             \* whether RDRAND may fail RDRAND_MAX_RETRY times

ASSUME ConstantsAssumption ==
  /\ CACHELINE_SIZE \in Nat \ {0}
  /\ GLOBAL_WORKSET \in Nat
  /\ LATENCY_OPS_COUNT \in Nat \ {0}
  /\ AccessSizes \subseteq 1 .. GLOBAL_WORKSET
  \* The instructions of both passes fault on other strides.
  /\ StrideSizes \subseteq {s \in 0 .. GLOBAL_WORKSET : s % CACHELINE_SIZE = 0}
  /\ StaleValues \subseteq Nat
  /\ MayFail \in BOOLEAN

VARIABLES
  pc,
  access,    \* access_size
  stride,    \* stride_size
  count,     \* the blocks of a pass
  irqs,      \* whether the worker's CPU takes interrupts
  reported,  \* whether LATTester_LAT_END has been printed
  cindex,    \* the chasing index, in the ReportFS region
  i,         \* the links made so far
  curr_pos,  \* the end of the chain
  medium,    \* the number each line of the region holds
  block,     \* r11: the block of the pass
  line,      \* r12: the line the walk has reached
  touched,   \* r10 / 64: the lines touched in this block
  lap        \* history: which they are, since the lap began

vars == <<pc, access, stride, count, irqs, reported, cindex, i, curr_pos,
          medium, block, line, touched, lap>>

command == <<access, stride, count>>
chain == <<cindex, i, curr_pos>>
walk == <<block, line, touched, lap>>

csize == access \div CACHELINE_SIZE
Lines == 0 .. csize - 1
RegionLines == 0 .. (GLOBAL_WORKSET \div CACHELINE_SIZE) - 1

Pc == {"idle", "begin", "index", "draw", "store", "load", "end", "parked",
       "returned", "oops"}

TypeOK ==
  /\ pc \in Pc
  /\ access \in Nat /\ stride \in Nat /\ count \in 0 .. LATENCY_OPS_COUNT
  /\ irqs \in BOOLEAN /\ reported \in BOOLEAN
  /\ cindex \in [RegionLines -> Nat]
  /\ i \in Nat /\ curr_pos \in Nat
  /\ medium \in [RegionLines -> Nat]
  /\ block \in Nat /\ line \in Nat /\ touched \in Nat /\ lap \subseteq Nat

Init ==
  /\ pc = "idle"
  /\ access = 0 /\ stride = 0 /\ count = 0
  /\ irqs = TRUE /\ reported = FALSE
  /\ \E v \in StaleValues : cindex = [l \in RegionLines |-> v]
  /\ \E v \in StaleValues : medium = [l \in RegionLines |-> v]
  /\ i = 0 /\ curr_pos = 0
  /\ block = 0 /\ line = 0 /\ touched = 0 /\ lap = {}
-----------------------------------------------------------------------------
\* Mutant: the command is not checked.
SaneAlways(a, s) == TRUE

\* The check of _parse_cmd: the blocks are the same one, or are apart.
Sane(a, s) == s = 0 \/ s >= a

\* Mutants: the blocks are counted as if they were adjacent; not capped.
BlocksAdjacent(a, s) ==
  LET n == GLOBAL_WORKSET \div a
  IN  IF n > LATENCY_OPS_COUNT THEN LATENCY_OPS_COUNT ELSE n

\* How many blocks of a bytes, s bytes apart, the test uses.
BlocksOf(a, s) ==
  LET all == GLOBAL_WORKSET \div a
      fit == IF s * all > GLOBAL_WORKSET THEN GLOBAL_WORKSET \div s ELSE all
  IN  IF fit > LATENCY_OPS_COUNT THEN LATENCY_OPS_COUNT ELSE fit

Command ==
  /\ pc = "idle"
  /\ \E a \in AccessSizes, s \in StrideSizes :
       /\ Sane(a, s)
       /\ access' = a /\ stride' = s /\ count' = BlocksOf(a, s)
  /\ pc' = "begin"
  /\ UNCHANGED <<irqs, reported, chain, medium, walk>>

\* BENCHMARK_BEGIN, then the separate and the combined strided passes, which
\* leave in the lines whatever zmm0 held.
StridedPasses ==
  /\ pc = "begin"
  /\ irqs' = FALSE
  /\ \E v \in StaleValues : medium' = [l \in RegionLines |-> v]
  /\ pc' = "index"
  /\ UNCHANGED <<command, reported, chain, walk>>
-----------------------------------------------------------------------------
(***************************************************************************)
(* init_chasing_index.                                                     *)
(***************************************************************************)

\* memset(cindex, 0, csize entries).
Cleared(c, n) == [l \in DOMAIN c |-> IF l < n THEN 0 ELSE c[l]]

ClearIndex ==
  /\ pc = "index"
  /\ cindex' = Cleared(cindex, csize)
  /\ i' = 0 /\ curr_pos' = 0
  /\ pc' = "draw"
  /\ UNCHANGED <<command, irqs, reported, medium, walk>>

\* Mutant: one link too many.
MoreLinksTooMany == csize = 0 \/ i < csize

\* i < csize-1 on unsigned numbers: for csize = 0 the bound is the largest.
MoreLinks == csize = 0 \/ i + 1 < csize

\* Mutants: a line may follow itself; the lines already linked are not skipped.
AcceptableSelf(n) == cindex[n] = 0
AcceptableUsed(n) == n # curr_pos

\* The do-while goes on while the drawn line has a successor or is the end of
\* the chain.  A draw that is rejected changes nothing.
Acceptable(n) == cindex[n] = 0 /\ n # curr_pos

Draw ==
  /\ pc = "draw" /\ MoreLinks
  /\ \E n \in Lines :
       /\ Acceptable(n)
       /\ cindex' = [cindex EXCEPT ![curr_pos] = n]
       /\ curr_pos' = n
  /\ i' = i + 1
  /\ UNCHANGED <<pc, command, irqs, reported, medium, walk>>

\* get_rand gives up: the job returns where it stands.
DrawFails ==
  /\ pc = "draw" /\ MoreLinks
  /\ MayFail
  /\ pc' = "returned"
  /\ UNCHANGED <<command, irqs, reported, chain, medium, walk>>

\* *rd % range with range = 0.
DivideError ==
  /\ pc = "draw" /\ csize = 0
  /\ pc' = "oops"
  /\ UNCHANGED <<command, irqs, reported, chain, medium, walk>>

Linked ==
  /\ pc = "draw" /\ ~MoreLinks
  /\ pc' = "store"
  /\ block' = 0 /\ line' = 0 /\ touched' = 0 /\ lap' = {}
  /\ UNCHANGED <<command, irqs, reported, chain, medium>>
-----------------------------------------------------------------------------
(***************************************************************************)
(* chasing_storeclwb and chasing_loadnt.                                   *)
(***************************************************************************)
Place(b, l) == ((b * stride) \div CACHELINE_SIZE) + l

InBlock == touched * CACHELINE_SIZE < access

Touched == (IF lap = Lines THEN {} ELSE lap) \cup {line}

StoreLine ==
  /\ pc = "store" /\ InBlock
  /\ medium' = [medium EXCEPT ![Place(block, line)] = cindex[line]]
  /\ line' = cindex[line]
  /\ touched' = touched + 1 /\ lap' = Touched
  /\ UNCHANGED <<pc, command, irqs, reported, chain, block>>

LoadLine ==
  /\ pc = "load" /\ InBlock
  /\ line' = medium[Place(block, line)]
  /\ touched' = touched + 1 /\ lap' = Touched
  /\ UNCHANGED <<pc, command, irqs, reported, chain, medium, block>>

\* Mutant: the counter of the blocks starts at one.
NextBlockOneShort ==
  /\ pc \in {"store", "load"} /\ ~InBlock
  /\ line' = 0 /\ touched' = 0 /\ lap' = {}
  /\ IF block + 2 < count
     THEN block' = block + 1 /\ pc' = pc
     ELSE block' = 0 /\ pc' = IF pc = "store" THEN "load" ELSE "end"
  /\ UNCHANGED <<command, irqs, reported, chain, medium>>

\* The walk starts again at line 0 of the next block, or of the next pass.
NextBlock ==
  /\ pc \in {"store", "load"} /\ ~InBlock
  /\ line' = 0 /\ touched' = 0 /\ lap' = {}
  /\ IF block + 1 < count
     THEN block' = block + 1 /\ pc' = pc
     ELSE block' = 0 /\ pc' = IF pc = "store" THEN "load" ELSE "end"
  /\ UNCHANGED <<command, irqs, reported, chain, medium>>

\* BENCHMARK_END, LATTester_LAT_END, wait_for_stop.
Report ==
  /\ pc = "end"
  /\ irqs' = TRUE /\ reported' = TRUE
  /\ pc' = "parked"
  /\ UNCHANGED <<command, chain, medium, walk>>
-----------------------------------------------------------------------------
Progress ==
  \/ Command \/ StridedPasses \/ ClearIndex \/ Draw \/ Linked
  \/ StoreLine \/ LoadLine \/ NextBlock \/ Report

Next == Progress \/ DrawFails \/ DivideError

Spec == Init /\ [][Next]_vars

\* A random number is drawn again until one is acceptable, which happens with
\* probability one if there is one; nothing obliges RDRAND to fail.
FairSpec == Spec /\ WF_vars(Progress) /\ WF_vars(DivideError)
-----------------------------------------------------------------------------
\* p lists the first n lines of a walk along the index, all of them different.
IsWalk(p, n) ==
  /\ p \in [0 .. n - 1 -> Lines]
  /\ p[0] = 0
  /\ \A j, k \in 0 .. n - 1 : p[j] = p[k] => j = k
  /\ \A j \in 0 .. n - 2 : cindex[p[j]] = p[j + 1]

\* When the index is complete it is one cycle through all the lines of a
\* block, whatever was drawn and whatever the memory held before: the walk of
\* csize different lines ends in a line that leads back to line 0
\* (memaccess.c:490-500).
SingleCycle ==
  pc \in {"store", "load"} =>
    \E p \in [Lines -> Lines] : IsWalk(p, csize) /\ cindex[p[csize - 1]] = 0

\* The do-while of init_chasing_index always has a line left to draw: it
\* cannot spin for ever with interrupts disabled (memaccess.c:492-496).
CanDraw == pc = "draw" /\ MoreLinks /\ csize > 0 => \E n \in Lines : Acceptable(n)

\* A walk is back at line 0 when it has touched every line and not before.
ReturnsWhenDone ==
  pc \in {"store", "load"} => (line = 0 <=> touched % csize = 0)

\* Each load goes to a line of its block that the store pass has written, and
\* finds there the number the index gives: no block overwrote another.
LoadsFollowStores ==
  pc = "load" /\ InBlock =>
    line \in Lines /\ medium[Place(block, line)] = cindex[line]

\* No access leaves the region of GLOBAL_WORKSET bytes.
WithinRegion ==
  pc \in {"store", "load"} /\ InBlock => Place(block, line) \in RegionLines

\* Under FairSpec the test ends, if RDRAND has answered and the access size is
\* a line or more with its report and with interrupts enabled again: the
\* scripts wait for the report (60_raw.sh:21-23).
Ends == <>((reported /\ irqs) \/ pc \in {"returned", "oops"})
-----------------------------------------------------------------------------
InPass == pc \in {"store", "load"}

Walked == INSTANCE PointerWalk WITH
  pass <- IF InPass THEN pc
          ELSE IF pc \in {"end", "parked", "returned"} THEN "over" ELSE "none",
  shape <- IF InPass \/ pc \in {"end", "parked"}
           THEN [blocks |-> count, lines |-> csize] ELSE [blocks |-> 0, lines |-> 0],
  block <- block,
  todo <- IF InPass \/ pc \in {"end", "parked"}
          THEN Lines \ lap ELSE {},
  lapped <- InPass /\ touched >= csize

\* The two passes touch every line of every block before any of its lines a
\* second time, the stores before the loads, and come to their end.
ImplementsWalk == Walked!Spec
=============================================================================
