---------------------------- MODULE WorkerRegions ----------------------------
(***************************************************************************)
(* Where the workers of the multi-thread tasks go: the address that        *)
(* latencyfs_new_threads gives each of them (lat.c), the cursors and masks *)
(* of their jobs (tasks.c), the lines that the access kernels move and the *)
(* bytes that are counted for them (memaccess.c).                          *)
(*                                                                         *)
(* The unit is the cache line: sizes are multiples of 64 bytes.  Addresses *)
(* are offsets from the first byte of the LatencyFS device.  A step is one *)
(* batch, the calls of an access kernel between two looks at the stop      *)
(* flag; of a batch of random accesses one is observed, any one.           *)
(***************************************************************************)
EXTENDS Naturals

CONSTANTS
  Cores,      \* the workers, named by ctx->core_id
  Commands,   \* the parameters that may be written
  Page,       \* PAGE_SIZE
  PerThread,  \* PERTHREAD_WORKSET
  Global,     \* GLOBAL_WORKSET
  GlobalNI,   \* GLOBAL_WORKSET_NI
  DimmSize,   \* DIMM_SIZE
  CheckStop,  \* PERTHREAD_CHECKSTOP
  Turn        \* what one turn of the loop around SIZEBT*_MACRO moves

Dimms == 6
Jobs == {"strided", "sizebw", "thbind", "flushfence", "randfence", "imcprobe", "seq"}
Aligns == {"GLOBAL", "PERTHREAD", "PERDIMM", "PERIMC", "PERCHANNELGROUP", "NI_GLOBAL", "NI"}

\* access_size, strided_size, 1 << bwsize_bit, clwb_rate and fence_rate; for
\* imcprobe access is the 64 * probe_count bytes it writes.
Parameters == [job : Jobs, align : Aligns, access : Nat \ {0}, stride : Nat,
               block : Nat \ {0}, clwb : Nat \ {0}, fence : Nat \ {0}]

ASSUME SizesAssumption ==
  /\ Cores \subseteq Nat
  /\ Page \in Nat \ {0} /\ CheckStop \in Nat \ {0} /\ Turn \in Nat \ {0}
  /\ PerThread \in Nat \ {0} /\ PerThread % Page = 0 /\ CheckStop <= PerThread
  /\ 2 * Turn <= CheckStop
  /\ Global \in Nat \ {0} /\ Global % (2 * Page) = 0
  /\ GlobalNI \in Nat \ {0} /\ GlobalNI <= DimmSize
  /\ DimmSize \in Nat /\ Dimms * Dimms * Page + PerThread <= DimmSize
  /\ \A w \in Cores : (w + 1) * PerThread <= DimmSize

\* Sizes and strides are bounded by LFS_ACCESS_MAX, and random accesses are
\* aligned to a power of two, which divides the region.
ASSUME CommandsAssumption ==
  /\ Commands \subseteq Parameters
  /\ \A c \in Commands :
       /\ c.job \notin {"imcprobe", "seq"} => 4 * c.access <= CheckStop
       /\ c.job = "seq" => c.access <= CheckStop
       /\ c.job = "strided" => c.stride <= PerThread
       /\ c.job \in {"sizebw", "thbind"} =>
            PerThread % c.block = 0 /\ Global % c.block = 0 /\ GlobalNI % c.block = 0
       /\ c.job = "thbind" /\ c.block <= Page => Page % c.block = 0
       /\ c.job = "randfence" => PerThread % c.access = 0

VARIABLES
  pc,     \* where each worker is
  cmd,    \* the shared parameters
  addr,   \* ctx->addr
  base,   \* the job's own base of its random accesses
  buf,    \* the job's cursor
  at,     \* the lines of the last access: from at.lo, before at.hi
  moved,  \* the lines the kernel has moved in the last batch
  timing  \* what was added to timing->v for them

vars == <<pc, cmd, addr, base, buf, at, moved, timing>>

Nowhere == [lo |-> 0, hi |-> 0]

TypeOK ==
  /\ pc \in [Cores -> {"none", "created", "running", "returned"}]
  /\ cmd \in Parameters
  /\ addr \in [Cores -> Nat] /\ base \in [Cores -> Nat] /\ buf \in [Cores -> Nat]
  /\ at \in [Cores -> [lo : Nat, hi : Nat]]
  /\ moved \in [Cores -> Nat] /\ timing \in [Cores -> Nat]
-----------------------------------------------------------------------------
(***************************************************************************)
(* latencyfs_parse_cmd: the checks, and what it sets itself.               *)
(***************************************************************************)
\* Mutant: the rates of the flushes and fences are not checked.
SaneAnyRates(c) ==
  /\ c.job = "strided" => c.stride >= c.access
  /\ c.job = "thbind" => c.block <= Page

Sane(c) ==
  /\ c.job = "strided" => c.stride >= c.access
  /\ c.job = "thbind" => c.block <= Page
  /\ c.job \in {"flushfence", "randfence"} =>
       c.access % c.fence = 0 /\ c.access % c.clwb = 0 /\ c.fence % c.clwb = 0

Normal(c) ==
  CASE c.job = "thbind" -> [c EXCEPT !.access = c.block]
    [] c.job = "imcprobe" -> [c EXCEPT !.align = "NI"]
    [] OTHER -> c

Init ==
  /\ \E c \in Commands : Sane(c) /\ cmd = Normal(c)
  /\ pc = [w \in Cores |-> "none"]
  /\ addr = [w \in Cores |-> 0] /\ base = [w \in Cores |-> 0] /\ buf = [w \in Cores |-> 0]
  /\ at = [w \in Cores |-> Nowhere]
  /\ moved = [w \in Cores |-> 0] /\ timing = [w \in Cores |-> 0]

\* Mutant: the workers of a PERDIMM group are told apart by the core only.
AddressUngrouped(w) ==
  CASE cmd.align \in {"GLOBAL", "PERIMC", "NI_GLOBAL", "PERDIMM", "PERCHANNELGROUP"} -> 0
    [] cmd.align = "PERTHREAD" -> w * PerThread
    [] cmd.align = "NI" -> (w % Dimms) * Dimms * Page

\* The switch of latencyfs_new_threads.
Address(w) ==
  CASE cmd.align \in {"GLOBAL", "PERIMC", "NI_GLOBAL"} -> 0
    [] cmd.align = "PERTHREAD" -> w * PerThread
    [] cmd.align \in {"PERDIMM", "PERCHANNELGROUP"} -> (w \div Dimms) * (PerThread * Dimms)
    [] cmd.align = "NI" -> (w % Dimms) * Dimms * Page

NewThread(w) ==
  /\ pc[w] = "none"
  /\ pc' = [pc EXCEPT ![w] = "created"]
  /\ addr' = [addr EXCEPT ![w] = Address(w)]
  /\ UNCHANGED <<cmd, base, buf, at, moved, timing>>

\* align_bwjob moves to the worker's DIMM; both per-thread alignments do.
Base(w) ==
  IF cmd.job = "thbind" /\ cmd.align \in {"PERTHREAD", "NI"}
  THEN addr[w] + DimmSize * (w % Dimms)
  ELSE addr[w]

\* sizebw_job knows two alignments.
BeginJob(w) ==
  /\ pc[w] = "created"
  /\ pc' = [pc EXCEPT ![w] =
              IF cmd.job = "sizebw" /\ cmd.align \notin {"GLOBAL", "PERTHREAD"}
              THEN "returned" ELSE "running"]
  /\ base' = [base EXCEPT ![w] = Base(w)]
  /\ buf' = [buf EXCEPT ![w] = addr[w]]
  /\ UNCHANGED <<cmd, addr, at, moved, timing>>
-----------------------------------------------------------------------------
(***************************************************************************)
(* The jobs that walk through their region.                                *)
(***************************************************************************)
AtEnd(w, x) == x >= addr[w] + PerThread

\* The accesses of one batch.  The jobs of tasks 9 and 12 also cut a batch
\* to PERTHREAD_WORKSET, which is never less than PERTHREAD_CHECKSTOP.
Accesses(c) ==
  CASE c.job = "strided" ->
         IF c.stride * (CheckStop \div c.access) > PerThread
         THEN PerThread \div c.stride ELSE CheckStop \div c.access
    [] c.job \in {"flushfence", "randfence"} -> (CheckStop \div c.access) \div 4
    [] OTHER -> CheckStop \div c.access

\* What a batch adds to timing->v.
Counted(c) == c.access * Accesses(c)

Batch(w, lo, hi, lines) ==
  /\ pc[w] = "running"
  /\ at' = [at EXCEPT ![w] = [lo |-> lo, hi |-> hi]]
  /\ moved' = [moved EXCEPT ![w] = lines]
  /\ UNCHANGED <<pc, cmd, addr, base>>

Moves(w, lines, next) ==
  /\ timing' = [timing EXCEPT ![w] = lines]
  /\ buf' = [buf EXCEPT ![w] = next]

\* Mutant: the cursor is compared with the end only.
NextStridedLate(w, next) == IF AtEnd(w, next) THEN addr[w] ELSE next

\* The next batch has to fit, but it is measured without its strides.
NextStrided(w, next) == IF AtEnd(w, next + Counted(cmd)) THEN addr[w] ELSE next

\* strided_bwjob with stride_load, _nt, _store or _storeclwb.
StridedBatch(w) ==
  LET n == Accesses(cmd) IN
  /\ cmd.job = "strided"
  /\ Batch(w, buf[w], buf[w] + cmd.stride * (n - 1) + cmd.access, cmd.access * n)
  /\ Moves(w, Counted(cmd), NextStrided(w, buf[w] + cmd.stride * n))

RoundUp(n, unit) == ((n + unit - 1) \div unit) * unit

\* cachefence: lines until a flush is due, flushes until a fence is due, and
\* fences until access_size is reached.
FenceMoved(c) == RoundUp(c.access, RoundUp(c.fence, c.clwb))

\* cachefence_bwjob in order.
FenceBatch(w) ==
  LET step == Counted(cmd) IN
  /\ cmd.job = "flushfence"
  /\ Batch(w, buf[w], buf[w] + (step - cmd.access) + FenceMoved(cmd),
           Accesses(cmd) * FenceMoved(cmd))
  /\ Moves(w, step, IF AtEnd(w, buf[w] + step + step) THEN addr[w] ELSE buf[w] + step)

\* seq_bwjob with seq_load, _nt, _store or _clwb.
SeqBatch(w) ==
  LET step == Counted(cmd) IN
  /\ cmd.job = "seq"
  /\ Batch(w, buf[w], buf[w] + step, step)
  /\ Moves(w, step, IF AtEnd(w, buf[w] + step) THEN addr[w] ELSE buf[w] + step)

\* imcprobe_job writes the same lines again and again and counts nothing.
ProbeBatch(w) ==
  /\ cmd.job = "imcprobe"
  /\ Batch(w, addr[w], addr[w] + cmd.access, 0)
  /\ UNCHANGED <<buf, timing>>
-----------------------------------------------------------------------------
(***************************************************************************)
(* The jobs that jump.                                                     *)
(***************************************************************************)
\* r & ((region - 1) ^ (block - 1)) for a random r.
Offsets(region, block) == {k * block : k \in 0 .. (region \div block) - 1}

\* sizebw_load, _nt, _store, _storeclwb: four accesses a turn, each in turns
\* of Turn lines.
SizeMoved(c) == RoundUp(c.access, Turn) * RoundUp(Accesses(c), 4)

SizeBatch(w) ==
  LET region == IF cmd.align = "GLOBAL" THEN Global ELSE PerThread IN
  /\ cmd.job = "sizebw"
  /\ \E o \in Offsets(region, cmd.block) :
       Batch(w, addr[w] + o, addr[w] + o + RoundUp(cmd.access, Turn), SizeMoved(cmd))
  /\ Moves(w, Counted(cmd), buf[w])

\* cachefence_bwjob at random: the cursor is set for every access.
RandomFenceBatch(w) ==
  /\ cmd.job = "randfence"
  /\ \E o \in Offsets(PerThread, cmd.access) :
       /\ Batch(w, addr[w] + o, addr[w] + o + FenceMoved(cmd),
                Accesses(cmd) * FenceMoved(cmd))
       /\ Moves(w, Counted(cmd), addr[w] + o + cmd.access)

\* Mutant: the worker's DIMM is left out of the offset.
PlacesFirstDimm(w) ==
  {k * Dimms * Page + o : k \in 0 .. (PerThread \div Page) - 1,
                          o \in Offsets(Page, cmd.access)}

\* The offsets from its base that align_bwjob draws.
Places(w) ==
  CASE cmd.align = "GLOBAL" -> Offsets(Global, cmd.access)
    [] cmd.align \in {"PERTHREAD", "NI"} -> Offsets(PerThread, cmd.access)
    [] cmd.align = "PERIMC" ->
         {2 * k * Page + o + (IF w % 2 = 0 THEN Page ELSE 0) :
            k \in 0 .. (Global \div (2 * Page)) - 1, o \in Offsets(Page, cmd.access)}
    [] cmd.align = "PERDIMM" ->
         {(w % Dimms) * Page + k * Dimms * Page + o :
            k \in 0 .. (PerThread \div Page) - 1, o \in Offsets(Page, cmd.access)}
    [] cmd.align = "PERCHANNELGROUP" ->
         {(w % 3) * Page + k * Dimms * Page + o + imc2 :
            k \in 0 .. (PerThread \div Page) - 1, o \in Offsets(Page, cmd.access),
            imc2 \in {0, 3 * Page}}
    [] cmd.align = "NI_GLOBAL" ->
         {o + DimmSize * d : o \in Offsets(GlobalNI, cmd.access), d \in 0 .. Dimms - 1}

\* 4096 accesses and then the flag.
AlignBatch(w) ==
  /\ cmd.job = "thbind"
  /\ \E o \in Places(w) :
       Batch(w, base[w] + o, base[w] + o + cmd.access, 4096 * cmd.access)
  /\ Moves(w, 4096 * cmd.access, buf[w])
-----------------------------------------------------------------------------
Next == \E w \in Cores :
  \/ NewThread(w) \/ BeginJob(w)
  \/ StridedBatch(w) \/ FenceBatch(w) \/ SeqBatch(w) \/ ProbeBatch(w)
  \/ SizeBatch(w) \/ RandomFenceBatch(w) \/ AlignBatch(w)

Spec == Init /\ [][Next]_vars
-----------------------------------------------------------------------------
\* The tasks whose workers have a pool of PERTHREAD_WORKSET to stay in, from
\* buf to region_end.
Pooled(c) ==
  \/ c.job \in {"strided", "seq", "flushfence", "randfence"}
  \/ c.job = "sizebw" /\ c.align = "PERTHREAD"

\* How far a batch may go beyond it.  The cursor test of task 3 knows the
\* lines of the next batch but not the gaps between them (tasks.c:400), that
\* of task 12 only where it begins (:997), and the mask of task 4 only the
\* alignment of its accesses (:349).
Overrun(c) ==
  CASE c.job = "strided" ->
         IF PerThread % (c.stride * Accesses(c)) <= Counted(c) THEN 0
         ELSE (c.stride - c.access) * (Accesses(c) - 1)
    [] c.job = "seq" ->
         LET rest == PerThread % Counted(c) IN IF rest = 0 THEN 0 ELSE Counted(c) - rest
    [] c.job = "sizebw" ->
         IF RoundUp(c.access, Turn) <= c.block THEN 0 ELSE RoundUp(c.access, Turn) - c.block
    [] OTHER -> 0

InReach(w) ==
  /\ addr[w] <= at[w].lo /\ at[w].lo < addr[w] + PerThread
  /\ at[w].hi <= addr[w] + PerThread + Overrun(cmd)

\* Every batch begins in the pool of its worker, whatever sizes and strides
\* the parser has let through.  It ends there too for the two tasks whose
\* test asks for a whole batch, and for the sizes that leave no gap behind
\* the last one; with others it goes on into the next pool, by less than its
\* own gaps.  Nothing in the code keeps a worker from doing that.
WorksetReach == \A w \in Cores : Pooled(cmd) /\ at[w] # Nowhere => InReach(w)

\* The workers of task 8 on their DIMMs: "Per-DIMM dataset", "Per-iMC (3
\* DIMMs) dataset", "Two DIMMs on two iMCs" (lattester.h:135-137) and the
\* non-interleaved pool.  Pages go round the six DIMMs, or one after the
\* other fills them in the non-interleaved mode.
DimmOf(x) ==
  IF cmd.align \in {"NI", "NI_GLOBAL"} THEN x \div DimmSize ELSE (x \div Page) % Dimms

OwnDimm ==
  \A w \in Cores : \A x \in at[w].lo .. at[w].hi - 1 : cmd.job = "thbind" =>
    /\ cmd.align \in {"PERDIMM", "NI"} => DimmOf(x) = w % Dimms
    /\ cmd.align = "PERIMC" => DimmOf(x) % 2 # w % 2
    /\ cmd.align = "PERCHANNELGROUP" => DimmOf(x) % 3 = w % 3
    /\ cmd.align = "NI_GLOBAL" => DimmOf(x) < Dimms

\* Workers whose alignment gives each a pool of its own.
Apart(w, u) ==
  /\ w # u
  /\ \/ cmd.job # "imcprobe" /\ cmd.align = "PERTHREAD"
     \/ cmd.job = "thbind" /\ cmd.align = "PERDIMM"
     \/ cmd.job = "thbind" /\ cmd.align = "NI" /\ w % Dimms # u % Dimms

\* They never touch the same line, unless they are neighbours and the first
\* one's batches overrun its pool.
Disjoint ==
  \A w, u \in Cores :
    Apart(w, u) /\ (Overrun(cmd) # 0 => w # u + 1 /\ u # w + 1)
      => at[w].hi <= at[u].lo \/ at[u].hi <= at[w].lo \/ Nowhere \in {at[w], at[u]}

\* The throughput is that of the lines that were moved: the loops of the
\* kernels, which test their counters last, overshoot nothing, for task 9
\* because of the rates it accepts (proc.c:197), for task 4 when a size is a
\* number of turns and a batch is a number of fours.
CountsWhatMoved ==
  (cmd.job = "sizebw" => cmd.access % Turn = 0 /\ Accesses(cmd) % 4 = 0)
    => \A w \in Cores : timing[w] = moved[w]

=============================================================================
