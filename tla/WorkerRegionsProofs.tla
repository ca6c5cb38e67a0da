-------------------------- MODULE WorkerRegionsProofs --------------------------
(***************************************************************************)
(* Proofs about WorkerRegions, for every number of workers, every page,    *)
(* pool and batch size, and all the parameters that the command parser     *)
(* accepts.                                                                *)
(***************************************************************************)
EXTENDS WorkerRegions, TLAPS

-----------------------------------------------------------------------------
(***************************************************************************)
(* Division.                                                               *)
(***************************************************************************)

\* Euclidean division.
LEMMA Division ==
  ASSUME NEW n \in Nat, NEW u \in Nat \ {0}
  PROVE  /\ n \div u \in Nat
         /\ (n % u) \in 0 .. u - 1
         /\ n = u * (n \div u) + (n % u)
  OBVIOUS

\* The quotient and the remainder are the only such pair.
LEMMA QuotientUnique ==
  ASSUME NEW p \in Nat, NEW q \in Nat, NEW u \in Nat \ {0}, NEW r \in Nat, NEW t \in Nat,
         r < u, t < u, u * q + r = u * p + t
  PROVE  p = q
<1>1. u * p \in Nat /\ u * q \in Nat
  OBVIOUS
<1>2. u * (p + 1) = u * p + u /\ u * (q + 1) = u * q + u
  OBVIOUS
<1>3. ASSUME p < q PROVE FALSE
  <2>1. u * (p + 1) <= u * q
    BY <1>3
  <2>. QED
    BY <2>1, <1>1, <1>2
<1>4. ASSUME q < p PROVE FALSE
  <2>1. u * (q + 1) <= u * p
    BY <1>4
  <2>. QED
    BY <2>1, <1>1, <1>2
<1>. QED
  BY <1>3, <1>4

\* A quotient, from the product and the remainder.
LEMMA Quotient ==
  ASSUME NEW q \in Nat, NEW u \in Nat \ {0}, NEW r \in Nat, r < u,
         NEW n \in Nat, n = u * q + r
  PROVE  n \div u = q
<1>1. /\ n \div u \in Nat
      /\ (n % u) \in 0 .. u - 1
      /\ u * q + r = u * (n \div u) + (n % u)
  BY Division
<1>. QED
  BY <1>1, QuotientUnique

\* A size that is a number of units is not rounded.
LEMMA RoundUpExact ==
  ASSUME NEW n \in Nat, NEW u \in Nat \ {0}, n % u = 0
  PROVE  RoundUp(n, u) = n
<1>. DEFINE q == n \div u
<1>1. q \in Nat /\ n = u * q
  BY Division
<1>2. n + u - 1 = u * q + (u - 1) /\ u - 1 \in Nat /\ u - 1 < u
  BY <1>1
<1>3. (n + u - 1) \div u = q
  BY <1>1, <1>2, Quotient
<1>. QED
  BY <1>1, <1>3 DEF RoundUp

\* Rounding gives a natural number that is no less, by less than a unit.
LEMMA RoundUpNat ==
  ASSUME NEW n \in Nat, NEW u \in Nat \ {0}
  PROVE  RoundUp(n, u) \in Nat /\ n <= RoundUp(n, u) /\ RoundUp(n, u) <= n + u
<1>. DEFINE m == n + u - 1
<1>1. m \in Nat
  OBVIOUS
<1>2. PICK q \in Nat : q = m \div u /\ m < u * q + u /\ u * q <= m
  <2>1. /\ m \div u \in Nat /\ (m % u) \in 0 .. u - 1
        /\ m = u * (m \div u) + (m % u)
    BY <1>1, Division
  <2>2. u * (m \div u) \in Nat
    BY <2>1
  <2>. HIDE DEF m
  <2>. QED
    BY <2>1, <2>2, <1>1
<1>3. u * q = q * u /\ q * u \in Nat /\ RoundUp(n, u) = q * u
  BY <1>2 DEF RoundUp
<1>. QED
  BY <1>2, <1>3

\* The last of the blocks that make up a region ends inside it.
LEMMA BlockInside ==
  ASSUME NEW n \in Nat, NEW u \in Nat \ {0}, n % u = 0,
         NEW k \in 0 .. (n \div u) - 1
  PROVE  k * u \in Nat /\ k * u + u <= n
<1>. DEFINE q == n \div u
<1>1. q \in Nat /\ n = u * q
  BY Division
<1>2. k \in Nat /\ k + 1 <= q
  BY <1>1
<1>3. (k + 1) * u <= q * u
  BY <1>1, <1>2
<1>. QED
  BY <1>1, <1>2, <1>3

\* The cursor test: if what remains of a region after its batches is no more
\* than c, a batch that c allows ends inside.
LEMMA LastBatch ==
  ASSUME NEW n \in Nat, NEW s \in Nat \ {0}, NEW c \in Nat, NEW k \in Nat,
         n % s <= c, k * s + c < n
  PROVE  k * s + s <= n
<1>. DEFINE q == n \div s
<1>1. q \in Nat /\ n = s * q + (n % s) /\ (n % s) \in Nat
  BY Division
<1>2. k * s < q * s
  BY <1>1
<1>3. k < q
  <2>. SUFFICES ASSUME q <= k PROVE FALSE
    BY <1>1
  <2>1. q * s <= k * s
    BY <1>1
  <2>. QED
    BY <1>1, <1>2, <2>1
<1>4. (k + 1) * s <= q * s
  BY <1>1, <1>3
<1>. QED
  BY <1>1, <1>4

\* A batch that begins in a region leaves behind it at most the region's rest.
LEMMA LastBegins ==
  ASSUME NEW n \in Nat, NEW s \in Nat \ {0}, NEW k \in Nat, k * s < n
  PROVE  k * s + (n % s) <= n
<1>. DEFINE q == n \div s
<1>1. q \in Nat /\ n = s * q + (n % s) /\ (n % s) \in 0 .. s - 1
  BY Division
<1>2. k <= q
  <2>. SUFFICES ASSUME q + 1 <= k PROVE FALSE
    BY <1>1
  <2>1. (q + 1) * s <= k * s
    BY <1>1
  <2>2. (q + 1) * s = s * q + s
    BY <1>1
  <2>3. k * s \in Nat /\ s * q \in Nat
    BY <1>1
  <2>. HIDE DEF q
  <2>. QED
    BY <1>1, <2>1, <2>2, <2>3
<1>3. k * s <= q * s
  BY <1>1, <1>2
<1>4. q * s = s * q /\ k * s \in Nat /\ s * q \in Nat
  BY <1>1
<1>. HIDE DEF q
<1>. QED
  BY <1>1, <1>3, <1>4

-----------------------------------------------------------------------------
(***************************************************************************)
(* What latencyfs_parse_cmd lets through, and the batches it makes.        *)
(***************************************************************************)
Fences == {"flushfence", "randfence"}
Drawing == {"thbind", "imcprobe"}

\* What the jobs rely on.
Sound(c) ==
  /\ c \in Parameters
  /\ c.job \notin Drawing \cup {"seq"} => 4 * c.access <= CheckStop
  /\ c.job = "seq" => c.access <= CheckStop
  /\ c.job = "strided" => c.access <= c.stride /\ c.stride <= PerThread
  /\ c.job \in Fences =>
       c.access % c.fence = 0 /\ c.access % c.clwb = 0 /\ c.fence % c.clwb = 0
  /\ c.job = "randfence" => PerThread % c.access = 0
  /\ c.job = "sizebw" => PerThread % c.block = 0
  /\ c.job = "thbind" =>
       /\ c.access <= Page /\ Page % c.access = 0
       /\ PerThread % c.access = 0 /\ Global % c.access = 0 /\ GlobalNI % c.access = 0

\* The command parser's checks are enough for it.
LEMMA ParsedIsSound ==
  ASSUME NEW c \in Commands, Sane(c)
  PROVE  Sound(Normal(c))
<1>1. c \in Parameters
  BY CommandsAssumption
<1>2. CASE c.job = "thbind"
  <2>1. Normal(c) = [c EXCEPT !.access = c.block]
    BY <1>2 DEF Normal
  <2>2. /\ Normal(c) \in Parameters /\ Normal(c).job = "thbind"
        /\ Normal(c).access = c.block
    BY <2>1, <1>1, <1>2 DEF Parameters
  <2>. QED
    BY <2>2, <1>2, CommandsAssumption DEF Sound, Sane, Fences, Drawing
<1>3. CASE c.job = "imcprobe"
  <2>1. Normal(c) = [c EXCEPT !.align = "NI"]
    BY <1>3 DEF Normal
  <2>2. Normal(c) \in Parameters /\ Normal(c).job = "imcprobe"
    BY <2>1, <1>1, <1>3 DEF Parameters, Aligns
  <2>. QED
    BY <2>2 DEF Sound, Fences, Drawing
<1>4. CASE c.job \notin {"thbind", "imcprobe"}
  <2>1. Normal(c) = c
    BY <1>4 DEF Normal
  <2>. QED
    BY <2>1, <1>1, <1>4, CommandsAssumption DEF Sound, Sane, Fences, Drawing
<1>. QED
  BY <1>2, <1>3, <1>4

\* A batch of accesses that fit into CheckStop has at least one.
LEMMA AccessesPositive ==
  ASSUME NEW c, Sound(c), c.job \notin Drawing
  PROVE  Accesses(c) \in Nat \ {0}
<1>1. /\ c.access \in Nat \ {0} /\ c.stride \in Nat /\ c.access <= CheckStop
      /\ c.job \in Fences => 4 * c.access <= CheckStop
      /\ c.job = "strided" => c.access <= c.stride /\ c.stride <= PerThread
  BY SizesAssumption DEF Sound, Parameters, Drawing, Fences
<1>2. CheckStop \in Nat \ {0} /\ PerThread \in Nat \ {0}
  BY SizesAssumption
<1>. DEFINE q == CheckStop \div c.access
<1>3. q \in Nat /\ CheckStop < c.access * q + c.access
  <2>1. /\ q \in Nat /\ (CheckStop % c.access) \in 0 .. c.access - 1
        /\ CheckStop = c.access * q + (CheckStop % c.access)
    BY <1>1, <1>2, Division
  <2>. QED
    BY <2>1, <1>1
<1>4. 1 <= q /\ (c.job \in Fences => 4 <= q)
  <2>1. ASSUME q = 0 PROVE FALSE
    <3>1. c.access * q = 0
      BY <2>1, <1>1
    <3>. QED
      BY <3>1, <1>1, <1>3, <1>2
  <2>2. ASSUME q <= 3, c.job \in Fences PROVE FALSE
    <3>1. c.access * q <= c.access * 3
      BY <2>2, <1>1, <1>3
    <3>. QED
      BY <3>1, <2>2, <1>1, <1>3, <1>2
  <2>. HIDE DEF q
  <2>. QED
    BY <2>1, <2>2, <1>3
<1>. HIDE DEF q
<1>5. c.job \in Fences => q \div 4 \in Nat \ {0}
  BY <1>3, <1>4
<1>6. c.job = "strided" => PerThread \div c.stride \in Nat \ {0}
  <2>. SUFFICES ASSUME c.job = "strided" PROVE PerThread \div c.stride \in Nat \ {0}
    OBVIOUS
  <2>1. c.stride \in Nat \ {0} /\ c.stride <= PerThread
    BY <1>1
  <2>2. /\ PerThread \div c.stride \in Nat
        /\ (PerThread % c.stride) \in 0 .. c.stride - 1
        /\ PerThread = c.stride * (PerThread \div c.stride) + (PerThread % c.stride)
    BY <2>1, <1>2, Division
  <2>3. c.stride * 0 = 0
    BY <2>1
  <2>. QED
    BY <2>1, <2>2, <2>3
<1>7. \/ Accesses(c) = q
      \/ c.job \in Fences /\ Accesses(c) = q \div 4
      \/ c.job = "strided" /\ Accesses(c) = PerThread \div c.stride
  <2>1. CASE c.job = "strided"
    BY <2>1 DEF Accesses, q
  <2>2. CASE c.job \in {"flushfence", "randfence"}
    BY <2>2 DEF Accesses, Fences, q
  <2>3. CASE c.job \notin {"strided", "flushfence", "randfence"}
    BY <2>3 DEF Accesses, q
  <2>. QED
    BY <2>1, <2>2, <2>3
<1>. QED
  BY <1>3, <1>4, <1>5, <1>6, <1>7

\* What the cursor of a walking job is moved by.
Span(c) == IF c.job = "strided" THEN c.stride * Accesses(c) ELSE Counted(c)

\* A batch is as long as its accesses, and not longer than the region.
LEMMA SpanFits ==
  ASSUME NEW c, Sound(c), c.job \in {"strided", "flushfence", "randfence", "seq"}
  PROVE  /\ Span(c) \in Nat \ {0} /\ Counted(c) \in Nat \ {0}
         /\ c.access <= Counted(c)
         /\ Span(c) <= PerThread
<1>. DEFINE n == Accesses(c)
<1>1. n \in Nat \ {0}
  BY AccessesPositive DEF Drawing
<1>2. /\ c.access \in Nat \ {0} /\ c.stride \in Nat
      /\ c.job = "strided" => c.access <= c.stride /\ c.stride <= PerThread
  BY DEF Sound, Parameters
<1>3. CheckStop \in Nat \ {0} /\ PerThread \in Nat \ {0} /\ CheckStop <= PerThread
  BY SizesAssumption
<1>4. Counted(c) = c.access * n
  BY DEF Counted
<1>. DEFINE q == CheckStop \div c.access
<1>5. q \in Nat /\ c.access * q <= CheckStop
  <2>1. /\ q \in Nat /\ (CheckStop % c.access) \in 0 .. c.access - 1
        /\ CheckStop = c.access * q + (CheckStop % c.access)
    BY <1>2, <1>3, Division
  <2>2. c.access * q \in Nat
    BY <2>1, <1>2
  <2>. QED
    BY <2>1, <2>2, <1>2
<1>6. /\ Counted(c) \in Nat \ {0}
      /\ c.access <= Counted(c)
  <2>. HIDE DEF n
  <2>1. c.access * n \in Nat /\ c.access * 1 <= c.access * n
    BY <1>1, <1>2
  <2>. QED
    BY <2>1, <1>2, <1>4
<1>7. CASE c.job = "strided"
  <2>1. Span(c) = c.stride * n
    BY <1>7 DEF Span
  <2>2. c.stride * n \in Nat \ {0}
    <3>. HIDE DEF n
    <3>1. c.stride * n \in Nat /\ 1 * n <= c.stride * n
      BY <1>1, <1>2, <1>7
    <3>. QED
      BY <3>1, <1>1
  <2>3. CASE c.stride * (CheckStop \div c.access) > PerThread
    <3>1. n = PerThread \div c.stride
      BY <2>3, <1>7 DEF Accesses
    <3>. c.stride \in Nat \ {0}
      BY <1>2, <1>7
    <3>2. /\ PerThread \div c.stride \in Nat
          /\ (PerThread % c.stride) \in 0 .. c.stride - 1
          /\ PerThread = c.stride * (PerThread \div c.stride) + (PerThread % c.stride)
      BY <1>3, Division
    <3>. QED
      BY <3>1, <3>2, <2>1, <2>2, <1>3, <1>6
  <2>4. CASE ~ (c.stride * (CheckStop \div c.access) > PerThread)
    <3>1. n = CheckStop \div c.access
      BY <2>4, <1>7 DEF Accesses
    <3>. QED
      BY <3>1, <2>4, <2>1, <2>2, <1>3, <1>6, <1>5, <1>2
  <2>. QED
    BY <2>3, <2>4
<1>8. CASE c.job # "strided"
  <2>1. Span(c) = c.access * n
    BY <1>8, <1>4 DEF Span
  <2>2. n \in {q, q \div 4}
    BY <1>8 DEF Accesses
  <2>3. n <= q
    BY <2>2, <1>5
  <2>4. c.access * n <= c.access * q
    <3>. HIDE DEF n, q
    <3>. QED
      BY <2>3, <1>1, <1>2, <1>5
  <2>5. Span(c) = Counted(c) /\ Counted(c) <= c.access * q
    BY <2>1, <2>4, <1>4
  <2>6. c.access * q \in Nat
    BY <1>2, <1>5
  <2>. HIDE DEF n, q
  <2>. QED
    BY <2>5, <2>6, <1>3, <1>5, <1>6
<1>. QED
  BY <1>7, <1>8

\* With the rates that are accepted, the nested loops of cachefence stop at
\* access_size exactly.
LEMMA FenceMovedExact ==
  ASSUME NEW c, Sound(c), c.job \in Fences
  PROVE  FenceMoved(c) = c.access
<1>1. /\ c.access \in Nat \ {0} /\ c.fence \in Nat \ {0} /\ c.clwb \in Nat \ {0}
      /\ c.access % c.fence = 0 /\ c.fence % c.clwb = 0
  BY DEF Sound, Parameters
<1>2. RoundUp(c.fence, c.clwb) = c.fence
  BY <1>1, RoundUpExact
<1>3. RoundUp(c.access, c.fence) = c.access
  BY <1>1, RoundUpExact
<1>. QED
  BY <1>2, <1>3 DEF FenceMoved

-----------------------------------------------------------------------------
(***************************************************************************)
(* The inductive invariant.                                                *)
(***************************************************************************)
\* Addresses and bases are those of lat.c and of align_bwjob, a worker that
\* is not running its job touches nothing, and imcprobe counts nothing.
Placed ==
  \A w \in Cores :
    /\ pc[w] # "none" => addr[w] = Address(w)
    /\ pc[w] = "running" => base[w] = Base(w)
    /\ pc[w] # "running" => at[w] = Nowhere
    /\ cmd.job = "imcprobe" => timing[w] = 0

\* What the cursor test wants to fit into the region.
Wanted(c) == CASE c.job = "strided" -> Counted(c) [] c.job = "flushfence" -> Counted(c) [] OTHER -> 0

\* A running cursor is a number of batches away from the start, at it or where
\* the test has found room.
Cursor(c, a, b) ==
  c.job \in {"strided", "flushfence", "seq"} =>
    \E k \in Nat : /\ b = a + k * Span(c)
                   /\ k = 0 \/ k * Span(c) + Wanted(c) < PerThread

Cursors == \A w \in Cores : pc[w] = "running" => Cursor(cmd, addr[w], buf[w])

\* What a worker of task 8 touches is one of its places.
Drawn ==
  \A w \in Cores : cmd.job = "thbind" /\ at[w] # Nowhere =>
    \E o \in Places(w) : at[w] = [lo |-> base[w] + o, hi |-> base[w] + o + cmd.access]

IInv ==
  /\ TypeOK /\ Sound(cmd)
  /\ Placed /\ Cursors /\ Drawn
  /\ WorksetReach /\ CountsWhatMoved

\* The premise of CountsWhatMoved.
Exact(c) == c.job = "sizebw" => c.access % Turn = 0 /\ Accesses(c) % 4 = 0

\* A region's start is a place for the cursor.
LEMMA CursorAtStart ==
  ASSUME NEW c, Sound(c), NEW a \in Nat
  PROVE  Cursor(c, a, a)
<1>. SUFFICES ASSUME c.job \in {"strided", "flushfence", "seq"}
              PROVE  \E k \in Nat : a = a + k * Span(c) /\ k = 0
  BY DEF Cursor
<1>1. Span(c) \in Nat
  BY SpanFits
<1>2. a = a + 0 * Span(c)
  BY <1>1
<1>. QED
  BY <1>2

\* What a batch may touch of its worker's pool, and beyond.
Reaches(c, a, lo, hi) ==
  Pooled(c) => a <= lo /\ lo < a + PerThread /\ hi <= a + PerThread + Overrun(c)

\* A parsed command and no worker: the invariant holds.
LEMMA InitInvariant == Init => IInv
<1>. SUFFICES ASSUME Init PROVE IInv
  OBVIOUS
<1>1. PICK c \in Commands : Sane(c) /\ cmd = Normal(c)
  BY DEF Init
<1>2. Sound(cmd)
  BY <1>1, ParsedIsSound
<1>3. TypeOK
  BY <1>2 DEF Init, TypeOK, Sound, Nowhere
<1>4. Placed /\ Cursors /\ Drawn /\ WorksetReach
  BY DEF Init, Placed, Cursors, Drawn, WorksetReach
<1>5. CountsWhatMoved
  BY DEF Init, CountsWhatMoved
<1>. QED
  BY <1>2, <1>3, <1>4, <1>5 DEF IInv

\* A batch that reaches no further than it may, is drawn from the places, counts
\* what it moved and leaves the cursor where it may be.
LEMMA BatchStep ==
  ASSUME IInv, NEW w \in Cores,
         NEW lo \in Nat, NEW hi \in Nat, NEW lines \in Nat, NEW count \in Nat, NEW next \in Nat,
         Batch(w, lo, hi, lines), Moves(w, count, next),
         Reaches(cmd, addr[w], lo, hi),
         cmd.job = "thbind" =>
           \E o \in Places(w) : lo = base[w] + o /\ hi = base[w] + o + cmd.access,
         Exact(cmd) => count = lines,
         cmd.job = "imcprobe" => count = 0,
         Cursor(cmd, addr[w], next)
  PROVE  IInv'
<1>1. /\ pc[w] = "running" /\ pc' = pc /\ cmd' = cmd /\ addr' = addr /\ base' = base
      /\ at' = [at EXCEPT ![w] = [lo |-> lo, hi |-> hi]]
      /\ moved' = [moved EXCEPT ![w] = lines]
      /\ timing' = [timing EXCEPT ![w] = count]
      /\ buf' = [buf EXCEPT ![w] = next]
  BY DEF Batch, Moves
<1>2. TypeOK' /\ Sound(cmd)'
  BY <1>1 DEF IInv, TypeOK, Sound
<1>3. /\ at'[w] = [lo |-> lo, hi |-> hi] /\ moved'[w] = lines
      /\ timing'[w] = count /\ buf'[w] = next
      /\ \A u \in Cores \ {w} : /\ at'[u] = at[u] /\ moved'[u] = moved[u]
                                /\ timing'[u] = timing[u] /\ buf'[u] = buf[u]
  BY <1>1 DEF IInv, TypeOK
<1>4. Placed'
  <2>1. \A u \in Cores : Address(u)' = Address(u)
    BY <1>1 DEF Address
  <2>2. \A u \in Cores : Base(u)' = Base(u)
    BY <1>1 DEF Base
  <2>. QED
    BY <1>1, <1>3, <2>1, <2>2 DEF IInv, Placed
<1>5. Cursors'
  BY <1>1, <1>3 DEF IInv, Cursors
<1>6. Drawn'
  <2>1. \A u \in Cores : Places(u)' = Places(u)
    BY <1>1 DEF Places
  <2>. QED
    BY <1>1, <1>3, <2>1 DEF IInv, Drawn
<1>7. WorksetReach'
  <2>1. Pooled(cmd)' = Pooled(cmd) /\ Overrun(cmd)' = Overrun(cmd)
    BY <1>1 DEF Pooled
  <2>2. \A u \in Cores \ {w} : InReach(u)' = InReach(u)
    BY <1>1, <1>3, <2>1 DEF InReach
  <2>3. Pooled(cmd) => InReach(w)'
    BY <1>1, <1>3, <2>1 DEF InReach, Reaches
  <2>. QED
    BY <1>1, <1>3, <2>1, <2>2, <2>3 DEF IInv, WorksetReach
<1>8. CountsWhatMoved'
  BY <1>1, <1>3 DEF IInv, CountsWhatMoved, Exact
<1>. QED
  BY <1>2, <1>4, <1>5, <1>6, <1>7, <1>8 DEF IInv

\* An address and a base are natural numbers.
LEMMA AddressType ==
  ASSUME IInv, NEW w \in Cores
  PROVE  Address(w) \in Nat /\ (addr[w] \in Nat => Base(w) \in Nat)
<1>1. w \in Nat /\ PerThread \in Nat /\ Page \in Nat /\ DimmSize \in Nat
  BY SizesAssumption
<1>2. w % Dimms \in Nat /\ w \div Dimms \in Nat
  BY <1>1 DEF Dimms
<1>3. /\ w * PerThread \in Nat
      /\ (w \div Dimms) * (PerThread * Dimms) \in Nat
      /\ (w % Dimms) * Dimms * Page \in Nat
      /\ DimmSize * (w % Dimms) \in Nat
  BY <1>1, <1>2 DEF Dimms
<1>4. cmd.align \in Aligns
  BY DEF IInv, TypeOK, Parameters
<1>5. Address(w) \in Nat
  BY <1>3, <1>4 DEF Address, Aligns
<1>. QED
  BY <1>3, <1>5 DEF Base

\* A created worker has its address.
LEMMA NewThreadStep ==
  ASSUME IInv, NEW w \in Cores, NewThread(w)
  PROVE  IInv'
<1>1. /\ pc[w] = "none" /\ pc' = [pc EXCEPT ![w] = "created"]
      /\ addr' = [addr EXCEPT ![w] = Address(w)]
      /\ cmd' = cmd /\ base' = base /\ buf' = buf /\ at' = at
      /\ moved' = moved /\ timing' = timing
  BY DEF NewThread
<1>2. TypeOK' /\ Sound(cmd)'
  BY <1>1, AddressType DEF IInv, TypeOK, Sound
<1>3. /\ pc'[w] = "created" /\ addr'[w] = Address(w)
      /\ \A u \in Cores \ {w} : pc'[u] = pc[u] /\ addr'[u] = addr[u]
  BY <1>1 DEF IInv, TypeOK
<1>4. at[w] = Nowhere
  BY <1>1 DEF IInv, Placed
<1>5. \A u \in Cores : Address(u)' = Address(u)
  BY <1>1 DEF Address
<1>6. \A u \in Cores \ {w} : Base(u)' = Base(u)
  BY <1>1, <1>3 DEF Base
<1>7. Placed'
  BY <1>1, <1>3, <1>4, <1>5, <1>6 DEF IInv, Placed
<1>8. Cursors'
  BY <1>1, <1>3 DEF IInv, Cursors
<1>9. Drawn'
  <2>1. \A u \in Cores : Places(u)' = Places(u)
    BY <1>1 DEF Places
  <2>. QED
    BY <1>1, <2>1 DEF IInv, Drawn
<1>10. WorksetReach'
  BY <1>1, <1>3, <1>4 DEF IInv, WorksetReach, InReach, Nowhere
<1>11. CountsWhatMoved'
  BY <1>1 DEF IInv, CountsWhatMoved
<1>. QED
  BY <1>2, <1>7, <1>8, <1>9, <1>10, <1>11 DEF IInv

\* A job begins at the start of its region.
LEMMA BeginJobStep ==
  ASSUME IInv, NEW w \in Cores, BeginJob(w)
  PROVE  IInv'
<1>1. /\ pc[w] = "created" /\ addr' = addr
      /\ base' = [base EXCEPT ![w] = Base(w)] /\ buf' = [buf EXCEPT ![w] = addr[w]]
      /\ cmd' = cmd /\ at' = at /\ moved' = moved /\ timing' = timing
  BY DEF BeginJob
<1>2. PICK p \in {"returned", "running"} : pc' = [pc EXCEPT ![w] = p]
  BY DEF BeginJob
<1>. addr[w] \in Nat
  BY DEF IInv, TypeOK
<1>3. TypeOK' /\ Sound(cmd)'
  BY <1>1, <1>2, AddressType DEF IInv, TypeOK, Sound
<1>4. /\ pc'[w] = p /\ base'[w] = Base(w) /\ buf'[w] = addr[w]
      /\ \A u \in Cores \ {w} : pc'[u] = pc[u] /\ base'[u] = base[u] /\ buf'[u] = buf[u]
  BY <1>1, <1>2 DEF IInv, TypeOK
<1>5. at[w] = Nowhere
  BY <1>1 DEF IInv, Placed
<1>6. \A u \in Cores : Address(u)' = Address(u) /\ Base(u)' = Base(u)
  BY <1>1 DEF Address, Base
<1>7. Placed'
  BY <1>1, <1>4, <1>5, <1>6 DEF IInv, Placed
<1>8. Cursors'
  <2>1. Cursor(cmd, addr[w], addr[w])
    BY CursorAtStart DEF IInv
  <2>. QED
    BY <1>1, <1>4, <2>1 DEF IInv, Cursors
<1>9. Drawn'
  <2>1. \A u \in Cores : Places(u)' = Places(u)
    BY <1>1 DEF Places
  <2>. QED
    BY <1>1, <1>4, <1>5, <2>1 DEF IInv, Drawn
<1>10. WorksetReach' /\ CountsWhatMoved'
  BY <1>1 DEF IInv, WorksetReach, InReach, CountsWhatMoved
<1>. QED
  BY <1>3, <1>7, <1>8, <1>9, <1>10 DEF IInv

-----------------------------------------------------------------------------
(***************************************************************************)
(* The walking jobs.                                                       *)
(***************************************************************************)
\* The next batch is begun where the last one ended if the test has found room
\* for what it wants.
LEMMA NextCursor ==
  ASSUME NEW c, Sound(c), NEW a \in Nat, NEW b \in Nat, Cursor(c, a, b),
         c.job \in {"strided", "flushfence", "seq"},
         b + Span(c) + Wanted(c) < a + PerThread
  PROVE  Cursor(c, a, b + Span(c))
<1>. DEFINE s == Span(c)
<1>1. s \in Nat \ {0} /\ PerThread \in Nat /\ Wanted(c) \in Nat
  BY SpanFits, SizesAssumption DEF Wanted
<1>2. PICK k \in Nat : b = a + k * s
  BY DEF Cursor
<1>. HIDE DEF s
<1>3. k * s \in Nat /\ (k + 1) * s = k * s + s
  BY <1>1
<1>4. PICK m \in Nat : m = k + 1
  OBVIOUS
<1>5. b + s = a + m * s /\ m * s + Wanted(c) < PerThread
  BY <1>1, <1>2, <1>3, <1>4 DEF s
<1>. QED
  BY <1>5 DEF Cursor, s

\* Before a batch: the cursor is in the pool, with room for what the test
\* wants and for the rest of the pool, and for the whole batch where the rest
\* is too small to begin one in.
LEMMA CursorInside ==
  ASSUME NEW c, Sound(c), NEW a \in Nat, NEW b \in Nat, Cursor(c, a, b),
         c.job \in {"strided", "flushfence", "seq"}
  PROVE  /\ a <= b /\ b < a + PerThread
         /\ b + Wanted(c) <= a + PerThread
         /\ b + (PerThread % Span(c)) <= a + PerThread
         /\ PerThread % Span(c) <= Wanted(c) => b + Span(c) <= a + PerThread
<1>. DEFINE s == Span(c)
<1>1. /\ s \in Nat \ {0} /\ s <= PerThread /\ PerThread \in Nat \ {0}
      /\ Wanted(c) \in Nat /\ Wanted(c) <= s
  <2>1. /\ s \in Nat \ {0} /\ s <= PerThread /\ PerThread \in Nat \ {0}
        /\ Counted(c) \in Nat
    BY SpanFits, SizesAssumption
  <2>2. Counted(c) <= s
    <3>1. CASE c.job = "strided"
      <4>1. /\ c.access \in Nat /\ c.stride \in Nat /\ c.access <= c.stride
            /\ Accesses(c) \in Nat
        BY <3>1, AccessesPositive DEF Sound, Parameters, Drawing
      <4>2. \A x, y, z \in Nat : x <= y => x * z <= y * z
        OBVIOUS
      <4>. QED
        BY <3>1, <4>1, <4>2 DEF Counted, Span
    <3>2. CASE c.job # "strided"
      BY <3>2, <2>1 DEF Span
    <3>. QED
      BY <3>1, <3>2
  <2>. QED
    BY <2>1, <2>2 DEF Wanted
<1>2. PICK k \in Nat : b = a + k * s /\ (k = 0 \/ k * s + Wanted(c) < PerThread)
  BY DEF Cursor
<1>3. k * s \in Nat /\ (k = 0 => k * s = 0)
  <2>. HIDE DEF s
  <2>. QED
    BY <1>1
<1>4. k * s < PerThread
  <2>. HIDE DEF s
  <2>. QED
    BY <1>1, <1>2, <1>3
<1>5. k * s + (PerThread % s) <= PerThread
  <2>. HIDE DEF s
  <2>. QED
    BY <1>1, <1>4, LastBegins
<1>6. PerThread % s <= Wanted(c) => k * s + s <= PerThread
  <2>. HIDE DEF s
  <2>1. CASE k = 0
    BY <2>1, <1>1, <1>3
  <2>2. CASE k # 0
    BY <2>2, <1>1, <1>2, LastBatch
  <2>. QED
    BY <2>1, <2>2
<1>7. PerThread % s \in Nat
  <2>. HIDE DEF s
  <2>. QED
    BY <1>1
<1>8. /\ a <= b /\ b < a + PerThread
      /\ b + Wanted(c) <= a + PerThread
      /\ b + (PerThread % s) <= a + PerThread
      /\ PerThread % s <= Wanted(c) => b + s <= a + PerThread
  <2>. HIDE DEF s
  <2>. QED
    BY <1>1, <1>2, <1>3, <1>4, <1>5, <1>6, <1>7
<1>. QED
  BY <1>8

\* Task 3: the span of a batch is its strides, the test knows its accesses.
LEMMA StridedStep ==
  ASSUME IInv, NEW w \in Cores, StridedBatch(w)
  PROVE  IInv'
<1>. DEFINE n == Accesses(cmd)
            next == NextStrided(w, buf[w] + cmd.stride * n)
            last == buf[w] + cmd.stride * (n - 1) + cmd.access
<1>1. /\ cmd.job = "strided" /\ pc[w] = "running"
      /\ Batch(w, buf[w], last, cmd.access * n)
      /\ Moves(w, Counted(cmd), next)
  BY DEF StridedBatch, Batch
<1>2. /\ Sound(cmd) /\ addr[w] \in Nat /\ buf[w] \in Nat
      /\ Cursor(cmd, addr[w], buf[w])
  BY <1>1 DEF IInv, TypeOK, Cursors
<1>3. n \in Nat \ {0} /\ PerThread \in Nat
  BY <1>1, <1>2, AccessesPositive, SizesAssumption DEF Drawing
<1>4. /\ Span(cmd) = cmd.stride * n
      /\ Span(cmd) \in Nat \ {0} /\ Counted(cmd) \in Nat \ {0}
  BY <1>1, <1>2, SpanFits DEF Span
<1>5. /\ cmd.access \in Nat \ {0} /\ cmd.stride \in Nat
      /\ cmd.access <= cmd.stride
  BY <1>1, <1>2 DEF Sound, Parameters
<1>6. last \in Nat /\ last <= buf[w] + Span(cmd) /\ cmd.access * n \in Nat
  <2>. HIDE DEF n
  <2>1. cmd.stride * (n - 1) \in Nat /\ cmd.stride * (n - 1) + cmd.stride = cmd.stride * n
    BY <1>3, <1>5
  <2>2. cmd.access * n \in Nat
    BY <1>3, <1>5
  <2>. QED
    BY <2>1, <2>2, <1>2, <1>4, <1>5
<1>7. Counted(cmd) = cmd.access * n
  BY DEF Counted
<1>. HIDE DEF last
<1>8. Reaches(cmd, addr[w], buf[w], last)
  <2>1. /\ addr[w] <= buf[w] /\ buf[w] < addr[w] + PerThread
        /\ buf[w] + Counted(cmd) <= addr[w] + PerThread
        /\ PerThread % Span(cmd) <= Counted(cmd) => buf[w] + Span(cmd) <= addr[w] + PerThread
    <3>1. Wanted(cmd) = Counted(cmd)
      BY <1>1 DEF Wanted
    <3>. QED
      BY <3>1, <1>1, <1>2, CursorInside
  <2>2. CASE PerThread % Span(cmd) <= Counted(cmd)
    <3>1. Overrun(cmd) = 0
      BY <2>2, <1>1, <1>4 DEF Overrun
    <3>. QED
      BY <3>1, <2>1, <2>2, <1>2, <1>3, <1>4, <1>6 DEF Reaches
  <2>3. CASE ~ (PerThread % Span(cmd) <= Counted(cmd))
    <3>1. Overrun(cmd) = (cmd.stride - cmd.access) * (n - 1)
      BY <2>3, <1>1, <1>4 DEF Overrun
    <3>2. last = buf[w] + Counted(cmd) + (cmd.stride - cmd.access) * (n - 1)
      <4>1. \A x, y \in Nat : \A z \in Nat \ {0} :
               y * (z - 1) + x = x * z + (y - x) * (z - 1)
        OBVIOUS
      <4>2. cmd.stride * (n - 1) + cmd.access = cmd.access * n + (cmd.stride - cmd.access) * (n - 1)
        BY <4>1, <1>3, <1>5
      <4>3. /\ cmd.stride * (n - 1) \in Nat /\ cmd.access * n \in Nat
            /\ (cmd.stride - cmd.access) * (n - 1) \in Nat
        BY <1>3, <1>5
      <4>. HIDE DEF n
      <4>. QED
        BY <4>2, <4>3, <1>2, <1>5, <1>7 DEF last
    <3>3. (cmd.stride - cmd.access) * (n - 1) \in Nat
      BY <1>3, <1>5
    <3>. QED
      BY <3>1, <3>2, <3>3, <2>1, <1>2, <1>3, <1>4 DEF Reaches
  <2>. QED
    BY <2>2, <2>3
<1>9. next \in Nat /\ Cursor(cmd, addr[w], next)
  <2>1. CASE AtEnd(w, buf[w] + cmd.stride * n + Counted(cmd))
    BY <2>1, <1>2, CursorAtStart DEF NextStrided
  <2>2. CASE ~ AtEnd(w, buf[w] + cmd.stride * n + Counted(cmd))
    <3>1. next = buf[w] + Span(cmd)
      BY <2>2, <1>4 DEF NextStrided
    <3>2. buf[w] + Span(cmd) + Wanted(cmd) < addr[w] + PerThread
      BY <2>2, <1>1, <1>2, <1>3, <1>4 DEF AtEnd, Wanted
    <3>. QED
      BY <3>1, <3>2, <1>1, <1>2, <1>4, NextCursor
  <2>. QED
    BY <2>1, <2>2
<1>. HIDE DEF next
<1>. QED
  BY <1>1, <1>2, <1>4, <1>6, <1>7, <1>8, <1>9, BatchStep

\* Task 9 in order: the test leaves a whole batch of room.
LEMMA FenceStep ==
  ASSUME IInv, NEW w \in Cores, FenceBatch(w)
  PROVE  IInv'
<1>. DEFINE s == Counted(cmd)
            next == IF AtEnd(w, buf[w] + s + s) THEN addr[w] ELSE buf[w] + s
<1>1. /\ cmd.job = "flushfence" /\ pc[w] = "running"
      /\ Batch(w, buf[w], buf[w] + (s - cmd.access) + FenceMoved(cmd),
               Accesses(cmd) * FenceMoved(cmd))
      /\ Moves(w, s, next)
  BY DEF FenceBatch, Batch
<1>2. /\ Sound(cmd) /\ addr[w] \in Nat /\ buf[w] \in Nat
      /\ Cursor(cmd, addr[w], buf[w])
  BY <1>1 DEF IInv, TypeOK, Cursors
<1>3. Span(cmd) = s /\ Wanted(cmd) = s /\ Overrun(cmd) = 0
  BY <1>1 DEF Span, Wanted, Overrun
<1>4. s \in Nat \ {0} /\ cmd.access <= s /\ PerThread \in Nat
  BY <1>1, <1>2, SpanFits, SizesAssumption
<1>5. cmd.access \in Nat \ {0} /\ Accesses(cmd) \in Nat \ {0}
  BY <1>1, <1>2, AccessesPositive DEF Sound, Parameters, Drawing
<1>6. FenceMoved(cmd) = cmd.access
  BY <1>1, <1>2, FenceMovedExact DEF Fences
<1>7. /\ Accesses(cmd) * FenceMoved(cmd) = s /\ Accesses(cmd) * FenceMoved(cmd) \in Nat
      /\ buf[w] + (s - cmd.access) + FenceMoved(cmd) = buf[w] + s
  <2>1. Accesses(cmd) * cmd.access = cmd.access * Accesses(cmd)
    BY <1>5
  <2>2. s = cmd.access * Accesses(cmd)
    BY DEF Counted
  <2>. HIDE DEF s
  <2>. QED
    BY <2>1, <2>2, <1>2, <1>4, <1>5, <1>6
<1>8. Reaches(cmd, addr[w], buf[w], buf[w] + s)
  <2>1. addr[w] <= buf[w] /\ buf[w] < addr[w] + PerThread /\ buf[w] + s <= addr[w] + PerThread
    BY <1>1, <1>2, <1>3, CursorInside
  <2>. QED
    BY <2>1, <1>2, <1>3, <1>4 DEF Reaches
<1>9. next \in Nat /\ Cursor(cmd, addr[w], next)
  <2>1. CASE AtEnd(w, buf[w] + s + s)
    BY <2>1, <1>2, CursorAtStart
  <2>2. CASE ~ AtEnd(w, buf[w] + s + s)
    <3>1. next = buf[w] + Span(cmd) /\ next \in Nat
      BY <2>2, <1>2, <1>3, <1>4
    <3>2. buf[w] + Span(cmd) + Wanted(cmd) < addr[w] + PerThread
      BY <2>2, <1>2, <1>3, <1>4 DEF AtEnd
    <3>3. Cursor(cmd, addr[w], buf[w] + Span(cmd))
      BY <3>2, <1>1, <1>2, NextCursor
    <3>. QED
      BY <3>1, <3>3
  <2>. QED
    BY <2>1, <2>2
<1>10. buf[w] + s \in Nat
  BY <1>2, <1>4
<1>. HIDE DEF next, s
<1>. QED
  BY <1>1, <1>2, <1>4, <1>7, <1>8, <1>9, <1>10, BatchStep

\* Task 12: the test wants no room, so the last batch goes beyond the region by
\* what the rest of it is short of one.
LEMMA SeqStep ==
  ASSUME IInv, NEW w \in Cores, SeqBatch(w)
  PROVE  IInv'
<1>. DEFINE s == Counted(cmd)
            next == IF AtEnd(w, buf[w] + s) THEN addr[w] ELSE buf[w] + s
<1>1. /\ cmd.job = "seq" /\ pc[w] = "running"
      /\ Batch(w, buf[w], buf[w] + s, s)
      /\ Moves(w, s, next)
  BY DEF SeqBatch, Batch
<1>2. /\ Sound(cmd) /\ addr[w] \in Nat /\ buf[w] \in Nat
      /\ Cursor(cmd, addr[w], buf[w])
  BY <1>1 DEF IInv, TypeOK, Cursors
<1>3. Span(cmd) = s /\ Wanted(cmd) = 0
  BY <1>1 DEF Span, Wanted
<1>4. s \in Nat \ {0} /\ PerThread \in Nat
  BY <1>1, <1>2, SpanFits, SizesAssumption
<1>5. Reaches(cmd, addr[w], buf[w], buf[w] + s)
  <2>1. /\ addr[w] <= buf[w] /\ buf[w] < addr[w] + PerThread
        /\ buf[w] + (PerThread % s) <= addr[w] + PerThread
        /\ PerThread % s <= 0 => buf[w] + s <= addr[w] + PerThread
    BY <1>1, <1>2, <1>3, CursorInside
  <2>2. PerThread % s \in Nat
    BY <1>4
  <2>3. Overrun(cmd) = IF PerThread % s = 0 THEN 0 ELSE s - (PerThread % s)
    BY <1>1 DEF Overrun
  <2>. HIDE DEF s
  <2>. QED
    BY <2>1, <2>2, <2>3, <1>2, <1>4 DEF Reaches
<1>6. next \in Nat /\ Cursor(cmd, addr[w], next)
  <2>1. CASE AtEnd(w, buf[w] + s)
    BY <2>1, <1>2, CursorAtStart
  <2>2. CASE ~ AtEnd(w, buf[w] + s)
    <3>1. next = buf[w] + Span(cmd) /\ next \in Nat
      BY <2>2, <1>2, <1>3, <1>4
    <3>2. buf[w] + Span(cmd) + Wanted(cmd) < addr[w] + PerThread
      BY <2>2, <1>2, <1>3, <1>4 DEF AtEnd
    <3>3. Cursor(cmd, addr[w], buf[w] + Span(cmd))
      BY <3>2, <1>1, <1>2, NextCursor
    <3>. QED
      BY <3>1, <3>3
  <2>. QED
    BY <2>1, <2>2
<1>7. buf[w] + s \in Nat
  BY <1>2, <1>4
<1>. HIDE DEF next, s
<1>8. Moves(w, s, next) /\ (Exact(cmd) => s = s) /\ (cmd.job = "imcprobe" => s = 0)
  BY <1>1
<1>. QED
  BY <1>1, <1>2, <1>4, <1>5, <1>6, <1>7, <1>8, BatchStep

\* Task 11 writes at its start and counts nothing.
LEMMA ProbeStep ==
  ASSUME IInv, NEW w \in Cores, ProbeBatch(w)
  PROVE  IInv'
<1>1. /\ cmd.job = "imcprobe" /\ pc[w] = "running"
      /\ Batch(w, addr[w], addr[w] + cmd.access, 0)
      /\ buf' = buf /\ timing' = timing
  BY DEF ProbeBatch, Batch
<1>2. /\ addr[w] \in Nat /\ buf[w] \in Nat /\ cmd.access \in Nat
      /\ timing[w] = 0
  BY <1>1 DEF IInv, TypeOK, Placed, Parameters
<1>3. Moves(w, 0, buf[w])
  BY <1>1, <1>2 DEF Moves, IInv, TypeOK
<1>4. ~ Pooled(cmd) /\ Cursor(cmd, addr[w], buf[w])
  BY <1>1 DEF Pooled, Cursor
<1>5. addr[w] + cmd.access \in Nat
  BY <1>2
<1>6. Reaches(cmd, addr[w], addr[w], addr[w] + cmd.access)
  BY <1>4 DEF Reaches
<1>. QED
  BY <1>1, <1>2, <1>3, <1>4, <1>5, <1>6, BatchStep

-----------------------------------------------------------------------------
(***************************************************************************)
(* The jobs that jump.                                                     *)
(***************************************************************************)
\* A masked random number is the start of a block of the region.
LEMMA OffsetInside ==
  ASSUME NEW region \in Nat, NEW block \in Nat \ {0}, region % block = 0,
         NEW o \in Offsets(region, block)
  PROVE  o \in Nat /\ o + block <= region
<1>1. PICK k \in 0 .. (region \div block) - 1 : o = k * block
  BY DEF Offsets
<1>. QED
  BY <1>1, BlockInside

\* A masked random number is a number, whatever the mask.
LEMMA OffsetType ==
  ASSUME NEW region \in Nat, NEW block \in Nat \ {0}, NEW o \in Offsets(region, block)
  PROVE  o \in Nat
<1>1. PICK k \in 0 .. (region \div block) - 1 : o = k * block
  BY DEF Offsets
<1>2. region \div block \in Nat
  BY Division
<1>3. k \in Nat
  BY <1>1, <1>2
<1>. QED
  BY <1>1, <1>3

\* Task 4: a block of its own region.
LEMMA SizeStep ==
  ASSUME IInv, NEW w \in Cores, SizeBatch(w)
  PROVE  IInv'
<1>. DEFINE region == IF cmd.align = "GLOBAL" THEN Global ELSE PerThread
            lines == RoundUp(cmd.access, Turn)
<1>1. PICK o \in Offsets(region, cmd.block) :
        Batch(w, addr[w] + o, addr[w] + o + lines, SizeMoved(cmd))
  BY DEF SizeBatch
<1>2. /\ cmd.job = "sizebw" /\ pc[w] = "running"
      /\ Moves(w, Counted(cmd), buf[w])
  BY <1>1 DEF SizeBatch, Batch
<1>3. /\ Sound(cmd) /\ addr[w] \in Nat /\ buf[w] \in Nat
      /\ Cursor(cmd, addr[w], buf[w])
  BY <1>2 DEF IInv, TypeOK, Cursors
<1>4. /\ PerThread \in Nat /\ Global \in Nat /\ Turn \in Nat \ {0}
      /\ cmd.access \in Nat \ {0} /\ cmd.block \in Nat \ {0}
      /\ PerThread % cmd.block = 0
  BY <1>2, <1>3, SizesAssumption DEF Sound, Parameters
<1>5. o \in Nat
  <2>1. region \in Nat
    BY <1>4
  <2>. HIDE DEF region
  <2>. QED
    BY <1>1, <1>4, <2>1, OffsetType
<1>6. lines \in Nat
  BY <1>4, RoundUpNat
<1>7. Accesses(cmd) \in Nat \ {0}
  BY <1>2, <1>3, AccessesPositive DEF Drawing
<1>8. SizeMoved(cmd) \in Nat /\ Counted(cmd) \in Nat
  <2>1. RoundUp(Accesses(cmd), 4) \in Nat
    BY <1>7, RoundUpNat
  <2>2. \A x, y \in Nat : x * y \in Nat
    OBVIOUS
  <2>. QED
    BY <2>1, <2>2, <1>4, <1>6, <1>7 DEF SizeMoved, Counted
<1>9. Reaches(cmd, addr[w], addr[w] + o, addr[w] + o + lines)
  <2>. SUFFICES ASSUME Pooled(cmd)
                PROVE  /\ addr[w] <= addr[w] + o /\ addr[w] + o < addr[w] + PerThread
                       /\ addr[w] + o + lines <= addr[w] + PerThread + Overrun(cmd)
    BY DEF Reaches
  <2>1. region = PerThread
    BY <1>2 DEF Pooled
  <2>2. o + cmd.block <= PerThread
    BY <1>1, <1>4, <2>1, OffsetInside
  <2>3. Overrun(cmd) = IF lines <= cmd.block THEN 0 ELSE lines - cmd.block
    BY <1>2 DEF Overrun
  <2>. HIDE DEF lines
  <2>. QED
    BY <2>1, <2>2, <2>3, <1>3, <1>4, <1>5, <1>6
<1>10. Exact(cmd) => Counted(cmd) = SizeMoved(cmd)
  <2>. SUFFICES ASSUME Exact(cmd) PROVE Counted(cmd) = SizeMoved(cmd)
    OBVIOUS
  <2>1. RoundUp(cmd.access, Turn) = cmd.access
    BY <1>2, <1>4, RoundUpExact DEF Exact
  <2>2. RoundUp(Accesses(cmd), 4) = Accesses(cmd)
    BY <1>2, <1>7, RoundUpExact DEF Exact
  <2>. QED
    BY <2>1, <2>2 DEF SizeMoved, Counted
<1>11. addr[w] + o \in Nat /\ addr[w] + o + lines \in Nat
  BY <1>3, <1>5, <1>6
<1>. HIDE DEF lines
<1>. QED
  BY <1>1, <1>2, <1>3, <1>8, <1>9, <1>10, <1>11, BatchStep

\* Task 9 at random: an aligned access of its own region.
LEMMA RandomFenceStep ==
  ASSUME IInv, NEW w \in Cores, RandomFenceBatch(w)
  PROVE  IInv'
<1>1. PICK o \in Offsets(PerThread, cmd.access) :
        /\ Batch(w, addr[w] + o, addr[w] + o + FenceMoved(cmd),
                 Accesses(cmd) * FenceMoved(cmd))
        /\ Moves(w, Counted(cmd), addr[w] + o + cmd.access)
  BY DEF RandomFenceBatch
<1>2. cmd.job = "randfence" /\ pc[w] = "running"
  BY <1>1 DEF RandomFenceBatch, Batch
<1>3. Sound(cmd) /\ addr[w] \in Nat /\ buf[w] \in Nat
  BY DEF IInv, TypeOK
<1>4. /\ PerThread \in Nat /\ cmd.access \in Nat \ {0}
      /\ PerThread % cmd.access = 0
  BY <1>2, <1>3, SizesAssumption DEF Sound, Parameters
<1>5. o \in Nat /\ o + cmd.access <= PerThread
  BY <1>1, <1>4, OffsetInside
<1>6. FenceMoved(cmd) = cmd.access
  BY <1>2, <1>3, FenceMovedExact DEF Fences
<1>7. Accesses(cmd) \in Nat \ {0}
  BY <1>2, <1>3, AccessesPositive DEF Drawing
<1>8. Accesses(cmd) * FenceMoved(cmd) = Counted(cmd) /\ Counted(cmd) \in Nat
  BY <1>4, <1>6, <1>7 DEF Counted
<1>9. /\ addr[w] + o \in Nat /\ addr[w] + o + FenceMoved(cmd) \in Nat
      /\ addr[w] + o + cmd.access \in Nat
      /\ Reaches(cmd, addr[w], addr[w] + o, addr[w] + o + FenceMoved(cmd))
  <2>1. Overrun(cmd) = 0
    BY <1>2 DEF Overrun
  <2>. QED
    BY <2>1, <1>3, <1>4, <1>5, <1>6 DEF Reaches
<1>10. Cursor(cmd, addr[w], addr[w] + o + cmd.access)
  BY <1>2 DEF Cursor
<1>. QED
  BY <1>1, <1>2, <1>8, <1>9, <1>10, BatchStep

\* The places of task 8 are offsets.
LEMMA PlacesType ==
  ASSUME Sound(cmd), cmd.job = "thbind", NEW w \in Cores, NEW o \in Places(w)
  PROVE  o \in Nat
<1>1. /\ cmd.access \in Nat \ {0} /\ cmd.align \in Aligns
      /\ w \in Nat /\ Page \in Nat \ {0} /\ PerThread \in Nat /\ DimmSize \in Nat
      /\ Global \in Nat /\ GlobalNI \in Nat
  BY SizesAssumption DEF Sound, Parameters
<1>2. \A p \in Offsets(Page, cmd.access) : p \in Nat
  BY <1>1, OffsetType
<1>3. /\ PerThread \div Page \in Nat
      /\ \A k \in 0 .. (PerThread \div Page) - 1 : k * Dimms * Page \in Nat
  <2>1. PerThread \div Page \in Nat
    BY <1>1, Division
  <2>2. \A k \in Nat : k * Dimms * Page \in Nat
    BY <1>1 DEF Dimms
  <2>. QED
    BY <2>1, <2>2
<1>4. CASE cmd.align \in {"GLOBAL", "PERTHREAD", "NI"}
  <2>1. o \in Offsets(Global, cmd.access) \/ o \in Offsets(PerThread, cmd.access)
    BY <1>4 DEF Places
  <2>. QED
    BY <2>1, <1>1, OffsetType
<1>5. CASE cmd.align = "PERIMC"
  <2>1. PICK k \in 0 .. (Global \div (2 * Page)) - 1, p \in Offsets(Page, cmd.access) :
          o = 2 * k * Page + p + (IF w % 2 = 0 THEN Page ELSE 0)
    BY <1>5 DEF Places
  <2>2. Global \div (2 * Page) \in Nat
    BY <1>1, Division
  <2>3. 2 * k * Page \in Nat
    BY <2>2, <1>1
  <2>. QED
    BY <2>1, <2>3, <1>1, <1>2
<1>6. CASE cmd.align = "PERDIMM"
  <2>1. PICK k \in 0 .. (PerThread \div Page) - 1, p \in Offsets(Page, cmd.access) :
          o = (w % Dimms) * Page + k * Dimms * Page + p
    BY <1>6 DEF Places
  <2>2. (w % Dimms) * Page \in Nat
    BY <1>1 DEF Dimms
  <2>. QED
    BY <2>1, <2>2, <1>2, <1>3
<1>7. CASE cmd.align = "PERCHANNELGROUP"
  <2>1. PICK k \in 0 .. (PerThread \div Page) - 1, p \in Offsets(Page, cmd.access),
             i \in {0, 3 * Page} :
          o = (w % 3) * Page + k * Dimms * Page + p + i
    BY <1>7 DEF Places
  <2>2. (w % 3) * Page \in Nat /\ i \in Nat
    BY <1>1
  <2>. QED
    BY <2>1, <2>2, <1>2, <1>3
<1>8. CASE cmd.align = "NI_GLOBAL"
  <2>1. PICK p \in Offsets(GlobalNI, cmd.access), d \in 0 .. Dimms - 1 :
          o = p + DimmSize * d
    BY <1>8 DEF Places
  <2>2. p \in Nat
    BY <1>1, OffsetType
  <2>3. DimmSize * d \in Nat
    BY <1>1 DEF Dimms
  <2>. QED
    BY <2>1, <2>2, <2>3
<1>. QED
  BY <1>1, <1>4, <1>5, <1>6, <1>7, <1>8 DEF Aligns

\* Task 8: one of its places.
LEMMA AlignStep ==
  ASSUME IInv, NEW w \in Cores, AlignBatch(w)
  PROVE  IInv'
<1>1. PICK o \in Places(w) :
        Batch(w, base[w] + o, base[w] + o + cmd.access, 4096 * cmd.access)
  BY DEF AlignBatch
<1>2. /\ cmd.job = "thbind" /\ pc[w] = "running"
      /\ Moves(w, 4096 * cmd.access, buf[w])
  BY <1>1 DEF AlignBatch, Batch
<1>3. /\ Sound(cmd) /\ base[w] \in Nat /\ buf[w] \in Nat /\ cmd.access \in Nat
  BY DEF IInv, TypeOK, Parameters
<1>4. o \in Nat
  BY <1>1, <1>2, <1>3, PlacesType
<1>5. ~ Pooled(cmd) /\ Cursor(cmd, addr[w], buf[w])
  BY <1>2 DEF Pooled, Cursor
<1>6. PICK lo \in Nat, hi \in Nat, n \in Nat :
        lo = base[w] + o /\ hi = base[w] + o + cmd.access /\ n = 4096 * cmd.access
  BY <1>3, <1>4
<1>7. Batch(w, lo, hi, n) /\ Moves(w, n, buf[w])
  BY <1>1, <1>2, <1>6
<1>8. cmd.job = "thbind" =>
        \E p \in Places(w) : lo = base[w] + p /\ hi = base[w] + p + cmd.access
  BY <1>6
<1>9. /\ Reaches(cmd, addr[w], lo, hi)
      /\ Exact(cmd) => n = n
      /\ cmd.job = "imcprobe" => n = 0
  BY <1>2, <1>5 DEF Reaches
<1>10. buf[w] \in Nat /\ Cursor(cmd, addr[w], buf[w])
  BY <1>3, <1>5
<1>. QED
  BY <1>7, <1>8, <1>9, <1>10, BatchStep

\* Every step keeps it.
LEMMA NextInvariant == IInv /\ [Next]_vars => IInv'
<1>. SUFFICES ASSUME IInv, [Next]_vars PROVE IInv'
  OBVIOUS
<1>1. CASE UNCHANGED vars
  <2>1. /\ pc' = pc /\ cmd' = cmd /\ addr' = addr /\ base' = base /\ buf' = buf
        /\ at' = at /\ moved' = moved /\ timing' = timing
    BY <1>1 DEF vars
  <2>2. \A w \in Cores : Places(w)' = Places(w) /\ Address(w)' = Address(w) /\ Base(w)' = Base(w)
    BY <2>1 DEF Places, Address, Base
  <2>3. TypeOK' /\ Sound(cmd)' /\ Placed' /\ Cursors' /\ Drawn'
    BY <2>1, <2>2 DEF IInv, TypeOK, Sound, Placed, Cursors, Drawn
  <2>4. WorksetReach' /\ CountsWhatMoved'
    BY <2>1 DEF IInv, WorksetReach, InReach, CountsWhatMoved
  <2>. QED
    BY <2>3, <2>4 DEF IInv
<1>2. ASSUME NEW w \in Cores,
             \/ NewThread(w) \/ BeginJob(w)
             \/ StridedBatch(w) \/ FenceBatch(w) \/ SeqBatch(w) \/ ProbeBatch(w)
             \/ SizeBatch(w) \/ RandomFenceBatch(w) \/ AlignBatch(w)
      PROVE  IInv'
  BY <1>2, NewThreadStep, BeginJobStep, StridedStep, FenceStep, SeqStep, ProbeStep,
     SizeStep, RandomFenceStep, AlignStep
<1>. QED
  BY <1>1, <1>2 DEF Next

\* IInv is an invariant.
THEOREM Invariant == Spec => []IInv
  BY InitInvariant, NextInvariant, PTL DEF Spec

\* Every variable keeps its type.
THEOREM TypeCorrect == Spec => []TypeOK
<1>1. IInv => TypeOK
  BY DEF IInv
<1>. QED
  BY Invariant, <1>1, PTL

\* Every batch begins in the pool of its worker and ends at most Overrun lines
\* beyond it, for all the sizes and strides that are accepted.
THEOREM WorksetKept == Spec => []WorksetReach
<1>1. IInv => WorksetReach
  BY DEF IInv
<1>. QED
  BY Invariant, <1>1, PTL

\* The bytes that a job reports are the bytes its kernel has moved.
THEOREM RightlyCounted == Spec => []CountsWhatMoved
<1>1. IInv => CountsWhatMoved
  BY DEF IInv
<1>. QED
  BY Invariant, <1>1, PTL
-----------------------------------------------------------------------------
(***************************************************************************)
(* The DIMMs and pools of task 8.                                          *)
(***************************************************************************)
\* Two different blocks of a row do not meet.
LEMMA BlocksApart ==
  ASSUME NEW size \in Nat, NEW z \in Nat, NEW a \in Nat, NEW b \in Nat, a # b,
         NEW lo1 \in Nat, NEW hi1 \in Nat, NEW lo2 \in Nat, NEW hi2 \in Nat,
         z + a * size <= lo1, hi1 <= z + a * size + size,
         z + b * size <= lo2, hi2 <= z + b * size + size
  PROVE  hi1 <= lo2 \/ hi2 <= lo1
<1>1. a * size \in Nat /\ b * size \in Nat
  OBVIOUS
<1>2. a * size + size = (a + 1) * size /\ b * size + size = (b + 1) * size
  OBVIOUS
<1>3. CASE a < b
  <2>1. (a + 1) * size <= b * size
    BY <1>3
  <2>. QED
    BY <2>1, <1>1, <1>2
<1>4. CASE b < a
  <2>1. (b + 1) * size <= a * size
    BY <1>4
  <2>. QED
    BY <2>1, <1>1, <1>2
<1>. QED
  BY <1>3, <1>4

\* What is known of a worker of task 8 that has touched something.
LEMMA DrawnFacts ==
  ASSUME IInv, NEW w \in Cores, cmd.job = "thbind", at[w] # Nowhere
  PROVE  /\ w \in Nat /\ cmd.align \in Aligns /\ cmd.access \in Nat \ {0}
         /\ base[w] = Base(w) /\ addr[w] = Address(w)
         /\ base[w] \in Nat /\ addr[w] \in Nat
         /\ \E o \in Places(w) :
              /\ o \in Nat
              /\ at[w].lo = base[w] + o /\ at[w].hi = base[w] + o + cmd.access
<1>1. pc[w] = "running"
  BY DEF IInv, Placed
<1>2. w \in Nat /\ cmd.align \in Aligns /\ cmd.access \in Nat \ {0}
  BY SizesAssumption DEF IInv, TypeOK, Parameters
<1>3. base[w] = Base(w) /\ addr[w] = Address(w) /\ base[w] \in Nat /\ addr[w] \in Nat
  BY <1>1 DEF IInv, Placed, TypeOK
<1>4. PICK o \in Places(w) : at[w] = [lo |-> base[w] + o, hi |-> base[w] + o + cmd.access]
  BY DEF IInv, Drawn
<1>5. o \in Nat
  BY PlacesType DEF IInv
<1>. QED
  BY <1>2, <1>3, <1>4, <1>5

\* The sizes that divide one another.
LEMMA AlignedSizes ==
  ASSUME Sound(cmd), cmd.job = "thbind"
  PROVE  /\ cmd.access \in Nat \ {0}
         /\ Page \in Nat \ {0} /\ Page % cmd.access = 0
         /\ PerThread \in Nat \ {0} /\ PerThread % cmd.access = 0
         /\ GlobalNI \in Nat \ {0} /\ GlobalNI % cmd.access = 0
         /\ PerThread \div Page \in Nat /\ PerThread = Page * (PerThread \div Page)
<1>1. PerThread \in Nat /\ Page \in Nat \ {0} /\ PerThread % Page = 0
  BY SizesAssumption
<1>2. PerThread \div Page \in Nat /\ PerThread = Page * (PerThread \div Page)
  BY <1>1, Division
<1>. QED
  BY <1>2, SizesAssumption DEF Sound, Parameters

\* An access inside a page is on that page's DIMM.
LEMMA LineOnPage ==
  ASSUME Page \in Nat \ {0}, NEW K \in Nat, NEW p \in Nat, NEW n \in Nat, p + n <= Page,
         NEW x \in Nat, Page * K + p <= x, x < Page * K + p + n
  PROVE  x \div Page = K
<1>1. Page * K \in Nat
  OBVIOUS
<1>2. PICK r \in Nat : r = x - Page * K
  BY <1>1
<1>3. r < Page /\ x = Page * K + r /\ x \in Nat
  BY <1>1, <1>2
<1>. QED
  BY <1>3, Quotient

\* Where the k-th page of a DIMM lies in the pages of group g.
LEMMA GroupPages ==
  ASSUME NEW P \in Nat, NEW m \in Nat, NEW g \in Nat, NEW d \in Nat, NEW k \in Nat,
         NEW p \in Nat
  PROVE  g * (P * m * 6) + (d * P + k * 6 * P + p) = P * (6 * (m * g + k) + d) + p
<1>1. P * (6 * (m * g + k) + d) = P * (6 * (m * g + k)) + P * d
  BY SMTT(30)
<1>2. P * (6 * (m * g + k)) = 6 * (P * (m * g)) + 6 * (P * k)
  BY SMTT(30)
<1>3. g * (P * m * 6) = 6 * (P * (m * g))
  BY SMTT(30)
<1>4. d * P = P * d /\ k * 6 * P = 6 * (P * k)
  BY SMTT(30)
<1>5. P * (m * g) \in Nat /\ P * k \in Nat /\ P * d \in Nat
  OBVIOUS
<1>. QED
  BY <1>1, <1>2, <1>3, <1>4, <1>5

\* The page of an access with PERDIMM: of the pages of the worker's group,
\* one in six.
LEMMA PerDimmPage ==
  ASSUME IInv, NEW w \in Cores, cmd.job = "thbind", cmd.align = "PERDIMM", at[w] # Nowhere
  PROVE  \E k \in 0 .. (PerThread \div Page) - 1, p \in Nat :
           /\ p + cmd.access <= Page
           /\ at[w].lo = Page * (Dimms * ((PerThread \div Page) * (w \div Dimms) + k) + (w % Dimms)) + p
           /\ at[w].hi = at[w].lo + cmd.access
<1>1. PICK m \in Nat : m = PerThread \div Page /\ PerThread = Page * m
  BY AlignedSizes DEF IInv
<1>2. /\ w \in Nat /\ base[w] = (w \div Dimms) * (PerThread * Dimms)
      /\ Page \in Nat \ {0} /\ cmd.access \in Nat \ {0} /\ Page % cmd.access = 0
  BY DrawnFacts, AlignedSizes DEF IInv, Base, Address
<1>3. PICK o \in Places(w) : /\ o \in Nat
                             /\ at[w].lo = base[w] + o /\ at[w].hi = base[w] + o + cmd.access
  BY DrawnFacts
<1>4. PICK k \in 0 .. (PerThread \div Page) - 1, p \in Offsets(Page, cmd.access) :
        o = (w % Dimms) * Page + k * Dimms * Page + p
  BY <1>3 DEF Places
<1>5. p \in Nat /\ p + cmd.access <= Page
  BY <1>2, OffsetInside
<1>6. PICK g \in Nat, d \in Nat : g = w \div Dimms /\ d = w % Dimms
  BY <1>2 DEF Dimms
<1>7. k \in Nat
  BY <1>1
<1>8. g * (Page * m * 6) + (d * Page + k * 6 * Page + p) = Page * (6 * (m * g + k) + d) + p
  BY <1>2, <1>5, <1>7, GroupPages
<1>9. at[w].lo = Page * (Dimms * (m * g + k) + d) + p
  BY <1>1, <1>2, <1>3, <1>4, <1>6, <1>8 DEF Dimms
<1>10. at[w].hi = at[w].lo + cmd.access
  BY <1>3
<1>. QED
  BY <1>1, <1>5, <1>6, <1>9, <1>10

\* The region of an access with NI: on the worker's DIMM.
LEMMA NonInterleavedRegion ==
  ASSUME IInv, NEW w \in Cores, cmd.job = "thbind", cmd.align = "NI", at[w] # Nowhere
  PROVE  \E r \in Nat :
           /\ r + cmd.access <= DimmSize
           /\ at[w].lo = DimmSize * (w % Dimms) + r
           /\ at[w].hi = at[w].lo + cmd.access
<1>1. PICK d \in 0 .. 5 : d = (w % Dimms)
  BY DrawnFacts DEF Dimms
<1>2. /\ base[w] = d * 6 * Page + DimmSize * d
      /\ Page \in Nat \ {0} /\ cmd.access \in Nat \ {0}
      /\ PerThread \in Nat \ {0} /\ PerThread % cmd.access = 0
  BY <1>1, DrawnFacts, AlignedSizes DEF IInv, Base, Address, Dimms
<1>3. PICK o \in Places(w) : /\ o \in Nat
                             /\ at[w].lo = base[w] + o /\ at[w].hi = base[w] + o + cmd.access
  BY DrawnFacts
<1>4. o + cmd.access <= PerThread
  <2>1. o \in Offsets(PerThread, cmd.access)
    BY <1>3 DEF Places
  <2>. QED
    BY <2>1, <1>2, OffsetInside
<1>5. DimmSize \in Nat /\ 36 * Page + PerThread <= DimmSize
  BY <1>2, SizesAssumption DEF Dimms
<1>6. d * 6 * Page \in Nat /\ d * 6 * Page <= 36 * Page /\ DimmSize * d \in Nat
  <2>1. \A e \in 0 .. 36 : e * Page \in Nat /\ e * Page <= 36 * Page
    BY <1>2
  <2>2. d * 6 \in 0 .. 36
    OBVIOUS
  <2>3. \A e \in Nat : DimmSize * e \in Nat
    BY <1>5
  <2>. QED
    BY <2>1, <2>2, <2>3
<1>a. PICK q \in Nat : q = d * 6 * Page /\ q <= 36 * Page
  BY <1>6
<1>7. PICK r \in Nat : r = q + o
  BY <1>3
<1>8. r + cmd.access <= DimmSize
  BY <1>2, <1>3, <1>4, <1>5, <1>a, <1>7
<1>9. at[w].lo = DimmSize * d + r /\ at[w].hi = at[w].lo + cmd.access
  BY <1>2, <1>3, <1>6, <1>a, <1>7
<1>. QED
  BY <1>1, <1>8, <1>9

\* A line at r of DIMM d.
LEMMA LineOnDimm ==
  ASSUME DimmSize \in Nat \ {0}, NEW d \in Nat, NEW r \in Nat, NEW n \in Nat,
         r + n <= DimmSize,
         NEW x \in Nat, DimmSize * d + r <= x, x < DimmSize * d + r + n
  PROVE  x \div DimmSize = d
<1>1. DimmSize * d \in Nat
  OBVIOUS
<1>2. PICK t \in Nat : t = x - DimmSize * d
  BY <1>1
<1>3. t < DimmSize /\ x = DimmSize * d + t /\ x \in Nat
  BY <1>1, <1>2
<1>. QED
  BY <1>3, Quotient

\* Every access of task 8 is on the DIMMs that its alignment names.
LEMMA DimmOwnedStep == IInv => OwnDimm
<1>. SUFFICES ASSUME IInv, NEW w \in Cores, NEW x \in at[w].lo .. at[w].hi - 1,
                     cmd.job = "thbind"
              PROVE  /\ cmd.align \in {"PERDIMM", "NI"} => DimmOf(x) = (w % Dimms)
                     /\ cmd.align = "PERIMC" => (DimmOf(x) % 2) # (w % 2)
                     /\ cmd.align = "PERCHANNELGROUP" => (DimmOf(x) % 3) = (w % 3)
                     /\ cmd.align = "NI_GLOBAL" => DimmOf(x) < Dimms
  BY DEF OwnDimm
<1>1. at[w] # Nowhere
  <2>. SUFFICES ASSUME at[w] = Nowhere PROVE FALSE
    OBVIOUS
  <2>. QED
    BY DEF Nowhere
<1>2. /\ w \in Nat /\ cmd.access \in Nat \ {0}
      /\ base[w] = Base(w) /\ addr[w] = Address(w)
  BY <1>1, DrawnFacts
<1>3. /\ Page \in Nat \ {0} /\ Page % cmd.access = 0 /\ DimmSize \in Nat \ {0}
      /\ GlobalNI \in Nat \ {0} /\ GlobalNI % cmd.access = 0 /\ GlobalNI <= DimmSize
      /\ Global \in Nat
  BY AlignedSizes, SizesAssumption DEF IInv
<1>4. PICK m \in Nat : m = PerThread \div Page /\ PerThread = Page * m
  BY AlignedSizes DEF IInv
<1>5. PICK o \in Places(w) : /\ o \in Nat
                             /\ at[w].lo = base[w] + o /\ at[w].hi = base[w] + o + cmd.access
  BY <1>1, DrawnFacts
<1>. /\ x \in Nat /\ at[w].lo <= x /\ x < at[w].hi
  <2>1. at[w].lo \in Nat /\ at[w].hi \in Nat
    BY DEF IInv, TypeOK
  <2>. QED
    BY <2>1
<1>6. CASE cmd.align = "PERDIMM"
  <2>1. PICK k \in 0 .. (PerThread \div Page) - 1, p \in Nat :
           /\ p + cmd.access <= Page
           /\ at[w].lo = Page * (Dimms * ((PerThread \div Page) * (w \div Dimms) + k) + (w % Dimms)) + p
           /\ at[w].hi = at[w].lo + cmd.access
    BY <1>1, <1>6, PerDimmPage
  <2>2. PICK g \in Nat, d \in 0 .. 5 : g = w \div Dimms /\ d = (w % Dimms)
    BY <1>2 DEF Dimms
  <2>3. PICK j \in Nat : j = m * g + k
    BY <1>4
  <2>4. PICK K \in Nat : K = 6 * j + d
    OBVIOUS
  <2>5. at[w].lo = Page * K + p /\ at[w].hi = Page * K + p + cmd.access
    BY <2>1, <2>2, <2>3, <2>4, <1>4 DEF Dimms
  <2>6. x \div Page = K
    BY <2>1, <2>5, <1>2, <1>3, LineOnPage
  <2>7. (K % 6) = d
    BY <2>4
  <2>. QED
    BY <2>2, <2>6, <2>7, <1>6 DEF DimmOf, Dimms
<1>7. CASE cmd.align = "NI"
  <2>1. PICK r \in Nat : /\ r + cmd.access <= DimmSize
                         /\ at[w].lo = DimmSize * (w % Dimms) + r
                         /\ at[w].hi = at[w].lo + cmd.access
    BY <1>1, <1>7, NonInterleavedRegion
  <2>2. PICK d \in Nat : d = (w % Dimms)
    BY <1>2 DEF Dimms
  <2>3. at[w].lo = DimmSize * d + r /\ at[w].hi = DimmSize * d + r + cmd.access
    BY <2>1, <2>2
  <2>4. x \div DimmSize = d
    <3>1. DimmSize * d + r <= x /\ x < DimmSize * d + r + cmd.access
      BY <2>3
    <3>. QED
      BY <3>1, <2>1, <1>2, <1>3, LineOnDimm
  <2>. QED
    BY <2>2, <2>4, <1>7 DEF DimmOf
<1>8. CASE cmd.align = "PERIMC"
  <2>1. PICK k \in 0 .. (Global \div (2 * Page)) - 1, p \in Offsets(Page, cmd.access) :
          o = 2 * k * Page + p + (IF w % 2 = 0 THEN Page ELSE 0)
    BY <1>5, <1>8 DEF Places
  <2>2. k \in Nat
    <3>1. Global \div (2 * Page) \in Nat
      BY <1>3, Division
    <3>. QED
      BY <3>1
  <2>3. p \in Nat /\ p + cmd.access <= Page
    BY <1>2, <1>3, OffsetInside
  <2>4. PICK e \in 0 .. 1 : e = (IF w % 2 = 0 THEN 1 ELSE 0) /\ e # (w % 2)
    BY <1>2
  <2>5. base[w] = 0
    BY <1>2, <1>8 DEF Base, Address
  <2>6. PICK K \in Nat : K = 2 * k + e
    BY <2>2
  <2>7. Page * K = 2 * k * Page + (IF w % 2 = 0 THEN Page ELSE 0)
    <3>1. Page * K = 2 * k * Page + Page * e
      BY <2>2, <2>6, <1>3
    <3>2. Page * e = (IF w % 2 = 0 THEN Page ELSE 0)
      BY <2>4, <1>3
    <3>. QED
      BY <3>1, <3>2
  <2>8. Page * K \in Nat /\ 2 * k * Page \in Nat
    BY <1>3, <2>2
  <2>9. at[w].lo = Page * K + p /\ at[w].hi = Page * K + p + cmd.access
    BY <2>1, <2>3, <2>5, <2>7, <2>8, <1>2, <1>3, <1>5
  <2>10. x \div Page = K
    <3>1. Page * K + p <= x /\ x < Page * K + p + cmd.access
      BY <2>9
    <3>. QED
      BY <3>1, <2>3, <1>2, <1>3, LineOnPage
  <2>11. ((K % 6) % 2) = e
    BY <2>6, <2>2
  <2>. QED
    BY <2>4, <2>10, <2>11, <1>8 DEF DimmOf, Dimms
<1>9. CASE cmd.align = "PERCHANNELGROUP"
  <2>1. PICK k \in 0 .. (PerThread \div Page) - 1, p \in Offsets(Page, cmd.access),
             i \in {0, 3 * Page} :
          o = (w % 3) * Page + k * Dimms * Page + p + i
    BY <1>5, <1>9 DEF Places
  <2>2. k \in Nat
    BY <1>4
  <2>3. p \in Nat /\ p + cmd.access <= Page
    BY <1>2, <1>3, OffsetInside
  <2>4. PICK g \in Nat, d \in 0 .. 2 : g = w \div Dimms /\ d = (w % 3)
    BY <1>2 DEF Dimms
  <2>5. PICK e \in {0, 3} : i = e * Page
    BY <1>3
  <2>6. base[w] = g * (Page * m * 6)
    BY <1>2, <1>4, <1>9, <2>4 DEF Base, Address, Dimms
  <2>7. PICK f \in 0 .. 5 : f = d + e /\ (f % 3) = d
    OBVIOUS
  <2>8. f * Page = d * Page + i /\ d * Page \in Nat /\ k * 6 * Page \in Nat /\ i \in Nat
    BY <2>2, <2>5, <2>7, <1>3
  <2>9. PICK j \in Nat : j = m * g + k
    BY <2>2
  <2>10. PICK K \in Nat : K = 6 * j + f
    OBVIOUS
  <2>11. g * (Page * m * 6) + (f * Page + k * 6 * Page + p) = Page * K + p
    BY <2>2, <2>3, <2>9, <2>10, <1>3, GroupPages
  <2>12. o = f * Page + k * 6 * Page + p
    BY <2>1, <2>3, <2>4, <2>8 DEF Dimms
  <2>13. at[w].lo = Page * K + p /\ at[w].hi = Page * K + p + cmd.access
    BY <2>6, <2>11, <2>12, <1>5
  <2>14. x \div Page = K
    BY <2>3, <2>13, <1>2, <1>3, LineOnPage
  <2>15. ((K % 6) % 3) = d
    BY <2>7, <2>10
  <2>. QED
    BY <2>4, <2>14, <2>15, <1>9 DEF DimmOf, Dimms
<1>10. CASE cmd.align = "NI_GLOBAL"
  <2>1. PICK p \in Offsets(GlobalNI, cmd.access), d \in 0 .. Dimms - 1 :
          o = p + DimmSize * d
    BY <1>5, <1>10 DEF Places
  <2>2. p \in Nat /\ p + cmd.access <= DimmSize
    <3>1. p \in Nat /\ p + cmd.access <= GlobalNI
      BY <1>2, <1>3, OffsetInside
    <3>. QED
      BY <3>1, <1>2, <1>3
  <2>3. d \in Nat /\ d < Dimms
    BY DEF Dimms
  <2>4. base[w] = 0
    BY <1>2, <1>10 DEF Base, Address
  <2>5. at[w].lo = DimmSize * d + p /\ at[w].hi = DimmSize * d + p + cmd.access
    <3>1. DimmSize * d \in Nat
      BY <1>3, <2>3
    <3>. QED
      BY <3>1, <2>1, <2>2, <2>4, <1>2, <1>5
  <2>6. x \div DimmSize = d
    BY <2>2, <2>3, <2>5, <1>2, <1>3, LineOnDimm
  <2>. QED
    BY <2>3, <2>6, <1>10 DEF DimmOf
<1>. QED
  BY <1>6, <1>7, <1>8, <1>9, <1>10

\* The workers of task 8 stay on their DIMMs: every access with PERDIMM and
\* NI is on the worker's own, with PERIMC and PERCHANNELGROUP in its group.
THEOREM DimmOwned == Spec => []OwnDimm
  BY Invariant, DimmOwnedStep, PTL

\* A batch goes less than a pool beyond its own.
LEMMA OverrunBounded ==
  ASSUME NEW c, Sound(c), Pooled(c)
  PROVE  Overrun(c) \in 0 .. PerThread
<1>1. /\ PerThread \in Nat \ {0} /\ CheckStop \in Nat \ {0} /\ Turn \in Nat \ {0}
      /\ CheckStop <= PerThread /\ 2 * Turn <= CheckStop
      /\ c.access \in Nat \ {0} /\ c.stride \in Nat /\ c.block \in Nat \ {0}
  BY SizesAssumption DEF Sound, Parameters
<1>2. CASE c.job = "strided"
  <2>. DEFINE n == Accesses(c)
  <2>1. n \in Nat \ {0} /\ c.access <= c.stride
    BY <1>2, AccessesPositive DEF Sound, Drawing
  <2>2. c.stride * n <= PerThread
    BY <1>2, SpanFits DEF Span
  <2>3. (c.stride - c.access) * (n - 1) \in 0 .. c.stride * n
    <3>. HIDE DEF n
    <3>1. PICK d \in Nat, m \in Nat : d = c.stride - c.access /\ m = n - 1
      BY <2>1, <1>1
    <3>2. d <= c.stride /\ m <= n
      BY <3>1, <2>1, <1>1
    <3>3. d * m <= c.stride * m /\ c.stride * m <= c.stride * n
      BY <3>2, <2>1, <1>1
    <3>4. d * m \in Nat /\ c.stride * m \in Nat /\ c.stride * n \in Nat
      BY <2>1, <1>1
    <3>. QED
      BY <3>1, <3>3, <3>4
  <2>4. Overrun(c) \in {0, (c.stride - c.access) * (n - 1)}
    BY <1>2 DEF Overrun
  <2>5. c.stride * n \in Nat
    BY <1>1, <2>1
  <2>. HIDE DEF n
  <2>. QED
    BY <2>2, <2>3, <2>4, <2>5, <1>1
<1>3. CASE c.job = "seq"
  <2>1. Counted(c) \in Nat \ {0} /\ Counted(c) <= PerThread
    BY <1>3, SpanFits DEF Span
  <2>2. PerThread % Counted(c) \in 0 .. Counted(c) - 1
    BY <1>1, <2>1, Division
  <2>3. Overrun(c) = IF PerThread % Counted(c) = 0 THEN 0 ELSE Counted(c) - (PerThread % Counted(c))
    BY <1>3 DEF Overrun
  <2>. QED
    BY <2>1, <2>2, <2>3, <1>1
<1>4. CASE c.job = "sizebw"
  <2>. DEFINE lines == RoundUp(c.access, Turn)
  <2>1. 4 * c.access <= CheckStop
    BY <1>4 DEF Sound, Drawing
  <2>2. lines \in Nat
    BY <1>1, RoundUpNat
  <2>3. lines <= c.access + Turn
    BY <1>1, RoundUpNat
  <2>4. Overrun(c) = IF lines <= c.block THEN 0 ELSE lines - c.block
    BY <1>4 DEF Overrun
  <2>. HIDE DEF lines
  <2>. QED
    BY <2>1, <2>2, <2>3, <2>4, <1>1
<1>5. CASE c.job \in {"flushfence", "randfence"}
  BY <1>5, <1>1 DEF Overrun
<1>. QED
  BY <1>2, <1>3, <1>4, <1>5 DEF Pooled

\* Workers with pools of their own never touch the same line, and neighbours
\* do only where the first one's batches overrun.
LEMMA PoolsApartStep == IInv => Disjoint
<1>. SUFFICES ASSUME IInv, NEW w \in Cores, NEW u \in Cores, Apart(w, u),
                     Overrun(cmd) # 0 => w # u + 1 /\ u # w + 1,
                     at[w] # Nowhere, at[u] # Nowhere
              PROVE  at[w].hi <= at[u].lo \/ at[u].hi <= at[w].lo
  BY DEF Disjoint
<1>1. /\ at[w].lo \in Nat /\ at[w].hi \in Nat /\ at[u].lo \in Nat /\ at[u].hi \in Nat
      /\ w \in Nat /\ u \in Nat /\ w # u
      /\ PerThread \in Nat /\ DimmSize \in Nat /\ Page \in Nat \ {0}
      /\ w * PerThread + PerThread <= DimmSize /\ u * PerThread + PerThread <= DimmSize
  <2>1. \A v \in Cores : v \in Nat /\ (v + 1) * PerThread <= DimmSize
    BY SizesAssumption
  <2>2. (w + 1) * PerThread = w * PerThread + PerThread
        /\ (u + 1) * PerThread = u * PerThread + PerThread
    BY <2>1, SizesAssumption
  <2>3. /\ w * PerThread + PerThread <= DimmSize /\ u * PerThread + PerThread <= DimmSize
    BY <2>1, <2>2
  <2>. QED
    BY <2>1, <2>3, SizesAssumption DEF IInv, TypeOK, Apart
<1>2. CASE cmd.job # "thbind"
  <2>1. cmd.align = "PERTHREAD" /\ Pooled(cmd)
    <3>1. cmd.job \in Jobs
      BY DEF IInv, TypeOK, Parameters
    <3>. QED
      BY <1>2, <3>1 DEF Apart, Pooled, Jobs
  <2>2. addr[w] = w * PerThread /\ addr[u] = u * PerThread
    BY <2>1 DEF IInv, Placed, Address
  <2>3. InReach(w) /\ InReach(u)
    BY <2>1 DEF IInv, WorksetReach
  <2>4. PICK x \in 0 .. PerThread : x = Overrun(cmd)
    BY <2>1, OverrunBounded DEF IInv
  <2>5. ASSUME NEW a \in Nat, NEW b \in Nat, a < b, x # 0 => b # a + 1
        PROVE  a * PerThread + PerThread + x <= b * PerThread
    <3>1. (a + 1) * PerThread <= b * PerThread
      BY <2>5, <1>1
    <3>2. x # 0 => (a + 2) * PerThread <= b * PerThread
      <4>1. x # 0 => a + 2 <= b
        BY <2>5
      <4>2. a + 2 <= b => (a + 2) * PerThread <= b * PerThread
        BY <1>1
      <4>. QED
        BY <4>1, <4>2
    <3>3. /\ (a + 1) * PerThread = a * PerThread + PerThread
          /\ (a + 2) * PerThread = a * PerThread + PerThread + PerThread
          /\ a * PerThread \in Nat /\ b * PerThread \in Nat
      BY <1>1
    <3>. QED
      BY <3>1, <3>2, <3>3, <1>1
  <2>6. w * PerThread \in Nat /\ u * PerThread \in Nat
    BY <1>1
  <2>7. CASE w < u
    <3>1. w * PerThread + PerThread + x <= u * PerThread
      BY <2>4, <2>5, <2>7, <1>1
    <3>. QED
      BY <3>1, <2>2, <2>3, <2>4, <2>6, <1>1 DEF InReach
  <2>8. CASE u < w
    <3>1. u * PerThread + PerThread + x <= w * PerThread
      BY <2>4, <2>5, <2>8, <1>1
    <3>. QED
      BY <3>1, <2>2, <2>3, <2>4, <2>6, <1>1 DEF InReach
  <2>9. w < u \/ u < w
    BY <1>1
  <2>. QED
    BY <2>7, <2>8, <2>9
<1>3. CASE cmd.job = "thbind" /\ cmd.align = "PERTHREAD"
  <2>1. ASSUME NEW v \in {w, u}
        PROVE  \E d \in Nat : /\ d = (v % Dimms)
                              /\ v * PerThread + DimmSize * d <= at[v].lo
                              /\ at[v].hi <= v * PerThread + DimmSize * d + PerThread
    <3>1. /\ v \in Nat /\ cmd.access \in Nat \ {0}
          /\ base[v] = v * PerThread + DimmSize * (v % Dimms)
      BY <1>3, DrawnFacts DEF Base, Address
    <3>2. PICK d \in Nat : d = (v % Dimms)
      BY <3>1 DEF Dimms
    <3>3. PICK o \in Places(v) : o \in Nat /\ at[v].lo = base[v] + o
                                 /\ at[v].hi = base[v] + o + cmd.access
      BY <1>3, DrawnFacts
    <3>4. o \in Offsets(PerThread, cmd.access)
      BY <3>3, <1>3 DEF Places
    <3>5. PerThread % cmd.access = 0
      BY <1>3, AlignedSizes DEF IInv
    <3>6. o + cmd.access <= PerThread
      BY <1>1, <3>1, <3>4, <3>5, OffsetInside
    <3>7. v * PerThread \in Nat /\ DimmSize * d \in Nat
      BY <1>1, <3>1
    <3>. QED
      BY <3>1, <3>2, <3>3, <3>6, <3>7, <1>1
  <2>2. PICK d \in Nat : /\ w * PerThread + DimmSize * d <= at[w].lo
                         /\ at[w].hi <= w * PerThread + DimmSize * d + PerThread
    BY <2>1
  <2>3. PICK e \in Nat : /\ u * PerThread + DimmSize * e <= at[u].lo
                         /\ at[u].hi <= u * PerThread + DimmSize * e + PerThread
    BY <2>1
  <2>4. /\ w * PerThread \in Nat /\ u * PerThread \in Nat
        /\ DimmSize * d \in Nat /\ DimmSize * e \in Nat
        /\ d * DimmSize = DimmSize * d /\ e * DimmSize = DimmSize * e
    BY <1>1
  <2>5. CASE d = e
    <3>1. PICK z \in Nat : z = DimmSize * d /\ z = DimmSize * e
      BY <2>4, <2>5
    <3>2. /\ z + w * PerThread <= at[w].lo /\ at[w].hi <= z + w * PerThread + PerThread
          /\ z + u * PerThread <= at[u].lo /\ at[u].hi <= z + u * PerThread + PerThread
      BY <2>2, <2>3, <2>4, <3>1, <1>1
    <3>. QED
      BY <3>2, <1>1, BlocksApart
  <2>6. CASE d # e
    <3>1. /\ 0 + d * DimmSize <= at[w].lo /\ at[w].hi <= 0 + d * DimmSize + DimmSize
          /\ 0 + e * DimmSize <= at[u].lo /\ at[u].hi <= 0 + e * DimmSize + DimmSize
      BY <2>2, <2>3, <2>4, <1>1
    <3>. QED
      BY <3>1, <2>6, <1>1, BlocksApart
  <2>. QED
    BY <2>5, <2>6
<1>4. CASE cmd.job = "thbind" /\ cmd.align = "PERDIMM"
  <2>1. PICK m \in Nat : m = PerThread \div Page
    BY <1>4, AlignedSizes DEF IInv
  <2>2. cmd.access \in Nat
    BY <1>4, AlignedSizes DEF IInv
  <2>3. PICK g \in Nat, d \in 0 .. 5 : g = w \div Dimms /\ d = (w % Dimms) /\ w = 6 * g + d
    BY <1>1 DEF Dimms
  <2>4. PICK h \in Nat, e \in 0 .. 5 : h = u \div Dimms /\ e = (u % Dimms) /\ u = 6 * h + e
    BY <1>1 DEF Dimms
  <2>5. PICK k \in 0 .. m - 1, p \in Nat :
          /\ p + cmd.access <= Page
          /\ at[w].lo = Page * (6 * (m * g + k) + d) + p /\ at[w].hi = at[w].lo + cmd.access
    BY <1>4, <2>1, <2>3, PerDimmPage DEF Dimms
  <2>6. PICK l \in 0 .. m - 1, r \in Nat :
          /\ r + cmd.access <= Page
          /\ at[u].lo = Page * (6 * (m * h + l) + e) + r /\ at[u].hi = at[u].lo + cmd.access
    BY <1>4, <2>1, <2>4, PerDimmPage DEF Dimms
  <2>7. m * g + k # m * h + l \/ d # e
    <3>. SUFFICES ASSUME m * g + k = m * h + l, d = e PROVE FALSE
      OBVIOUS
    <3>1. m \in Nat \ {0} /\ k \in Nat /\ k < m /\ l \in Nat /\ l < m
      BY <2>1
    <3>2. h = g
      BY <3>1, QuotientUnique
    <3>. QED
      BY <3>2, <2>3, <2>4, <1>1
  <2>8. PICK a \in Nat, b \in Nat : a = m * g + k /\ b = m * h + l
    BY <2>1
  <2>9. PICK x \in Nat, y \in Nat : x = 6 * a + d /\ y = 6 * b + e /\ x # y
    BY <2>7, <2>8
  <2>10. /\ x * Page \in Nat /\ y * Page \in Nat
         /\ Page * x = x * Page /\ Page * y = y * Page
    BY <1>1
  <2>11. /\ 0 + x * Page <= at[w].lo /\ at[w].hi <= 0 + x * Page + Page
         /\ 0 + y * Page <= at[u].lo /\ at[u].hi <= 0 + y * Page + Page
    BY <2>2, <2>5, <2>6, <2>8, <2>9, <2>10, <1>1
  <2>. QED
    BY <2>9, <2>11, <1>1, BlocksApart
<1>5. CASE cmd.job = "thbind" /\ cmd.align = "NI"
  <2>1. (w % Dimms) # (u % Dimms)
    BY <1>5 DEF Apart
  <2>2. PICK d \in Nat, e \in Nat : d = (w % Dimms) /\ e = (u % Dimms) /\ d # e
    BY <2>1, <1>1 DEF Dimms
  <2>3. cmd.access \in Nat
    BY <1>5, AlignedSizes DEF IInv
  <2>4. PICK r \in Nat : /\ r + cmd.access <= DimmSize
                         /\ at[w].lo = DimmSize * d + r /\ at[w].hi = at[w].lo + cmd.access
    BY <1>5, <2>2, NonInterleavedRegion
  <2>5. PICK t \in Nat : /\ t + cmd.access <= DimmSize
                         /\ at[u].lo = DimmSize * e + t /\ at[u].hi = at[u].lo + cmd.access
    BY <1>5, <2>2, NonInterleavedRegion
  <2>6. /\ d * DimmSize \in Nat /\ e * DimmSize \in Nat
        /\ DimmSize * d = d * DimmSize /\ DimmSize * e = e * DimmSize
    BY <1>1
  <2>7. /\ 0 + d * DimmSize <= at[w].lo /\ at[w].hi <= 0 + d * DimmSize + DimmSize
        /\ 0 + e * DimmSize <= at[u].lo /\ at[u].hi <= 0 + e * DimmSize + DimmSize
    BY <2>3, <2>4, <2>5, <2>6, <1>1
  <2>. QED
    BY <2>2, <2>7, <1>1, BlocksApart
<1>. QED
  BY <1>2, <1>3, <1>4, <1>5 DEF Apart

\* Two workers whose alignment gives each a pool, or a DIMM, of its own never
\* touch the same line of the device, unless the batches overrun the pools and
\* the pools are neighbours.
THEOREM PoolsApart == Spec => []Disjoint
  BY Invariant, PoolsApartStep, PTL
=============================================================================
