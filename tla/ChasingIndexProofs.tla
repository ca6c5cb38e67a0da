------------------------- MODULE ChasingIndexProofs -------------------------
(***************************************************************************)
(* Proofs about ChasingIndex, for every cache line and region size, every  *)
(* set of access and stride sizes and everything the memory may hold       *)
(* before the test.                                                        *)
(*                                                                         *)
(* The invariant names the walk itself.  While the index is being built,   *)
(* some path p lists the lines linked so far, and the lines that are not   *)
(* on it have no successor; once it is built, some cycle p lists all lines *)
(* of a block, and the position of a walk on p is the number of lines it   *)
(* has touched, modulo csize.  That there is always a line to draw, and    *)
(* that a complete cycle leaves no line out, is the pigeonhole principle.  *)
(* For the refinement of PointerWalk the lines of a lap are located on the *)
(* cycle as well.                                                          *)
(***************************************************************************)
EXTENDS ChasingIndex, FiniteSetTheorems, TLAPS

(***************************************************************************)
(* Division.                                                               *)
(***************************************************************************)

\* What a \div b is.
LEMMA DivBounds ==
  ASSUME NEW a \in Nat, NEW b \in Nat \ {0}
  PROVE  a \div b \in Nat /\ b * (a \div b) <= a /\ a < b * (a \div b) + b
  BY SMT

\* Two whole parts are no more than the whole part of the sum.
LEMMA DivSum ==
  ASSUME NEW a \in Nat, NEW c \in Nat, NEW b \in Nat \ {0}
  PROVE  (a \div b) + (c \div b) <= (a + c) \div b
<1> DEFINE q == (a \div b) + (c \div b)
<1>1. /\ a \div b \in Nat /\ b * (a \div b) <= a
      /\ c \div b \in Nat /\ b * (c \div b) <= c
  BY DivBounds
<1>2. q \in Nat /\ b * q <= a + c
  BY <1>1
<1>3. ASSUME NEW r \in Nat, b * r <= a + c PROVE r <= (a + c) \div b
  BY <1>3, SMT
<1> QED BY <1>2, <1>3

\* \div is monotonic.
LEMMA DivMono ==
  ASSUME NEW a \in Nat, NEW c \in Nat, NEW b \in Nat \ {0}, a <= c
  PROVE  a \div b <= c \div b
<1>1. a \div b \in Nat /\ b * (a \div b) <= c
  BY DivBounds
<1>2. ASSUME NEW r \in Nat, b * r <= c PROVE r <= c \div b
  BY <1>2, SMT
<1> QED BY <1>1, <1>2

\* A remainder is what is left of a multiple.
LEMMA ModUnique ==
  ASSUME NEW q \in Nat, NEW n \in Nat \ {0}, NEW r \in 0 .. n - 1
  PROVE  (n * q + r) % n = r
<1> DEFINE a == n * q + r
<1>1. n * q <= a /\ a < n * q + n /\ a \in Nat
  BY SMT
<1>2. ASSUME NEW b \in Nat, n * q <= b, b < n * q + n PROVE b \div n = q
  BY <1>2, SMT
<1>3. a \div n = q
  BY <1>1, <1>2
<1>4. ASSUME NEW b \in Nat PROVE b = n * (b \div n) + (b % n)
  BY SMT
<1>5. a = n * q + (a % n)
  BY <1>1, <1>3, <1>4
<1>6. ASSUME NEW b \in Nat PROVE b % n \in Nat
  BY SMT
<1> QED BY <1>1, <1>5, <1>6, SMT

\* Counting modulo n.
LEMMA ModStep ==
  ASSUME NEW t \in Nat, NEW n \in Nat \ {0}
  PROVE  /\ t % n \in 0 .. n - 1
         /\ (t + 1) % n = IF t % n = n - 1 THEN 0 ELSE (t % n) + 1
<1> DEFINE q == t \div n
           r == t % n
<1>1. q \in Nat /\ r \in 0 .. n - 1
  BY SMT
<1>2. t = n * q + r
  BY SMT
<1> HIDE DEF q, r
<1>3. CASE r = n - 1
  <2>1. t + 1 = n * (q + 1) + 0
    BY <1>1, <1>2, <1>3
  <2>2. (n * (q + 1) + 0) % n = 0
    BY <1>1, ModUnique
  <2> QED BY <1>1, <1>3, <2>1, <2>2 DEF r
<1>4. CASE r # n - 1
  <2>1. t + 1 = n * q + (r + 1) /\ r + 1 \in 0 .. n - 1
    BY <1>1, <1>2, <1>4
  <2>2. (n * q + (r + 1)) % n = r + 1
    BY <1>1, <2>1, ModUnique
  <2> QED BY <1>1, <1>4, <2>1, <2>2 DEF r
<1> QED BY <1>3, <1>4

\* A number below n is its own remainder.
LEMMA ModSmall ==
  ASSUME NEW n \in Nat \ {0}, NEW t \in 0 .. n - 1
  PROVE  t % n = t
  BY SMT
-----------------------------------------------------------------------------
(***************************************************************************)
(* The layout of the blocks.                                               *)
(***************************************************************************)

\* The blocks of a pass are at least one and fit in the region.
LEMMA BlocksFit ==
  ASSUME NEW a \in AccessSizes, NEW s \in StrideSizes
  PROVE  /\ BlocksOf(a, s) \in 1 .. LATENCY_OPS_COUNT
         /\ s * BlocksOf(a, s) <= GLOBAL_WORKSET
<1> DEFINE all == GLOBAL_WORKSET \div a
           fit == IF s * all > GLOBAL_WORKSET THEN GLOBAL_WORKSET \div s ELSE all
<1>1. /\ a \in Nat \ {0} /\ a <= GLOBAL_WORKSET /\ s \in Nat /\ s <= GLOBAL_WORKSET
      /\ GLOBAL_WORKSET \in Nat /\ LATENCY_OPS_COUNT \in Nat \ {0}
  BY ConstantsAssumption
<1>2. ASSUME NEW d \in Nat \ {0}, d <= GLOBAL_WORKSET
      PROVE  GLOBAL_WORKSET \div d \in Nat \ {0} /\ d * (GLOBAL_WORKSET \div d) <= GLOBAL_WORKSET
  <2>1. d \div d = 1
    BY SMT
  <2>2. d \div d <= GLOBAL_WORKSET \div d
    BY <1>1, <1>2, DivMono
  <2> QED BY <1>1, <2>1, <2>2, DivBounds
<1>3. fit \in Nat \ {0} /\ s * fit <= GLOBAL_WORKSET
  <2>1. CASE s * all > GLOBAL_WORKSET
    <3>1. s # 0
      BY <1>1, <1>2, <2>1
    <3> QED BY <1>1, <1>2, <2>1, <3>1
  <2>2. CASE ~(s * all > GLOBAL_WORKSET)
    BY <1>1, <1>2, <2>2
  <2> QED BY <2>1, <2>2
<1>4. BlocksOf(a, s) = IF fit > LATENCY_OPS_COUNT THEN LATENCY_OPS_COUNT ELSE fit
  BY DEF BlocksOf
<1> HIDE DEF all, fit
<1>5. CASE fit > LATENCY_OPS_COUNT
  <2>1. s * LATENCY_OPS_COUNT <= s * fit
    BY <1>1, <1>3, <1>5
  <2> QED BY <1>1, <1>3, <1>4, <1>5, <2>1
<1>6. CASE ~(fit > LATENCY_OPS_COUNT)
  BY <1>1, <1>3, <1>4, <1>6
<1> QED BY <1>5, <1>6

\* A command that has been accepted.
Accepted ==
  /\ access \in AccessSizes
  /\ stride \in StrideSizes
  /\ Sane(access, stride)
  /\ count = BlocksOf(access, stride)

\* The types of what an accepted command sets.
LEMMA Sizes ==
  ASSUME Accepted
  PROVE  /\ access \in Nat \ {0} /\ access <= GLOBAL_WORKSET /\ stride \in Nat
         /\ csize \in Nat /\ CACHELINE_SIZE * csize <= access
         /\ count \in Nat \ {0} /\ stride * count <= GLOBAL_WORKSET
<1>1. access \in Nat \ {0} /\ access <= GLOBAL_WORKSET /\ stride \in Nat
  BY ConstantsAssumption DEF Accepted
<1>2. CACHELINE_SIZE \in Nat \ {0} /\ LATENCY_OPS_COUNT \in Nat
  BY ConstantsAssumption
<1>3. count \in Nat \ {0} /\ stride * count <= GLOBAL_WORKSET
  BY <1>2, BlocksFit DEF Accepted
<1> QED BY <1>1, <1>2, <1>3, DivBounds DEF csize

\* A block is smaller than the region.
LEMMA LinesInRegion ==
  ASSUME Accepted
  PROVE  Lines \subseteq RegionLines
<1>1. CACHELINE_SIZE \in Nat \ {0} /\ GLOBAL_WORKSET \in Nat
  BY ConstantsAssumption
<1>2. csize \in Nat /\ csize <= GLOBAL_WORKSET \div CACHELINE_SIZE
  BY <1>1, Sizes, DivMono DEF csize
<1>3. GLOBAL_WORKSET \div CACHELINE_SIZE \in Nat
  BY <1>1, DivBounds
<1> QED BY <1>2, <1>3 DEF Lines, RegionLines

\* Every line of every block of a pass is in the region.
LEMMA PlaceInRegion ==
  ASSUME Accepted, NEW b \in Nat, b < count, NEW l \in Lines
  PROVE  Place(b, l) \in RegionLines
<1> DEFINE C == CACHELINE_SIZE
<1>1. C \in Nat \ {0} /\ GLOBAL_WORKSET \in Nat /\ csize \in Nat
      /\ access \in Nat /\ stride \in Nat /\ l \in Nat /\ l < csize
  BY Sizes, ConstantsAssumption DEF Lines
<1>2. b * stride \in Nat /\ b * stride + access <= GLOBAL_WORKSET
  <2>1. CASE stride = 0
    BY <1>1, <2>1, Sizes
  <2>2. CASE stride >= access
    <3>1. count \in Nat /\ stride * count <= GLOBAL_WORKSET
      BY Sizes
    <3>2. (b + 1) * stride <= stride * count
      BY <1>1, <3>1
    <3> QED BY <1>1, <2>2, <3>1, <3>2
  <2> QED BY <2>1, <2>2 DEF Accepted, Sane
<1>3. ((b * stride) \div C) + csize <= (b * stride + access) \div C
  BY <1>1, <1>2, DivSum DEF csize
<1>4. (b * stride + access) \div C <= GLOBAL_WORKSET \div C
  BY <1>1, <1>2, DivMono
<1>5. /\ (b * stride) \div C \in Nat
      /\ (b * stride + access) \div C \in Nat
      /\ GLOBAL_WORKSET \div C \in Nat
  BY <1>1, <1>2, DivBounds
<1> QED BY <1>1, <1>3, <1>4, <1>5 DEF Place, RegionLines

\* Two lines share a place only if they have the same number in their blocks.
LEMMA PlacesApart ==
  ASSUME Accepted, NEW b \in Nat, NEW d \in Nat, NEW l \in Lines, NEW m \in Lines,
         Place(b, l) = Place(d, m)
  PROVE  l = m
<1> DEFINE C == CACHELINE_SIZE
           At(e) == (e * stride) \div C
<1>1. C \in Nat \ {0} /\ csize \in Nat /\ access \in Nat /\ stride \in Nat
      /\ l \in Nat /\ m \in Nat /\ l < csize /\ m < csize
  BY Sizes, ConstantsAssumption DEF Lines
<1>2. CASE stride = 0
  <2>1. b * stride = d * stride
    BY <1>1, <1>2
  <2>2. At(b) \in Nat
    BY <1>1, DivBounds
  <2> QED BY <1>1, <2>1, <2>2 DEF Place
<1>3. CASE stride >= access
  <2>1. ASSUME NEW e \in Nat, NEW f \in Nat, e < f
        PROVE  At(e) \in Nat /\ At(f) \in Nat /\ At(e) + csize <= At(f)
    <3>1. e * stride \in Nat /\ f * stride \in Nat /\ e * stride + access <= f * stride
      <4>1. (e + 1) * stride <= f * stride
        BY <1>1, <2>1
      <4> QED BY <1>1, <1>3, <4>1
    <3>2. At(e) + csize <= (e * stride + access) \div C
      BY <1>1, <3>1, DivSum DEF csize
    <3>3. (e * stride + access) \div C <= At(f)
      BY <1>1, <3>1, DivMono
    <3>4. At(e) \in Nat /\ At(f) \in Nat /\ (e * stride + access) \div C \in Nat
      BY <1>1, <3>1, DivBounds
    <3> HIDE DEF At
    <3> QED BY <1>1, <3>2, <3>3, <3>4
  <2>2. At(b) + l = At(d) + m
    BY DEF Place
  <2>3. At(b) \in Nat
    BY <1>1, DivBounds
  <2> HIDE DEF At
  <2>4. CASE b < d
    BY <1>1, <2>1, <2>2, <2>4
  <2>5. CASE d < b
    BY <1>1, <2>1, <2>2, <2>5
  <2>6. CASE b = d
    BY <1>1, <2>2, <2>3, <2>6
  <2> QED BY <2>4, <2>5, <2>6
<1> QED BY <1>2, <1>3 DEF Accepted, Sane
-----------------------------------------------------------------------------
(***************************************************************************)
(* The invariant.                                                          *)
(***************************************************************************)

\* p lists the lines linked so far, in their order.
Linking(p) ==
  /\ i < csize
  /\ IsWalk(p, i + 1)
  /\ p[i] = curr_pos
  /\ \A l \in Lines : (\A j \in 0 .. i - 1 : p[j] # l) => cindex[l] = 0

Cycle(p) == IsWalk(p, csize) /\ cindex[p[csize - 1]] = 0

Holds(b, l) == medium[Place(b, l)] = cindex[l]

\* The store pass has been to the blocks before this one and, in this one, to
\* the first lines of the walk.
Stored(p) ==
  \A b \in 0 .. count - 1, l \in Lines :
    (b < block \/ (b = block /\ \E j \in 0 .. csize - 1 : j < touched /\ p[j] = l))
      => Holds(b, l)

Walking(p) ==
  /\ Cycle(p)
  /\ line = p[touched % csize]
  /\ pc = "store" => Stored(p)
  /\ pc = "load" => \A b \in 0 .. count - 1, l \in Lines : Holds(b, l)

IInv ==
  /\ TypeOK
  /\ pc # "idle" => Accepted
  /\ pc = "draw" /\ csize > 0 => \E p \in [0 .. i -> Lines] : Linking(p)
  /\ pc \in {"store", "load"} =>
       /\ csize > 0 /\ block < count
       /\ \E p \in [Lines -> Lines] : Walking(p)

\* The walk of a cycle leaves out no line: the pigeonhole principle.
LEMMA CycleCovers ==
  ASSUME NEW p \in [Lines -> Lines], csize \in Nat, Cycle(p)
  PROVE  \A l \in Lines : \E j \in Lines : p[j] = l
<1>1. IsFiniteSet(Lines)
  BY FS_Interval DEF Lines
<1>2. p \in Injection(Lines, Lines)
  BY DEF Cycle, IsWalk, Lines, Injection, IsInjective
<1>3. p \in Surjection(Lines, Lines)
  BY <1>1, <1>2, FS_Injection
<1> QED BY <1>3 DEF Surjection

\* While a link is missing some line is neither linked nor the chain's end.
LEMMA LineLeft ==
  ASSUME NEW p \in [0 .. i -> Lines], i \in Nat, csize \in Nat, Linking(p), i + 1 < csize
  PROVE  \E n \in Lines : Acceptable(n)
<1> SUFFICES ASSUME \A n \in Lines : ~Acceptable(n)
             PROVE  FALSE
  OBVIOUS
<1>1. ASSUME NEW n \in Lines PROVE \E j \in 0 .. i : p[j] = n
  <2>1. cindex[n] # 0 \/ n = curr_pos
    BY DEF Acceptable
  <2>2. CASE n = curr_pos
    BY <2>2 DEF Linking
  <2>3. CASE cindex[n] # 0
    BY <2>3 DEF Linking
  <2> QED BY <2>1, <2>2, <2>3
<1>2. p \in Surjection(0 .. i, Lines)
  BY <1>1 DEF Surjection
<1>3. /\ IsFiniteSet(0 .. i) /\ Cardinality(0 .. i) = i + 1
      /\ IsFiniteSet(Lines) /\ Cardinality(Lines) = csize
  BY FS_Interval DEF Lines, Linking
<1>4. Cardinality(Lines) <= Cardinality(0 .. i)
  BY <1>2, <1>3, FS_Surjection
<1> QED BY <1>3, <1>4
-----------------------------------------------------------------------------
(***************************************************************************)
(* Each action keeps the invariant.                                        *)
(***************************************************************************)

\* The invariant holds at the start.
LEMMA InitIInv == Init => IInv
<1> SUFFICES ASSUME Init PROVE IInv
  OBVIOUS
<1>1. ASSUME NEW v \in StaleValues PROVE [l \in RegionLines |-> v] \in [RegionLines -> Nat]
  BY ConstantsAssumption
<1>2. cindex \in [RegionLines -> Nat] /\ medium \in [RegionLines -> Nat]
  BY <1>1 DEF Init
<1>3. /\ pc = "idle" /\ access = 0 /\ stride = 0 /\ count = 0
      /\ irqs = TRUE /\ reported = FALSE /\ i = 0 /\ curr_pos = 0
      /\ block = 0 /\ line = 0 /\ touched = 0 /\ lap = {}
  BY DEF Init
<1>4. count \in 0 .. LATENCY_OPS_COUNT
  BY <1>3, ConstantsAssumption
<1>5. TypeOK
  BY <1>2, <1>3, <1>4 DEF TypeOK, Pc
<1> QED BY <1>3, <1>5 DEF IInv

\* The actions before the index and after the passes.
LEMMA OutsideStep ==
  ASSUME IInv, Command \/ StridedPasses \/ Report \/ DrawFails \/ DivideError
  PROVE  IInv'
<1> USE DEF IInv, TypeOK, Pc
<1>1. CASE Command
  <2>1. PICK a \in AccessSizes, s \in StrideSizes :
          Sane(a, s) /\ access' = a /\ stride' = s /\ count' = BlocksOf(a, s)
    BY <1>1 DEF Command
  <2>2. Accepted'
    BY <2>1 DEF Accepted
  <2>3. a \in Nat /\ s \in Nat /\ count' \in 0 .. LATENCY_OPS_COUNT
    BY <2>1, BlocksFit, ConstantsAssumption
  <2> QED BY <1>1, <2>1, <2>2, <2>3 DEF Command, chain, walk
<1>2. CASE StridedPasses
  BY <1>2, ConstantsAssumption DEF StridedPasses, command, chain, walk, Accepted
<1>3. CASE Report
  BY <1>3 DEF Report, command, chain, walk, Accepted
<1>4. CASE DrawFails
  BY <1>4 DEF DrawFails, command, chain, walk, Accepted
<1>5. CASE DivideError
  BY <1>5 DEF DivideError, command, chain, walk, Accepted
<1> QED BY <1>1, <1>2, <1>3, <1>4, <1>5

\* memset makes line 0 a chain of its own.
LEMMA ClearIndexStep ==
  ASSUME IInv, ClearIndex
  PROVE  IInv'
<1>1. /\ pc = "index" /\ pc' = "draw" /\ i' = 0 /\ curr_pos' = 0
      /\ cindex' = Cleared(cindex, csize)
      /\ UNCHANGED <<command, irqs, reported, medium, walk>>
  BY DEF ClearIndex
<1>2. TypeOK /\ Accepted
  BY <1>1 DEF IInv
<1>3. csize \in Nat /\ csize' = csize /\ Lines' = Lines
  BY <1>1, <1>2, Sizes DEF csize, Lines, command
<1>4. cindex' \in [RegionLines -> Nat] /\ \A l \in Lines : cindex'[l] = 0
  BY <1>1, <1>2, <1>3, LinesInRegion DEF Cleared, TypeOK, Lines
<1>5. TypeOK'
  BY <1>1, <1>2, <1>4 DEF TypeOK, Pc, command, walk
<1>6. Accepted'
  BY <1>1, <1>2 DEF Accepted, command
<1>7. ASSUME csize > 0 PROVE \E p \in [0 .. i' -> Lines'] : Linking(p)'
  <2> DEFINE p == [j \in 0 .. 0 |-> 0]
  <2>1. p \in [0 .. i' -> Lines']
    BY <1>1, <1>3, <1>7 DEF Lines
  <2>2. IsWalk(p, 1)'
    BY <1>3, <1>7 DEF IsWalk, Lines
  <2>3. Linking(p)'
    BY <1>1, <1>3, <1>4, <1>7, <2>2 DEF Linking
  <2> QED BY <2>1, <2>3
<1> QED BY <1>1, <1>3, <1>5, <1>6, <1>7 DEF IInv

\* A new link makes the drawn line the end of a longer chain.
LEMMA DrawStep ==
  ASSUME IInv, Draw
  PROVE  IInv'
<1>1. PICK n \in Lines : Acceptable(n) /\ curr_pos' = n
                         /\ cindex' = [cindex EXCEPT ![curr_pos] = n]
  BY DEF Draw
<1>2. /\ pc = "draw" /\ pc' = "draw" /\ i' = i + 1 /\ MoreLinks
      /\ UNCHANGED <<command, irqs, reported, medium, walk>>
  BY DEF Draw
<1>3. TypeOK /\ Accepted
  BY <1>2 DEF IInv
<1>4. csize \in Nat /\ csize' = csize /\ Lines' = Lines /\ Lines \subseteq RegionLines
      /\ i \in Nat
  BY <1>2, <1>3, Sizes, LinesInRegion DEF csize, Lines, command, TypeOK
<1>5. csize > 0 /\ i + 1 < csize /\ n \in Nat
  BY <1>2, <1>4 DEF Lines, MoreLinks
<1>6. PICK p \in [0 .. i -> Lines] : Linking(p)
  BY <1>2, <1>5 DEF IInv
<1>7. /\ p[0] = 0 /\ p[i] = curr_pos
      /\ \A j, k \in 0 .. i : p[j] = p[k] => j = k
      /\ \A j \in 0 .. i - 1 : cindex[p[j]] = p[j + 1]
      /\ \A l \in Lines : (\A j \in 0 .. i - 1 : p[j] # l) => cindex[l] = 0
  BY <1>4, <1>6 DEF Linking, IsWalk
<1>8. cindex \in [RegionLines -> Nat] /\ curr_pos \in Lines
  BY <1>3, <1>4, <1>7 DEF TypeOK
<1>9. cindex' \in [RegionLines -> Nat] /\ cindex'[curr_pos] = n
      /\ \A l \in Lines : l # curr_pos => cindex'[l] = cindex[l]
  BY <1>1, <1>4, <1>5, <1>8
<1>10. TypeOK'
  BY <1>1, <1>2, <1>3, <1>5, <1>9 DEF TypeOK, Pc, command, walk
<1>11. Accepted'
  BY <1>2, <1>3 DEF Accepted, command
<1>12. \A j \in 0 .. i : p[j] # n
  <2> SUFFICES ASSUME NEW j \in 0 .. i, p[j] = n
               PROVE  FALSE
    OBVIOUS
  <2>1. CASE j = i
    BY <1>1, <1>7, <2>1 DEF Acceptable
  <2>2. CASE j # i
    <3>1. j \in 0 .. i - 1 /\ j + 1 \in 0 .. i /\ 0 \in 0 .. i
      BY <1>4, <2>2
    <3>2. cindex[n] = p[j + 1]
      BY <1>7, <3>1
    <3>3. p[j + 1] # p[0]
      BY <1>4, <1>7, <3>1
    <3> QED BY <1>1, <1>7, <3>2, <3>3 DEF Acceptable
  <2> QED BY <2>1, <2>2
<1>13. PICK q \in [0 .. i + 1 -> Lines] : q[i + 1] = n /\ \A j \in 0 .. i : q[j] = p[j]
  <2> DEFINE r == [j \in 0 .. i + 1 |-> IF j <= i THEN p[j] ELSE n]
  <2>1. r \in [0 .. i + 1 -> Lines] /\ r[i + 1] = n /\ \A j \in 0 .. i : r[j] = p[j]
    BY <1>4
  <2> QED BY <2>1
<1>14. IsWalk(q, i + 1)'
  <2>2. q[0] = 0
    BY <1>4, <1>7, <1>13
  <2>3. ASSUME NEW j \in 0 .. i + 1, NEW k \in 0 .. i + 1, q[j] = q[k] PROVE j = k
    <3>1. CASE j \in 0 .. i /\ k \in 0 .. i
      BY <1>7, <1>13, <2>3, <3>1
    <3>2. CASE j = i + 1 /\ k \in 0 .. i
      BY <1>12, <1>13, <2>3, <3>2
    <3>3. CASE k = i + 1 /\ j \in 0 .. i
      BY <1>12, <1>13, <2>3, <3>3
    <3> QED BY <1>4, <3>1, <3>2, <3>3
  <2>4. ASSUME NEW j \in 0 .. i PROVE cindex'[q[j]] = q[j + 1]
    <3>1. CASE j = i
      BY <1>7, <1>9, <1>13, <3>1
    <3>2. CASE j # i
      <4>1. j \in 0 .. i - 1 /\ j + 1 \in 0 .. i /\ i \in 0 .. i
        BY <1>4, <3>2
      <4>2. p[j] # curr_pos /\ p[j] \in Lines
        BY <1>7, <3>2, <4>1
      <4> QED BY <1>7, <1>9, <1>13, <4>1, <4>2
    <3> QED BY <3>1, <3>2
  <2>5. 0 .. (i' + 1) - 1 = 0 .. i + 1 /\ 0 .. (i' + 1) - 2 = 0 .. i
    BY <1>2, <1>4
  <2> QED BY <1>4, <1>13, <2>2, <2>3, <2>4, <2>5 DEF IsWalk
<1>15. ASSUME NEW l \in Lines, \A j \in 0 .. i : q[j] # l PROVE cindex'[l] = 0
  <2>1. l # curr_pos
    BY <1>4, <1>7, <1>13, <1>15
  <2>2. \A j \in 0 .. i - 1 : p[j] # l
    BY <1>4, <1>13, <1>15
  <2> QED BY <1>7, <1>9, <2>1, <2>2
<1>16. Linking(q)'
  <2>1. 0 .. i' - 1 = 0 .. i /\ i' < csize' /\ q[i'] = curr_pos'
    BY <1>1, <1>2, <1>4, <1>5, <1>13
  <2> QED BY <1>4, <1>14, <1>15, <2>1 DEF Linking
<1>17. q \in [0 .. i' -> Lines']
  BY <1>2, <1>4, <1>13
<1>18. \E f \in [0 .. i' -> Lines'] : Linking(f)'
  BY <1>16, <1>17
<1> QED BY <1>2, <1>10, <1>11, <1>18 DEF IInv

\* With the last link the chain is a cycle, and the store pass begins.
LEMMA LinkedStep ==
  ASSUME IInv, Linked
  PROVE  IInv'
<1>1. /\ pc = "draw" /\ pc' = "store" /\ ~MoreLinks
      /\ block' = 0 /\ line' = 0 /\ touched' = 0 /\ lap' = {}
      /\ UNCHANGED <<command, irqs, reported, chain, medium>>
  BY DEF Linked
<1>2. TypeOK /\ Accepted
  BY <1>1 DEF IInv
<1>3. csize \in Nat /\ csize' = csize /\ Lines' = Lines /\ i \in Nat /\ count \in Nat \ {0}
  BY <1>1, <1>2, Sizes DEF csize, Lines, command, TypeOK
<1>4. csize > 0 /\ i + 1 >= csize
  BY <1>1, <1>3 DEF MoreLinks
<1>5. PICK p \in [0 .. i -> Lines] : Linking(p)
  BY <1>1, <1>4 DEF IInv
<1>6. i = csize - 1
  BY <1>3, <1>4, <1>5 DEF Linking
<1>7. p \in [Lines -> Lines] /\ IsWalk(p, csize)
  BY <1>3, <1>5, <1>6 DEF Linking, Lines
<1>8. cindex[p[csize - 1]] = 0
  <2>1. \A j \in 0 .. i - 1 : p[j] # p[i]
    BY <1>3, <1>5 DEF Linking, IsWalk
  <2> QED BY <1>3, <1>5, <1>6, <2>1 DEF Linking
<1>9. Cycle(p)' /\ cindex' = cindex
  BY <1>1, <1>3, <1>7, <1>8 DEF Cycle, IsWalk, chain
<1>10. line' = p[touched' % csize']
  <2>1. 0 % csize = 0
    BY <1>3, <1>4, ModSmall
  <2> QED BY <1>1, <1>3, <1>7, <2>1 DEF IsWalk
<1>11. Stored(p)'
  <2>1. count' = count
    BY <1>1 DEF command
  <2>2. ASSUME NEW b \in 0 .. count - 1 PROVE ~(b < block')
    BY <1>1, <1>3, <2>2
  <2>3. ASSUME NEW j \in 0 .. csize - 1 PROVE ~(j < touched')
    BY <1>1, <1>3, <2>3
  <2> QED BY <1>3, <2>1, <2>2, <2>3 DEF Stored
<1>12. Walking(p)'
  BY <1>1, <1>9, <1>10, <1>11 DEF Walking
<1>13. TypeOK' /\ Accepted'
  BY <1>1, <1>2 DEF TypeOK, Accepted, Pc, command, chain
<1>14. csize' > 0 /\ block' < count'
  BY <1>1, <1>3, <1>4 DEF command
<1>15. \E f \in [Lines' -> Lines'] : Walking(f)'
  BY <1>3, <1>7, <1>12
<1> QED BY <1>1, <1>13, <1>14, <1>15 DEF IInv

\* What the two passes know of the walk and of the layout.
LEMMA InPassFacts ==
  ASSUME IInv, pc \in {"store", "load"}
  PROVE  /\ TypeOK /\ Accepted
         /\ csize \in Nat \ {0} /\ Lines \subseteq RegionLines
         /\ block \in 0 .. count - 1 /\ touched \in Nat /\ count \in Nat \ {0}
         /\ \E p \in [Lines -> Lines] : Walking(p)
<1>1. TypeOK /\ Accepted /\ csize > 0 /\ block < count
      /\ \E p \in [Lines -> Lines] : Walking(p)
  BY DEF IInv
<1>2. csize \in Nat /\ count \in Nat \ {0} /\ Lines \subseteq RegionLines
  BY <1>1, Sizes, LinesInRegion
<1>3. block \in Nat /\ touched \in Nat
  BY <1>1 DEF TypeOK
<1> QED BY <1>1, <1>2, <1>3

\* The index takes a walk from a line of the cycle to the next.
LEMMA Advance ==
  ASSUME NEW p \in [Lines -> Lines], csize \in Nat \ {0}, touched \in Nat,
         Cycle(p), line = p[touched % csize]
  PROVE  line \in Lines /\ cindex[line] = p[(touched + 1) % csize]
<1>1. touched % csize \in 0 .. csize - 1
  BY ModStep
<1>2. CASE touched % csize = csize - 1
  BY <1>1, <1>2, ModStep DEF Cycle, IsWalk, Lines
<1>3. CASE touched % csize # csize - 1
  <2>1. touched % csize \in 0 .. csize - 2
    BY <1>1, <1>3
  <2> QED BY <1>1, <1>3, <2>1, ModStep DEF Cycle, IsWalk, Lines
<1> QED BY <1>2, <1>3

\* A store writes the number of the next line where a load will look for it.
LEMMA StoreLineStep ==
  ASSUME IInv, StoreLine
  PROVE  IInv'
<1>1. /\ pc = "store" /\ pc' = "store"
      /\ medium' = [medium EXCEPT ![Place(block, line)] = cindex[line]]
      /\ line' = cindex[line] /\ touched' = touched + 1 /\ lap' = Touched
      /\ UNCHANGED <<command, irqs, reported, chain, block>>
  BY DEF StoreLine
<1>2. /\ TypeOK /\ Accepted
      /\ csize \in Nat \ {0} /\ Lines \subseteq RegionLines
      /\ block \in 0 .. count - 1 /\ touched \in Nat /\ count \in Nat \ {0}
  BY <1>1, InPassFacts
<1>3. PICK p \in [Lines -> Lines] : Walking(p)
  BY <1>1, InPassFacts
<1>4. /\ csize' = csize /\ Lines' = Lines /\ count' = count /\ block' = block
      /\ cindex' = cindex /\ stride' = stride
  BY <1>1 DEF csize, Lines, command, chain
<1>5. Cycle(p) /\ line = p[touched % csize] /\ Stored(p)
  BY <1>1, <1>3 DEF Walking
<1>6. line \in Lines /\ cindex[line] = p[(touched + 1) % csize]
  BY <1>2, <1>5, Advance
<1>7. Cycle(p)' /\ line' = p[touched' % csize']
  BY <1>1, <1>4, <1>5, <1>6 DEF Cycle, IsWalk
<1>8. Place(block, line) \in RegionLines /\ cindex[line] \in Nat
  BY <1>2, <1>6, PlaceInRegion DEF TypeOK
<1>9. /\ medium \in [RegionLines -> Nat]
      /\ medium' \in [RegionLines -> Nat]
      /\ medium'[Place(block, line)] = cindex[line]
      /\ \A x \in RegionLines : x # Place(block, line) => medium'[x] = medium[x]
  BY <1>1, <1>2, <1>8 DEF TypeOK
<1>10. Stored(p)'
  <2> SUFFICES ASSUME NEW b \in 0 .. count - 1, NEW l \in Lines,
                      b < block \/ (b = block /\ \E j \in 0 .. csize - 1 :
                                                   j < touched + 1 /\ p[j] = l)
               PROVE  medium'[Place(b, l)] = cindex[l]
    BY <1>1, <1>4 DEF Stored, Holds, Place
  <2>1. b \in Nat /\ b < count /\ block \in Nat /\ Place(b, l) \in RegionLines
    BY <1>2, PlaceInRegion
  <2>2. CASE Place(b, l) = Place(block, line)
    <3>1. l = line
      BY <1>2, <1>6, <2>1, <2>2, PlacesApart
    <3> QED BY <1>9, <2>2, <3>1
  <2>3. CASE Place(b, l) # Place(block, line)
    <3>1. b < block \/ (b = block /\ \E j \in 0 .. csize - 1 : j < touched /\ p[j] = l)
      <4> SUFFICES ASSUME b = block, NEW j \in 0 .. csize - 1, j < touched + 1, p[j] = l
                   PROVE  j < touched
        OBVIOUS
      <4>1. CASE j = touched
        <5>1. line = p[j]
          BY <1>2, <1>5, <4>1, ModSmall
        <5> QED BY <2>3, <5>1
      <4> QED BY <1>2, <4>1
    <3>2. Holds(b, l)
      BY <1>5, <3>1 DEF Stored
    <3> QED BY <1>9, <2>1, <2>3, <3>2 DEF Holds
  <2> QED BY <2>2, <2>3
<1>11. Walking(p)'
  BY <1>1, <1>7, <1>10 DEF Walking
<1>12. TypeOK' /\ Accepted'
  <2>1. lap' \subseteq Nat
    BY <1>1, <1>2 DEF TypeOK, Touched
  <2> QED BY <1>1, <1>2, <1>8, <1>9, <2>1 DEF TypeOK, Accepted, Pc, command, chain
<1>13. csize' > 0 /\ block' < count'
  BY <1>2, <1>4
<1>14. \E f \in [Lines' -> Lines'] : Walking(f)'
  BY <1>4, <1>11
<1> QED BY <1>1, <1>12, <1>13, <1>14 DEF IInv

\* A load finds the number that was stored, and so follows the same cycle.
LEMMA LoadLineStep ==
  ASSUME IInv, LoadLine
  PROVE  IInv'
<1>1. /\ pc = "load" /\ pc' = "load"
      /\ line' = medium[Place(block, line)] /\ touched' = touched + 1 /\ lap' = Touched
      /\ UNCHANGED <<command, irqs, reported, chain, medium, block>>
  BY DEF LoadLine
<1>2. /\ TypeOK /\ Accepted
      /\ csize \in Nat \ {0} /\ Lines \subseteq RegionLines
      /\ block \in 0 .. count - 1 /\ touched \in Nat /\ count \in Nat \ {0}
  BY <1>1, InPassFacts
<1>3. PICK p \in [Lines -> Lines] : Walking(p)
  BY <1>1, InPassFacts
<1>4. /\ csize' = csize /\ Lines' = Lines /\ count' = count /\ block' = block
      /\ cindex' = cindex /\ medium' = medium /\ stride' = stride
  BY <1>1 DEF csize, Lines, command, chain
<1>5. /\ Cycle(p) /\ line = p[touched % csize]
      /\ \A b \in 0 .. count - 1, l \in Lines : Holds(b, l)
  BY <1>1, <1>3 DEF Walking
<1>6. line \in Lines /\ cindex[line] = p[(touched + 1) % csize]
  BY <1>2, <1>5, Advance
<1>7. line' = cindex[line] /\ cindex[line] \in Nat
  BY <1>1, <1>2, <1>5, <1>6 DEF Holds, TypeOK
<1>8. Cycle(p)' /\ line' = p[touched' % csize']
  BY <1>1, <1>4, <1>5, <1>6, <1>7 DEF Cycle, IsWalk
<1>9. \A b \in 0 .. count' - 1, l \in Lines' : Holds(b, l)'
  BY <1>4, <1>5 DEF Holds, Place
<1>10. Walking(p)'
  BY <1>1, <1>8, <1>9 DEF Walking
<1>11. TypeOK' /\ Accepted'
  <2>1. lap' \subseteq Nat
    BY <1>1, <1>2 DEF TypeOK, Touched
  <2> QED BY <1>1, <1>2, <1>7, <2>1 DEF TypeOK, Accepted, Pc, command, chain
<1>12. csize' > 0 /\ block' < count'
  BY <1>2, <1>4
<1>13. \E f \in [Lines' -> Lines'] : Walking(f)'
  BY <1>4, <1>10
<1> QED BY <1>1, <1>11, <1>12, <1>13 DEF IInv

\* A walk that is at the end of its block has touched csize lines at least.
LEMMA BlockWalked ==
  ASSUME Accepted, touched \in Nat, ~InBlock
  PROVE  csize <= touched
<1>1. /\ CACHELINE_SIZE \in Nat \ {0} /\ access \in Nat /\ csize \in Nat
      /\ CACHELINE_SIZE * csize <= access
  BY Sizes, ConstantsAssumption
<1>2. CACHELINE_SIZE * csize <= touched * CACHELINE_SIZE
  BY <1>1 DEF InBlock
<1>3. ASSUME touched < csize PROVE FALSE
  <2>1. CACHELINE_SIZE * (touched + 1) <= CACHELINE_SIZE * csize
    BY <1>1, <1>3
  <2> QED BY <1>1, <1>2, <2>1
<1> QED BY <1>1, <1>3

\* A block is left when all its lines have been touched.
LEMMA NextBlockStep ==
  ASSUME IInv, NextBlock
  PROVE  IInv'
<1>1. /\ pc \in {"store", "load"} /\ ~InBlock
      /\ line' = 0 /\ touched' = 0 /\ lap' = {}
      /\ IF block + 1 < count
         THEN block' = block + 1 /\ pc' = pc
         ELSE block' = 0 /\ pc' = IF pc = "store" THEN "load" ELSE "end"
      /\ UNCHANGED <<command, irqs, reported, chain, medium>>
  BY DEF NextBlock
<1>2. /\ TypeOK /\ Accepted
      /\ csize \in Nat \ {0} /\ Lines \subseteq RegionLines
      /\ block \in 0 .. count - 1 /\ touched \in Nat /\ count \in Nat \ {0}
  BY <1>1, InPassFacts
<1>3. PICK p \in [Lines -> Lines] : Walking(p)
  BY <1>1, InPassFacts
<1>4. /\ csize' = csize /\ Lines' = Lines /\ count' = count
      /\ cindex' = cindex /\ medium' = medium /\ stride' = stride
  BY <1>1 DEF csize, Lines, command, chain
<1>5. TypeOK' /\ Accepted'
  BY <1>1, <1>2 DEF TypeOK, Accepted, Pc, command, chain
<1>6. Cycle(p)'
  BY <1>3, <1>4 DEF Walking, Cycle, IsWalk
<1>7. line' = p[touched' % csize']
  <2>1. 0 % csize = 0
    BY <1>2, ModSmall
  <2> QED BY <1>1, <1>3, <1>4, <2>1 DEF Walking, Cycle, IsWalk
<1>8. csize <= touched
  BY <1>1, <1>2, BlockWalked
<1>9. \A b \in 0 .. block, l \in Lines : Holds(b, l)
  <2> SUFFICES ASSUME NEW b \in 0 .. block, NEW l \in Lines
               PROVE  Holds(b, l)
    OBVIOUS
  <2>1. b \in 0 .. count - 1
    BY <1>2
  <2>2. CASE pc = "load"
    BY <1>3, <2>1, <2>2 DEF Walking
  <2>3. CASE pc = "store"
    <3>1. PICK j \in Lines : p[j] = l
      BY <1>2, <1>3, CycleCovers DEF Walking
    <3>2. j \in 0 .. csize - 1 /\ j < touched
      BY <1>2, <1>8 DEF Lines
    <3>3. b < block \/ b = block
      BY <1>2
    <3> QED BY <1>3, <2>1, <2>3, <3>1, <3>2, <3>3 DEF Walking, Stored
  <2> QED BY <1>1, <2>2, <2>3
<1>10. ASSUME pc' = "store" PROVE Stored(p)'
  <2>1. block' = block + 1
    BY <1>1, <1>10
  <2>2. ASSUME NEW j \in 0 .. csize - 1 PROVE ~(j < touched')
    BY <1>1, <1>2, <2>2
  <2>3. ASSUME NEW b \in 0 .. count - 1, b < block' PROVE b \in 0 .. block
    BY <1>2, <2>1, <2>3
  <2> QED BY <1>4, <1>9, <2>2, <2>3 DEF Stored, Holds, Place
<1>11. ASSUME pc' = "load" PROVE \A b \in 0 .. count' - 1, l \in Lines' : Holds(b, l)'
  <2>1. CASE pc = "load"
    BY <1>3, <1>4, <2>1 DEF Walking, Holds, Place
  <2>2. CASE pc = "store"
    <3>1. block + 1 >= count
      BY <1>1, <1>2, <1>11, <2>2
    <3>2. 0 .. count - 1 \subseteq 0 .. block
      BY <1>2, <3>1
    <3> QED BY <1>4, <1>9, <3>2 DEF Holds, Place
  <2> QED BY <1>1, <2>1, <2>2
<1>12. Walking(p)'
  BY <1>6, <1>7, <1>10, <1>11 DEF Walking
<1>13. csize' > 0 /\ block' < count'
  BY <1>1, <1>2, <1>4
<1>14. \E f \in [Lines' -> Lines'] : Walking(f)'
  BY <1>4, <1>12
<1>15. pc' # "draw" /\ pc' # "idle"
  BY <1>1
<1> QED BY <1>5, <1>13, <1>14, <1>15 DEF IInv

\* A step that changes nothing.
LEMMA StutterStep ==
  ASSUME IInv, UNCHANGED vars
  PROVE  IInv'
<1>1. /\ csize' = csize /\ Lines' = Lines
      /\ \A p : Linking(p)' <=> Linking(p)
      /\ \A p : Walking(p)' <=> Walking(p)
  BY DEF vars, csize, Lines, Linking, Walking, IsWalk, Cycle, Stored, Holds, Place
<1> QED BY <1>1 DEF vars, IInv, TypeOK, Accepted

\* The invariant holds in every state of a behaviour.
LEMMA Invariant == Spec => []IInv
<1>1. IInv /\ [Next]_vars => IInv'
  <2> SUFFICES ASSUME IInv, [Next]_vars PROVE IInv'
    OBVIOUS
  <2>1. CASE Command \/ StridedPasses \/ Report \/ DrawFails \/ DivideError
    BY <2>1, OutsideStep
  <2>2. CASE ClearIndex
    BY <2>2, ClearIndexStep
  <2>3. CASE Draw
    BY <2>3, DrawStep
  <2>4. CASE Linked
    BY <2>4, LinkedStep
  <2>5. CASE StoreLine
    BY <2>5, StoreLineStep
  <2>6. CASE LoadLine
    BY <2>6, LoadLineStep
  <2>7. CASE NextBlock
    BY <2>7, NextBlockStep
  <2>8. CASE UNCHANGED vars
    BY <2>8, StutterStep
  <2> QED BY <2>1, <2>2, <2>3, <2>4, <2>5, <2>6, <2>7, <2>8 DEF Next, Progress
<1> QED BY <1>1, InitIInv, PTL DEF Spec
-----------------------------------------------------------------------------
(***************************************************************************)
(* The theorems.                                                           *)
(***************************************************************************)

\* The state stays in its types: in particular no load brings a number into
\* the walk that no store has written (memaccess.c:554).
THEOREM TypeCorrect == Spec => []TypeOK
<1>1. IInv => TypeOK
  BY DEF IInv
<1> QED BY <1>1, Invariant, PTL

\* Whatever is drawn, and whatever the report area held before, the complete
\* index is one cycle through all lines of a block (memaccess.c:488-500).
THEOREM IndexIsOneCycle == Spec => []SingleCycle
<1>1. IInv => SingleCycle
  BY DEF IInv, SingleCycle, Walking, Cycle
<1> QED BY <1>1, Invariant, PTL

\* The do-while of init_chasing_index can always end (memaccess.c:492-496).
THEOREM AlwaysALineToDraw == Spec => []CanDraw
<1>1. IInv => CanDraw
  <2> SUFFICES ASSUME IInv, pc = "draw", MoreLinks, csize > 0
               PROVE  \E n \in Lines : Acceptable(n)
    BY DEF CanDraw
  <2>1. csize \in Nat /\ i \in Nat
    BY Sizes DEF IInv, TypeOK
  <2>2. i + 1 < csize
    BY <2>1 DEF MoreLinks
  <2>3. PICK p \in [0 .. i -> Lines] : Linking(p)
    BY DEF IInv
  <2> QED BY <2>1, <2>2, <2>3, LineLeft
<1> QED BY <1>1, Invariant, PTL

\* A walk is back at line 0 after csize lines and not before, in both passes
\* (memaccess.c:514-524 and 550-558).
THEOREM WalksClose == Spec => []ReturnsWhenDone
<1>1. IInv => ReturnsWhenDone
  <2> SUFFICES ASSUME IInv, pc \in {"store", "load"}
               PROVE  line = 0 <=> touched % csize = 0
    BY DEF ReturnsWhenDone
  <2>1. csize \in Nat \ {0} /\ touched \in Nat
    BY InPassFacts
  <2>2. PICK p \in [Lines -> Lines] : Walking(p)
    BY InPassFacts
  <2>3. touched % csize \in 0 .. csize - 1 /\ 0 \in 0 .. csize - 1
    BY <2>1, ModStep
  <2>4. /\ line = p[touched % csize] /\ p[0] = 0
        /\ \A j, k \in 0 .. csize - 1 : p[j] = p[k] => j = k
    BY <2>2 DEF Walking, Cycle, IsWalk
  <2> QED BY <2>3, <2>4
<1> QED BY <1>1, Invariant, PTL

\* Each load finds in its line what the store pass wrote there, for every
\* stride that _parse_cmd lets through (tasks.c:574-580).
THEOREM LoadsSeeStores == Spec => []LoadsFollowStores
<1>1. IInv => LoadsFollowStores
  <2> SUFFICES ASSUME IInv, pc = "load"
               PROVE  line \in Lines /\ medium[Place(block, line)] = cindex[line]
    BY DEF LoadsFollowStores
  <2>1. /\ csize \in Nat \ {0} /\ touched \in Nat /\ block \in 0 .. count - 1
    BY InPassFacts
  <2>2. PICK p \in [Lines -> Lines] : Walking(p)
    BY InPassFacts
  <2>3. line \in Lines
    BY <2>1, <2>2, Advance DEF Walking
  <2> QED BY <2>1, <2>2, <2>3 DEF Walking, Holds
<1> QED BY <1>1, Invariant, PTL

\* No access of the passes leaves the region (tasks.c:487-491).
THEOREM StaysInRegion == Spec => []WithinRegion
<1>1. IInv => WithinRegion
  <2> SUFFICES ASSUME IInv, pc \in {"store", "load"}
               PROVE  Place(block, line) \in RegionLines
    BY DEF WithinRegion
  <2>1. /\ csize \in Nat \ {0} /\ touched \in Nat /\ block \in 0 .. count - 1
        /\ Accepted /\ count \in Nat \ {0}
    BY InPassFacts
  <2>2. PICK p \in [Lines -> Lines] : Walking(p)
    BY InPassFacts
  <2>3. line \in Lines
    BY <2>1, <2>2, Advance DEF Walking
  <2> QED BY <2>1, <2>3, PlaceInRegion
<1> QED BY <1>1, Invariant, PTL
-----------------------------------------------------------------------------
(***************************************************************************)
(* The refinement of PointerWalk.  Beside the walk, the proof needs to     *)
(* know which lines a lap has been to: the first ones of the cycle.        *)
(***************************************************************************)

\* The lines of the lap after t touches of a block of n lines: a lap that is
\* complete stands until the next touch begins another.
LapLength(t, n) == IF t > 0 /\ t % n = 0 THEN n ELSE t % n

\* The walk is on the cycle p, and the lap has been to its first lines.
Touring(p) ==
  /\ line = p[touched % csize]
  /\ lap = {p[j] : j \in 0 .. LapLength(touched, csize) - 1}

LapInv ==
  IF pc \in {"store", "load"}
  THEN \A p \in [Lines -> Lines] : Cycle(p) => Touring(p)
  ELSE block = 0 /\ lap = {}

\* A lap has at most n lines, one more with each touch, and then begins again.
\* The first complete one takes n touches.
LEMMA LapLengthStep ==
  ASSUME NEW t \in Nat, NEW n \in Nat \ {0}
  PROVE  /\ LapLength(t, n) \in 0 .. n
         /\ LapLength(t + 1, n) =
              IF LapLength(t, n) = n THEN 1 ELSE LapLength(t, n) + 1
         /\ LapLength(t, n) < n => LapLength(t, n) = t % n
         /\ LapLength(t, n) = n => t >= n /\ t % n = 0
         /\ t + 1 >= n <=> t >= n \/ LapLength(t + 1, n) = n
<1>1. /\ t % n \in 0 .. n - 1
      /\ (t + 1) % n = IF t % n = n - 1 THEN 0 ELSE (t % n) + 1
  BY ModStep
<1>2. t < n => t % n = t
  <2> SUFFICES ASSUME t < n PROVE t % n = t
    OBVIOUS
  <2>1. t \in 0 .. n - 1
    OBVIOUS
  <2> QED BY <2>1, ModSmall
<1>3. LapLength(t, n) = IF t > 0 /\ t % n = 0 THEN n ELSE t % n
  BY DEF LapLength
<1>4. LapLength(t + 1, n) = IF t + 1 > 0 /\ (t + 1) % n = 0 THEN n ELSE (t + 1) % n
  BY DEF LapLength
<1> DEFINE r == t % n
           s == (t + 1) % n
<1> HIDE DEF r, s
<1>5. /\ r \in 0 .. n - 1
      /\ s = IF r = n - 1 THEN 0 ELSE r + 1
      /\ t < n => r = t
      /\ LapLength(t, n) = IF t > 0 /\ r = 0 THEN n ELSE r
      /\ LapLength(t + 1, n) = IF t + 1 > 0 /\ s = 0 THEN n ELSE s
  BY <1>1, <1>2, <1>3, <1>4 DEF r, s
<1>6. CASE t > 0 /\ r = 0
  <2>1. LapLength(t, n) = n /\ t >= n
    BY <1>5, <1>6
  <2>2. LapLength(t + 1, n) = 1
    BY <1>5, <1>6
  <2> QED BY <1>6, <2>1, <2>2 DEF r
<1>7. CASE ~(t > 0 /\ r = 0)
  <2>1. LapLength(t, n) = r /\ r \in 0 .. n - 1
    BY <1>5, <1>7
  <2>2. LapLength(t + 1, n) = r + 1
    BY <1>5
  <2>3. t + 1 >= n <=> t >= n \/ LapLength(t + 1, n) = n
    BY <1>5, <2>2
  <2> QED BY <2>1, <2>2, <2>3 DEF r
<1> QED BY <1>6, <1>7

\* What the first l lines of a cycle are: all lines if l is csize; and
\* otherwise the next one is not among them.
LEMMA LapLines ==
  ASSUME NEW p \in [Lines -> Lines], csize \in Nat \ {0}, Cycle(p),
         NEW l \in 0 .. csize
  PROVE  /\ {p[j] : j \in 0 .. l - 1} \subseteq Lines
         /\ {p[j] : j \in 0 .. l - 1} = Lines <=> l = csize
         /\ l < csize => p[l] \in Lines \ {p[j] : j \in 0 .. l - 1}
<1> DEFINE S == {p[j] : j \in 0 .. l - 1}
<1>1. S \subseteq Lines
  BY DEF Lines
<1>2. ASSUME l = csize PROVE S = Lines
  <2>1. \A m \in Lines : \E j \in Lines : p[j] = m
    BY CycleCovers
  <2> QED BY <1>1, <1>2, <2>1 DEF Lines
<1>3. ASSUME l < csize PROVE p[l] \in Lines \ S
  <2>1. l \in 0 .. csize - 1 /\ \A j \in 0 .. l - 1 : j \in 0 .. csize - 1 /\ j # l
    BY <1>3
  <2>2. \A j \in 0 .. l - 1 : p[j] # p[l]
    BY <2>1 DEF Cycle, IsWalk
  <2> QED BY <2>1, <2>2 DEF Lines
<1> QED BY <1>1, <1>2, <1>3

\* What a touch makes of the lap.
LEMMA TouchLap ==
  ASSUME NEW p \in [Lines -> Lines], csize \in Nat \ {0}, touched \in Nat,
         Cycle(p), Touring(p)
  PROVE  /\ line \in Lines \ (IF lap = Lines THEN {} ELSE lap)
         /\ Touched = {p[j] : j \in 0 .. LapLength(touched + 1, csize) - 1}
         /\ lap \subseteq Lines /\ Touched \subseteq Lines
         /\ touched + 1 >= csize <=> touched >= csize \/ Touched = Lines
<1> DEFINE l == LapLength(touched, csize)
           k == LapLength(touched + 1, csize)
<1>1. /\ l \in 0 .. csize
      /\ k = IF l = csize THEN 1 ELSE l + 1
      /\ l < csize => l = touched % csize
      /\ l = csize => touched % csize = 0
      /\ touched + 1 >= csize <=> touched >= csize \/ k = csize
  BY LapLengthStep
<1>2. lap = {p[j] : j \in 0 .. l - 1} /\ line = p[touched % csize]
  BY DEF Touring
<1> HIDE DEF l, k
<1>3. k \in 0 .. csize
  BY <1>1
<1>4. /\ lap \subseteq Lines
      /\ lap = Lines <=> l = csize
      /\ l < csize => p[l] \in Lines \ lap
  BY <1>1, <1>2, LapLines
<1>5. Touched = {p[j] : j \in 0 .. k - 1} /\ line \in Lines \ (IF lap = Lines THEN {} ELSE lap)
  <2>1. CASE l = csize
    <3>1. k = 1 /\ line = p[0] /\ lap = Lines
      BY <1>1, <1>2, <1>4, <2>1
    <3>2. 0 .. k - 1 = {0} /\ 0 \in Lines
      BY <3>1 DEF Lines
    <3> QED BY <3>1, <3>2 DEF Touched
  <2>2. CASE l < csize
    <3>1. k = l + 1 /\ line = p[l] /\ lap # Lines /\ line \in Lines \ lap
      BY <1>1, <1>2, <1>4, <2>2
    <3>2. 0 .. k - 1 = (0 .. l - 1) \cup {l}
      BY <1>1, <3>1
    <3> QED BY <1>2, <3>1, <3>2 DEF Touched
  <2> QED BY <1>1, <2>1, <2>2
<1>6. Touched \subseteq Lines /\ (Touched = Lines <=> k = csize)
  BY <1>3, <1>5, LapLines
<1> QED BY <1>1, <1>4, <1>5, <1>6 DEF k

\* Both passes touch the line after the one they are at: what they load is
\* what the index holds.
LEMMA TouchMoves ==
  ASSUME IInv, StoreLine \/ LoadLine
  PROVE  /\ pc \in {"store", "load"} /\ pc' = pc
         /\ line' = cindex[line]
         /\ touched' = touched + 1 /\ lap' = Touched
         /\ UNCHANGED <<command, cindex, block>>
<1>1. CASE StoreLine
  BY <1>1 DEF StoreLine, chain
<1>2. CASE LoadLine
  <2>1. pc = "load" /\ line' = medium[Place(block, line)]
        /\ touched' = touched + 1 /\ lap' = Touched /\ pc' = pc
        /\ UNCHANGED <<command, cindex, block>>
    BY <1>2 DEF LoadLine, chain
  <2>2. csize \in Nat \ {0} /\ touched \in Nat /\ block \in 0 .. count - 1
    BY <2>1, InPassFacts
  <2>3. PICK p \in [Lines -> Lines] : Walking(p)
    BY <2>1, InPassFacts
  <2>4. line \in Lines
    BY <2>2, <2>3, Advance DEF Walking
  <2> QED BY <2>1, <2>2, <2>3, <2>4 DEF Walking, Holds
<1> QED BY <1>1, <1>2

\* The actions of the passes, and those around them.
LEMMA LapStep ==
  ASSUME IInv, LapInv, [Next]_vars
  PROVE  LapInv'
<1>1. CASE StoreLine \/ LoadLine
  <2>1. /\ pc \in {"store", "load"} /\ pc' \in {"store", "load"}
        /\ line' = cindex[line]
        /\ touched' = touched + 1 /\ lap' = Touched
        /\ csize' = csize /\ Lines' = Lines /\ cindex' = cindex
    BY <1>1, TouchMoves DEF csize, Lines, command
  <2>2. csize \in Nat \ {0} /\ touched \in Nat
    BY <2>1, InPassFacts
  <2>3. ASSUME NEW p \in [Lines -> Lines], Cycle(p)' PROVE Touring(p)'
    <3>1. Cycle(p)
      BY <2>1, <2>3 DEF Cycle, IsWalk
    <3>2. Touring(p)
      BY <2>1, <3>1 DEF LapInv
    <3>3. cindex[line] = p[(touched + 1) % csize]
      BY <2>2, <3>1, <3>2, Advance DEF Touring
    <3>4. Touched = {p[j] : j \in 0 .. LapLength(touched + 1, csize) - 1}
      BY <2>2, <3>1, <3>2, TouchLap
    <3> QED BY <2>1, <3>3, <3>4 DEF Touring, LapLength
  <2> QED BY <2>1, <2>3 DEF LapInv
<1>2. CASE Linked \/ NextBlock
  <2>1. line' = 0 /\ touched' = 0 /\ lap' = {} /\ csize' = csize /\ Lines' = Lines
    BY <1>2 DEF Linked, NextBlock, csize, Lines, command
  <2>2. CASE pc' \in {"store", "load"}
    <3>1. csize \in Nat \ {0}
      <4>1. CASE Linked
        <5>1. Accepted /\ ~MoreLinks
          BY <4>1 DEF Linked, IInv
        <5> QED BY <5>1, Sizes DEF MoreLinks
      <4>2. CASE NextBlock
        <5>1. pc \in {"store", "load"}
          BY <4>2 DEF NextBlock
        <5> QED BY <5>1, InPassFacts
      <4> QED BY <1>2, <4>1, <4>2
    <3>2. ASSUME NEW p \in [Lines -> Lines], Cycle(p)' PROVE Touring(p)'
      <4>1. p[0] = 0
        BY <3>2 DEF Cycle, IsWalk
      <4>2. 0 % csize = 0 /\ 0 .. 0 - 1 = {}
        BY <3>1, ModSmall
      <4>3. LapLength(0, csize) = 0
        BY <4>2 DEF LapLength
      <4> QED BY <2>1, <4>1, <4>2, <4>3 DEF Touring, LapLength
    <3> QED BY <2>1, <2>2, <3>2 DEF LapInv
  <2>3. CASE pc' \notin {"store", "load"}
    <3>1. block' = 0
      BY <1>2, <2>3 DEF Linked, NextBlock
    <3> QED BY <2>1, <2>3, <3>1 DEF LapInv
  <2> QED BY <2>2, <2>3
<1>3. CASE Command \/ StridedPasses \/ ClearIndex \/ Draw \/ DrawFails \/ DivideError
           \/ Report
  BY <1>3 DEF LapInv, Command, StridedPasses, ClearIndex, Draw, DrawFails,
       DivideError, Report, walk
<1>4. CASE UNCHANGED vars
  BY <1>4 DEF vars, LapInv, Touring, LapLength, Cycle, IsWalk, csize, Lines
<1> QED BY <1>1, <1>2, <1>3, <1>4 DEF Next, Progress

\* Which lines the laps have been to holds in every state of a behaviour.
LEMMA LapInvariant == Spec => []LapInv
<1>1. Init => LapInv
  BY DEF Init, LapInv
<1> QED BY <1>1, LapStep, Invariant, PTL DEF Spec

\* The two passes are a walk as PointerWalk describes it, whatever is drawn,
\* for every layout of the blocks: every line of every block is touched before
\* any of its lines a second time, the blocks in their order, the stores
\* before the loads, and a block is left only after a whole lap
\* (memaccess.c:506-563).
THEOREM KeepsWalk == Spec => Walked!Init /\ [][Walked!Next]_(Walked!vars)
<1>1. Init => Walked!Init
  BY DEF Init, Walked!Init, InPass
<1>2. IInv /\ LapInv /\ [Next]_vars => [Walked!Next]_(Walked!vars)
  <2> SUFFICES ASSUME IInv, LapInv, [Next]_vars
               PROVE  [Walked!Next]_(Walked!vars)
    OBVIOUS
  <2>1. CASE Command \/ StridedPasses \/ ClearIndex \/ Draw \/ DivideError \/ Report
    <3>1. /\ ~InPass /\ ~InPass' /\ lap' = lap /\ block' = block
          /\ (pc \in {"end", "parked", "returned"}) <=> (pc' \in {"end", "parked", "returned"})
          /\ (pc \in {"end", "parked"}) <=> (pc' \in {"end", "parked"})
          /\ pc \in {"end", "parked"} => access' = access /\ count' = count
      BY <2>1 DEF Command, StridedPasses, ClearIndex, Draw, DivideError, Report,
           InPass, walk, command
    <3> QED BY <3>1 DEF Walked!vars, csize, Lines
  <2>2. CASE DrawFails
    <3>1. /\ pc = "draw" /\ pc' = "returned" /\ block' = block
      BY <2>2 DEF DrawFails, walk
    <3>2. Walked!GiveUp
      BY <3>1 DEF Walked!GiveUp, InPass
    <3> QED BY <3>2 DEF Walked!Next
  <2>3. CASE Linked
    <3>1. /\ pc = "draw" /\ pc' = "store" /\ block' = 0 /\ touched' = 0 /\ lap' = {}
          /\ count' = count /\ csize' = csize /\ Lines' = Lines
          /\ Accepted /\ ~MoreLinks
      BY <2>3 DEF Linked, command, csize, Lines, IInv
    <3>2. csize \in Nat \ {0} /\ count \in Nat \ {0}
      BY <3>1, Sizes DEF MoreLinks
    <3>3. ~(touched' >= csize')
      BY <3>1, <3>2
    <3>4. Walked!Start
      BY <3>1, <3>2, <3>3 DEF Walked!Start, InPass, Lines
    <3> QED BY <3>4 DEF Walked!Next
  <2>4. CASE StoreLine \/ LoadLine
    <3>1. /\ pc \in {"store", "load"} /\ pc' = pc
          /\ touched' = touched + 1 /\ lap' = Touched
          /\ count' = count /\ csize' = csize /\ Lines' = Lines /\ block' = block
      BY <2>4, TouchMoves DEF command, csize, Lines
    <3>2. csize \in Nat \ {0} /\ touched \in Nat
      BY <3>1, InPassFacts
    <3>3. PICK p \in [Lines -> Lines] : Cycle(p)
      BY <3>1, InPassFacts DEF Walking
    <3>4. Touring(p)
      BY <3>1, <3>3 DEF LapInv
    <3>5. /\ line \in Lines \ (IF lap = Lines THEN {} ELSE lap)
          /\ lap \subseteq Lines /\ Touched \subseteq Lines
          /\ touched + 1 >= csize <=> touched >= csize \/ Touched = Lines
      BY <3>2, <3>3, <3>4, TouchLap
    <3> DEFINE todo == Lines \ lap
               left == IF todo = {} THEN Lines ELSE todo
    <3>6. line \in left /\ Lines' \ lap' = left \ {line}
      BY <3>1, <3>5 DEF Touched
    <3>7. (touched' >= csize') <=> (touched >= csize \/ Lines' \ lap' = {})
      BY <3>1, <3>5
    <3>8. InPass /\ InPass' /\ Walked!Lines = Lines
      BY <3>1 DEF InPass, Walked!Lines, Lines
    <3>9. Walked!Touch
      BY <3>1, <3>6, <3>7, <3>8 DEF Walked!Touch
    <3> QED BY <3>9 DEF Walked!Next
  <2>5. CASE NextBlock
    <3>1. /\ pc \in {"store", "load"} /\ ~InBlock /\ touched' = 0 /\ lap' = {}
          /\ IF block + 1 < count
             THEN block' = block + 1 /\ pc' = pc
             ELSE block' = 0 /\ pc' = IF pc = "store" THEN "load" ELSE "end"
          /\ count' = count /\ csize' = csize /\ Lines' = Lines
      BY <2>5 DEF NextBlock, command, csize, Lines
    <3>2. /\ csize \in Nat \ {0} /\ touched \in Nat /\ Accepted
          /\ block \in 0 .. count - 1 /\ count \in Nat \ {0}
      BY <3>1, InPassFacts
    <3>3. touched >= csize
      BY <3>1, <3>2, BlockWalked
    <3>4. ~(touched' >= csize') /\ (block + 1 < count \/ block + 1 = count)
      BY <3>1, <3>2
    <3>5. InPass /\ Walked!Lines = Lines
      BY <3>1 DEF InPass, Walked!Lines, Lines
    <3>6. Walked!EndBlock
      BY <3>1, <3>3, <3>4, <3>5 DEF Walked!EndBlock, InPass
    <3> QED BY <3>6 DEF Walked!Next
  <2>6. CASE UNCHANGED vars
    BY <2>6 DEF vars, Walked!vars, InPass, csize, Lines
  <2> QED BY <2>1, <2>2, <2>3, <2>4, <2>5, <2>6 DEF Next, Progress
<1> QED BY <1>1, <1>2, Invariant, LapInvariant, PTL DEF Spec
=============================================================================
