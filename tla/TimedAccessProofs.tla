-------------------------- MODULE TimedAccessProofs --------------------------
(***************************************************************************)
(* The theorems of TimedAccess: for every set of instruction sequences     *)
(* that have their fences and flushes where WellFenced wants them, of any  *)
(* length and in every order the CPU may choose; and, in the second part,  *)
(* that the sequences of AccessPrograms have them there, for all sizes,    *)
(* skips and numbers of calls.                                             *)
(***************************************************************************)
EXTENDS TimedAccess, AccessPrograms, SequenceTheorems, WellFoundedInduction, TLAPS

\* What the core never overtakes.
InOrder ==
  \A i \in done, j \in Positions :
    j < i /\ (Op(i) \notin {"load", "rdtsc"} \/ Op(j) = "lfence") => j \in done

\* What a load never overtakes.
LoadsFenced ==
  \A i \in done, j \in Positions :
    j < i /\ Op(i) = "load" /\ Op(j) = "mfence" => j \in done

\* An mfence that has been passed has emptied the buffers.
FenceDrains ==
  \A m \in done, j \in Ops(Buffered) :
    j < m /\ Op(m) = "mfence" => j \in drained

\* What the buffers keep in order.
DrainsInOrder ==
  \A i \in drained, j \in Ops(Buffered) :
    j < i /\ KeepsOrder(j, i) => j \in drained

IInv == TypeOK /\ InOrder /\ LoadsFenced /\ FenceDrains /\ DrainsInOrder

-----------------------------------------------------------------------------

LEMMA InitInv == Init => IInv
BY DEF Init, IInv, TypeOK, InOrder, LoadsFenced, FenceDrains, DrainsInOrder

\* A step leaves the sequence alone, and with it everything that is said of
\* the sequence only.
LEMMA SequenceStays ==
  ASSUME prog' = prog
  PROVE  /\ Positions' = Positions
         /\ \A i : Op(i)' = Op(i)
         /\ \A S : Ops(S)' = Ops(S)
         /\ \A i, j : SameLine(i, j)' = SameLine(i, j)
         /\ \A i, j : KeepsOrder(j, i)' = KeepsOrder(j, i)
BY DEF Positions, Op, Ops, SameLine, KeepsOrder

\* The order of execution is kept by every step of the core.
LEMMA ExecuteInv ==
  ASSUME IInv, NEW i \in Positions, Execute(i)
  PROVE  IInv'
<1>0. prog' = prog /\ drained' = drained /\ done' = done \cup {i} /\ i \notin done
  BY DEF Execute
<1>1. CanExecute(i)
  BY DEF Execute
<1>2. /\ Positions' = Positions
      /\ \A k : Op(k)' = Op(k)
      /\ \A S : Ops(S)' = Ops(S)
      /\ \A k, j : KeepsOrder(j, k)' = KeepsOrder(j, k)
  BY <1>0, SequenceStays
<1>3. TypeOK'
  BY <1>0, <1>2 DEF IInv, TypeOK
<1>4. InOrder'
  BY <1>0, <1>1, <1>2 DEF IInv, InOrder, CanExecute, Ops
<1>5. LoadsFenced'
  BY <1>0, <1>1, <1>2 DEF IInv, LoadsFenced, CanExecute, Ops
<1>6. FenceDrains'
  BY <1>0, <1>1, <1>2 DEF IInv, FenceDrains, CanExecute
<1>7. DrainsInOrder'
  BY <1>0, <1>2 DEF IInv, DrainsInOrder
<1> QED
  BY <1>3, <1>4, <1>5, <1>6, <1>7 DEF IInv

\* The order of the buffers is kept when one of them empties an entry.
LEMMA DrainInv ==
  ASSUME IInv, NEW i \in Positions, Drain(i)
  PROVE  IInv'
<1>0. prog' = prog /\ done' = done /\ drained' = drained \cup {i}
      /\ i \in done /\ Op(i) \in Buffered
      /\ \A j \in Ops(Buffered) : j < i /\ KeepsOrder(j, i) => j \in drained
  BY DEF Drain
<1>2. /\ Positions' = Positions
      /\ \A k : Op(k)' = Op(k)
      /\ \A S : Ops(S)' = Ops(S)
      /\ \A k, j : KeepsOrder(j, k)' = KeepsOrder(j, k)
  BY <1>0, SequenceStays
<1>3. TypeOK'
  BY <1>0, <1>2 DEF IInv, TypeOK, Ops
<1>4. InOrder'
  BY <1>0, <1>2 DEF IInv, InOrder
<1>5. LoadsFenced'
  BY <1>0, <1>2 DEF IInv, LoadsFenced
<1>6. FenceDrains'
  BY <1>0, <1>2 DEF IInv, FenceDrains
<1>7. DrainsInOrder'
  BY <1>0, <1>2 DEF IInv, DrainsInOrder
<1> QED
  BY <1>3, <1>4, <1>5, <1>6, <1>7 DEF IInv

\* The inductive invariant.
THEOREM Invariant == Spec => []IInv
<1>1. Init => IInv
  BY InitInv
<1>2. IInv /\ [Next]_vars => IInv'
  <2> SUFFICES ASSUME IInv, [Next]_vars PROVE IInv'
    OBVIOUS
  <2>1. CASE Next
    <3>1. PICK i \in Positions : Execute(i) \/ Drain(i)
      BY <2>1 DEF Next
    <3> QED
      BY <3>1, ExecuteInv, DrainInv
  <2>2. CASE UNCHANGED vars
    <3>1. prog' = prog /\ done' = done /\ drained' = drained
      BY <2>2 DEF vars
    <3>2. /\ Positions' = Positions
          /\ \A k : Op(k)' = Op(k)
          /\ \A S : Ops(S)' = Ops(S)
          /\ \A k, j : KeepsOrder(j, k)' = KeepsOrder(j, k)
      BY <3>1, SequenceStays
    <3> QED
      BY <3>1, <3>2 DEF IInv, TypeOK, InOrder, LoadsFenced, FenceDrains, DrainsInOrder
  <2> QED
    BY <2>1, <2>2
<1> QED
  BY <1>1, <1>2, PTL DEF Spec

\* Positions are executed once, and drain after their execution.
THEOREM TypeCorrect == Spec => []TypeOK
<1>1. IInv => TypeOK
  BY DEF IInv
<1> QED
  BY <1>1, Invariant, PTL

-----------------------------------------------------------------------------

\* A passed mfence has everything before it complete.
LEMMA FenceCompletes ==
  ASSUME IInv, NEW m \in done, Op(m) = "mfence",
         NEW i \in Ops(AccessOps), i < m
  PROVE  Complete(i)
<1>1. i \in Positions
  BY DEF Ops
<1>2. i \in done
  BY <1>1 DEF IInv, InOrder
<1>3. Op(i) \in Buffered => i \in drained
  BY <1>1 DEF IInv, FenceDrains, Ops
<1> QED
  BY <1>2, <1>3 DEF Complete

\* What stands before an lfence is done when anything behind it is.
LEMMA LfenceOrders ==
  ASSUME IInv, NEW s \in done, NEW l \in Positions, Op(l) = "lfence", l < s,
         NEW m \in Positions, m < l
  PROVE  m \in done
<1>1. l \in done
  BY DEF IInv, InOrder
<1> QED
  BY <1>1 DEF IInv, InOrder

LEMMA ClosedInv ==
  ASSUME IInv, ClosesSections(prog)
  PROVE  SectionsClosed
<1> SUFFICES ASSUME NEW s \in done \cap Ops(ClockOps), NEW i \in Ops(AccessOps),
                    i < s, prog[i].mem # "index"
             PROVE  Complete(i)
  BY DEF SectionsClosed
<1>1. i \in Positions /\ s \in Positions /\ Op(i) \in AccessOps /\ Op(s) \in ClockOps
  BY DEF Ops
<1>2. Closing(prog, i, s)
  BY <1>1 DEF ClosesSections, Positions, Op
<1>3. CASE Op(i) = "load" /\ Op(s) = "rdtscp"
  <2>1. i \in done
    BY <1>1, <1>3 DEF IInv, InOrder
  <2> QED
    BY <2>1, <1>3 DEF Complete, Buffered, StoreOps, FlushOps
<1>4. CASE \E m \in Positions :
             /\ i < m /\ m < s /\ Op(m) = "mfence"
             /\ Op(s) = "rdtscp" \/ Between(prog, m, s, "lfence")
  <2>1. PICK m \in Positions :
          /\ i < m /\ m < s /\ Op(m) = "mfence"
          /\ Op(s) = "rdtscp" \/ Between(prog, m, s, "lfence")
    BY <1>4
  <2>2. CASE Op(s) = "rdtscp"
    <3>1. m \in done
      BY <2>1, <2>2 DEF IInv, InOrder
    <3> QED
      BY <3>1, <2>1, FenceCompletes
  <2>3. CASE Between(prog, m, s, "lfence")
    <3>1. PICK l \in Positions : m < l /\ l < s /\ Op(l) = "lfence"
      BY <2>3 DEF Between, Positions, Op
    <3>2. m \in done
      BY <3>1, LfenceOrders
    <3> QED
      BY <3>2, <2>1, FenceCompletes
  <2> QED
    BY <2>1, <2>2, <2>3
<1> QED
  BY <1>2, <1>3, <1>4 DEF Closing, Positions, Op

\* Every access of a section is complete when its end is stamped, provided
\* that a fence stands between each access and each stamp behind it.
THEOREM StampsCloseSections ==
  ASSUME \A p \in Programs : ClosesSections(p)
  PROVE  Spec => []SectionsClosed
<1>1. IInv => SectionsClosed
  BY ClosedInv DEF IInv, TypeOK
<1> QED
  BY <1>1, Invariant, PTL

\* Every access of a section begins after its stamp, provided that an lfence
\* stands behind each rdtscp.
THEOREM StampsOpenSections ==
  ASSUME \A p \in Programs : OpensSections(p)
  PROVE  Spec => []SectionsOpened
<1>1. ASSUME IInv PROVE SectionsOpened
  <2> SUFFICES ASSUME NEW i \in done \cap Ops(AccessOps), NEW s \in Ops(ClockOps),
                      s < i, ~(Op(s) = "rdtsc" /\ Op(i) = "load")
               PROVE  s \in done
    BY DEF SectionsOpened
  <2>1. i \in Positions /\ s \in Positions /\ Op(i) \in AccessOps /\ Op(s) \in ClockOps
    BY DEF Ops
  <2>2. CASE Op(i) # "load"
    <3>1. Op(i) # "rdtsc"
      BY <2>1 DEF AccessOps, Buffered, StoreOps, FlushOps
    <3> QED
      BY <2>1, <2>2, <3>1, <1>1 DEF IInv, InOrder
  <2>3. CASE Op(i) = "load"
    <3>1. OpensSections(prog)
      BY <1>1 DEF IInv, TypeOK
    <3>2. Between(prog, s, i, "lfence")
      BY <2>1, <2>3, <3>1 DEF OpensSections, Positions, Op
    <3>3. PICK l \in Positions : s < l /\ l < i /\ Op(l) = "lfence"
      BY <3>2 DEF Between, Positions, Op
    <3> QED
      BY <1>1, <2>1, <3>3, LfenceOrders
  <2> QED
    BY <2>2, <2>3
<1> QED
  BY <1>1, Invariant, PTL

\* What a flushing test has stored is persistent when the clock is read,
\* provided that each store has a flush of its line behind it and each flush
\* a fence before the stamp.
THEOREM StampsFindDataPersistent ==
  ASSUME \A p \in Programs : ClosesSections(p) /\ FlushesSections(p)
  PROVE  Spec => []StampedDataPersists
<1>1. ASSUME IInv PROVE StampedDataPersists
  <2> SUFFICES ASSUME Ops(FlushOps) # {},
                      NEW s \in done \cap Ops(ClockOps), NEW i \in Ops(StoreOps),
                      i < s, prog[i].mem = "region"
               PROVE  Persistent(i)
    BY DEF StampedDataPersists
  <2>1. i \in Positions /\ s \in Positions /\ Op(i) \in StoreOps /\ Op(s) \in ClockOps
    BY DEF Ops
  <2>2. ClosesSections(prog) /\ FlushesSections(prog)
    BY <1>1 DEF IInv, TypeOK
  <2>3. \A k \in Ops(AccessOps) : k < s /\ prog[k].mem = "region" => Complete(k)
    BY <1>1, <2>2, ClosedInv DEF SectionsClosed
  <2>4. CASE Op(i) = "ntstore"
    <3>1. i \in Ops(AccessOps) /\ Op(i) \in Buffered
      BY <2>1 DEF Ops, AccessOps, Buffered
    <3>2. i \in drained
      BY <2>3, <3>1 DEF Complete
    <3> QED
      BY <3>2, <2>4 DEF Persistent
  <2>5. CASE Op(i) = "store"
    <3>1. \E f \in 1 .. Len(prog) : prog[f].op \in FlushOps
      BY DEF Ops, Positions, Op
    <3>2. FlushedBefore(prog, i, s)
      BY <2>1, <2>2, <2>5, <3>1 DEF FlushesSections, Positions, Op
    <3>3. PICK f \in Positions :
            /\ i < f /\ f < s /\ Op(f) \in FlushOps
            /\ prog[f].mem = prog[i].mem /\ prog[f].line = prog[i].line
      BY <3>2 DEF FlushedBefore, Positions, Op
    <3>4. f \in Ops(AccessOps) /\ f \in Ops(FlushOps) /\ Op(f) \in Buffered
      BY <3>3 DEF Ops, AccessOps, Buffered
    <3>5. f \in drained
      BY <2>3, <3>3, <3>4 DEF Complete
    <3> QED
      BY <3>3, <3>4, <3>5 DEF Persistent, SameLine
  <2> QED
    BY <2>1, <2>4, <2>5 DEF StoreOps
<1> QED
  BY <1>1, Invariant, PTL

\* A load behind a flush of its line comes from memory, provided that an
\* mfence stands between them.
THEOREM LoadsComeFromMemory ==
  ASSUME \A p \in Programs : FencesLoads(p)
  PROVE  Spec => []LoadsFromMemory
<1>1. ASSUME IInv PROVE LoadsFromMemory
  <2> SUFFICES ASSUME NEW i \in done \cap Ops({"load"}), NEW f \in Ops(FlushOps),
                      f < i, SameLine(f, i)
               PROVE  f \in drained
    BY DEF LoadsFromMemory
  <2>1. i \in Positions /\ f \in Positions /\ Op(i) = "load" /\ Op(f) \in FlushOps
    BY DEF Ops
  <2>2. FencesLoads(prog)
    BY <1>1 DEF IInv, TypeOK
  <2>3. Between(prog, f, i, "mfence")
    BY <2>1, <2>2 DEF FencesLoads, Positions, Op, SameLine
  <2>4. PICK m \in Positions : f < m /\ m < i /\ Op(m) = "mfence"
    BY <2>3 DEF Between, Positions, Op
  <2>5. m \in done
    BY <1>1, <2>1, <2>4 DEF IInv, LoadsFenced
  <2>6. f \in Ops(Buffered)
    BY <2>1 DEF Ops, Buffered
  <2> QED
    BY <1>1, <2>4, <2>5, <2>6 DEF IInv, FenceDrains
<1> QED
  BY <1>1, Invariant, PTL

\* What stands before an sfence is persistent before anything behind it
\* reaches memory, provided that each store has a flush of its line before
\* the sfence.
THEOREM FencesMakePersistent ==
  ASSUME \A p \in Programs : FlushesFences(p)
  PROVE  Spec => []FencedIsPersistent
<1>1. ASSUME IInv PROVE FencedIsPersistent
  <2> SUFFICES ASSUME NEW f \in Ops({"sfence"}), NEW i \in drained,
                      NEW j \in Ops(StoreOps), j < f, f < i
               PROVE  Persistent(j)
    BY DEF FencedIsPersistent
  <2>1. f \in Positions /\ j \in Positions /\ Op(f) = "sfence" /\ Op(j) \in StoreOps
    BY DEF Ops
  <2>2. FlushesFences(prog)
    BY <1>1 DEF IInv, TypeOK
  <2>3. ASSUME NEW k \in Ops(Buffered), k < f PROVE k \in drained
    <3>1. k < i /\ KeepsOrder(k, i)
      <4>1. k < f /\ f < i
        BY <2>3
      <4>2. k \in Positions /\ i \in Positions
        BY <1>1 DEF IInv, TypeOK, Ops
      <4>3. k < i
        BY <2>1, <4>1, <4>2 DEF Positions
      <4> QED
        BY <4>1, <4>3 DEF KeepsOrder
    <3> QED
      BY <1>1, <3>1 DEF IInv, DrainsInOrder
  <2>4. CASE Op(j) = "ntstore"
    <3>1. j \in Ops(Buffered)
      BY <2>1 DEF Ops, Buffered
    <3> QED
      BY <2>3, <2>4, <3>1 DEF Persistent
  <2>5. CASE Op(j) = "store"
    <3>1. FlushedBefore(prog, j, f)
      BY <2>1, <2>2, <2>5 DEF FlushesFences, Positions, Op
    <3>2. PICK g \in Positions :
            /\ j < g /\ g < f /\ Op(g) \in FlushOps
            /\ prog[g].mem = prog[j].mem /\ prog[g].line = prog[j].line
      BY <3>1 DEF FlushedBefore, Positions, Op
    <3>3. g \in Ops(Buffered) /\ g \in Ops(FlushOps)
      BY <3>2 DEF Ops, Buffered
    <3>4. g \in drained
      BY <2>3, <3>2, <3>3
    <3> QED
      BY <3>2, <3>3, <3>4 DEF Persistent, SameLine
  <2> QED
    BY <2>1, <2>4, <2>5 DEF StoreOps
<1> QED
  BY <1>1, Invariant, PTL

(***************************************************************************)
(* Sequences.                                                              *)
(***************************************************************************)

\* Induction over the natural numbers, for a set.
LEMMA SetInduction ==
  ASSUME NEW S, 0 \in S, \A n \in Nat : n \in S => n + 1 \in S
  PROVE  Nat \subseteq S
<1> DEFINE R == OpToRel(<, Nat)
           T == Nat \ S
<1>1. SUFFICES ASSUME T # {} PROVE FALSE
  OBVIOUS
<1>2. T \subseteq Nat
  OBVIOUS
<1>3. PICK x \in T : \A y \in T : ~ (<<y, x>> \in R)
  <2> HIDE DEF R, T
  <2>1. IsWellFoundedOn(R, Nat)
    BY NatLessThanWellFounded DEF R
  <2> QED BY <2>1, <1>1, <1>2, WFMin
<1>4. x # 0 /\ x - 1 \in Nat
  OBVIOUS
<1>5. x - 1 \in T
  BY <1>4
<1>6. <<x - 1, x>> \in R
  BY <1>4 DEF OpToRel
<1> QED BY <1>3, <1>5, <1>6

\* The first k sequences joined, given the first k - 1.
Joins(ss, flat, k) == IF k = 1 THEN ss[k] ELSE flat[k - 1] \o ss[k]

\* The recursion of FlattenSeq has a solution.
LEMMA FlattenDefined ==
  ASSUME NEW ss, Len(ss) \in Nat
  PROVE  \E flat : /\ FlattenSeq(ss) = IF Len(ss) = 0 THEN ss ELSE flat[Len(ss)]
                   /\ \A k \in 1 .. Len(ss) : flat[k] = Joins(ss, flat, k)
<1> DEFINE Solves(f, n) == f = [k \in 1 .. n |-> Joins(ss, f, k)]
           N == {n \in Nat : \E f : Solves(f, n)}
<1>1. 0 \in N
  <2> DEFINE h == [k \in 1 .. 0 |-> <<>>]
  <2>1. Solves(h, 0)
    OBVIOUS
  <2> QED BY <2>1
<1>2. \A n \in Nat : n \in N => n + 1 \in N
  <2> SUFFICES ASSUME NEW n \in Nat, n \in N PROVE n + 1 \in N
    OBVIOUS
  <2>1. PICK g : Solves(g, n)
    OBVIOUS
  <2> DEFINE h == [k \in 1 .. n + 1 |-> IF k \in 1 .. n THEN g[k] ELSE Joins(ss, g, k)]
  <2>2. \A k \in 1 .. n : g[k] = Joins(ss, g, k)
    BY <2>1
  <2>3. \A k \in 1 .. n : h[k] = g[k]
    OBVIOUS
  <2>4. \A k \in 1 .. n + 1 : Joins(ss, h, k) = Joins(ss, g, k)
    <3> HIDE DEF h
    <3>1. \A k \in 1 .. n + 1 : k # 1 => k - 1 \in 1 .. n
      OBVIOUS
    <3> QED BY <2>3, <3>1 DEF Joins
  <2>5. \A k \in 1 .. n + 1 : h[k] = Joins(ss, h, k)
    <3>1. \A k \in 1 .. n + 1 : h[k] = Joins(ss, g, k)
      BY <2>2
    <3> HIDE DEF h
    <3> QED BY <2>4, <3>1
  <2>6. Solves(h, n + 1)
    <3>1. h = [k \in 1 .. n + 1 |-> h[k]]
      OBVIOUS
    <3> HIDE DEF h
    <3> QED BY <2>5, <3>1
  <2> HIDE DEF h, Solves
  <2> QED BY <2>6
<1>3. Len(ss) \in N
  <2> HIDE DEF N
  <2> QED BY <1>1, <1>2, SetInduction
<1> DEFINE F == CHOOSE f : Solves(f, Len(ss))
<1>4. Solves(F, Len(ss))
  BY <1>3
<1>5. FlattenSeq(ss) = IF Len(ss) = 0 THEN ss ELSE F[Len(ss)]
  BY DEF FlattenSeq, Joins
<1> HIDE DEF F
<1>6. \A k \in 1 .. Len(ss) : F[k] = Joins(ss, F, k)
  BY <1>4
<1> QED BY <1>5, <1>6

\* What can be put together from parts.
Closed(G) == <<>> \in G /\ \A p, q \in G : p \o q \in G

\* A repetition has what all its turns have.
LEMMA FlattenIn ==
  ASSUME NEW G, Closed(G), NEW n \in Nat, NEW ss \in [1 .. n -> G]
  PROVE  FlattenSeq(ss) \in G
<1>1. ss \in Seq(G) /\ Len(ss) = n
  OBVIOUS
<1>2. PICK f : /\ FlattenSeq(ss) = IF n = 0 THEN ss ELSE f[n]
               /\ \A k \in 1 .. n : f[k] = Joins(ss, f, k)
  BY <1>1, FlattenDefined
<1>3. CASE n = 0
  <2>1. ss = <<>>
    BY <1>1, <1>3, EmptySeq
  <2> QED BY <1>2, <1>3, <2>1 DEF Closed
<1>4. CASE n # 0
  <2> DEFINE N == {m \in Nat : m + 1 <= n => f[m + 1] \in G}
  <2>1. 0 \in N
    <3>1. 1 <= n => f[1] = ss[1] /\ ss[1] \in G
      BY <1>2 DEF Joins
    <3> QED BY <3>1
  <2>2. \A m \in Nat : m \in N => m + 1 \in N
    <3> SUFFICES ASSUME NEW m \in Nat, m \in N, (m + 1) + 1 <= n
                 PROVE  f[(m + 1) + 1] \in G
      OBVIOUS
    <3>1. f[m + 1] \in G
      OBVIOUS
    <3>2. (m + 1) + 1 \in 1 .. n /\ (m + 1) + 1 # 1 /\ ((m + 1) + 1) - 1 = m + 1
      OBVIOUS
    <3>3. f[(m + 1) + 1] = f[m + 1] \o ss[(m + 1) + 1]
      BY <1>2, <3>2 DEF Joins
    <3>4. ss[(m + 1) + 1] \in G
      BY <3>2
    <3> QED BY <3>1, <3>3, <3>4 DEF Closed
  <2>3. n - 1 \in N
    <3>1. n - 1 \in Nat
      BY <1>4
    <3> HIDE DEF N
    <3> QED BY <2>1, <2>2, <3>1, SetInduction
  <2>4. f[n] \in G
    BY <1>4, <2>3
  <2> QED BY <1>2, <1>4, <2>4
<1> QED BY <1>3, <1>4

\* Sequences of instructions of one kind.
LEMMA SeqClosed ==
  ASSUME NEW S
  PROVE  Closed(Seq(S))
BY EmptySeq, ConcatProperties DEF Closed

\* Where the instructions of two parts are in the whole.
LEMMA WholeOfParts ==
  ASSUME NEW S, NEW p \in Seq(S), NEW q \in Seq(S)
  PROVE  LET r == p \o q IN
         /\ r \in Seq(S) /\ Len(p) \in Nat /\ Len(q) \in Nat /\ Len(r) = Len(p) + Len(q)
         /\ \A k \in 1 .. Len(p) : k \in 1 .. Len(r) /\ r[k] = p[k]
         /\ \A k \in 1 .. Len(q) : Len(p) + k \in 1 .. Len(r) /\ r[Len(p) + k] = q[k]
         /\ \A k \in 1 .. Len(r) : k \in 1 .. Len(p) \/ \E j \in 1 .. Len(q) : k = Len(p) + j
<1> DEFINE r == p \o q
<1>1. /\ r \in Seq(S) /\ Len(r) = Len(p) + Len(q) /\ Len(p) \in Nat /\ Len(q) \in Nat
      /\ \A i \in 1 .. Len(p) + Len(q) : r[i] = IF i <= Len(p) THEN p[i] ELSE q[i - Len(p)]
  BY ConcatProperties, LenProperties
<1> HIDE DEF r
<1>2. \A k \in 1 .. Len(p) : k \in 1 .. Len(r) /\ r[k] = p[k]
  BY <1>1
<1>3. ASSUME NEW k \in 1 .. Len(q)
      PROVE  Len(p) + k \in 1 .. Len(r) /\ r[Len(p) + k] = q[k]
  <2>1. /\ Len(p) + k \in 1 .. Len(p) + Len(q) /\ ~(Len(p) + k <= Len(p))
        /\ (Len(p) + k) - Len(p) = k
    BY <1>1
  <2> QED BY <1>1, <2>1
<1>4. ASSUME NEW k \in 1 .. Len(r), k \notin 1 .. Len(p)
      PROVE  \E j \in 1 .. Len(q) : k = Len(p) + j
  <2>1. k - Len(p) \in 1 .. Len(q) /\ k = Len(p) + (k - Len(p))
    BY <1>1, <1>4
  <2> QED BY <2>1
<1> QED BY <1>1, <1>2, <1>3, <1>4 DEF r

(***************************************************************************)
(* Parts of a sequence: what they need of their neighbours, and what they  *)
(* leave to them.                                                          *)
(***************************************************************************)

\* What an mfence waits for, and what must not come without one behind it.
Pending(x) == x.op \in Buffered /\ x.mem # "index"
Late(x) == x.op = "rdtscp" \/ (x.op = "load" /\ x.mem = "region")

Fenced(p) ==
  \A i, s \in 1 .. Len(p) :
    i < s /\ Pending(p[i]) /\ Late(p[s]) => Between(p, i, s, "mfence")

\* Nothing is pending at the end; nothing pending before the beginning is
\* met; the beginning is a fence itself.
Emptied(p) ==
  \A i \in 1 .. Len(p) : Pending(p[i]) =>
    \E m \in 1 .. Len(p) : i < m /\ p[m].op = "mfence"
Guarded(p) ==
  \A s \in 1 .. Len(p) : Late(p[s]) =>
    \E m \in 1 .. Len(p) : m < s /\ p[m].op = "mfence"
Opened(p) == 1 \in 1 .. Len(p) /\ p[1].op = "mfence"

\* A clock comes with its fences, a flush is one of the tested memory.
Tidy(p) ==
  \A s \in 1 .. Len(p) :
    /\ p[s].op \in FlushOps => p[s].mem = "region"
    /\ p[s].op = "rdtsc" =>
         \E l, m \in 1 .. Len(p) :
           /\ l + 1 = s /\ p[l].op = "lfence"
           /\ m + 1 = l /\ p[m].op = "mfence"
    /\ p[s].op = "rdtscp" => \E l \in 1 .. Len(p) : l = s + 1 /\ p[l].op = "lfence"

\* A store is flushed before the clock is read and before the next sfence.
Quiet == {"store", "ntstore", "load", "clwb", "clflush", "clflushopt", "mfence", "lfence"}
Flushed(p) ==
  \A j \in 1 .. Len(p) : p[j].op = "store" /\ p[j].mem = "region" =>
    \E f \in 1 .. Len(p) :
      /\ j < f /\ p[f].op \in FlushOps
      /\ p[f].mem = p[j].mem /\ p[f].line = p[j].line
      /\ \A m \in 1 .. Len(p) : j <= m /\ m <= f => p[m].op \in Quiet

Sequences == {p \in Seq(Instruction) : Fenced(p)}
Sections == {p \in Sequences : Emptied(p)}
Calls == {p \in Sequences : Guarded(p)}
TidyOnes == {p \in Seq(Instruction) : Tidy(p)}
FlushedOnes == {p \in Seq(Instruction) : Flushed(p)}

LEMMA NoneEmpty ==
  /\ <<>> \in Sections /\ <<>> \in Calls /\ <<>> \in TidyOnes /\ <<>> \in FlushedOnes
<1>1. <<>> \in Seq(Instruction) /\ Len(<<>>) = 0 /\ 1 .. 0 = {}
  BY EmptySeq
<1> DEFINE e == <<>>
<1> HIDE DEF e
<1>2. \A k \in 1 .. Len(e) : FALSE
  BY <1>1 DEF e
<1>3. Fenced(e) /\ Emptied(e) /\ Guarded(e) /\ Tidy(e) /\ Flushed(e)
  BY <1>2 DEF Fenced, Emptied, Guarded, Tidy, Flushed
<1> QED BY <1>1, <1>3 DEF Sections, Calls, TidyOnes, FlushedOnes, Sequences, e

LEMMA TidyClosed == Closed(TidyOnes)
<1> SUFFICES ASSUME NEW p \in Seq(Instruction), NEW q \in Seq(Instruction), Tidy(p), Tidy(q)
             PROVE  p \o q \in Seq(Instruction) /\ Tidy(p \o q)
  BY NoneEmpty DEF Closed, TidyOnes
<1> DEFINE r == p \o q
<1>1. /\ r \in Seq(Instruction) /\ Len(p) \in Nat /\ Len(q) \in Nat /\ Len(r) = Len(p) + Len(q)
      /\ \A k \in 1 .. Len(p) : k \in 1 .. Len(r) /\ r[k] = p[k]
      /\ \A k \in 1 .. Len(q) : Len(p) + k \in 1 .. Len(r) /\ r[Len(p) + k] = q[k]
      /\ \A k \in 1 .. Len(r) : k \in 1 .. Len(p) \/ \E j \in 1 .. Len(q) : k = Len(p) + j
  BY WholeOfParts
<1> HIDE DEF r
<1> DEFINE Has(s) ==
      /\ r[s].op \in FlushOps => r[s].mem = "region"
      /\ r[s].op = "rdtsc" =>
           \E l, m \in 1 .. Len(r) :
             /\ l + 1 = s /\ r[l].op = "lfence"
             /\ m + 1 = l /\ r[m].op = "mfence"
      /\ r[s].op = "rdtscp" => \E l \in 1 .. Len(r) : l = s + 1 /\ r[l].op = "lfence"
<1>2. ASSUME NEW s \in 1 .. Len(p) PROVE Has(s)
  <2>1. r[s] = p[s]
    BY <1>1
  <2>2. ASSUME r[s].op = "rdtsc"
        PROVE  \E l, m \in 1 .. Len(r) :
                 /\ l + 1 = s /\ r[l].op = "lfence"
                 /\ m + 1 = l /\ r[m].op = "mfence"
    <3>1. PICK l, m \in 1 .. Len(p) :
            /\ l + 1 = s /\ p[l].op = "lfence"
            /\ m + 1 = l /\ p[m].op = "mfence"
      BY <2>1, <2>2 DEF Tidy
    <3> QED BY <1>1, <3>1
  <2>3. ASSUME r[s].op = "rdtscp"
        PROVE  \E l \in 1 .. Len(r) : l = s + 1 /\ r[l].op = "lfence"
    <3>1. PICK l \in 1 .. Len(p) : l = s + 1 /\ p[l].op = "lfence"
      BY <2>1, <2>3 DEF Tidy
    <3> QED BY <1>1, <3>1
  <2>4. r[s].op \in FlushOps => r[s].mem = "region"
    BY <2>1 DEF Tidy
  <2> QED BY <2>2, <2>3, <2>4
<1>3. ASSUME NEW j \in 1 .. Len(q) PROVE Has(Len(p) + j)
  <2>1. r[Len(p) + j] = q[j]
    BY <1>1
  <2>2. ASSUME q[j].op = "rdtsc"
        PROVE  \E l, m \in 1 .. Len(r) :
                 /\ l + 1 = Len(p) + j /\ r[l].op = "lfence"
                 /\ m + 1 = l /\ r[m].op = "mfence"
    <3>1. PICK l, m \in 1 .. Len(q) :
            /\ l + 1 = j /\ q[l].op = "lfence"
            /\ m + 1 = l /\ q[m].op = "mfence"
      BY <2>2 DEF Tidy
    <3> DEFINE l2 == Len(p) + l
               m2 == Len(p) + m
    <3>2. l2 + 1 = Len(p) + j /\ m2 + 1 = l2
      <4>1. l \in Int /\ m \in Int /\ j \in Int /\ Len(p) \in Int /\ l + 1 = j /\ m + 1 = l
        BY <1>1, <3>1
      <4> QED BY <4>1
    <3>3. /\ l2 \in 1 .. Len(r) /\ r[l2].op = "lfence"
          /\ m2 \in 1 .. Len(r) /\ r[m2].op = "mfence"
      BY <1>1, <3>1
    <3> HIDE DEF l2, m2
    <3> QED BY <3>2, <3>3
  <2>3. ASSUME q[j].op = "rdtscp"
        PROVE  \E l \in 1 .. Len(r) : l = (Len(p) + j) + 1 /\ r[l].op = "lfence"
    <3>1. PICK l \in 1 .. Len(q) : l = j + 1 /\ q[l].op = "lfence"
      BY <2>3 DEF Tidy
    <3>2. Len(p) + l = (Len(p) + j) + 1
      BY <1>1, <3>1
    <3> QED BY <1>1, <3>1, <3>2
  <2>4. q[j].op \in FlushOps => q[j].mem = "region"
    BY DEF Tidy
  <2> QED BY <2>1, <2>2, <2>3, <2>4
<1>4. \A s \in 1 .. Len(r) : Has(s)
  <2> HIDE DEF Has
  <2> QED BY <1>1, <1>2, <1>3
<1> QED BY <1>1, <1>4 DEF Tidy, r

LEMMA FlushedClosed == Closed(FlushedOnes)
<1> SUFFICES ASSUME NEW p \in Seq(Instruction), NEW q \in Seq(Instruction), Flushed(p), Flushed(q)
             PROVE  p \o q \in Seq(Instruction) /\ Flushed(p \o q)
  BY NoneEmpty DEF Closed, FlushedOnes
<1> DEFINE r == p \o q
<1>1. /\ r \in Seq(Instruction) /\ Len(p) \in Nat /\ Len(q) \in Nat /\ Len(r) = Len(p) + Len(q)
      /\ \A k \in 1 .. Len(p) : k \in 1 .. Len(r) /\ r[k] = p[k]
      /\ \A k \in 1 .. Len(q) : Len(p) + k \in 1 .. Len(r) /\ r[Len(p) + k] = q[k]
      /\ \A k \in 1 .. Len(r) : k \in 1 .. Len(p) \/ \E j \in 1 .. Len(q) : k = Len(p) + j
  BY WholeOfParts
<1> HIDE DEF r
<1> DEFINE Has(j) == r[j].op = "store" /\ r[j].mem = "region" =>
      \E f \in 1 .. Len(r) :
        /\ j < f /\ r[f].op \in FlushOps
        /\ r[f].mem = r[j].mem /\ r[f].line = r[j].line
        /\ \A m \in 1 .. Len(r) : j <= m /\ m <= f => r[m].op \in Quiet
<1>2. ASSUME NEW j \in 1 .. Len(p) PROVE Has(j)
  <2> SUFFICES ASSUME r[j].op = "store", r[j].mem = "region"
               PROVE  \E f \in 1 .. Len(r) :
                        /\ j < f /\ r[f].op \in FlushOps
                        /\ r[f].mem = r[j].mem /\ r[f].line = r[j].line
                        /\ \A m \in 1 .. Len(r) : j <= m /\ m <= f => r[m].op \in Quiet
    OBVIOUS
  <2>1. r[j] = p[j]
    BY <1>1
  <2>2. PICK f \in 1 .. Len(p) :
          /\ j < f /\ p[f].op \in FlushOps
          /\ p[f].mem = p[j].mem /\ p[f].line = p[j].line
          /\ \A m \in 1 .. Len(p) : j <= m /\ m <= f => p[m].op \in Quiet
    BY <2>1 DEF Flushed
  <2>3. f \in 1 .. Len(r) /\ r[f] = p[f]
    BY <1>1
  <2>4. ASSUME NEW m \in 1 .. Len(r), j <= m, m <= f PROVE r[m].op \in Quiet
    <3>1. m \in 1 .. Len(p)
      BY <1>1, <2>4
    <3> QED BY <1>1, <2>2, <2>4, <3>1
  <2> QED BY <2>1, <2>2, <2>3, <2>4
<1>3. ASSUME NEW j \in 1 .. Len(q) PROVE Has(Len(p) + j)
  <2> DEFINE n == Len(p)
  <2> SUFFICES ASSUME r[n + j].op = "store", r[n + j].mem = "region"
               PROVE  \E f \in 1 .. Len(r) :
                        /\ n + j < f /\ r[f].op \in FlushOps
                        /\ r[f].mem = r[n + j].mem /\ r[f].line = r[n + j].line
                        /\ \A m \in 1 .. Len(r) : n + j <= m /\ m <= f => r[m].op \in Quiet
    OBVIOUS
  <2>1. r[n + j] = q[j]
    BY <1>1
  <2>2. PICK f \in 1 .. Len(q) :
          /\ j < f /\ q[f].op \in FlushOps
          /\ q[f].mem = q[j].mem /\ q[f].line = q[j].line
          /\ \A m \in 1 .. Len(q) : j <= m /\ m <= f => q[m].op \in Quiet
    BY <2>1 DEF Flushed
  <2>3. n + f \in 1 .. Len(r) /\ r[n + f] = q[f] /\ n + j < n + f
    BY <1>1, <2>2
  <2>4. ASSUME NEW m \in 1 .. Len(r), n + j <= m, m <= n + f PROVE r[m].op \in Quiet
    <3>1. m \notin 1 .. n
      BY <1>1, <2>4
    <3>2. PICK i \in 1 .. Len(q) : m = n + i
      BY <1>1, <3>1
    <3>3. j <= i /\ i <= f
      BY <1>1, <2>4, <3>2
    <3> QED BY <1>1, <2>2, <3>2, <3>3
  <2> QED BY <2>1, <2>2, <2>3, <2>4
<1>4. \A s \in 1 .. Len(r) : Has(s)
  <2> HIDE DEF Has
  <2> QED BY <1>1, <1>2, <1>3
<1> QED BY <1>1, <1>4 DEF Flushed, r

\* Two parts, of which the first leaves nothing pending or the second begins
\* behind a fence of its own.
LEMMA FencedTogether ==
  ASSUME NEW p \in Sequences, NEW q \in Sequences, Emptied(p) \/ Guarded(q)
  PROVE  p \o q \in Sequences
<1> DEFINE r == p \o q
           n == Len(p)
<1>1. /\ r \in Seq(Instruction) /\ n \in Nat /\ Len(q) \in Nat /\ Len(r) = n + Len(q)
      /\ \A k \in 1 .. n : k \in 1 .. Len(r) /\ r[k] = p[k]
      /\ \A k \in 1 .. Len(q) : n + k \in 1 .. Len(r) /\ r[n + k] = q[k]
      /\ \A k \in 1 .. Len(r) : k \in 1 .. n \/ \E j \in 1 .. Len(q) : k = n + j
  BY WholeOfParts DEF Sequences
<1> HIDE DEF r
<1> SUFFICES ASSUME NEW i \in 1 .. Len(r), NEW s \in 1 .. Len(r),
                    i < s, Pending(r[i]), Late(r[s])
             PROVE  \E m \in 1 .. Len(r) : i < m /\ m < s /\ r[m].op = "mfence"
  BY <1>1 DEF Sequences, Fenced, Between, r
<1>2. Fenced(p) /\ Fenced(q)
  BY DEF Sequences
<1>3. CASE s \in 1 .. n
  <2>1. i \in 1 .. n
    BY <1>1, <1>3
  <2>2. Between(p, i, s, "mfence")
    BY <1>1, <1>2, <1>3, <2>1 DEF Fenced
  <2> QED BY <1>1, <2>2 DEF Between
<1>4. ASSUME NEW t \in 1 .. Len(q), s = n + t, i \in 1 .. n
      PROVE  \E m \in 1 .. Len(r) : i < m /\ m < s /\ r[m].op = "mfence"
  <2>1. r[s] = q[t] /\ r[i] = p[i]
    BY <1>1, <1>4
  <2>2. CASE Emptied(p)
    <3>1. PICK m \in 1 .. n : i < m /\ p[m].op = "mfence"
      BY <1>4, <2>1, <2>2 DEF Emptied
    <3>2. m \in 1 .. Len(r) /\ r[m] = p[m] /\ m < s
      BY <1>1, <1>4, <3>1
    <3> QED BY <3>1, <3>2
  <2>3. CASE Guarded(q)
    <3>1. PICK m \in 1 .. Len(q) : m < t /\ q[m].op = "mfence"
      BY <2>1, <2>3 DEF Guarded
    <3>2. n + m \in 1 .. Len(r) /\ r[n + m] = q[m] /\ n + m < s /\ i < n + m
      BY <1>1, <1>4, <3>1
    <3> QED BY <3>1, <3>2
  <2> QED BY <2>2, <2>3
<1>5. ASSUME NEW t \in 1 .. Len(q), s = n + t, NEW j \in 1 .. Len(q), i = n + j
      PROVE  \E m \in 1 .. Len(r) : i < m /\ m < s /\ r[m].op = "mfence"
  <2>1. r[s] = q[t] /\ r[i] = q[j] /\ j < t
    BY <1>1, <1>5
  <2>2. Between(q, j, t, "mfence")
    BY <1>2, <2>1 DEF Fenced
  <2>3. PICK m \in 1 .. Len(q) : j < m /\ m < t /\ q[m].op = "mfence"
    BY <2>2 DEF Between
  <2>4. n + m \in 1 .. Len(r) /\ r[n + m] = q[m] /\ n + m < s /\ i < n + m
    BY <1>1, <1>5, <2>3
  <2> QED BY <2>3, <2>4
<1> QED BY <1>1, <1>3, <1>4, <1>5

LEMMA EmptiedTogether ==
  ASSUME NEW p \in Seq(Instruction), NEW q \in Seq(Instruction), Emptied(q), Emptied(p) \/ Opened(q)
  PROVE  Emptied(p \o q)
<1> DEFINE r == p \o q
           n == Len(p)
<1>1. /\ r \in Seq(Instruction) /\ n \in Nat /\ Len(q) \in Nat /\ Len(r) = n + Len(q)
      /\ \A k \in 1 .. n : k \in 1 .. Len(r) /\ r[k] = p[k]
      /\ \A k \in 1 .. Len(q) : n + k \in 1 .. Len(r) /\ r[n + k] = q[k]
      /\ \A k \in 1 .. Len(r) : k \in 1 .. n \/ \E j \in 1 .. Len(q) : k = n + j
  BY WholeOfParts
<1> HIDE DEF r
<1>2. ASSUME NEW i \in 1 .. n, Pending(r[i])
      PROVE  \E m \in 1 .. Len(r) : i < m /\ r[m].op = "mfence"
  <2>1. CASE Emptied(p)
    <3>1. PICK m \in 1 .. n : i < m /\ p[m].op = "mfence"
      BY <1>1, <1>2, <2>1 DEF Emptied
    <3> QED BY <1>1, <3>1
  <2>2. CASE Opened(q)
    <3>1. 1 \in 1 .. Len(q) /\ q[1].op = "mfence"
      BY <2>2 DEF Opened
    <3>2. n + 1 \in 1 .. Len(r) /\ r[n + 1] = q[1] /\ i < n + 1
      BY <1>1, <3>1
    <3> QED BY <3>1, <3>2
  <2> QED BY <2>1, <2>2
<1>3. ASSUME NEW j \in 1 .. Len(q), Pending(r[n + j])
      PROVE  \E m \in 1 .. Len(r) : n + j < m /\ r[m].op = "mfence"
  <2>1. PICK m \in 1 .. Len(q) : j < m /\ q[m].op = "mfence"
    BY <1>1, <1>3 DEF Emptied
  <2>2. n + m \in 1 .. Len(r) /\ r[n + m] = q[m] /\ n + j < n + m
    BY <1>1, <2>1
  <2> QED BY <2>1, <2>2
<1> QED BY <1>1, <1>2, <1>3 DEF Emptied, r

LEMMA GuardedTogether ==
  ASSUME NEW p \in Seq(Instruction), NEW q \in Seq(Instruction), Guarded(p), Guarded(q) \/ Opened(p)
  PROVE  Guarded(p \o q)
<1> DEFINE r == p \o q
           n == Len(p)
<1>1. /\ r \in Seq(Instruction) /\ n \in Nat /\ Len(q) \in Nat /\ Len(r) = n + Len(q)
      /\ \A k \in 1 .. n : k \in 1 .. Len(r) /\ r[k] = p[k]
      /\ \A k \in 1 .. Len(q) : n + k \in 1 .. Len(r) /\ r[n + k] = q[k]
      /\ \A k \in 1 .. Len(r) : k \in 1 .. n \/ \E j \in 1 .. Len(q) : k = n + j
  BY WholeOfParts
<1> HIDE DEF r
<1>2. ASSUME NEW s \in 1 .. n, Late(r[s])
      PROVE  \E m \in 1 .. Len(r) : m < s /\ r[m].op = "mfence"
  <2>1. PICK m \in 1 .. n : m < s /\ p[m].op = "mfence"
    BY <1>1, <1>2 DEF Guarded
  <2> QED BY <1>1, <2>1
<1>3. ASSUME NEW j \in 1 .. Len(q), Late(r[n + j])
      PROVE  \E m \in 1 .. Len(r) : m < n + j /\ r[m].op = "mfence"
  <2>1. CASE Guarded(q)
    <3>1. PICK m \in 1 .. Len(q) : m < j /\ q[m].op = "mfence"
      BY <1>1, <1>3, <2>1 DEF Guarded
    <3>2. n + m \in 1 .. Len(r) /\ r[n + m] = q[m] /\ n + m < n + j
      BY <1>1, <3>1
    <3> QED BY <3>1, <3>2
  <2>2. CASE Opened(p)
    <3>1. 1 \in 1 .. n /\ p[1].op = "mfence"
      BY <2>2 DEF Opened
    <3>2. 1 \in 1 .. Len(r) /\ r[1] = p[1] /\ 1 < n + j
      BY <1>1, <3>1
    <3> QED BY <3>1, <3>2
  <2> QED BY <2>1, <2>2
<1> QED BY <1>1, <1>2, <1>3 DEF Guarded, r

LEMMA OpenedTogether ==
  ASSUME NEW p \in Seq(Instruction), NEW q \in Seq(Instruction), Opened(p)
  PROVE  Opened(p \o q)
BY WholeOfParts DEF Opened

\* A part that begins with a fence is guarded: nothing late is its first.
LEMMA OpenedGuards ==
  ASSUME NEW p \in Seq(Instruction), Opened(p)
  PROVE  Guarded(p)
<1> SUFFICES ASSUME NEW s \in 1 .. Len(p), Late(p[s])
             PROVE  \E m \in 1 .. Len(p) : m < s /\ p[m].op = "mfence"
  BY DEF Guarded
<1>1. 1 \in 1 .. Len(p) /\ p[1].op = "mfence" /\ Len(p) \in Nat
  BY LenProperties DEF Opened
<1>2. s # 1
  BY <1>1 DEF Late
<1> QED BY <1>1, <1>2

\* Sections follow one another, and so do calls; a section that begins with
\* a fence may follow anything.
LEMMA SectionsAndCalls == Closed(Sections) /\ Closed(Calls)
<1>1. ASSUME NEW p \in Sections, NEW q \in Sections PROVE p \o q \in Sections
  BY FencedTogether, EmptiedTogether DEF Sections, Sequences
<1>2. ASSUME NEW p \in Calls, NEW q \in Calls PROVE p \o q \in Calls
  BY FencedTogether, GuardedTogether DEF Calls, Sequences
<1> QED BY <1>1, <1>2, NoneEmpty DEF Closed

LEMMA SectionThenAny ==
  ASSUME NEW p \in Sections, NEW q \in Sequences
  PROVE  p \o q \in Sequences
BY FencedTogether DEF Sections

LEMMA AnyThenCall ==
  ASSUME NEW p \in Sequences, NEW q \in Calls
  PROVE  p \o q \in Sequences
BY FencedTogether DEF Calls

LEMMA AnyThenSection ==
  ASSUME NEW p \in Sequences, NEW q \in Sections, Opened(q)
  PROVE  p \o q \in Sections
BY FencedTogether, EmptiedTogether, OpenedGuards DEF Sections, Sequences

LEMMA OpenedCall ==
  ASSUME NEW p \in Sequences, Opened(p)
  PROVE  p \in Calls
BY OpenedGuards DEF Calls, Sequences

\* Where such parts make up a whole sequence, its fences and flushes stand
\* where the theorems above want them.
NoFlush == {x \in Instruction : x.op \notin FlushOps}
NoSfence == {x \in Instruction : x.op # "sfence"}
RegionStores == {x \in Instruction : x.op = "store" => x.mem = "region"}

LEMMA FencesInPlace ==
  ASSUME NEW p \in Sequences, p \in TidyOnes
  PROVE  ClosesSections(p) /\ OpensSections(p) /\ FencesLoads(p)
<1>1. p \in Seq(Instruction) /\ Fenced(p) /\ Tidy(p)
  BY DEF Sequences, TidyOnes
<1>2. Len(p) \in Nat /\ \A k \in 1 .. Len(p) : p[k] \in Instruction
  BY <1>1, LenProperties, ElementOfSeq
<1>3. ASSUME NEW i \in 1 .. Len(p), NEW s \in 1 .. Len(p),
             i < s, p[i].op \in AccessOps, p[i].mem # "index", p[s].op \in ClockOps
      PROVE  Closing(p, i, s)
  <2>1. CASE p[s].op = "rdtscp"
    <3>1. CASE p[i].op = "load"
      BY <2>1, <3>1 DEF Closing
    <3>2. CASE p[i].op \in Buffered
      <4>1. Between(p, i, s, "mfence")
        BY <1>1, <1>3, <2>1, <3>2 DEF Fenced, Pending, Late
      <4> QED BY <2>1, <4>1 DEF Between, Closing
    <3> QED BY <1>3, <3>1, <3>2 DEF AccessOps
  <2>2. CASE p[s].op = "rdtsc"
    <3>1. PICK l, m \in 1 .. Len(p) :
            /\ l + 1 = s /\ p[l].op = "lfence"
            /\ m + 1 = l /\ p[m].op = "mfence"
      BY <1>1, <2>2 DEF Tidy
    <3>2. i # l /\ i # m
      BY <1>3, <3>1 DEF AccessOps, Buffered, StoreOps, FlushOps
    <3>3. i < m /\ m < s /\ m < l /\ l < s
      BY <1>2, <1>3, <3>1, <3>2
    <3> QED BY <3>1, <3>3 DEF Closing, Between
  <2> QED BY <1>3, <2>1, <2>2 DEF ClockOps
<1>4. ASSUME NEW s \in 1 .. Len(p), NEW i \in 1 .. Len(p),
             s < i, p[s].op \in ClockOps, p[i].op = "load", p[s].op # "rdtsc"
      PROVE  Between(p, s, i, "lfence")
  <2>1. PICK l \in 1 .. Len(p) : l = s + 1 /\ p[l].op = "lfence"
    BY <1>1, <1>4 DEF Tidy, ClockOps
  <2>2. l # i
    BY <1>4, <2>1
  <2>3. s < l /\ l < i
    BY <1>2, <1>4, <2>1, <2>2
  <2> QED BY <2>1, <2>3 DEF Between
<1>5. ASSUME NEW f \in 1 .. Len(p), NEW i \in 1 .. Len(p),
             f < i, p[f].op \in FlushOps, p[i].op = "load", p[f].mem = p[i].mem
      PROVE  Between(p, f, i, "mfence")
  <2>1. p[f].mem = "region"
    BY <1>1, <1>5 DEF Tidy
  <2> QED BY <1>1, <1>5, <2>1 DEF Fenced, Pending, Late, Buffered
<1> QED BY <1>3, <1>4, <1>5 DEF ClosesSections, OpensSections, FencesLoads

LEMMA FlushesInPlace ==
  ASSUME NEW p \in FlushedOnes
  PROVE  /\ FlushesSections(p)
         /\ p \in Seq(RegionStores) => FlushesFences(p)
<1>1. p \in Seq(Instruction) /\ Flushed(p) /\ Len(p) \in Nat
  BY LenProperties DEF FlushedOnes
<1>2. ASSUME NEW j \in 1 .. Len(p), NEW s \in 1 .. Len(p),
             j < s, p[j].op = "store", p[j].mem = "region", p[s].op \notin Quiet
      PROVE  FlushedBefore(p, j, s)
  <2>1. PICK f \in 1 .. Len(p) :
          /\ j < f /\ p[f].op \in FlushOps
          /\ p[f].mem = p[j].mem /\ p[f].line = p[j].line
          /\ \A m \in 1 .. Len(p) : j <= m /\ m <= f => p[m].op \in Quiet
    BY <1>1, <1>2 DEF Flushed
  <2>2. f < s
    BY <1>1, <1>2, <2>1
  <2> QED BY <2>1, <2>2 DEF FlushedBefore
<1>3. FlushesSections(p)
  BY <1>2 DEF FlushesSections, ClockOps, Quiet
<1>4. ASSUME p \in Seq(RegionStores) PROVE FlushesFences(p)
  <2>1. \A k \in 1 .. Len(p) : p[k] \in RegionStores
    BY <1>4, ElementOfSeq
  <2> QED BY <1>2, <2>1 DEF FlushesFences, Quiet, RegionStores
<1> QED BY <1>3, <1>4

\* The three kinds of sequences there are.
LEMMA FlushingWellFenced ==
  ASSUME NEW p \in Sequences, p \in TidyOnes, p \in FlushedOnes,
         p \in Seq(NoSfence) \/ p \in Seq(RegionStores)
  PROVE  WellFenced(p)
<1>1. ASSUME p \in Seq(NoSfence) PROVE FlushesFences(p)
  <2>1. \A k \in 1 .. Len(p) : p[k] \in NoSfence
    BY <1>1, ElementOfSeq
  <2> QED BY <2>1 DEF FlushesFences, NoSfence
<1> QED BY <1>1, FencesInPlace, FlushesInPlace DEF WellFenced

LEMMA UnflushedWellFenced ==
  ASSUME NEW p \in Sequences, p \in TidyOnes, p \in Seq(NoFlush), p \in Seq(NoSfence)
  PROVE  WellFenced(p)
<1>1. \A k \in 1 .. Len(p) : p[k] \in NoSfence /\ p[k] \in NoFlush
  BY ElementOfSeq
<1>2. FlushesFences(p) /\ FlushesSections(p)
  BY <1>1 DEF FlushesFences, FlushesSections, NoSfence, NoFlush
<1> QED BY <1>2, FencesInPlace DEF WellFenced

(***************************************************************************)
(* The instructions, and the fences of common.c.                           *)
(***************************************************************************)

LEMMA OneInstruction ==
  ASSUME NEW x \in Instruction
  PROVE  /\ <<x>> \in Sequences
         /\ ~Pending(x) => <<x>> \in Sections
         /\ ~Late(x) => <<x>> \in Calls
         /\ x.op \notin ClockOps /\ (x.op \in FlushOps => x.mem = "region") => <<x>> \in TidyOnes
         /\ x.op # "store" \/ x.mem # "region" => <<x>> \in FlushedOnes
         /\ x.op = "mfence" => Opened(<<x>>)
<1> DEFINE p == <<x>>
<1>1. p \in Seq(Instruction) /\ Len(p) = 1 /\ p[1] = x /\ 1 .. Len(p) = {1}
  OBVIOUS
<1> HIDE DEF p
<1>2. Fenced(p)
  BY <1>1 DEF Fenced
<1>3. ~Pending(x) => Emptied(p)
  BY <1>1 DEF Emptied
<1>4. ~Late(x) => Guarded(p)
  BY <1>1 DEF Guarded
<1>5. x.op \notin ClockOps /\ (x.op \in FlushOps => x.mem = "region") => Tidy(p)
  BY <1>1 DEF Tidy, ClockOps
<1>6. x.op # "store" \/ x.mem # "region" => Flushed(p)
  BY <1>1 DEF Flushed
<1>7. x.op = "mfence" => Opened(p)
  BY <1>1 DEF Opened
<1> QED BY <1>1, <1>2, <1>3, <1>4, <1>5, <1>6, <1>7
        DEF p, Sequences, Sections, Calls, TidyOnes, FlushedOnes

\* What does not depend on the neighbours, with and without flushes.
Orderly == TidyOnes \cap FlushedOnes \cap Seq(NoSfence)
Unflushed == TidyOnes \cap Seq(NoFlush) \cap Seq(NoSfence)

LEMMA OrderlyClosed == Closed(Orderly) /\ Closed(Unflushed)
<1>1. \A S : Closed(Seq(S))
  BY SeqClosed
<1> QED BY <1>1, TidyClosed, FlushedClosed DEF Orderly, Unflushed, Closed

LEMMA FenceAtoms ==
  /\ Mfence \in Sections /\ Mfence \in Calls /\ Opened(Mfence)
  /\ Mfence \in Orderly /\ Mfence \in Unflushed
  /\ Lfence \in Sections /\ Lfence \in Calls /\ Lfence \in Orderly /\ Lfence \in Unflushed
<1> DEFINE m == [op |-> "mfence", mem |-> "none", line |-> 0]
           l == [op |-> "lfence", mem |-> "none", line |-> 0]
<1>1. Mfence = <<m>> /\ Lfence = <<l>>
  BY DEF Mfence, Lfence, Plain
<1>2. m \in Instruction /\ l \in Instruction
  BY DEF Instruction
<1>3. /\ m.op = "mfence" /\ l.op = "lfence" /\ m.mem = "none" /\ l.mem = "none"
  OBVIOUS
<1>4. /\ m \in NoFlush /\ l \in NoFlush /\ m \in NoSfence /\ l \in NoSfence
      /\ ~Pending(m) /\ ~Pending(l) /\ ~Late(m) /\ ~Late(l)
      /\ m.op \notin ClockOps /\ l.op \notin ClockOps
      /\ m.op \notin FlushOps /\ l.op \notin FlushOps
  BY <1>2, <1>3 DEF NoFlush, NoSfence, Pending, Late, ClockOps, FlushOps, Buffered, StoreOps
<1> HIDE DEF m, l
<1>5. /\ <<m>> \in Seq(NoFlush) /\ <<m>> \in Seq(NoSfence)
      /\ <<l>> \in Seq(NoFlush) /\ <<l>> \in Seq(NoSfence)
  BY <1>4
<1> QED BY <1>1, <1>2, <1>3, <1>4, <1>5, OneInstruction DEF Orderly, Unflushed

LEMMA TwoParts ==
  ASSUME NEW x \in Instruction, NEW y \in Instruction
  PROVE  LET r == <<x>> \o <<y>> IN
         r \in Seq(Instruction) /\ Len(r) = 2 /\ r[1] = x /\ r[2] = y
<1> DEFINE a == <<x>>
           b == <<y>>
           r == a \o b
<1>1. /\ a \in Seq(Instruction) /\ Len(a) = 1 /\ a[1] = x
      /\ b \in Seq(Instruction) /\ Len(b) = 1 /\ b[1] = y
  OBVIOUS
<1> HIDE DEF a, b
<1>2. /\ r \in Seq(Instruction) /\ Len(r) = Len(a) + Len(b)
      /\ \A k \in 1 .. Len(a) : k \in 1 .. Len(r) /\ r[k] = a[k]
      /\ \A k \in 1 .. Len(b) : Len(a) + k \in 1 .. Len(r) /\ r[Len(a) + k] = b[k]
  <2>1. a \in Seq(Instruction) /\ b \in Seq(Instruction)
    BY <1>1
  <2> QED BY <2>1, WholeOfParts
<1> HIDE DEF r
<1>3. 1 \in 1 .. Len(a) /\ 1 \in 1 .. Len(b) /\ Len(a) + 1 = 2
  BY <1>1
<1>4. r[1] = x /\ r[2] = y /\ Len(r) = 2
  BY <1>1, <1>2, <1>3
<1> QED BY <1>2, <1>4 DEF r, a, b

LEMMA ThreeParts ==
  ASSUME NEW x \in Instruction, NEW y \in Instruction, NEW z \in Instruction
  PROVE  LET r == <<x>> \o <<y>> \o <<z>> IN
         r \in Seq(Instruction) /\ Len(r) = 3 /\ r[1] = x /\ r[2] = y /\ r[3] = z
<1> DEFINE a == <<x>> \o <<y>>
           b == <<z>>
           r == a \o b
<1>1. a \in Seq(Instruction) /\ Len(a) = 2 /\ a[1] = x /\ a[2] = y
  BY TwoParts
<1>2. b \in Seq(Instruction) /\ Len(b) = 1 /\ b[1] = z
  OBVIOUS
<1> HIDE DEF a, b
<1>3. /\ r \in Seq(Instruction) /\ Len(r) = Len(a) + Len(b)
      /\ \A k \in 1 .. Len(a) : k \in 1 .. Len(r) /\ r[k] = a[k]
      /\ \A k \in 1 .. Len(b) : Len(a) + k \in 1 .. Len(r) /\ r[Len(a) + k] = b[k]
  <2>1. a \in Seq(Instruction) /\ b \in Seq(Instruction)
    BY <1>1, <1>2
  <2> QED BY <2>1, WholeOfParts
<1> HIDE DEF r
<1>4. 1 \in 1 .. Len(a) /\ 2 \in 1 .. Len(a) /\ 1 \in 1 .. Len(b) /\ Len(a) + 1 = 3
  BY <1>1, <1>2
<1>5. r[1] = x /\ r[2] = y /\ r[3] = z /\ Len(r) = 3
  BY <1>1, <1>2, <1>3, <1>4
<1> QED BY <1>3, <1>5 DEF r, a, b

\* The stamps: the fences that belong to a clock are part of it.
LEMMA StampAtoms ==
  /\ TimingBeg \in Sections /\ Opened(TimingBeg)
  /\ TimingBeg \in Orderly /\ TimingBeg \in Unflushed
  /\ RecTime \in Sections /\ Opened(RecTime)
  /\ RecTime \in Orderly /\ RecTime \in Unflushed
  /\ TimingEnd \in Sections /\ TimingEnd \in Orderly /\ TimingEnd \in Unflushed
  /\ RawStamp \in Sections /\ RawStamp \in Orderly /\ RawStamp \in Unflushed
<1> DEFINE m == [op |-> "mfence", mem |-> "none", line |-> 0]
           l == [op |-> "lfence", mem |-> "none", line |-> 0]
           c == [op |-> "rdtsc", mem |-> "none", line |-> 0]
           d == [op |-> "rdtscp", mem |-> "none", line |-> 0]
           X == {m, l, c, d}
<1>1. /\ TimingBeg = <<m>> \o <<l>> \o <<c>> /\ RecTime = <<m>> \o <<d>> \o <<l>>
      /\ TimingEnd = <<d>> \o <<l>> /\ RawStamp = <<d>> \o <<l>>
  BY DEF TimingBeg, RecTime, TimingEnd, RawStamp, Mfence, Lfence, Rdtsc, Rdtscp, Plain
<1>2. X \subseteq Instruction
  BY DEF Instruction, ClockOps
<1>3. /\ m.op = "mfence" /\ l.op = "lfence" /\ c.op = "rdtsc" /\ d.op = "rdtscp"
  OBVIOUS
<1> HIDE DEF m, l, c, d
<1>4. \A x \in X : x.op \notin Buffered /\ x.op # "sfence" /\ x.op # "load"
  BY <1>3 DEF Buffered, StoreOps, FlushOps
<1>5. \A x \in X : x \in NoFlush /\ x \in NoSfence
  BY <1>2, <1>4 DEF NoFlush, NoSfence, Buffered
<1>6. ASSUME NEW p \in Seq(Instruction), \A k \in 1 .. Len(p) : p[k] \in X, Tidy(p)
      PROVE  p \in Sections /\ p \in Orderly /\ p \in Unflushed
  <2>1. Fenced(p) /\ Emptied(p) /\ Flushed(p)
    BY <1>4, <1>6 DEF Fenced, Emptied, Flushed, Pending, Buffered, StoreOps
  <2>2. p \in Seq(NoFlush) /\ p \in Seq(NoSfence)
    <3>1. Len(p) \in Nat /\ p = [k \in 1 .. Len(p) |-> p[k]]
      OBVIOUS
    <3>2. \A k \in 1 .. Len(p) : p[k] \in NoFlush /\ p[k] \in NoSfence
      BY <1>5, <1>6
    <3> HIDE DEF X
    <3> QED BY <3>1, <3>2
  <2> QED BY <1>6, <2>1, <2>2 DEF Sections, Sequences, Orderly, Unflushed, TidyOnes, FlushedOnes
<1>7. ASSUME NEW p \in Seq(Instruction), Len(p) = 2, p[1] = d, p[2] = l
      PROVE  Tidy(p) /\ \A k \in 1 .. Len(p) : p[k] \in X
  BY <1>3, <1>4, <1>7 DEF Tidy, Buffered
<1>8. ASSUME NEW p \in Seq(Instruction), Len(p) = 3, p[1] = m, p[2] = l, p[3] = c
      PROVE  Tidy(p) /\ (\A k \in 1 .. Len(p) : p[k] \in X) /\ Opened(p)
  BY <1>3, <1>4, <1>8 DEF Tidy, Opened, Buffered
<1>9. ASSUME NEW p \in Seq(Instruction), Len(p) = 3, p[1] = m, p[2] = d, p[3] = l
      PROVE  Tidy(p) /\ (\A k \in 1 .. Len(p) : p[k] \in X) /\ Opened(p)
  BY <1>3, <1>4, <1>9 DEF Tidy, Opened, Buffered
<1> HIDE DEF X
<1>10. m \in Instruction /\ l \in Instruction /\ c \in Instruction /\ d \in Instruction
  BY <1>2 DEF X
<1>11. TimingBeg \in Sections /\ TimingBeg \in Orderly /\ TimingBeg \in Unflushed /\ Opened(TimingBeg)
  <2> DEFINE p == <<m>> \o <<l>> \o <<c>>
  <2>1. p \in Seq(Instruction) /\ Len(p) = 3 /\ p[1] = m /\ p[2] = l /\ p[3] = c
    BY <1>10, ThreeParts
  <2> HIDE DEF p
  <2>2. Tidy(p) /\ (\A k \in 1 .. Len(p) : p[k] \in X) /\ Opened(p)
    BY <1>8, <2>1
  <2>3. p \in Sections /\ p \in Orderly /\ p \in Unflushed
    BY <1>6, <2>1, <2>2
  <2> QED BY <1>1, <2>2, <2>3 DEF p
<1>12. RecTime \in Sections /\ RecTime \in Orderly /\ RecTime \in Unflushed /\ Opened(RecTime)
  <2> DEFINE p == <<m>> \o <<d>> \o <<l>>
  <2>1. p \in Seq(Instruction) /\ Len(p) = 3 /\ p[1] = m /\ p[2] = d /\ p[3] = l
    BY <1>10, ThreeParts
  <2> HIDE DEF p
  <2>2. Tidy(p) /\ (\A k \in 1 .. Len(p) : p[k] \in X) /\ Opened(p)
    BY <1>9, <2>1
  <2>3. p \in Sections /\ p \in Orderly /\ p \in Unflushed
    BY <1>6, <2>1, <2>2
  <2> QED BY <1>1, <2>2, <2>3 DEF p
<1>13. TimingEnd \in Sections /\ TimingEnd \in Orderly /\ TimingEnd \in Unflushed
  <2> DEFINE p == <<d>> \o <<l>>
  <2>1. p \in Seq(Instruction) /\ Len(p) = 2 /\ p[1] = d /\ p[2] = l
    BY <1>10, TwoParts
  <2> HIDE DEF p
  <2>2. Tidy(p) /\ \A k \in 1 .. Len(p) : p[k] \in X
    BY <1>7, <2>1
  <2>3. p \in Sections /\ p \in Orderly /\ p \in Unflushed
    BY <1>6, <2>1, <2>2
  <2> QED BY <1>1, <2>3 DEF p
<1> QED BY <1>1, <1>11, <1>12, <1>13

\* The accesses, at any byte.
LEMMA LineOf ==
  ASSUME NEW byte \in Nat
  PROVE  byte \div 64 \in Nat
OBVIOUS

LEMMA AccessAtom ==
  ASSUME NEW op \in AccessOps, NEW mem \in {"region", "results", "index"}, NEW byte \in Nat
  PROVE  LET a == Access(op, mem, byte) IN
         /\ a \in Sequences /\ a \in Seq(NoSfence)
         /\ op \notin FlushOps => a \in Seq(NoFlush)
         /\ op \notin FlushOps \/ mem = "region" => a \in TidyOnes
         /\ op = "load" \/ mem = "index" => a \in Sections
         /\ op # "load" \/ mem # "region" => a \in Calls
         /\ op # "store" \/ mem # "region" => a \in FlushedOnes
         /\ op # "store" \/ mem = "region" => a \in Seq(RegionStores)
<1> DEFINE x == [op |-> op, mem |-> mem, line |-> byte \div 64]
           a == <<x>>
<1>1. Access(op, mem, byte) = a
  BY DEF Access
<1>2. x \in Instruction
  BY LineOf DEF Instruction
<1>3. x.op = op /\ x.mem = mem
  OBVIOUS
<1> HIDE DEF x
<1>4. op \notin ClockOps /\ op # "sfence" /\ op # "rdtscp" /\ (op = "load" <=> op \notin Buffered)
  BY DEF AccessOps, ClockOps, Buffered, StoreOps, FlushOps
<1>5. /\ x \in NoSfence /\ (op \notin FlushOps => x \in NoFlush)
      /\ op # "store" \/ mem = "region" => x \in RegionStores
  BY <1>2, <1>3, <1>4 DEF NoSfence, NoFlush, RegionStores
<1>6. /\ op = "load" \/ mem = "index" => ~Pending(x)
      /\ op # "load" \/ mem # "region" => ~Late(x)
  BY <1>3, <1>4 DEF Pending, Late
<1>7. \A S : x \in S => a \in Seq(S)
  OBVIOUS
<1>8. /\ a \in Sequences
      /\ ~Pending(x) => a \in Sections
      /\ ~Late(x) => a \in Calls
      /\ x.op \notin ClockOps /\ (x.op \in FlushOps => x.mem = "region") => a \in TidyOnes
      /\ x.op # "store" \/ x.mem # "region" => a \in FlushedOnes
  BY <1>2, OneInstruction
<1> HIDE DEF a
<1> QED BY <1>1, <1>3, <1>4, <1>5, <1>6, <1>7, <1>8

(***************************************************************************)
(* The sequences of common.c.                                              *)
(***************************************************************************)

LEMMA ClosedBoth ==
  ASSUME NEW F, NEW G, Closed(F), Closed(G)
  PROVE  Closed(F \cap G)
BY DEF Closed

LEMMA Quotient ==
  ASSUME NEW a \in Nat, NEW b \in Nat \ {0}
  PROVE  a \div b \in Nat
OBVIOUS

LEMMA LineNumber ==
  ASSUME NEW m \in Nat, NEW off \in Nat, off < 64
  PROVE  64 * m + off \in Nat /\ (64 * m + off) \div 64 = m
OBVIOUS

\* Accesses that the next fence has to wait for, and accesses that have to
\* wait for the last fence.
Writes == Calls \cap Orderly
Reads == Sections \cap Orderly

LEMMA KindsClosed ==
  /\ Closed(Writes) /\ Closed(Reads) /\ Closed(Calls \cap Unflushed)
  /\ Closed(Sections \cap Calls \cap Orderly)
<1>1. Closed(Sections \cap Calls)
  BY SectionsAndCalls, ClosedBoth
<1> QED BY <1>1, SectionsAndCalls, OrderlyClosed, ClosedBoth DEF Writes, Reads

\* The two orders in which a fence may stand between them.
LEMMA KindsAreSequences ==
  /\ Writes \subseteq Sequences /\ Reads \subseteq Sequences
  /\ Sections \subseteq Sequences /\ Calls \subseteq Sequences
BY DEF Writes, Reads, Sections, Calls

LEMMA AccessKinds ==
  ASSUME NEW byte \in Nat
  PROVE  /\ Load(byte) \in Reads
         /\ Store(byte) \in Calls \cap Unflushed
         /\ Store(byte) \in TidyOnes /\ Store(byte) \in Seq(NoSfence)
         /\ NtStore(byte) \in Writes /\ NtStore(byte) \in Unflushed
         /\ \A op \in FlushOps : Flush(op, byte) \in Writes
         /\ Access("store", "results", byte) \in Writes
         /\ Access("load", "results", byte) \in Sections \cap Calls \cap Orderly
         /\ Access("store", "index", byte) \in Sections \cap Calls \cap Orderly
         /\ Access("load", "index", byte) \in Sections \cap Calls \cap Orderly
<1>1. /\ {"load", "store", "ntstore"} \cup FlushOps \subseteq AccessOps
      /\ "load" \notin FlushOps /\ "store" \notin FlushOps /\ "ntstore" \notin FlushOps
      /\ "load" # "store" /\ "ntstore" # "store"
      /\ \A op \in FlushOps : op # "load" /\ op # "store"
  BY DEF AccessOps, Buffered, StoreOps, FlushOps
<1>2. Load(byte) \in Reads
  BY <1>1, AccessAtom DEF Load, Reads, Orderly
<1>3. Store(byte) \in Calls /\ Store(byte) \in TidyOnes /\ Store(byte) \in Seq(NoSfence) /\ Store(byte) \in Seq(NoFlush)
  BY <1>1, AccessAtom DEF Store
<1>4. NtStore(byte) \in Writes /\ NtStore(byte) \in Unflushed
  BY <1>1, AccessAtom DEF NtStore, Writes, Orderly, Unflushed
<1>5. ASSUME NEW op \in FlushOps PROVE Flush(op, byte) \in Writes
  <2>1. op \in AccessOps /\ op # "load" /\ op # "store"
    BY <1>1
  <2> QED BY <2>1, AccessAtom DEF Flush, Writes, Orderly
<1>6. ASSUME NEW op \in {"load", "store"}, NEW mem \in {"results", "index"}
      PROVE  Access(op, mem, byte) \in Calls \cap Orderly
  <2>1. op \in AccessOps /\ op \notin FlushOps
    BY <1>1
  <2> QED BY <2>1, AccessAtom DEF Orderly
<1>7. /\ Access("load", "results", byte) \in Sections /\ Access("store", "index", byte) \in Sections
      /\ Access("load", "index", byte) \in Sections
  BY <1>1, AccessAtom
<1> QED BY <1>2, <1>3, <1>4, <1>5, <1>6, <1>7 DEF Writes, Unflushed

LEMMA StoresIn ==
  ASSUME NEW at \in Nat, NEW size \in Nat, NEW width \in Nat \ {0}
  PROVE  StoreSize(at, size, width) \in Calls \cap Unflushed
<1> DEFINE n == size \div width
           ss == [k \in 1 .. n |-> Store(at + width * (k - 1))]
           G == Calls \cap Unflushed
<1>1. n \in Nat
  BY Quotient
<1>2. ASSUME NEW k \in 1 .. n PROVE ss[k] \in G
  <2>1. at + width * (k - 1) \in Nat
    <3> HIDE DEF n
    <3>1. k - 1 \in Nat
      BY <1>1
    <3> QED BY <3>1
  <2> QED BY <2>1, AccessKinds
<1>3. StoreSize(at, size, width) = FlattenSeq(ss)
  BY DEF StoreSize, Repeat
<1>4. ss \in [1 .. n -> G]
  BY <1>2
<1> HIDE DEF ss, n, G
<1>5. FlattenSeq(ss) \in G
  BY <1>1, <1>4, KindsClosed, FlattenIn DEF G
<1> QED BY <1>3, <1>5 DEF G

LEMMA NtStoresIn ==
  ASSUME NEW at \in Nat, NEW size \in Nat
  PROVE  StoreNt(at, size) \in Writes /\ StoreNt(at, size) \in Unflushed
<1> DEFINE n == size \div 32
           ss == [k \in 1 .. n |-> NtStore(at + 32 * (k - 1))]
           G == Writes \cap Unflushed
<1>1. n \in Nat
  OBVIOUS
<1>2. ASSUME NEW k \in 1 .. n PROVE ss[k] \in G
  <2>1. at + 32 * (k - 1) \in Nat
    <3> HIDE DEF n
    <3> QED BY <1>1
  <2> QED BY <2>1, AccessKinds
<1>3. StoreNt(at, size) = FlattenSeq(ss)
  BY DEF StoreNt, Repeat
<1>4. ss \in [1 .. n -> G]
  BY <1>2
<1>5. Closed(G)
  BY KindsClosed, OrderlyClosed, ClosedBoth
<1> HIDE DEF ss, n, G
<1>6. FlattenSeq(ss) \in G
  BY <1>1, <1>4, <1>5, FlattenIn
<1> QED BY <1>3, <1>6 DEF G

LEMMA LoadsIn ==
  ASSUME NEW at \in Nat, NEW size \in Nat, NEW width \in Nat \ {0}
  PROVE  LoadSize(at, size, width) \in Reads
<1> DEFINE n == size \div width
           ss == [k \in 1 .. n |-> Load(at + width * (k - 1))]
<1>1. n \in Nat
  BY Quotient
<1>2. ASSUME NEW k \in 1 .. n PROVE ss[k] \in Reads
  <2>1. at + width * (k - 1) \in Nat
    <3> HIDE DEF n
    <3>1. k - 1 \in Nat
      BY <1>1
    <3> QED BY <3>1
  <2> QED BY <2>1, AccessKinds
<1>3. LoadSize(at, size, width) = FlattenSeq(ss)
  BY DEF LoadSize, Repeat
<1>4. ss \in [1 .. n -> Reads]
  BY <1>2
<1> HIDE DEF ss, n
<1> QED BY <1>1, <1>3, <1>4, KindsClosed, FlattenIn

\* What the tests do to their lines before they start.
LEMMA PreparedLines ==
  ASSUME NEW at \in Nat
  PROVE  /\ LoadCacheLine(at) \in Reads /\ LoadCacheLine(at) \in Unflushed
         /\ FlushCacheLine(at) \in Reads
<1> DEFINE ll == [k \in 1 .. 32 |-> Load(at + 8 * (k - 1))]
           ff == [k \in 1 .. 4 |-> Flush("clflush", at + 64 * (k - 1))]
           G == Reads \cap Unflushed
<1>1. ASSUME NEW k \in 1 .. 32 PROVE ll[k] \in G
  <2>1. at + 8 * (k - 1) \in Nat
    OBVIOUS
  <2>2. Load(at + 8 * (k - 1)) \in Unflushed
    <3>1. "load" \in AccessOps /\ "load" \notin FlushOps
      BY DEF AccessOps, FlushOps
    <3> QED BY <2>1, <3>1, AccessAtom DEF Load, Unflushed
  <2> QED BY <2>1, <2>2, AccessKinds
<1>2. ASSUME NEW k \in 1 .. 4 PROVE ff[k] \in Writes
  <2>1. at + 64 * (k - 1) \in Nat /\ "clflush" \in FlushOps
    BY DEF FlushOps
  <2> QED BY <2>1, AccessKinds
<1>3. LoadCacheLine(at) = FlattenSeq(ll) \o Mfence /\ FlushCacheLine(at) = FlattenSeq(ff) \o Mfence
  BY DEF LoadCacheLine, FlushCacheLine, Repeat
<1>4. ll \in [1 .. 32 -> G] /\ ff \in [1 .. 4 -> Writes]
  BY <1>1, <1>2
<1>5. Closed(G)
  BY KindsClosed, OrderlyClosed, ClosedBoth
<1> HIDE DEF ll, ff, G
<1>6. FlattenSeq(ll) \in G /\ FlattenSeq(ff) \in Writes
  BY <1>4, <1>5, KindsClosed, FlattenIn
<1>7. FlattenSeq(ll) \o Mfence \in G
  BY <1>5, <1>6, FenceAtoms DEF G, Reads, Closed
<1>8. FlattenSeq(ff) \o Mfence \in Sections
  BY <1>6, FenceAtoms, AnyThenSection, KindsAreSequences
<1>9. FlattenSeq(ff) \o Mfence \in Orderly
  BY <1>6, FenceAtoms, OrderlyClosed DEF Writes, Closed
<1> QED BY <1>3, <1>7, <1>8, <1>9 DEF G, Reads

\* Stores to one line, and its flush behind them.
StoresTo(n) == {[op |-> "store", mem |-> "region", line |-> n]}

LEMMA FlushedLine ==
  ASSUME NEW n \in Nat, NEW p \in Seq(StoresTo(n)), NEW op \in FlushOps,
         NEW byte \in Nat, byte \div 64 = n
  PROVE  p \o Flush(op, byte) \in FlushedOnes
<1> DEFINE x == [op |-> op, mem |-> "region", line |-> n]
           f == <<x>>
           r == p \o f
<1>1. Flush(op, byte) = f
  BY DEF Flush, Access
<1>2. x \in Instruction /\ x.op = op /\ x.mem = "region" /\ x.line = n
  BY DEF Instruction, AccessOps, Buffered
<1>3. StoresTo(n) \subseteq Instruction
  BY DEF StoresTo, Instruction, AccessOps, Buffered, StoreOps
<1>4. p \in Seq(Instruction) /\ \A k \in 1 .. Len(p) :
        p[k].op = "store" /\ p[k].mem = "region" /\ p[k].line = n
  BY <1>3 DEF StoresTo
<1> HIDE DEF x
<1>5. f \in Seq(Instruction) /\ Len(f) = 1 /\ f[1] = x
  BY <1>2
<1> HIDE DEF f
<1>6. /\ r \in Seq(Instruction) /\ Len(p) \in Nat /\ Len(f) \in Nat /\ Len(r) = Len(p) + Len(f)
      /\ \A k \in 1 .. Len(p) : k \in 1 .. Len(r) /\ r[k] = p[k]
      /\ \A k \in 1 .. Len(f) : Len(p) + k \in 1 .. Len(r) /\ r[Len(p) + k] = f[k]
      /\ \A k \in 1 .. Len(r) : k \in 1 .. Len(p) \/ \E j \in 1 .. Len(f) : k = Len(p) + j
  <2>1. p \in Seq(Instruction) /\ f \in Seq(Instruction)
    BY <1>4, <1>5
  <2> QED BY <2>1, WholeOfParts
<1> HIDE DEF r
<1> DEFINE e == Len(p) + 1
<1>7. e \in 1 .. Len(r) /\ r[e] = x
  <2>1. 1 \in 1 .. Len(f)
    BY <1>5
  <2> QED BY <1>5, <1>6, <2>1
<1>8. \A k \in 1 .. Len(r) : k < e => k \in 1 .. Len(p)
  BY <1>6
<1>9. \A k \in 1 .. Len(r) : k <= e => k < e \/ k = e
  <2>1. e \in Int /\ Len(r) \in Int
    BY <1>6
  <2> HIDE DEF e
  <2> QED BY <2>1
<1>10. \A k \in 1 .. Len(r) : r[k].op = "store" => k < e
  BY <1>2, <1>5, <1>6, <1>7 DEF FlushOps
<1> HIDE DEF e
<1>11. \A k \in 1 .. Len(r) : k < e => r[k].op = "store" /\ r[k].mem = "region" /\ r[k].line = n
  BY <1>4, <1>6, <1>8
<1>12. op \in Quiet /\ "store" \in Quiet
  BY DEF Quiet, FlushOps
<1>13. \A k \in 1 .. Len(r) : k <= e => r[k].op \in Quiet
  BY <1>2, <1>7, <1>9, <1>11, <1>12
<1>14. Flushed(r)
  BY <1>2, <1>7, <1>10, <1>11, <1>13 DEF Flushed
<1> QED BY <1>1, <1>6, <1>14 DEF r, FlushedOnes

LEMMA StoresToLine ==
  ASSUME NEW m \in Nat, NEW size \in Nat, size <= 64, NEW width \in {4, 8, 32}
  PROVE  StoreSize(64 * m, size, width) \in Seq(StoresTo(m))
<1> DEFINE at == 64 * m
           n == size \div width
           ss == [k \in 1 .. n |-> Store(at + width * (k - 1))]
           G == Seq(StoresTo(m))
<1>1. n \in Nat
  BY Quotient
<1>2. ASSUME NEW k \in 1 .. n PROVE ss[k] \in G
  <2> DEFINE o == width * (k - 1)
  <2>1. o \in Nat /\ o < 64 /\ at + width * (k - 1) = 64 * m + o
    <3>1. CASE width = 4
      BY <3>1
    <3>2. CASE width = 8
      BY <3>2
    <3>3. CASE width = 32
      BY <3>3
    <3> QED BY <3>1, <3>2, <3>3
  <2> HIDE DEF o, at
  <2>2. (at + width * (k - 1)) \div 64 = m
    BY <2>1, LineNumber
  <2> DEFINE x == [op |-> "store", mem |-> "region", line |-> m]
  <2>3. ss[k] = <<x>> /\ G = Seq({x})
    BY <2>2 DEF Store, Access, StoresTo
  <2> HIDE DEF x, ss, G
  <2>4. <<x>> \in Seq({x})
    OBVIOUS
  <2> QED BY <2>3, <2>4
<1>3. StoreSize(at, size, width) = FlattenSeq(ss)
  BY DEF StoreSize, Repeat
<1>4. ss \in [1 .. n -> G]
  BY <1>2
<1>5. Closed(G)
  BY SeqClosed
<1> HIDE DEF ss, n, G
<1>6. FlattenSeq(ss) \in G
  BY <1>1, <1>4, <1>5, FlattenIn
<1> QED BY <1>3, <1>6 DEF G, at

\* A line stored in pieces and flushed is what the tests are made of.
LEMMA FlushedPieces ==
  ASSUME NEW m \in Nat, NEW size \in Nat, size <= 64, NEW width \in {4, 8, 32},
         NEW op \in FlushOps
  PROVE  StoreSize(64 * m, size, width) \o Flush(op, 64 * m) \in Writes
<1> DEFINE b == 64 * m
           p == StoreSize(b, size, width)
<1>1. b \in Nat /\ b \div 64 = m
  OBVIOUS
<1>2. p \in Seq(StoresTo(m))
  BY StoresToLine
<1> HIDE DEF b
<1>3. p \in Calls \cap Unflushed
  <2>1. width \in Nat \ {0}
    OBVIOUS
  <2> QED BY <1>1, <2>1, StoresIn
<1>4. Flush(op, b) \in Writes
  BY <1>1, AccessKinds
<1> HIDE DEF p
<1>5. p \o Flush(op, b) \in FlushedOnes
  BY <1>1, <1>2, FlushedLine
<1>6. p \o Flush(op, b) \in Calls
  BY <1>3, <1>4, SectionsAndCalls DEF Closed, Writes
<1>7. p \o Flush(op, b) \in TidyOnes /\ p \o Flush(op, b) \in Seq(NoSfence)
  BY <1>3, <1>4, TidyClosed, SeqClosed DEF Closed, Writes, Orderly, Unflushed
<1> QED BY <1>5, <1>6, <1>7 DEF b, p, Writes, Orderly

\* One store and the flush of its line.
LEMMA FlushedStore ==
  ASSUME NEW byte \in Nat, NEW to \in Nat, to \div 64 = byte \div 64, NEW op \in FlushOps
  PROVE  Store(byte) \o Flush(op, to) \in Writes
<1> DEFINE m == byte \div 64
           p == Store(byte)
<1>1. m \in Nat
  OBVIOUS
<1>2. p \in Seq(StoresTo(m))
  BY DEF StoresTo, Store, Access
<1>3. p \in Calls /\ p \in TidyOnes /\ p \in Seq(NoSfence) /\ Flush(op, to) \in Writes
  BY AccessKinds
<1> HIDE DEF p, m
<1>4. p \o Flush(op, to) \in FlushedOnes
  BY <1>1, <1>2, FlushedLine DEF m
<1>5. p \o Flush(op, to) \in Calls
  BY <1>3, SectionsAndCalls DEF Closed, Writes
<1>6. p \o Flush(op, to) \in TidyOnes /\ p \o Flush(op, to) \in Seq(NoSfence)
  BY <1>3, TidyClosed, SeqClosed DEF Closed, Writes, Orderly
<1> QED BY <1>4, <1>5, <1>6 DEF p, Writes, Orderly

LEMMA StoreFlushIn ==
  ASSUME NEW m \in Nat, NEW size \in Nat, NEW width \in {8, 32}, NEW op \in FlushOps
  PROVE  StoreFlush(64 * m, size, width, op) \in Writes
<1> DEFINE at == 64 * m
           n == size \div 64
           ss == [l \in 1 .. n |-> StoreSize(at + 64 * (l - 1), 64, width)
                                     \o Flush(op, at + 64 * (l - 1))]
<1>1. n \in Nat
  OBVIOUS
<1>2. ASSUME NEW l \in 1 .. n PROVE ss[l] \in Writes
  <2> DEFINE q == m + (l - 1)
             b == at + 64 * (l - 1)
  <2>1. q \in Nat /\ b = 64 * q
    BY <1>1
  <2> HIDE DEF q, b
  <2>2. 64 \in Nat /\ 64 <= 64 /\ width \in {4, 8, 32}
    OBVIOUS
  <2>3. StoreSize(b, 64, width) \o Flush(op, b) \in Writes
    BY <2>1, <2>2, FlushedPieces
  <2> QED BY <2>3 DEF b
<1>3. StoreFlush(at, size, width, op) = FlattenSeq(ss)
  BY DEF StoreFlush, Repeat
<1>4. ss \in [1 .. n -> Writes]
  BY <1>2
<1> HIDE DEF ss, n
<1> QED BY <1>1, <1>3, <1>4, KindsClosed, FlattenIn

LEMMA StoreClwbIn ==
  ASSUME NEW m \in Nat, NEW size \in Nat, size <= 64, NEW width \in {4, 8}
  PROVE  StoreClwb(64 * m, size, width) \in Writes
<1> DEFINE b == 64 * m
<1>1. b - (b % 64) = b
  OBVIOUS
<1>2. width \in {4, 8, 32} /\ "clwb" \in FlushOps
  BY DEF FlushOps
<1>3. StoreSize(b, size, width) \o Flush("clwb", b) \in Writes
  BY <1>2, FlushedPieces
<1> HIDE DEF b
<1> QED BY <1>1, <1>3 DEF StoreClwb, b

\* The functions with a stamp after each access.
LEMMA StepsIn ==
  ASSUME NEW n \in Nat, NEW ss \in [1 .. n -> Sequences \cap Orderly]
  PROVE  LoadAddr \o RecTime \o FlattenSeq([k \in 1 .. n |-> ss[k] \o RecTime])
           \in Sections \cap Calls \cap Orderly
<1> DEFINE tt == [k \in 1 .. n |-> ss[k] \o RecTime]
           p == LoadAddr \o RecTime
<1>1. ASSUME NEW k \in 1 .. n PROVE tt[k] \in Reads
  <2>1. ss[k] \in Sequences /\ ss[k] \in Orderly
    OBVIOUS
  <2>2. ss[k] \o RecTime \in Sections
    BY <2>1, StampAtoms, AnyThenSection
  <2>3. ss[k] \o RecTime \in Orderly
    BY <2>1, StampAtoms, OrderlyClosed DEF Closed
  <2> QED BY <2>2, <2>3 DEF Reads
<1>2. tt \in [1 .. n -> Reads]
  BY <1>1
<1> HIDE DEF tt
<1>3. FlattenSeq(tt) \in Reads
  BY <1>2, KindsClosed, FlattenIn
<1>4. p \in Sections /\ p \in Orderly
  BY FenceAtoms, StampAtoms, SectionsAndCalls, OrderlyClosed DEF Closed, LoadAddr
<1>5. Opened(p)
  BY FenceAtoms, StampAtoms, OpenedTogether DEF LoadAddr, Sections, Sequences
<1> HIDE DEF p
<1>6. p \o FlattenSeq(tt) \in Sections /\ p \o FlattenSeq(tt) \in Orderly
  BY <1>3, <1>4, SectionsAndCalls, OrderlyClosed DEF Closed, Reads
<1>7. Opened(p \o FlattenSeq(tt))
  BY <1>3, <1>4, <1>5, OpenedTogether DEF Sections, Sequences, Reads
<1>8. p \o FlattenSeq(tt) \in Calls
  BY <1>6, <1>7, OpenedCall DEF Sections
<1> QED BY <1>6, <1>8 DEF p, tt

LEMMA LoadAndFlush ==
  ASSUME NEW byte \in Nat, NEW to \in Nat
  PROVE  Load(byte) \o Flush("clwb", to) \in Sequences \cap Orderly
<1>1. Load(byte) \in Reads /\ Flush("clwb", to) \in Writes
  BY AccessKinds DEF FlushOps
<1>2. Load(byte) \o Flush("clwb", to) \in Sequences
  BY <1>1, SectionThenAny, KindsAreSequences DEF Reads
<1>3. Load(byte) \o Flush("clwb", to) \in Orderly
  BY <1>1, OrderlyClosed DEF Closed, Reads, Writes
<1> QED BY <1>2, <1>3

LEMMA StoreAndFlush ==
  ASSUME NEW byte \in Nat, NEW to \in Nat, to \div 64 = byte \div 64
  PROVE  Store(byte) \o Flush("clwb", to) \in Sequences \cap Orderly
<1>1. "clwb" \in FlushOps
  BY DEF FlushOps
<1> QED BY <1>1, FlushedStore, KindsAreSequences DEF Writes

\* read_8_clwb, store_8_clwb_read and store_8_clwb_read_1.
LEMMA ReadStepsIn ==
  ASSUME NEW at \in Nat
  PROVE  /\ Read8Clwb(at) \in Sections \cap Calls \cap Orderly
         /\ Store8ClwbRead(at) \in Sections \cap Calls \cap Orderly
         /\ Store8ClwbRead1(at) \in Sections \cap Calls \cap Orderly
<1>1. Read8Clwb(at) \in Sections \cap Calls \cap Orderly
  <2> DEFINE ss == [k \in 1 .. 8 |-> Load(at + 8 * (k - 1)) \o Flush("clwb", at)]
  <2>1. \A k \in 1 .. 8 : ss[k] \in Sequences \cap Orderly
    <3> SUFFICES ASSUME NEW k \in 1 .. 8
                 PROVE  Load(at + 8 * (k - 1)) \o Flush("clwb", at) \in Sequences \cap Orderly
      OBVIOUS
    <3>1. at + 8 * (k - 1) \in Nat
      OBVIOUS
    <3> QED BY <3>1, LoadAndFlush
  <2>2. Read8Clwb(at) = LoadAddr \o RecTime \o FlattenSeq([k \in 1 .. 8 |-> ss[k] \o RecTime])
    BY DEF Read8Clwb, Steps, Repeat
  <2>3. ss \in [1 .. 8 -> Sequences \cap Orderly]
    BY <2>1
  <2> HIDE DEF ss
  <2> QED BY <2>2, <2>3, StepsIn
<1>2. Store8ClwbRead(at) \in Sections \cap Calls \cap Orderly
  <2> DEFINE ss == [k \in 1 .. 8 |->
               (IF k - 1 = 0 THEN Store(at) ELSE Load(at + 8 * (k - 1))) \o Flush("clwb", at)]
  <2>1. \A k \in 1 .. 8 : ss[k] \in Sequences \cap Orderly
    <3> SUFFICES ASSUME NEW k \in 1 .. 8
                 PROVE  (IF k - 1 = 0 THEN Store(at) ELSE Load(at + 8 * (k - 1))) \o Flush("clwb", at)
                          \in Sequences \cap Orderly
      OBVIOUS
    <3>1. at + 8 * (k - 1) \in Nat
      OBVIOUS
    <3> QED BY <3>1, LoadAndFlush, StoreAndFlush
  <2>2. Store8ClwbRead(at) = LoadAddr \o RecTime \o FlattenSeq([k \in 1 .. 8 |-> ss[k] \o RecTime])
    BY DEF Store8ClwbRead, Steps, Repeat
  <2>3. ss \in [1 .. 8 -> Sequences \cap Orderly]
    BY <2>1
  <2> HIDE DEF ss
  <2> QED BY <2>2, <2>3, StepsIn
<1>3. Store8ClwbRead1(at) \in Sections \cap Calls \cap Orderly
  <2> DEFINE ss == [k \in 1 .. 2 |->
               (IF k - 1 = 0 THEN Store(at) ELSE Load(at + 32)) \o Flush("clwb", at)]
  <2>1. \A k \in 1 .. 2 : ss[k] \in Sequences \cap Orderly
    <3>1. at + 32 \in Nat
      OBVIOUS
    <3> QED BY <3>1, LoadAndFlush, StoreAndFlush
  <2>2. Store8ClwbRead1(at) = LoadAddr \o RecTime \o FlattenSeq([k \in 1 .. 2 |-> ss[k] \o RecTime])
    BY DEF Store8ClwbRead1, Steps, Repeat
  <2>3. ss \in [1 .. 2 -> Sequences \cap Orderly]
    BY <2>1
  <2> HIDE DEF ss
  <2> QED BY <2>2, <2>3, StepsIn
<1> QED BY <1>1, <1>2, <1>3

\* store_8_skip_*_no_prefetch: the flush is that of the line at rsi, which is
\* that of every store as long as all skips stay on it.
LEMMA SkipStepsIn ==
  ASSUME NEW m \in Nat, NEW n \in Nat, NEW skip \in {8, 16, 32}, n * skip <= 64
  PROVE  StoreSkip(64 * m, n, skip) \in Sections \cap Calls \cap Orderly
<1> DEFINE at == 64 * m
           ss == [k \in 1 .. n |-> Store(at + skip * (k - 1)) \o Flush("clwb", at)]
<1>1. ASSUME NEW k \in 1 .. n PROVE ss[k] \in Sequences \cap Orderly
  <2> DEFINE o == skip * (k - 1)
  <2>1. o \in Nat /\ o < 64
    <3>1. CASE skip = 8
      BY <3>1
    <3>2. CASE skip = 16
      BY <3>2
    <3>3. CASE skip = 32
      BY <3>3
    <3> QED BY <3>1, <3>2, <3>3
  <2> HIDE DEF o
  <2>2. at + o \in Nat /\ at \in Nat /\ (at + o) \div 64 = m /\ at \div 64 = m
    BY <2>1, LineNumber
  <2> HIDE DEF at
  <2>3. Store(at + o) \o Flush("clwb", at) \in Sequences \cap Orderly
    BY <2>2, StoreAndFlush
  <2> QED BY <2>3 DEF o
<1>2. StoreSkip(at, n, skip) = LoadAddr \o RecTime \o FlattenSeq([k \in 1 .. n |-> ss[k] \o RecTime])
  BY DEF StoreSkip, Steps, Repeat
<1>3. ss \in [1 .. n -> Sequences \cap Orderly]
  BY <1>1
<1> HIDE DEF ss
<1>4. StoreSkip(at, n, skip) \in Sections \cap Calls \cap Orderly
  BY <1>2, <1>3, StepsIn
<1> QED BY <1>4

\* What store_help and load_help make of the accesses they time.
LEMMA StoreHelpSections ==
  ASSUME NEW at \in Nat, NEW instructions \in Sequences, NEW prefetch \in BOOLEAN
  PROVE  StoreHelp(at, instructions, prefetch) \in Sections \cap Calls
<1> DEFINE a == LoadAddr \o (IF prefetch THEN LoadCacheLine(at) ELSE <<>>)
           b == a \o TimingBeg
           c == b \o instructions
           d == c \o Mfence
<1>1. a \in Sections
  <2>1. (IF prefetch THEN LoadCacheLine(at) ELSE <<>>) \in Sections
    BY PreparedLines, NoneEmpty DEF Reads
  <2> QED BY <2>1, FenceAtoms, SectionsAndCalls DEF Closed, LoadAddr
<1>2. Opened(a)
  <2>1. (IF prefetch THEN LoadCacheLine(at) ELSE <<>>) \in Seq(Instruction)
    BY PreparedLines, NoneEmpty DEF Reads, Sections, Sequences
  <2> QED BY <2>1, FenceAtoms, OpenedTogether DEF LoadAddr, Sections, Sequences
<1> HIDE DEF a
<1>3. b \in Sections
  BY <1>1, StampAtoms, SectionsAndCalls DEF Closed
<1>4. Opened(b)
  BY <1>1, <1>2, StampAtoms, OpenedTogether DEF Sections, Sequences
<1> HIDE DEF b
<1>5. c \in Sequences
  BY <1>3, SectionThenAny
<1>6. Opened(c)
  BY <1>3, <1>4, OpenedTogether DEF Sections, Sequences
<1> HIDE DEF c
<1>7. d \in Sections
  BY <1>5, FenceAtoms, AnyThenSection
<1>8. Opened(d)
  BY <1>5, <1>6, FenceAtoms, OpenedTogether DEF Sections, Sequences
<1> HIDE DEF d
<1>9. d \o TimingEnd \in Sections
  BY <1>7, StampAtoms, SectionsAndCalls DEF Closed
<1>10. Opened(d \o TimingEnd)
  BY <1>7, <1>8, StampAtoms, OpenedTogether DEF Sections, Sequences
<1>11. d \o TimingEnd \in Calls
  BY <1>9, <1>10, OpenedCall DEF Sections
<1>12. StoreHelp(at, instructions, prefetch) = d \o TimingEnd
  BY DEF StoreHelp, a, b, c, d
<1> QED BY <1>9, <1>11, <1>12

LEMMA StoreHelpIn ==
  ASSUME NEW G, Closed(G), LoadAddr \in G, TimingBeg \in G, TimingEnd \in G, Mfence \in G,
         NEW at \in Nat, LoadCacheLine(at) \in G,
         NEW instructions \in G, NEW prefetch \in BOOLEAN
  PROVE  StoreHelp(at, instructions, prefetch) \in G
BY DEF StoreHelp, Closed

LEMMA LoadHelpIn ==
  ASSUME NEW at \in Nat, NEW instructions \in Reads
  PROVE  LoadHelp(at, instructions) \in Reads
BY KindsClosed, FenceAtoms, StampAtoms, PreparedLines DEF LoadHelp, LoadAddr, Closed, Reads

\* A call of latency_tasks, at the beginning of a line: it begins behind a
\* fence of its own, and leaves nothing pending.
LEMMA BenchFuncIn ==
  ASSUME NEW f \in AdvancingFuncs \cup {"baseline"}, NEW m \in Nat
  PROVE  BenchFunc(f, 64 * m) \in Sections \cap Calls \cap Orderly
<1> DEFINE at == 64 * m
<1>1. at \in Nat
  OBVIOUS
<1>2. CASE f = "baseline"
  <2>1. Baseline \in Sections /\ Baseline \in Orderly
    BY StampAtoms, SectionsAndCalls, OrderlyClosed DEF Closed, Baseline
  <2>2. Opened(Baseline)
    BY StampAtoms, OpenedTogether DEF Baseline, Sections, Sequences
  <2>3. Baseline \in Calls
    BY <2>1, <2>2, OpenedCall DEF Sections
  <2> QED BY <1>2, <2>1, <2>3 DEF BenchFunc
<1>3. CASE f = "store_8_clwb_no_prefetch"
  <2> DEFINE w == StoreClwb(at, 8, 8)
  <2>1. w \in Writes
    BY StoreClwbIn
  <2> HIDE DEF w
  <2>2. StoreHelp(at, w, FALSE) \in Sections \cap Calls
    BY <1>1, <2>1, StoreHelpSections, KindsAreSequences
  <2>3. StoreHelp(at, w, FALSE) \in Orderly
    <3>1. w \in Orderly /\ LoadAddr \in Orderly /\ Mfence \in Orderly /\ LoadCacheLine(at) \in Orderly
      BY <1>1, <2>1, FenceAtoms, PreparedLines DEF LoadAddr, Writes, Reads
    <3> QED BY <1>1, <3>1, StampAtoms, OrderlyClosed, StoreHelpIn
  <2>4. BenchFunc(f, at) = StoreHelp(at, w, FALSE)
    BY <1>3 DEF BenchFunc, w
  <2> QED BY <2>2, <2>3, <2>4
<1>4. CASE f \in {"read_8_clwb", "store_8_clwb_read", "store_8_clwb_read_1"}
  <2> HIDE DEF at
  <2>1. /\ Read8Clwb(at) \in Sections \cap Calls \cap Orderly
        /\ Store8ClwbRead(at) \in Sections \cap Calls \cap Orderly
        /\ Store8ClwbRead1(at) \in Sections \cap Calls \cap Orderly
    BY <1>1, ReadStepsIn
  <2>2. BenchFunc(f, at) \in Sections \cap Calls \cap Orderly
    BY <1>4, <2>1 DEF BenchFunc
  <2> QED BY <2>2 DEF at
<1>5. CASE f \in {"store_8_skip_8_no_prefetch", "store_8_skip_16_no_prefetch",
                  "store_8_skip_32_no_prefetch"}
  <2>1. /\ StoreSkip(at, 8, 8) \in Sections \cap Calls \cap Orderly
        /\ StoreSkip(at, 4, 16) \in Sections \cap Calls \cap Orderly
        /\ StoreSkip(at, 2, 32) \in Sections \cap Calls \cap Orderly
    BY SkipStepsIn
  <2> HIDE DEF at
  <2>2. BenchFunc(f, at) \in Sections \cap Calls \cap Orderly
    BY <1>5, <2>1 DEF BenchFunc
  <2> QED BY <2>2 DEF at
<1> QED BY <1>2, <1>3, <1>4, <1>5 DEF AdvancingFuncs

LEMMA WriteResultsIn ==
  ASSUME NEW n \in Nat, NEW j \in Nat
  PROVE  WriteResults(n, j) \in Writes
<1> DEFINE ss == [k \in 1 .. n |-> Access("store", "results", 8 * (j + (k - 1)))]
<1>1. ASSUME NEW k \in 1 .. n PROVE ss[k] \in Writes
  <2>1. 8 * (j + (k - 1)) \in Nat
    OBVIOUS
  <2> QED BY <2>1, AccessKinds
<1>2. WriteResults(n, j) = FlattenSeq(ss)
  BY DEF WriteResults, Repeat
<1>3. ss \in [1 .. n -> Writes]
  BY <1>1
<1> HIDE DEF ss
<1> QED BY <1>2, <1>3, KindsClosed, FlattenIn

LEMMA ResultCntIn == \A f : ResultCnt(f) \in Nat
BY DEF ResultCnt

\* latency_job's loops: each call behind the results of the one before.
LEMMA SequentialLoopIn ==
  ASSUME NEW f \in AdvancingFuncs \cup {"baseline"}, NEW skip \in {0, 64, 128}, NEW calls \in Nat
  PROVE  SequentialLoop(f, skip, calls) \in Writes
<1> DEFINE r == ResultCnt(f)
           ss == [c \in 1 .. calls |-> BenchFunc(f, (c - 1) * skip) \o WriteResults(r, (c - 1) * r)]
<1>1. r \in Nat
  BY ResultCntIn
<1>2. ASSUME NEW c \in 1 .. calls PROVE ss[c] \in Writes
  <2> HIDE DEF r
  <2>1. c - 1 \in Nat
    OBVIOUS
  <2>2. PICK m \in Nat : (c - 1) * skip = 64 * m
    <3>1. CASE skip = 0
      BY <2>1, <3>1
    <3>2. CASE skip = 64
      BY <2>1, <3>2
    <3>3. CASE skip = 128
      <4>1. 2 * (c - 1) \in Nat /\ (c - 1) * 128 = 64 * (2 * (c - 1))
        BY <2>1
      <4> QED BY <3>3, <4>1
    <3> QED BY <3>1, <3>2, <3>3
  <2>3. (c - 1) * r \in Nat
    BY <1>1, <2>1
  <2>4. BenchFunc(f, (c - 1) * skip) \in Writes
    BY <2>2, BenchFuncIn DEF Writes
  <2>5. WriteResults(r, (c - 1) * r) \in Writes
    BY <1>1, <2>3, WriteResultsIn
  <2> QED BY <2>4, <2>5, KindsClosed DEF Closed
<1>3. SequentialLoop(f, skip, calls) = FlattenSeq(ss)
  BY DEF SequentialLoop, Repeat
<1>4. ss \in [1 .. calls -> Writes]
  BY <1>2
<1> HIDE DEF ss
<1> QED BY <1>3, <1>4, KindsClosed, FlattenIn

\* BASIC_OP_MASK leaves the beginnings of lines.
LineStarts == {64 * m : m \in Nat}

LEMMA RandomLoopIn ==
  ASSUME NEW f \in AdvancingFuncs, NEW places \in Seq(LineStarts)
  PROVE  RandomLoop(f, places) \in Writes
<1> DEFINE r == ResultCnt(f)
           n == Len(places)
           ss == [c \in 1 .. n |-> Access("load", "results", 0) \o BenchFunc(f, places[(c - 1) + 1])
                                     \o WriteResults(r, (c - 1) * r)]
<1>1. r \in Nat /\ n \in Nat
  BY ResultCntIn, LenProperties
<1>2. ASSUME NEW c \in 1 .. n PROVE ss[c] \in Writes
  <2>1. places[(c - 1) + 1] \in LineStarts
    <3>1. (c - 1) + 1 = c
      BY <1>1
    <3>2. places[c] \in LineStarts
      BY ElementOfSeq
    <3> QED BY <3>1, <3>2
  <2> HIDE DEF r, n
  <2>2. PICK m \in Nat : places[(c - 1) + 1] = 64 * m
    BY <2>1 DEF LineStarts
  <2>3. c - 1 \in Nat /\ (c - 1) * r \in Nat
    BY <1>1
  <2>4. BenchFunc(f, places[(c - 1) + 1]) \in Writes
    BY <2>2, BenchFuncIn DEF Writes
  <2>5. WriteResults(r, (c - 1) * r) \in Writes
    BY <1>1, <2>3, WriteResultsIn
  <2>6. Access("load", "results", 0) \in Writes
    BY AccessKinds DEF Writes
  <2> QED BY <2>4, <2>5, <2>6, KindsClosed DEF Closed
<1>3. RandomLoop(f, places) = FlattenSeq(ss)
  BY DEF RandomLoop, Repeat
<1>4. ss \in [1 .. n -> Writes]
  BY <1>2
<1> HIDE DEF ss, n
<1> QED BY <1>1, <1>3, <1>4, KindsClosed, FlattenIn

\* What is in one of the classes is well fenced.
LEMMA InClass ==
  /\ \A p \in Sequences : p \in Orderly \/ p \in Unflushed => WellFenced(p)
  /\ \A p \in Writes \cup Reads : WellFenced(p)
BY FlushingWellFenced, UnflushedWellFenced, KindsAreSequences DEF Orderly, Unflushed, Writes, Reads

\* The functions of the longer table.
LEMMA StoreHelpWellFenced ==
  ASSUME NEW instructions \in Sequences, instructions \in Orderly \/ instructions \in Unflushed,
         NEW prefetch \in BOOLEAN
  PROVE  WellFenced(StoreHelp(0, instructions, prefetch))
<1> DEFINE h == StoreHelp(0, instructions, prefetch)
<1>1. h \in Sequences
  BY StoreHelpSections, KindsAreSequences
<1>2. ASSUME instructions \in Orderly PROVE h \in Orderly
  <2>1. LoadAddr \in Orderly /\ Mfence \in Orderly /\ LoadCacheLine(0) \in Orderly
    BY FenceAtoms, PreparedLines DEF LoadAddr, Reads
  <2> QED BY <1>2, <2>1, StampAtoms, OrderlyClosed, StoreHelpIn
<1>3. ASSUME instructions \in Unflushed PROVE h \in Unflushed
  <2>1. LoadAddr \in Unflushed /\ Mfence \in Unflushed /\ LoadCacheLine(0) \in Unflushed
    BY FenceAtoms, PreparedLines DEF LoadAddr
  <2> QED BY <1>3, <2>1, StampAtoms, OrderlyClosed, StoreHelpIn
<1> QED BY <1>1, <1>2, <1>3, InClass

LEMMA LongerTableWellFenced ==
  ASSUME NEW size \in Nat
  PROVE  /\ \A p \in StoreWhole(size) : WellFenced(p)
         /\ size \in {4, 8, 16, 32} => \A p \in StorePart(size) : WellFenced(p)
         /\ \A p \in LoadWhole(size) : WellFenced(p)
<1>1. /\ StoreSize(0, size, 8) \in Calls \cap Unflushed
      /\ StoreSize(0, size, 32) \in Calls \cap Unflushed
      /\ StoreSize(0, size, 4) \in Calls \cap Unflushed
  BY StoresIn
<1>2. StoreNt(0, size) \in Calls \cap Unflushed
  BY NtStoresIn DEF Writes
<1>3. /\ StoreFlush(0, size, 32, "clwb") \in Writes
      /\ StoreFlush(0, size, 32, "clflushopt") \in Writes
      /\ StoreFlush(0, size, 32, "clflush") \in Writes
      /\ StoreFlush(0, size, 8, "clflush") \in Writes
  <2>1. 64 * 0 = 0
    OBVIOUS
  <2>2. \A op \in FlushOps : StoreFlush(0, size, 32, op) \in Writes /\ StoreFlush(0, size, 8, op) \in Writes
    BY <2>1, StoreFlushIn
  <2> QED BY <2>2 DEF FlushOps
<1>4. ASSUME NEW p \in StoreWhole(size) PROVE WellFenced(p)
  <2>1. PICK prefetch \in BOOLEAN,
             instructions \in {StoreSize(0, size, 8), StoreSize(0, size, 32), StoreNt(0, size),
                       StoreFlush(0, size, 32, "clwb"), StoreFlush(0, size, 32, "clflushopt"),
                       StoreFlush(0, size, 32, "clflush"), StoreFlush(0, size, 8, "clflush")} :
          p = StoreHelp(0, instructions, prefetch)
    BY <1>4 DEF StoreWhole
  <2>2. instructions \in Calls \cap Unflushed \/ instructions \in Writes
    BY <1>1, <1>2, <1>3, <2>1
  <2> QED BY <2>1, <2>2, StoreHelpWellFenced, KindsAreSequences DEF Writes
<1>5. ASSUME size \in {4, 8, 16, 32}, NEW p \in StorePart(size) PROVE WellFenced(p)
  <2> DEFINE w == IF size = 4 THEN 4 ELSE 8
  <2>1. w \in {4, 8}
    OBVIOUS
  <2>2. p \in {StoreHelp(0, StoreSize(0, size, w), FALSE), StoreHelp(0, StoreClwb(0, size, w), FALSE)}
    BY <1>5 DEF StorePart
  <2> HIDE DEF w
  <2>3. StoreClwb(0, size, w) \in Writes
    <3>1. 64 * 0 = 0 /\ size <= 64
      BY <1>5
    <3> QED BY <2>1, <3>1, StoreClwbIn
  <2>4. StoreSize(0, size, w) \in Calls \cap Unflushed
    BY <1>1, <2>1
  <2> QED BY <2>2, <2>3, <2>4, StoreHelpWellFenced, KindsAreSequences DEF Writes
<1>6. ASSUME NEW p \in LoadWhole(size) PROVE WellFenced(p)
  <2>1. PICK w \in {8, 32} : p = LoadHelp(0, LoadSize(0, size, w))
    BY <1>6 DEF LoadWhole
  <2>2. LoadSize(0, size, w) \in Reads
    BY LoadsIn
  <2> QED BY <2>1, <2>2, LoadHelpIn, InClass
<1> QED BY <1>4, <1>5, <1>6

(***************************************************************************)
(* The passes of read_after_write_job, and cachefence.                     *)
(***************************************************************************)

LEMMA StoreFlushLineIn ==
  ASSUME NEW byte \in Nat
  PROVE  StoreFlushLine(byte) \in Writes
BY FlushedStore DEF StoreFlushLine, FlushOps

LEMMA StoreFlushLinesIn ==
  ASSUME NEW at \in Nat, NEW size \in Nat
  PROVE  /\ FlattenSeq([l \in 1 .. size \div 64 |-> StoreFlushLine(at + 64 * (l - 1))]) \in Writes
         /\ FlattenSeq([l \in 1 .. size \div 64 |-> NtStore(at + 64 * (l - 1))]) \in Writes
         /\ FlattenSeq([l \in 1 .. size \div 64 |-> Load(at + 64 * (l - 1))]) \in Reads
<1> DEFINE n == size \div 64
           ss == [l \in 1 .. n |-> StoreFlushLine(at + 64 * (l - 1))]
           nn == [l \in 1 .. n |-> NtStore(at + 64 * (l - 1))]
           ll == [l \in 1 .. n |-> Load(at + 64 * (l - 1))]
<1>1. n \in Nat
  OBVIOUS
<1> HIDE DEF n
<1>2. ASSUME NEW l \in 1 .. n
      PROVE  ss[l] \in Writes /\ nn[l] \in Writes /\ ll[l] \in Reads
  <2>1. at + 64 * (l - 1) \in Nat
    BY <1>1
  <2> QED BY <2>1, StoreFlushLineIn, AccessKinds
<1>3. ss \in [1 .. n -> Writes] /\ nn \in [1 .. n -> Writes] /\ ll \in [1 .. n -> Reads]
  BY <1>2
<1> HIDE DEF ss, nn, ll
<1>4. FlattenSeq(ss) \in Writes /\ FlattenSeq(nn) \in Writes /\ FlattenSeq(ll) \in Reads
  BY <1>1, <1>3, KindsClosed, FlattenIn
<1> QED BY <1>4 DEF ss, nn, ll, n

LEMMA StrideIn ==
  ASSUME NEW size \in Nat, NEW skip \in Nat, NEW count \in Nat
  PROVE  /\ StrideStoreclwb(size, skip, count) \in Writes
         /\ StrideNt(size, skip, count) \in Writes
         /\ ChasingLoadnt(size, skip, count) \in Reads
         /\ StrideReadAfterWrite(size, skip, count) \in Reads
<1> DEFINE S(at) == FlattenSeq([l \in 1 .. size \div 64 |-> StoreFlushLine(at + 64 * (l - 1))])
           N(at) == FlattenSeq([l \in 1 .. size \div 64 |-> NtStore(at + 64 * (l - 1))])
           L(at) == FlattenSeq([l \in 1 .. size \div 64 |-> Load(at + 64 * (l - 1))])
           ss == [b \in 1 .. count |-> S(skip * (b - 1))]
           nn == [b \in 1 .. count |-> N(skip * (b - 1))]
           ll == [b \in 1 .. count |-> L(skip * (b - 1))]
           rr == [b \in 1 .. count |->
                    S(skip * (b - 1)) \o Mfence \o N(skip * (b - 1)) \o Mfence]
<1>1. /\ StrideStoreclwb(size, skip, count) = FlattenSeq(ss)
      /\ StrideNt(size, skip, count) = FlattenSeq(nn)
      /\ ChasingLoadnt(size, skip, count) = FlattenSeq(ll)
      /\ StrideReadAfterWrite(size, skip, count) = FlattenSeq(rr)
  BY DEF StrideStoreclwb, StrideNt, ChasingLoadnt, StrideReadAfterWrite, Blocks, Lines, Repeat
<1>2. \A at \in Nat : S(at) \in Writes /\ N(at) \in Writes /\ L(at) \in Reads
  BY StoreFlushLinesIn
<1> HIDE DEF S, N, L
<1>3. ASSUME NEW at \in Nat PROVE S(at) \o Mfence \o N(at) \o Mfence \in Reads
  <2>1. S(at) \in Writes /\ N(at) \in Writes
    BY <1>2
  <2>2. S(at) \o Mfence \in Sections
    BY <2>1, FenceAtoms, AnyThenSection, KindsAreSequences
  <2>3. S(at) \o Mfence \o N(at) \in Sequences
    BY <2>1, <2>2, SectionThenAny, KindsAreSequences
  <2>4. S(at) \o Mfence \o N(at) \o Mfence \in Sections
    BY <2>3, FenceAtoms, AnyThenSection
  <2>5. S(at) \o Mfence \o N(at) \o Mfence \in Orderly
    BY <2>1, FenceAtoms, OrderlyClosed DEF Closed, Writes
  <2> QED BY <2>4, <2>5 DEF Reads
<1>4. ASSUME NEW b \in 1 .. count
      PROVE  ss[b] \in Writes /\ nn[b] \in Writes /\ ll[b] \in Reads /\ rr[b] \in Reads
  <2>1. skip * (b - 1) \in Nat
    <3>1. b - 1 \in Nat
      OBVIOUS
    <3> QED BY <3>1
  <2> QED BY <1>2, <1>3, <2>1
<1>5. /\ ss \in [1 .. count -> Writes] /\ nn \in [1 .. count -> Writes]
      /\ ll \in [1 .. count -> Reads] /\ rr \in [1 .. count -> Reads]
  BY <1>4
<1> HIDE DEF ss, nn, ll, rr
<1>6. /\ FlattenSeq(ss) \in Writes /\ FlattenSeq(nn) \in Writes
      /\ FlattenSeq(ll) \in Reads /\ FlattenSeq(rr) \in Reads
  BY <1>5, KindsClosed, FlattenIn
<1> QED BY <1>1, <1>6

LEMMA ChasingIn ==
  ASSUME NEW size \in Nat, NEW skip \in Nat, NEW count \in Nat
  PROVE  /\ InitChasingIndex(size) \in Reads
         /\ ChasingStoreclwb(size, skip, count) \in Writes
<1> DEFINE n == size \div 64
           ii == [l \in 1 .. n |-> Access("store", "index", 8 * (l - 1))]
<1>1. n \in Nat
  OBVIOUS
<1>2. InitChasingIndex(size) \in Reads
  <2>1. ASSUME NEW l \in 1 .. n PROVE ii[l] \in Reads
    <3>1. 8 * (l - 1) \in Nat
      <4> HIDE DEF n
      <4> QED BY <1>1
    <3> QED BY <3>1, AccessKinds DEF Reads
  <2>2. InitChasingIndex(size) = FlattenSeq(ii)
    BY DEF InitChasingIndex, Repeat
  <2>3. ii \in [1 .. n -> Reads]
    BY <2>1
  <2> HIDE DEF ii, n
  <2> QED BY <1>1, <2>2, <2>3, KindsClosed, FlattenIn
<1> DEFINE T(at, byte) == Access("load", "index", (byte - at) \div 8) \o StoreFlushLine(byte)
           C(at) == FlattenSeq([l \in 1 .. n |-> T(at, at + 64 * (l - 1))])
           cc == [b \in 1 .. count |-> C(skip * (b - 1))]
<1>3. ChasingStoreclwb(size, skip, count) = FlattenSeq(cc)
  BY DEF ChasingStoreclwb, Blocks, Lines, Repeat
<1>4. ASSUME NEW at \in Nat PROVE C(at) \in Writes
  <2> DEFINE tt == [l \in 1 .. n |-> T(at, at + 64 * (l - 1))]
  <2> HIDE DEF n
  <2>1. ASSUME NEW l \in 1 .. n PROVE tt[l] \in Writes
    <3> DEFINE byte == at + 64 * (l - 1)
    <3>1. byte \in Nat /\ (byte - at) \div 8 \in Nat
      BY <1>1
    <3> HIDE DEF byte
    <3>2. T(at, byte) \in Writes
      <4>1. Access("load", "index", (byte - at) \div 8) \in Writes
        BY <3>1, AccessKinds DEF Writes
      <4>2. StoreFlushLine(byte) \in Writes
        BY <3>1, StoreFlushLineIn
      <4> QED BY <4>1, <4>2, KindsClosed DEF Closed
    <3> QED BY <3>2 DEF byte
  <2>2. tt \in [1 .. n -> Writes]
    BY <2>1
  <2> HIDE DEF tt
  <2>3. FlattenSeq(tt) \in Writes
    BY <1>1, <2>2, KindsClosed, FlattenIn
  <2> QED BY <2>3 DEF tt
<1> HIDE DEF C
<1>5. ASSUME NEW b \in 1 .. count PROVE cc[b] \in Writes
  <2>1. skip * (b - 1) \in Nat
    <3>1. b - 1 \in Nat
      OBVIOUS
    <3> QED BY <3>1
  <2> QED BY <1>4, <2>1
<1>6. cc \in [1 .. count -> Writes]
  BY <1>5
<1> HIDE DEF cc
<1>7. FlattenSeq(cc) \in Writes
  BY <1>6, KindsClosed, FlattenIn
<1> QED BY <1>2, <1>3, <1>7

\* The stamps between the passes read the clock behind a fence.
LEMMA RawPassesIn ==
  ASSUME NEW writes \in Writes, NEW reads \in Sequences, reads \in Orderly
  PROVE  RawPasses(writes, reads) \in Reads
<1> DEFINE a == RawStamp \o writes
           b == a \o Mfence
           c == b \o RawStamp
           d == c \o reads
           e == d \o Mfence
<1>1. a \in Sequences /\ a \in Orderly
  BY StampAtoms, SectionThenAny, KindsAreSequences, OrderlyClosed DEF Closed, Writes
<1> HIDE DEF a
<1>2. b \in Sections /\ b \in Orderly
  BY <1>1, FenceAtoms, AnyThenSection, OrderlyClosed DEF Closed
<1> HIDE DEF b
<1>3. c \in Sections /\ c \in Orderly
  BY <1>2, StampAtoms, SectionsAndCalls, OrderlyClosed DEF Closed
<1> HIDE DEF c
<1>4. d \in Sequences /\ d \in Orderly
  BY <1>3, SectionThenAny, OrderlyClosed DEF Closed
<1> HIDE DEF d
<1>5. e \in Sections /\ e \in Orderly
  BY <1>4, FenceAtoms, AnyThenSection, OrderlyClosed DEF Closed
<1> HIDE DEF e
<1>6. e \o RawStamp \in Sections /\ e \o RawStamp \in Orderly
  BY <1>5, StampAtoms, SectionsAndCalls, OrderlyClosed DEF Closed
<1>7. RawPasses(writes, reads) = e \o RawStamp
  BY DEF RawPasses, a, b, c, d, e
<1> QED BY <1>6, <1>7 DEF Reads

LEMMA ReadAfterWriteIn ==
  ASSUME NEW size \in Nat, NEW skip \in Nat, NEW count \in Nat
  PROVE  ReadAfterWriteJob(size, skip, count) \in Reads
<1> DEFINE a == RawPasses(StrideStoreclwb(size, skip, count), StrideNt(size, skip, count))
           b == StrideReadAfterWrite(size, skip, count)
           c == InitChasingIndex(size)
           d == RawPasses(ChasingStoreclwb(size, skip, count), ChasingLoadnt(size, skip, count))
<1>1. a \in Reads /\ b \in Reads /\ c \in Reads /\ d \in Reads
  BY StrideIn, ChasingIn, RawPassesIn, KindsAreSequences DEF Writes, Reads
<1>2. RawStamp \in Reads /\ Mfence \in Reads
  BY StampAtoms, FenceAtoms DEF Reads
<1>3. ReadAfterWriteJob(size, skip, count)
        = a \o RawStamp \o RawStamp \o b \o Mfence \o RawStamp \o c \o d
  BY DEF ReadAfterWriteJob
<1>4. \A p, q \in Reads : p \o q \in Reads
  BY KindsClosed DEF Closed
<1> HIDE DEF a, b, c, d
<1> DEFINE e == a \o RawStamp \o RawStamp
           f == e \o b \o Mfence
           g == f \o RawStamp \o c
<1>5. e \in Reads
  BY <1>1, <1>2, <1>4
<1> HIDE DEF e
<1>6. f \in Reads
  BY <1>1, <1>2, <1>4, <1>5
<1> HIDE DEF f
<1>7. g \in Reads
  BY <1>1, <1>2, <1>4, <1>6
<1> HIDE DEF g
<1>8. g \o d \in Reads
  BY <1>1, <1>4, <1>7
<1>9. ReadAfterWriteJob(size, skip, count) = g \o d
  BY <1>3 DEF e, f, g
<1> QED BY <1>8, <1>9

(***************************************************************************)
(* cachefence: what is stored is flushed, one chunk after the other.       *)
(***************************************************************************)

\* A repetition of single instructions is the sequence of them.
Singles(x, n) == FlattenSeq([k \in 1 .. n |-> <<x[k]>>])

LEMMA SinglesInPlace ==
  ASSUME NEW S, NEW n \in Nat, NEW x \in [1 .. n -> S]
  PROVE  /\ Singles(x, n) \in Seq(S) /\ Len(Singles(x, n)) = n
         /\ \A k \in 1 .. n : Singles(x, n)[k] = x[k]
<1> DEFINE ss == [k \in 1 .. n |-> <<x[k]>>]
           Ones(q, m) == q \in Seq(S) /\ Len(q) = m /\ \A k \in 1 .. m : q[k] = x[k]
<1>0. Singles(x, n) = FlattenSeq(ss)
  BY DEF Singles
<1>1. Len(ss) = n
  OBVIOUS
<1>2. \A k \in 1 .. n : ss[k] = <<x[k]>> /\ x[k] \in S
  OBVIOUS
<1>3. n = 0 => ss = <<>>
  OBVIOUS
<1> HIDE DEF ss
<1>4. PICK f : /\ FlattenSeq(ss) = IF n = 0 THEN ss ELSE f[n]
               /\ \A k \in 1 .. n : f[k] = Joins(ss, f, k)
  BY <1>1, FlattenDefined
<1>5. CASE n = 0
  <2>1. Singles(x, n) = <<>>
    BY <1>0, <1>3, <1>4, <1>5
  <2>2. <<>> \in Seq(S) /\ Len(<<>>) = 0 /\ 1 .. 0 = {}
    BY EmptySeq
  <2> QED BY <1>5, <2>1, <2>2
<1>6. CASE n # 0
  <2> DEFINE N == {m \in Nat : m + 1 <= n => Ones(f[m + 1], m + 1)}
  <2>1. 0 \in N
    <3>1. ASSUME 1 <= n PROVE Ones(f[1], 1)
      <4>1. f[1] = <<x[1]>> /\ x[1] \in S
        BY <1>2, <1>4, <3>1 DEF Joins
      <4> DEFINE y == x[1]
                 b == <<y>>
      <4>2. y \in S
        BY <4>1
      <4> HIDE DEF y
      <4>3. b \in Seq(S) /\ Len(b) = 1 /\ b[1] = y
        BY <4>2
      <4>4. f[1] = b
        BY <4>1 DEF y
      <4> HIDE DEF b
      <4> QED BY <4>3, <4>4 DEF y
    <3>2. 0 + 1 = 1
      OBVIOUS
    <3> HIDE DEF Ones
    <3> QED BY <3>1, <3>2
  <2>2. \A m \in Nat : m \in N => m + 1 \in N
    <3> SUFFICES ASSUME NEW m \in Nat, m \in N, (m + 1) + 1 <= n
                 PROVE  Ones(f[(m + 1) + 1], (m + 1) + 1)
      <4> HIDE DEF Ones
      <4> QED OBVIOUS
    <3> DEFINE i == m + 1
               y == x[i + 1]
               q == f[i]
               b == <<y>>
    <3>1. i \in Nat /\ i + 1 \in 1 .. n /\ i + 1 # 1 /\ (i + 1) - 1 = i
      OBVIOUS
    <3>2. Ones(q, i)
      OBVIOUS
    <3> HIDE DEF i, N
    <3>3. f[i + 1] = q \o b
      BY <1>2, <1>4, <3>1 DEF Joins
    <3>4. y \in S
      BY <3>1
    <3> HIDE DEF q, y
    <3>5. b \in Seq(S) /\ Len(b) = 1 /\ b[1] = y
      BY <3>4
    <3> HIDE DEF b
    <3> DEFINE r == q \o b
    <3>6. /\ r \in Seq(S) /\ Len(r) = Len(q) + Len(b)
          /\ \A k \in 1 .. Len(q) : k \in 1 .. Len(r) /\ r[k] = q[k]
          /\ \A k \in 1 .. Len(b) : Len(q) + k \in 1 .. Len(r) /\ r[Len(q) + k] = b[k]
      <4>1. q \in Seq(S) /\ b \in Seq(S)
        BY <3>2, <3>5
      <4> QED BY <4>1, WholeOfParts
    <3> HIDE DEF r
    <3>7. 1 \in 1 .. Len(b) /\ Len(r) = i + 1 /\ r[i + 1] = y
      <4>1. 1 \in 1 .. Len(b)
        BY <3>5
      <4> QED BY <3>2, <3>5, <3>6, <4>1
    <3>8. \A k \in 1 .. i + 1 : r[k] = x[k]
      <4> TAKE k \in 1 .. i + 1
      <4>1. CASE k = i + 1
        BY <3>7, <4>1 DEF y
      <4>2. CASE k # i + 1
        <5>1. k \in 1 .. i
          BY <3>1, <4>2
        <5> QED BY <3>2, <3>6, <5>1
      <4> QED BY <4>1, <4>2
    <3>9. Ones(r, i + 1)
      BY <3>6, <3>7, <3>8
    <3> QED BY <3>3, <3>9 DEF r, i
  <2>3. n - 1 \in N
    <3>1. n - 1 \in Nat
      BY <1>6
    <3> HIDE DEF N
    <3> QED BY <2>1, <2>2, <3>1, SetInduction
  <2>4. Ones(f[n], n)
    <3>1. n - 1 \in Nat /\ (n - 1) + 1 = n
      BY <1>6
    <3> HIDE DEF Ones
    <3> QED BY <2>3, <3>1
  <2> QED BY <1>0, <1>4, <1>6, <2>4
<1> QED BY <1>5, <1>6

\* What cachefence is made of.
Chunks == Calls \cap TidyOnes \cap FlushedOnes \cap Seq(RegionStores)

LEMMA ChunksClosed == Closed(Chunks) /\ Closed(Calls \cap TidyOnes \cap Seq(RegionStores))
<1>1. Closed(Seq(RegionStores))
  BY SeqClosed
<1> QED BY <1>1, SectionsAndCalls, TidyClosed, FlushedClosed DEF Chunks, Closed

LEMMA SfenceAtom == Sfence \in Chunks
<1> DEFINE x == [op |-> "sfence", mem |-> "none", line |-> 0]
<1>1. Sfence = <<x>>
  BY DEF Sfence, Plain
<1>2. x \in Instruction /\ x.op = "sfence"
  BY DEF Instruction
<1> HIDE DEF x
<1>3. x \in RegionStores /\ ~Late(x) /\ x.op \notin ClockOps /\ x.op \notin FlushOps
  BY <1>2 DEF RegionStores, Late, ClockOps, FlushOps
<1>4. <<x>> \in Seq(RegionStores)
  BY <1>3
<1> QED BY <1>1, <1>2, <1>3, <1>4, OneInstruction DEF Chunks

\* The l-th of n stores has its flush n instructions later.
LEMMA FlushedInTurn ==
  ASSUME NEW p \in Seq(Instruction), NEW q \in Seq(Instruction)
  PROVE  /\ Len(p) = Len(q)
         /\ \A l \in 1 .. Len(p) : /\ p[l].op = "store" /\ q[l].op = "clwb"
                                   /\ p[l].mem = q[l].mem /\ p[l].line = q[l].line
         => p \o q \in FlushedOnes
<1> DEFINE r == p \o q
           n == Len(p)
<1>1. /\ r \in Seq(Instruction) /\ Len(p) \in Nat /\ Len(q) \in Nat /\ Len(r) = Len(p) + Len(q)
      /\ \A k \in 1 .. Len(p) : k \in 1 .. Len(r) /\ r[k] = p[k]
      /\ \A k \in 1 .. Len(q) : Len(p) + k \in 1 .. Len(r) /\ r[Len(p) + k] = q[k]
      /\ \A k \in 1 .. Len(r) : k \in 1 .. Len(p) \/ \E j \in 1 .. Len(q) : k = Len(p) + j
  BY WholeOfParts
<1> SUFFICES ASSUME Len(p) = Len(q),
                    \A l \in 1 .. n : /\ p[l].op = "store" /\ q[l].op = "clwb"
                                      /\ p[l].mem = q[l].mem /\ p[l].line = q[l].line
             PROVE  r \in FlushedOnes
  OBVIOUS
<1> HIDE DEF r
<1>2. /\ r \in Seq(Instruction) /\ n \in Nat
      /\ \A k \in 1 .. n : k \in 1 .. Len(r) /\ r[k] = p[k]
      /\ \A k \in 1 .. n : n + k \in 1 .. Len(r) /\ r[n + k] = q[k]
      /\ \A k \in 1 .. Len(r) : k \in 1 .. n \/ \E j \in 1 .. n : k = n + j
  BY <1>1
<1> HIDE DEF n
<1>3. \A k \in 1 .. n : r[k].op = "store" /\ r[n + k].op = "clwb"
  <2> TAKE k \in 1 .. n
  <2>1. p[k].op = "store" /\ q[k].op = "clwb"
    OBVIOUS
  <2>2. r[k] = p[k] /\ r[n + k] = q[k]
    BY <1>2
  <2> QED BY <2>1, <2>2
<1>4. ASSUME NEW j \in 1 .. Len(r), r[j].op = "store"
      PROVE  \E f \in 1 .. Len(r) :
               /\ j < f /\ r[f].op \in FlushOps
               /\ r[f].mem = r[j].mem /\ r[f].line = r[j].line
  <2>1. j \in 1 .. n
    <3>1. CASE \E k \in 1 .. n : j = n + k
      BY <1>3, <1>4, <3>1
    <3> QED BY <1>2, <3>1
  <2>2. /\ n + j \in 1 .. Len(r) /\ j < n + j
        /\ r[n + j] = q[j] /\ r[j] = p[j]
    BY <1>2, <2>1
  <2>3. r[n + j].op \in FlushOps /\ r[n + j].mem = r[j].mem /\ r[n + j].line = r[j].line
    BY <2>1, <2>2 DEF FlushOps
  <2> QED BY <2>2, <2>3
<1>5. \A m \in 1 .. Len(r) : r[m].op \in Quiet
  <2> TAKE m \in 1 .. Len(r)
  <2>1. m \in 1 .. n \/ \E k \in 1 .. n : m = n + k
    BY <1>2
  <2> QED BY <1>3, <2>1 DEF Quiet
<1>6. r \in FlushedOnes
  BY <1>2, <1>4, <1>5 DEF FlushedOnes, Flushed
<1> QED BY <1>6

\* A chunk.
LEMMA ChunkIn ==
  ASSUME NEW from \in Nat, NEW cache \in Nat
  PROVE  Lines(from, cache, Store) \o FlushRange(from, from + cache) \in Chunks
<1> DEFINE n == cache \div 64
           At(l) == from + 64 * (l - 1)
           x == [l \in 1 .. n |-> [op |-> "store", mem |-> "region", line |-> At(l) \div 64]]
           y == [l \in 1 .. n |-> [op |-> "clwb", mem |-> "region", line |-> At(l) \div 64]]
           ss == [l \in 1 .. n |-> <<x[l]>>]
           ff == [l \in 1 .. n |-> <<y[l]>>]
           p == Singles(x, n)
           q == Singles(y, n)
           G == Calls \cap TidyOnes \cap Seq(RegionStores)
<1>1. n \in Nat
  OBVIOUS
<1>2. Lines(from, cache, Store) = p
  <2>1. Lines(from, cache, Store) = FlattenSeq([l \in 1 .. n |-> Store(At(l))])
    BY DEF Lines, Repeat
  <2>2. [l \in 1 .. n |-> Store(At(l))] = ss
    BY DEF Store, Access
  <2> QED BY <2>1, <2>2 DEF Singles
<1>3. FlushRange(from, from + cache) = q
  <2>1. (from + cache) - from = cache
    OBVIOUS
  <2>2. FlushRange(from, from + cache) = FlattenSeq([l \in 1 .. n |-> Flush("clwb", At(l))])
    BY <2>1 DEF FlushRange, Repeat
  <2>3. [l \in 1 .. n |-> Flush("clwb", At(l))] = ff
    BY DEF Flush, Access
  <2> QED BY <2>2, <2>3 DEF Singles
<1>4. \A l \in 1 .. n : At(l) \in Nat /\ At(l) \div 64 \in Nat
  <2> HIDE DEF n
  <2> TAKE l \in 1 .. n
  <2>1. At(l) \in Nat
    BY <1>1
  <2> HIDE DEF At
  <2> QED BY <2>1, LineOf
<1>5. /\ \A l \in 1 .. n : /\ x[l].op = "store" /\ x[l].mem = "region" /\ x[l].line = At(l) \div 64
                           /\ y[l].op = "clwb" /\ y[l].mem = "region" /\ y[l].line = At(l) \div 64
      /\ x \in [1 .. n -> Instruction] /\ y \in [1 .. n -> Instruction]
  <2> HIDE DEF n, At
  <2>1. {"store", "clwb"} \subseteq AccessOps
    BY DEF AccessOps, Buffered, StoreOps, FlushOps
  <2> QED BY <1>4, <2>1 DEF Instruction
<1>6. ASSUME NEW l \in 1 .. n PROVE ss[l] \in G /\ ff[l] \in G
  <2>1. x[l] \in Instruction /\ y[l] \in Instruction
    BY <1>5
  <2>2. ss[l] = <<x[l]>> /\ ff[l] = <<y[l]>>
    OBVIOUS
  <2>3. x[l].op = "store" /\ x[l].mem = "region" /\ y[l].op = "clwb" /\ y[l].mem = "region"
    BY <1>5
  <2> HIDE DEF x, y, ss, ff
  <2>4. /\ ~Late(x[l]) /\ ~Late(y[l]) /\ x[l] \in RegionStores /\ y[l] \in RegionStores
        /\ x[l].op \notin ClockOps /\ y[l].op \notin ClockOps
    BY <2>1, <2>3 DEF Late, RegionStores, ClockOps
  <2>5. <<x[l]>> \in Seq(RegionStores) /\ <<y[l]>> \in Seq(RegionStores)
    BY <2>4
  <2> QED BY <2>1, <2>2, <2>3, <2>4, <2>5, OneInstruction
<1>7. ss \in [1 .. n -> G] /\ ff \in [1 .. n -> G]
  BY <1>6
<1>8. /\ p \in Seq(Instruction) /\ Len(p) = n /\ \A l \in 1 .. n : p[l] = x[l]
      /\ q \in Seq(Instruction) /\ Len(q) = n /\ \A l \in 1 .. n : q[l] = y[l]
  <2>1. n \in Nat /\ x \in [1 .. n -> Instruction] /\ y \in [1 .. n -> Instruction]
    BY <1>1, <1>5
  <2> HIDE DEF n, x, y
  <2>2. p \in Seq(Instruction) /\ Len(p) = n /\ \A l \in 1 .. n : p[l] = x[l]
    BY <2>1, SinglesInPlace
  <2>3. q \in Seq(Instruction) /\ Len(q) = n /\ \A l \in 1 .. n : q[l] = y[l]
    BY <2>1, SinglesInPlace
  <2> QED BY <2>2, <2>3
<1> HIDE DEF ss, ff, x, y, n, At, G
<1>9. p \in G /\ q \in G
  <2>1. FlattenSeq(ss) \in G /\ FlattenSeq(ff) \in G
    BY <1>1, <1>7, ChunksClosed, FlattenIn DEF G
  <2> QED BY <2>1 DEF Singles, ss, ff
<1>10. p \o q \in G
  BY <1>9, ChunksClosed DEF Closed, G
<1> HIDE DEF p, q
<1>11. p \o q \in FlushedOnes
  <2>1. p \in Seq(Instruction) /\ q \in Seq(Instruction) /\ Len(p) = n /\ Len(q) = n
    BY <1>8
  <2>2. \A l \in 1 .. n : /\ p[l].op = "store" /\ q[l].op = "clwb"
                          /\ p[l].mem = q[l].mem /\ p[l].line = q[l].line
    BY <1>5, <1>8
  <2> QED BY <2>1, <2>2, FlushedInTurn
<1> QED BY <1>2, <1>3, <1>10, <1>11 DEF G, Chunks

LEMMA CacheFenceIn ==
  ASSUME NEW size \in Nat, NEW cache \in Nat \ {0}, NEW fence \in Nat \ {0}
  PROVE  CacheFence(size, cache, fence) \in Chunks
<1> DEFINE n == size \div fence
           m == fence \div cache
           Chunk(from) == Lines(from, cache, Store) \o FlushRange(from, from + cache)
           Round(f) == FlattenSeq([c \in 1 .. m |-> Chunk(f * fence + (c - 1) * cache)])
           ss == [f \in 1 .. n |-> Round(f - 1) \o Sfence]
<1>1. n \in Nat /\ m \in Nat
  BY Quotient
<1>2. CacheFence(size, cache, fence) = FlattenSeq(ss)
  BY DEF CacheFence, Repeat
<1>3. \A from \in Nat : Chunk(from) \in Chunks
  BY ChunkIn
<1> HIDE DEF n, m, Chunk
<1>4. ASSUME NEW f \in Nat PROVE Round(f) \in Chunks
  <2> DEFINE cc == [c \in 1 .. m |-> Chunk(f * fence + (c - 1) * cache)]
  <2>1. ASSUME NEW c \in 1 .. m PROVE cc[c] \in Chunks
    <3>1. c - 1 \in Nat
      BY <1>1
    <3>2. f * fence \in Nat /\ (c - 1) * cache \in Nat
      BY <3>1
    <3>3. f * fence + (c - 1) * cache \in Nat
      BY <3>2
    <3> QED BY <1>3, <3>3
  <2>2. cc \in [1 .. m -> Chunks]
    BY <2>1
  <2> HIDE DEF cc
  <2>3. FlattenSeq(cc) \in Chunks
    BY <1>1, <2>2, ChunksClosed, FlattenIn
  <2> QED BY <2>3 DEF cc
<1> HIDE DEF Round
<1>5. ASSUME NEW f \in 1 .. n PROVE ss[f] \in Chunks
  <2>1. f - 1 \in Nat
    BY <1>1
  <2>2. Round(f - 1) \in Chunks
    BY <1>4, <2>1
  <2> QED BY <2>2, SfenceAtom, ChunksClosed DEF Closed
<1>6. ss \in [1 .. n -> Chunks]
  BY <1>5
<1> HIDE DEF ss
<1> QED BY <1>1, <1>2, <1>6, ChunksClosed, FlattenIn

(***************************************************************************)
(* The sequences of the program, for all sizes, skips and numbers of       *)
(* calls.  A random access is to the beginning of a line, the rates of     *)
(* cachefence are not zero.                                                *)
(***************************************************************************)

LatencyLoops == {SequentialLoop(t[1], t[2], calls) : t \in LatencyTasks, calls \in Nat}
RandomLoops == {RandomLoop(f, places) : f \in AdvancingFuncs, places \in Seq(LineStarts)}
LongerTable ==
  (UNION {StoreWhole(size) \cup LoadWhole(size) : size \in Nat})
  \cup (UNION {StorePart(size) : size \in {4, 8, 16, 32}})
RawJobs == {ReadAfterWriteJob(size, skip, count) : size \in Nat, skip \in Nat, count \in Nat}
FenceJobs ==
  {CacheFence(size, cache, fence) : size \in Nat, cache \in Nat \ {0}, fence \in Nat \ {0}}

CodePrograms == LatencyLoops \cup RandomLoops \cup LongerTable \cup RawJobs \cup FenceJobs

\* Each timed function of common.c in the loops of latency_job, those of the
\* longer table, the passes of read_after_write_job and cachefence have every
\* fence and flush in its place, however long the loops are.
THEOREM CodeIsFenced == \A p \in CodePrograms : WellFenced(p)
<1>1. ASSUME NEW t \in LatencyTasks, NEW calls \in Nat
      PROVE  WellFenced(SequentialLoop(t[1], t[2], calls))
  <2>1. t[1] \in AdvancingFuncs \cup {"baseline"} /\ t[2] \in {0, 64, 128}
    BY DEF LatencyTasks
  <2> QED BY <2>1, SequentialLoopIn, InClass
<1>2. ASSUME NEW f \in AdvancingFuncs, NEW places \in Seq(LineStarts)
      PROVE  WellFenced(RandomLoop(f, places))
  BY RandomLoopIn, InClass
<1>3. ASSUME NEW size \in Nat, NEW skip \in Nat, NEW count \in Nat
      PROVE  WellFenced(ReadAfterWriteJob(size, skip, count))
  BY ReadAfterWriteIn, InClass
<1>4. ASSUME NEW size \in Nat, NEW cache \in Nat \ {0}, NEW fence \in Nat \ {0}
      PROVE  WellFenced(CacheFence(size, cache, fence))
  <2> DEFINE p == CacheFence(size, cache, fence)
  <2>1. p \in Calls /\ p \in TidyOnes /\ p \in FlushedOnes /\ p \in Seq(RegionStores)
    BY CacheFenceIn DEF Chunks
  <2> HIDE DEF p
  <2>2. WellFenced(p)
    BY <2>1, FlushingWellFenced, KindsAreSequences
  <2> QED BY <2>2 DEF p
<1>5. \A size \in Nat : \A p \in StoreWhole(size) \cup LoadWhole(size) : WellFenced(p)
  BY LongerTableWellFenced
<1>6. \A size \in {4, 8, 16, 32} : \A p \in StorePart(size) : WellFenced(p)
  <2>1. {4, 8, 16, 32} \subseteq Nat
    OBVIOUS
  <2> QED BY <2>1, LongerTableWellFenced
<1>7. \A p \in LatencyLoops \cup RandomLoops : WellFenced(p)
  BY <1>1, <1>2 DEF LatencyLoops, RandomLoops
<1>8. \A p \in LongerTable : WellFenced(p)
  BY <1>5, <1>6 DEF LongerTable
<1>9. \A p \in RawJobs \cup FenceJobs : WellFenced(p)
  BY <1>3, <1>4 DEF RawJobs, FenceJobs
<1> QED BY <1>7, <1>8, <1>9 DEF CodePrograms

\* Whichever of these sequences a worker runs, the one it is at has its
\* fences and flushes in place at every step.
THEOREM FencesWhereNeeded ==
  ASSUME Programs \subseteq CodePrograms
  PROVE  Spec => []FencedThroughout
<1>1. TypeOK => FencedThroughout
  BY CodeIsFenced DEF TypeOK, FencedThroughout
<1> QED BY <1>1, TypeCorrect, PTL

\* So what the stamps of the program measure is complete, and nothing but
\* their section; what it flushes is persistent when it says so; and its
\* loads are loads from memory: whatever order the CPU chooses.
THEOREM CodeMeasuresItsSections ==
  ASSUME Programs \subseteq CodePrograms
  PROVE  Spec => [](/\ SectionsClosed /\ SectionsOpened
                    /\ StampedDataPersists /\ LoadsFromMemory /\ FencedIsPersistent)
<1>1. /\ \A p \in Programs : ClosesSections(p)
      /\ \A p \in Programs : OpensSections(p)
      /\ \A p \in Programs : ClosesSections(p) /\ FlushesSections(p)
      /\ \A p \in Programs : FencesLoads(p)
      /\ \A p \in Programs : FlushesFences(p)
  BY CodeIsFenced DEF WellFenced
<1>2. Spec => []SectionsClosed
  BY <1>1, StampsCloseSections
<1>3. Spec => []SectionsOpened
  BY <1>1, StampsOpenSections
<1>4. Spec => []StampedDataPersists
  BY <1>1, StampsFindDataPersistent
<1>5. Spec => []LoadsFromMemory
  BY <1>1, LoadsComeFromMemory
<1>6. Spec => []FencedIsPersistent
  BY <1>1, FencesMakePersistent
<1> QED BY <1>2, <1>3, <1>4, <1>5, <1>6, PTL
=============================================================================
