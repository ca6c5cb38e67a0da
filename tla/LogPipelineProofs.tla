------------------------- MODULE LogPipelineProofs -------------------------
(***************************************************************************)
(* Proofs about LogPipeline, for any sweeps, runtime, queue limit and      *)
(* number of lines that others print.                                      *)
(*                                                                         *)
(* The lines of a sequence are told apart by where they stand to others:   *)
(* how far back an old LATTester_LAT_END is, which is the last start of    *)
(* a test, whether a start has its end.  What grep returns and what the    *)
(* uploads add up to is computed by recursion on a sequence, and known by  *)
(* induction on its length.                                                *)
(***************************************************************************)
EXTENDS LogPipeline, SequenceTheorems, WellFoundedInduction, TLAPS

(***************************************************************************)
(* Sequences.                                                              *)
(***************************************************************************)

\* Induction over the natural numbers, for a set.
LEMMA SetInduction ==
  ASSUME NEW S, 0 \in S, \A n \in Nat : n \in S => n + 1 \in S
  PROVE  Nat \subseteq S
<1> DEFINE R == OpToRel(<, Nat)
           T == Nat \ S
<1>1. SUFFICES ASSUME T # {} PROVE FALSE
  OBVIOUS
<1>2. T \subseteq Nat
  OBVIOUS
<1>3. PICK x \in T : \A y \in T : ~ (<<y, x>> \in R)
  <2> HIDE DEF R, T
  <2>1. IsWellFoundedOn(R, Nat)
    BY NatLessThanWellFounded DEF R
  <2> QED BY <2>1, <1>1, <1>2, WFMin
<1>4. x # 0 /\ x - 1 \in Nat
  OBVIOUS
<1>5. x - 1 \in T
  BY <1>4
<1>6. <<x - 1, x>> \in R
  BY <1>4 DEF OpToRel
<1> QED BY <1>3, <1>5, <1>6

\* Positions have a last one.
LEMMA LastPosition ==
  ASSUME NEW n \in Nat, NEW T \in SUBSET (1 .. n), T # {}
  PROVE  \E m \in T : \A k \in T : k <= m
<1> DEFINE N == {j \in Nat : \A U \in SUBSET (1 .. j) :
                               U # {} => \E m \in U : \A k \in U : k <= m}
<1>1. 0 \in N
  <2> SUFFICES ASSUME NEW U \in SUBSET (1 .. 0), U # {} PROVE FALSE
    OBVIOUS
  <2>1. 1 .. 0 = {}
    OBVIOUS
  <2> QED BY <2>1
<1>2. \A j \in Nat : j \in N => j + 1 \in N
  <2> SUFFICES ASSUME NEW j \in Nat, j \in N, NEW U \in SUBSET (1 .. j + 1), U # {}
               PROVE  \E m \in U : \A k \in U : k <= m
    OBVIOUS
  <2>1. CASE j + 1 \in U
    BY <2>1
  <2>2. CASE j + 1 \notin U
    <3>1. U \in SUBSET (1 .. j)
      BY <2>2
    <3> QED BY <3>1
  <2> QED BY <2>1, <2>2
<1>3. n \in N
  <2> HIDE DEF N
  <2> QED BY <1>1, <1>2, SetInduction
<1> QED BY <1>3

\* What is in a sequence with lines added to it.
LEMMA Added ==
  ASSUME NEW S, NEW s \in Seq(S), NEW t \in Seq(S)
  PROVE  /\ s \o t \in Seq(S)
         /\ Len(s \o t) = Len(s) + Len(t)
         /\ Len(s) \in Nat /\ Len(t) \in Nat
         /\ \A k \in 1 .. Len(s) : (s \o t)[k] = s[k]
         /\ \A k \in 1 .. Len(t) : (s \o t)[Len(s) + k] = t[k]
         /\ \A k \in 1 .. Len(s \o t) :
              k \in 1 .. Len(s) \/ \E j \in 1 .. Len(t) : k = Len(s) + j
<1>1. Len(s) \in Nat /\ Len(t) \in Nat
  BY LenProperties
<1>2. /\ s \o t \in Seq(S) /\ Len(s \o t) = Len(s) + Len(t)
      /\ \A k \in 1 .. Len(s) + Len(t) :
           (s \o t)[k] = IF k <= Len(s) THEN s[k] ELSE t[k - Len(s)]
  BY ConcatProperties
<1>3. \A k \in 1 .. Len(t) : Len(s) + k \in 1 .. Len(s) + Len(t) /\ (Len(s) + k) - Len(s) = k
                             /\ ~(Len(s) + k <= Len(s))
  BY <1>1
<1>4. \A k \in 1 .. Len(s) + Len(t) :
        k \in 1 .. Len(s) \/ (k - Len(s) \in 1 .. Len(t) /\ k = Len(s) + (k - Len(s)))
  BY <1>1
<1> QED BY <1>1, <1>2, <1>3, <1>4

\* Lines are added one by one.
LEMMA OneByOne ==
  ASSUME NEW S, NEW s \in Seq(S), NEW x \in S, NEW y \in S, NEW z \in S
  PROVE  /\ s \o <<x>> = Append(s, x)
         /\ s \o <<x, y>> = Append(Append(s, x), y)
         /\ s \o <<x, y, z>> = Append(Append(Append(s, x), y), z)
<1>1. s \o <<x>> = Append(s, x)
  OBVIOUS
<1>2. s \o <<x, y>> = Append(Append(s, x), y)
  OBVIOUS
<1>3. s \o <<x, y, z>> = Append(Append(Append(s, x), y), z)
  OBVIOUS
<1> QED BY <1>1, <1>2, <1>3

\* LastOf, of any sequence.
LastIn(s, tag) ==
  IF \E k \in DOMAIN s : s[k].tag = tag
  THEN CHOOSE k \in DOMAIN s :
         s[k].tag = tag /\ \A j \in DOMAIN s : s[j].tag = tag => j <= k
  ELSE 0

\* It is the last position of the tag.
LEMMA LastInFacts ==
  ASSUME NEW S, NEW s \in Seq(S), NEW tag
  PROVE  /\ LastIn(s, tag) \in 0 .. Len(s)
         /\ LastIn(s, tag) # 0 => LastIn(s, tag) \in 1 .. Len(s) /\ s[LastIn(s, tag)].tag = tag
         /\ \A k \in 1 .. Len(s) : s[k].tag = tag => k <= LastIn(s, tag)
<1>1. DOMAIN s = 1 .. Len(s) /\ Len(s) \in Nat
  BY LenProperties
<1>2. CASE \E k \in DOMAIN s : s[k].tag = tag
  <2> DEFINE T == {k \in 1 .. Len(s) : s[k].tag = tag}
  <2>1. PICK m \in T : \A k \in T : k <= m
    <3>1. T \in SUBSET (1 .. Len(s)) /\ T # {}
      BY <1>1, <1>2
    <3> HIDE DEF T
    <3> QED BY <1>1, <3>1, LastPosition
  <2>2. \E k \in DOMAIN s : s[k].tag = tag /\ \A j \in DOMAIN s : s[j].tag = tag => j <= k
    BY <1>1, <2>1
  <2>3. LastIn(s, tag) \in DOMAIN s /\ s[LastIn(s, tag)].tag = tag
        /\ \A j \in DOMAIN s : s[j].tag = tag => j <= LastIn(s, tag)
    BY <1>2, <2>2 DEF LastIn
  <2> QED BY <1>1, <2>3
<1>3. CASE ~ \E k \in DOMAIN s : s[k].tag = tag
  BY <1>1, <1>3 DEF LastIn
<1> QED BY <1>2, <1>3

\* What a new line makes of it.
LEMMA LastInAppend ==
  ASSUME NEW S, NEW s \in Seq(S), NEW line \in S, NEW tag
  PROVE  LastIn(Append(s, line), tag) =
           IF line.tag = tag THEN Len(s) + 1 ELSE LastIn(s, tag)
<1> DEFINE t == Append(s, line)
           m == LastIn(t, tag)
           l == LastIn(s, tag)
<1>1. /\ Len(s) \in Nat /\ t \in Seq(S) /\ Len(t) = Len(s) + 1
      /\ \A k \in 1 .. Len(s) : t[k] = s[k]
      /\ t[Len(s) + 1] = line
  BY LenProperties, AppendProperties
<1>2. /\ m \in 0 .. Len(t) /\ (m # 0 => m \in 1 .. Len(t) /\ t[m].tag = tag)
      /\ \A k \in 1 .. Len(t) : t[k].tag = tag => k <= m
  <2> HIDE DEF t
  <2> QED BY <1>1, LastInFacts
<1>3. /\ l \in 0 .. Len(s) /\ (l # 0 => l \in 1 .. Len(s) /\ s[l].tag = tag)
      /\ \A k \in 1 .. Len(s) : s[k].tag = tag => k <= l
  BY LastInFacts
<1> HIDE DEF t, m, l
<1>4. CASE line.tag = tag
  <2>1. Len(s) + 1 \in 1 .. Len(t) /\ t[Len(s) + 1].tag = tag
    BY <1>1, <1>4
  <2> QED BY <1>1, <1>2, <1>4, <2>1 DEF m, t
<1>5. CASE line.tag # tag
  <2>1. m # 0 => m \in 1 .. Len(s) /\ s[m].tag = tag
    BY <1>1, <1>2, <1>5
  <2>2. m <= l
    BY <1>1, <1>2, <1>3, <2>1
  <2>3. l # 0 => l \in 1 .. Len(t) /\ t[l].tag = tag
    BY <1>1, <1>3
  <2>4. l <= m
    BY <1>1, <1>2, <1>3, <2>3
  <2>5. m = l
    BY <1>1, <1>2, <1>3, <2>2, <2>4
  <2> QED BY <1>5, <2>5 DEF m, l, t
<1> QED BY <1>4, <1>5
-----------------------------------------------------------------------------
(***************************************************************************)
(* What grep returns, and what the uploads add up to.                      *)
(***************************************************************************)

\* The lines found among the first k, given those among the first k - 1.
Finds(tag, s, found, k) ==
  IF k = 0 THEN <<>>
  ELSE IF s[k].tag = tag THEN Append(found[k - 1], s[k]) ELSE found[k - 1]

\* The recursion of Grep has a solution.
LEMMA GrepDefined ==
  ASSUME NEW tag, NEW s, Len(s) \in Nat
  PROVE  \E found : /\ Grep(tag, s) = found[Len(s)]
                    /\ \A k \in 0 .. Len(s) : found[k] = Finds(tag, s, found, k)
<1> DEFINE Solves(f, n) == f = [k \in 0 .. n |-> Finds(tag, s, f, k)]
           N == {n \in Nat : \E f : Solves(f, n)}
<1>1. 0 \in N
  <2> DEFINE h == [k \in 0 .. 0 |-> <<>>]
  <2>1. Solves(h, 0)
    BY DEF Finds
  <2> QED BY <2>1
<1>2. \A n \in Nat : n \in N => n + 1 \in N
  <2> SUFFICES ASSUME NEW n \in Nat, n \in N PROVE n + 1 \in N
    OBVIOUS
  <2>1. PICK g : Solves(g, n)
    OBVIOUS
  <2> DEFINE h == [k \in 0 .. n + 1 |-> IF k \in 0 .. n THEN g[k] ELSE Finds(tag, s, g, k)]
  <2>2. \A k \in 0 .. n : g[k] = Finds(tag, s, g, k)
    BY <2>1
  <2>3. \A k \in 0 .. n : h[k] = g[k]
    OBVIOUS
  <2>4. \A k \in 0 .. n + 1 : Finds(tag, s, h, k) = Finds(tag, s, g, k)
    <3> HIDE DEF h
    <3>1. \A k \in 0 .. n + 1 : k # 0 => k - 1 \in 0 .. n
      OBVIOUS
    <3> QED BY <2>3, <3>1 DEF Finds
  <2>5. \A k \in 0 .. n + 1 : h[k] = Finds(tag, s, h, k)
    <3>1. \A k \in 0 .. n + 1 : h[k] = Finds(tag, s, g, k)
      BY <2>2
    <3> HIDE DEF h
    <3> QED BY <2>4, <3>1
  <2>6. Solves(h, n + 1)
    <3>1. h = [k \in 0 .. n + 1 |-> h[k]]
      OBVIOUS
    <3> HIDE DEF h
    <3> QED BY <2>5, <3>1
  <2> HIDE DEF h, Solves
  <2> QED BY <2>6
<1>3. Len(s) \in N
  <2> HIDE DEF N
  <2> QED BY <1>1, <1>2, SetInduction
<1> DEFINE F == CHOOSE f : Solves(f, Len(s))
<1>4. Solves(F, Len(s))
  BY <1>3
<1>5. Grep(tag, s) = F[Len(s)]
  BY DEF Grep, Finds
<1> HIDE DEF F
<1>6. \A k \in 0 .. Len(s) : F[k] = Finds(tag, s, F, k)
  BY <1>4
<1> QED BY <1>5, <1>6

\* Grep returns a sequence of lines that were there.
LEMMA GrepType ==
  ASSUME NEW S, NEW s \in Seq(S), NEW tag
  PROVE  Grep(tag, s) \in Seq(S)
<1>1. Len(s) \in Nat /\ \A k \in 1 .. Len(s) : s[k] \in S
  BY LenProperties, ElementOfSeq
<1>2. PICK f : /\ Grep(tag, s) = f[Len(s)]
               /\ \A k \in 0 .. Len(s) : f[k] = Finds(tag, s, f, k)
  BY <1>1, GrepDefined
<1> DEFINE N == {n \in Nat : n <= Len(s) => f[n] \in Seq(S)}
<1>3. 0 \in N
  <2>1. f[0] = <<>>
    BY <1>1, <1>2 DEF Finds
  <2> QED BY <2>1, EmptySeq
<1>4. \A n \in Nat : n \in N => n + 1 \in N
  <2> SUFFICES ASSUME NEW n \in Nat, n \in N, n + 1 <= Len(s)
               PROVE  f[n + 1] \in Seq(S)
    OBVIOUS
  <2>1. f[n] \in Seq(S) /\ s[n + 1] \in S
    BY <1>1
  <2>2. f[n + 1] = IF s[n + 1].tag = tag THEN Append(f[n], s[n + 1]) ELSE f[n]
    BY <1>1, <1>2 DEF Finds
  <2> QED BY <2>1, <2>2, AppendProperties
<1>5. Len(s) \in N
  <2> HIDE DEF N
  <2> QED BY <1>1, <1>3, <1>4, SetInduction
<1> QED BY <1>1, <1>2, <1>5

\* The one line with the tag, if there is one.
LEMMA GrepOne ==
  ASSUME NEW S, NEW s \in Seq(S), NEW tag, NEW a \in 1 .. Len(s),
         \A k \in 1 .. Len(s) : s[k].tag = tag <=> k = a
  PROVE  Grep(tag, s) = <<s[a]>>
<1>1. Len(s) \in Nat
  BY LenProperties
<1>2. PICK f : /\ Grep(tag, s) = f[Len(s)]
               /\ \A k \in 0 .. Len(s) : f[k] = Finds(tag, s, f, k)
  BY <1>1, GrepDefined
<1> DEFINE N == {n \in Nat : n <= Len(s) => f[n] = IF n < a THEN <<>> ELSE <<s[a]>>}
<1>3. 0 \in N
  <2>1. f[0] = <<>>
    BY <1>1, <1>2 DEF Finds
  <2> QED BY <1>1, <2>1
<1>4. \A n \in Nat : n \in N => n + 1 \in N
  <2> SUFFICES ASSUME NEW n \in Nat, n \in N, n + 1 <= Len(s)
               PROVE  f[n + 1] = IF n + 1 < a THEN <<>> ELSE <<s[a]>>
    OBVIOUS
  <2>1. f[n] = IF n < a THEN <<>> ELSE <<s[a]>>
    BY <1>1
  <2>2. f[n + 1] = IF n + 1 = a THEN Append(f[n], s[n + 1]) ELSE f[n]
    BY <1>1, <1>2 DEF Finds
  <2>3. Append(<<>>, s[a]) = <<s[a]>>
    OBVIOUS
  <2>4. CASE n + 1 = a
    <3>1. n < a /\ ~(n + 1 < a)
      BY <2>4
    <3> QED BY <2>1, <2>2, <2>3, <2>4, <3>1
  <2>5. CASE n + 1 # a
    <3>1. n < a <=> n + 1 < a
      BY <1>1, <2>5
    <3> QED BY <2>1, <2>2, <2>5, <3>1
  <2> QED BY <2>4, <2>5
<1>5. Len(s) \in N
  <2> HIDE DEF N
  <2> QED BY <1>1, <1>3, <1>4, SetInduction
<1> QED BY <1>1, <1>2, <1>5

\* The first k sequences joined, given the first k - 1.
Joins(ss, flat, k) == IF k = 1 THEN ss[k] ELSE flat[k - 1] \o ss[k]

\* The recursion of FlattenSeq has a solution.
LEMMA FlattenDefined ==
  ASSUME NEW ss, Len(ss) \in Nat
  PROVE  \E flat : /\ FlattenSeq(ss) = IF Len(ss) = 0 THEN ss ELSE flat[Len(ss)]
                   /\ \A k \in 1 .. Len(ss) : flat[k] = Joins(ss, flat, k)
<1> DEFINE Solves(f, n) == f = [k \in 1 .. n |-> Joins(ss, f, k)]
           N == {n \in Nat : \E f : Solves(f, n)}
<1>1. 0 \in N
  <2> DEFINE h == [k \in 1 .. 0 |-> <<>>]
  <2>1. Solves(h, 0)
    OBVIOUS
  <2> QED BY <2>1
<1>2. \A n \in Nat : n \in N => n + 1 \in N
  <2> SUFFICES ASSUME NEW n \in Nat, n \in N PROVE n + 1 \in N
    OBVIOUS
  <2>1. PICK g : Solves(g, n)
    OBVIOUS
  <2> DEFINE h == [k \in 1 .. n + 1 |-> IF k \in 1 .. n THEN g[k] ELSE Joins(ss, g, k)]
  <2>2. \A k \in 1 .. n : g[k] = Joins(ss, g, k)
    BY <2>1
  <2>3. \A k \in 1 .. n : h[k] = g[k]
    OBVIOUS
  <2>4. \A k \in 1 .. n + 1 : Joins(ss, h, k) = Joins(ss, g, k)
    <3> HIDE DEF h
    <3>1. \A k \in 1 .. n + 1 : k # 1 => k - 1 \in 1 .. n
      OBVIOUS
    <3> QED BY <2>3, <3>1 DEF Joins
  <2>5. \A k \in 1 .. n + 1 : h[k] = Joins(ss, h, k)
    <3>1. \A k \in 1 .. n + 1 : h[k] = Joins(ss, g, k)
      BY <2>2
    <3> HIDE DEF h
    <3> QED BY <2>4, <3>1
  <2>6. Solves(h, n + 1)
    <3>1. h = [k \in 1 .. n + 1 |-> h[k]]
      OBVIOUS
    <3> HIDE DEF h
    <3> QED BY <2>5, <3>1
  <2> HIDE DEF h, Solves
  <2> QED BY <2>6
<1>3. Len(ss) \in N
  <2> HIDE DEF N
  <2> QED BY <1>1, <1>2, SetInduction
<1> DEFINE F == CHOOSE f : Solves(f, Len(ss))
<1>4. Solves(F, Len(ss))
  BY <1>3
<1>5. FlattenSeq(ss) = IF Len(ss) = 0 THEN ss ELSE F[Len(ss)]
  BY DEF FlattenSeq, Joins
<1> HIDE DEF F
<1>6. \A k \in 1 .. Len(ss) : F[k] = Joins(ss, F, k)
  BY <1>4
<1> QED BY <1>5, <1>6

\* An upload comes after those before it.
LEMMA FlattenAppend ==
  ASSUME NEW S, NEW ss \in Seq(Seq(S)), NEW q \in Seq(S)
  PROVE  /\ FlattenSeq(ss) \in Seq(S)
         /\ FlattenSeq(Append(ss, q)) = FlattenSeq(ss) \o q
<1> DEFINE tt == Append(ss, q)
           n == Len(ss)
<1>1. /\ n \in Nat /\ tt \in Seq(Seq(S)) /\ Len(tt) = n + 1
      /\ \A k \in 1 .. n : tt[k] = ss[k] /\ ss[k] \in Seq(S)
      /\ tt[n + 1] = q
  BY LenProperties, AppendProperties, ElementOfSeq
<1>2. PICK f : /\ FlattenSeq(ss) = IF n = 0 THEN ss ELSE f[n]
               /\ \A k \in 1 .. n : f[k] = Joins(ss, f, k)
  BY <1>1, FlattenDefined
<1> HIDE DEF tt, n
<1>3. PICK g : /\ FlattenSeq(tt) = g[n + 1]
               /\ \A k \in 1 .. n + 1 : g[k] = Joins(tt, g, k)
  <2>1. PICK g : /\ FlattenSeq(tt) = IF Len(tt) = 0 THEN tt ELSE g[Len(tt)]
                 /\ \A k \in 1 .. Len(tt) : g[k] = Joins(tt, g, k)
    <3>1. Len(tt) \in Nat
      BY <1>1
    <3> QED BY <3>1, FlattenDefined
  <2>2. Len(tt) # 0
    BY <1>1
  <2> QED BY <1>1, <2>1, <2>2
<1> DEFINE N == {m \in Nat : m + 1 <= n => f[m + 1] \in Seq(S) /\ g[m + 1] = f[m + 1]}
<1>4. 0 \in N
  <2> SUFFICES ASSUME 1 <= n PROVE f[1] \in Seq(S) /\ g[1] = f[1]
    OBVIOUS
  <2>1. f[1] = ss[1] /\ g[1] = tt[1]
    BY <1>1, <1>2, <1>3 DEF Joins
  <2> QED BY <1>1, <2>1
<1>5. \A m \in Nat : m \in N => m + 1 \in N
  <2> SUFFICES ASSUME NEW m \in Nat, m \in N, m + 2 <= n
               PROVE  f[m + 2] \in Seq(S) /\ g[m + 2] = f[m + 2]
    OBVIOUS
  <2>1. f[m + 1] \in Seq(S) /\ g[m + 1] = f[m + 1]
    BY <1>1
  <2>2. f[m + 2] = f[m + 1] \o ss[m + 2] /\ g[m + 2] = g[m + 1] \o tt[m + 2]
    <3>1. /\ m + 2 \in 1 .. n /\ m + 2 \in 1 .. n + 1
          /\ m + 2 # 1 /\ (m + 2) - 1 = m + 1
      BY <1>1
    <3>2. f[m + 2] = Joins(ss, f, m + 2) /\ g[m + 2] = Joins(tt, g, m + 2)
      BY <1>2, <1>3, <3>1
    <3> QED BY <3>1, <3>2 DEF Joins
  <2>3. ss[m + 2] \in Seq(S) /\ tt[m + 2] = ss[m + 2]
    BY <1>1
  <2> QED BY <2>1, <2>2, <2>3, ConcatProperties
<1>6. Nat \subseteq N
  <2> HIDE DEF N
  <2> QED BY <1>4, <1>5, SetInduction
<1>7. CASE n = 0
  <2>1. ss = <<>>
    BY <1>7, EmptySeq DEF n
  <2>2. g[1] = q
    BY <1>1, <1>3, <1>7 DEF Joins
  <2>3. FlattenSeq(ss) = <<>> /\ FlattenSeq(tt) = q
    BY <1>2, <1>3, <1>7, <2>1, <2>2
  <2> QED BY <2>3, ConcatEmptySeq, EmptySeq DEF tt
<1>8. CASE n # 0
  <2>1. n - 1 \in Nat /\ (n - 1) + 1 = n
    BY <1>1, <1>8
  <2>2. f[n] \in Seq(S) /\ g[n] = f[n]
    BY <1>6, <2>1
  <2>3. g[n + 1] = g[n] \o q
    <3>1. n + 1 \in 1 .. n + 1 /\ n + 1 # 1 /\ (n + 1) - 1 = n
      <4>1. n \in Nat
        BY <1>1
      <4> QED BY <4>1, <1>8
    <3>2. g[n + 1] = Joins(tt, g, n + 1)
      BY <1>3, <3>1
    <3> QED BY <1>1, <3>1, <3>2 DEF Joins
  <2>4. FlattenSeq(ss) = f[n] /\ FlattenSeq(tt) = g[n + 1]
    BY <1>1, <1>2, <1>3, <1>8
  <2> QED BY <2>2, <2>3, <2>4 DEF tt
<1> QED BY <1>7, <1>8
-----------------------------------------------------------------------------
(***************************************************************************)
(* Type correctness.                                                       *)
(***************************************************************************)

\* The script is at a test.
Busy == {"write", "inside", "returned", "poll", "collect"}
Sleeps == {"enough", "short"}
ParserPcs == {"reading", "failed", "refused", "finished"}

ScriptType ==
  /\ sweep \in Sweeps
  /\ script \in [pc : Busy \cup {"next", "ended"}, test : 0 .. Len(sweep.tests), sleep : Sleeps]
  /\ script.pc \in Busy => script.test # 0
  /\ seconds \in 0 .. Runtime
  /\ worker \in [Tests -> {"none", "created", "begun", "measured", "reported"}]
  /\ noise \in 0 .. Noise

\* Only a line of others is of no test.
LogLine == {line \in LineType : line.tag # "noise" => line.test # 0}

LinesType == log \in Seq(LogLine) /\ output \in Seq(LogLine)

RowType == [name : Test \cup {NoTest}, throughput : Seq(Nat \X Nat)]

QueueType ==
  /\ rows \in Seq(RowType) /\ upqueue \in Seq(RowType) /\ uploads \in Seq(Seq(RowType))

ParserType ==
  /\ parser \in [pos : 0 .. Len(output), timer : 0 .. Runtime, task : Test \cup {NoTest},
                 throughput : Seq(Nat \X Nat), pc : ParserPcs]
  /\ QueueType
  /\ Len(upqueue) < QueueLimit \/ parser.pc = "refused"

TypeInv == ScriptType /\ LinesType /\ ParserType

\* What is known of the sweep.
LEMMA SweepFacts ==
  ASSUME sweep \in Sweeps
  PROVE  /\ sweep.script \in Scripts /\ Len(sweep.tests) \in Nat
         /\ Tests = 1 .. Len(sweep.tests)
         /\ \A r \in Tests : Named(r) \in Test
<1>1. sweep.script \in Scripts /\ sweep.tests \in Seq(Test)
  BY ConstantsAssumption DEF ConstantsAssumption
<1>2. Len(sweep.tests) \in Nat /\ \A r \in 1 .. Len(sweep.tests) : sweep.tests[r] \in Test
  BY <1>1, LenProperties, ElementOfSeq
<1> QED BY <1>1, <1>2 DEF Tests, Named

\* What a line is.
LEMMA LineFacts ==
  ASSUME sweep \in Sweeps, NEW r \in Tests, NEW n \in 0 .. Runtime,
         NEW tag \in {"header", "command", "start", "second", "end", "error", "begin",
                      "average", "latend", "noise"}
  PROVE  /\ Line(tag, r, n) \in LogLine
         /\ Line("noise", 0, 0) \in LogLine
         /\ Line(tag, r, n).tag = tag /\ Line(tag, r, n).test = r /\ Line(tag, r, n).n = n
BY SweepFacts, ConstantsAssumption DEF Line, LogLine, LineType, ConstantsAssumption

\* The lines of a sequence that was cut out of the log.
LEMMA CutFacts ==
  ASSUME NEW S, log \in Seq(S), NEW from \in 0 .. Len(log), NEW to \in 0 .. Len(log)
  PROVE  /\ Cut(from, to) \in Seq(S)
         /\ from = 0 \/ to = 0 => Cut(from, to) = <<>>
         /\ from # 0 /\ to # 0 =>
              /\ Len(Cut(from, to)) = IF to < from THEN 1 ELSE to - from + 1
              /\ \A j \in 1 .. Len(Cut(from, to)) :
                   j + from - 1 \in 1 .. Len(log) /\ Cut(from, to)[j] = log[from + j - 1]
<1>1. Len(log) \in Nat /\ \A k \in 1 .. Len(log) : log[k] \in S
  BY LenProperties, ElementOfSeq
<1>2. CASE from = 0 \/ to = 0
  <2>1. Cut(from, to) = <<>>
    BY <1>2 DEF Cut
  <2> QED BY <1>2, <2>1, EmptySeq
<1>3. CASE from # 0 /\ to # 0
  <2> DEFINE last == IF to < from THEN from ELSE to
  <2>1. /\ from \in Int /\ last \in Int /\ from <= last /\ last <= Len(log)
        /\ last - from + 1 = IF to < from THEN 1 ELSE to - from + 1
    BY <1>1, <1>3
  <2>2. Cut(from, to) = SubSeq(log, from, last)
    BY <1>3 DEF Cut
  <2> HIDE DEF last
  <2>3. \A i \in from .. last : log[i] \in S
    BY <1>1, <1>3, <2>1
  <2>4. /\ SubSeq(log, from, last) \in Seq(S)
        /\ Len(SubSeq(log, from, last)) = last - from + 1
        /\ \A i \in 1 .. last - from + 1 : SubSeq(log, from, last)[i] = log[from + i - 1]
    BY <2>1, <2>3, SubSeqProperties
  <2> QED BY <1>1, <1>3, <2>1, <2>2, <2>4
<1> QED BY <1>2, <1>3

\* What is put behind output.txt.
Found == IF Polls THEN Grep("average", Cut(LastOf("start"), LastOf("latend")))
         ELSE Cut(LastOf("start"), LastOf("end"))

LEMMA FoundType ==
  ASSUME NEW S, log \in Seq(S)
  PROVE  Found \in Seq(S)
<1>1. \A tag : LastOf(tag) = LastIn(log, tag) /\ LastOf(tag) \in 0 .. Len(log)
  BY LastInFacts DEF LastOf, LastIn
<1>2. /\ Cut(LastOf("start"), LastOf("latend")) \in Seq(S)
      /\ Cut(LastOf("start"), LastOf("end")) \in Seq(S)
  BY <1>1, CutFacts
<1> QED BY <1>2, GrepType DEF Found

LEMMA TypeInit ==
  ASSUME Init
  PROVE  TypeInv
<1>1. Len(sweep.tests) \in Nat /\ sweep \in Sweeps
  BY SweepFacts DEF Init
<1>2. /\ <<>> \in Seq(LogLine) /\ <<>> \in Seq(RowType) /\ <<>> \in Seq(Seq(RowType))
      /\ <<>> \in Seq(Nat \X Nat) /\ Len(<<>>) = 0
  BY EmptySeq
<1>3. ScriptType
  BY <1>1, ConstantsAssumption DEF Init, ScriptType, Busy, Sleeps, ConstantsAssumption
<1>4. LinesType
  BY <1>2 DEF Init, LinesType
<1>5. parser \in [pos : 0 .. Len(output), timer : 0 .. Runtime, task : Test \cup {NoTest},
                  throughput : Seq(Nat \X Nat), pc : ParserPcs]
  <2>1. 0 \in 0 .. Runtime /\ 0 \in 0 .. Len(output)
    BY <1>2, ConstantsAssumption DEF Init, ConstantsAssumption
  <2> QED BY <1>2, <2>1 DEF Init, Idle, ParserPcs
<1>6. QueueType /\ Len(upqueue) < QueueLimit
  BY <1>2, ConstantsAssumption DEF Init, QueueType, ConstantsAssumption
<1> QED BY <1>3, <1>4, <1>5, <1>6 DEF TypeInv, ParserType

\* The sets of the types do not change with the sweep.
LEMMA SameSweep ==
  ASSUME sweep' = sweep
  PROVE  Tests' = Tests /\ LogLine' = LogLine /\ Polls' = Polls
         /\ \A r : Named(r)' = Named(r)
BY DEF Tests, LogLine, LineType, Polls, Named

\* A step that prints lines of the log.
LEMMA TypePrints ==
  ASSUME TypeInv, sweep' = sweep, UNCHANGED <<output, parserVars>>,
         NEW lines \in Seq(LogLine), Prints(lines)
  PROVE  LinesType' /\ ParserType'
<1>1. log' \in Seq(LogLine)
  BY ConcatProperties DEF TypeInv, LinesType, Prints
<1>2. LinesType'
  BY <1>1, SameSweep DEF TypeInv, LinesType
<1>3. ParserType'
  BY DEF TypeInv, ParserType, QueueType, parserVars
<1> QED BY <1>2, <1>3

\* A step that writes lines into output.txt.
LEMMA TypeOutput ==
  ASSUME TypeInv, sweep' = sweep, UNCHANGED <<log, parserVars>>,
         NEW lines \in Seq(LogLine), output' = output \o lines
  PROVE  LinesType' /\ ParserType'
<1>1. output' \in Seq(LogLine) /\ Len(output) \in Nat /\ Len(output') >= Len(output)
  BY Added DEF TypeInv, LinesType
<1>2. LinesType'
  BY <1>1, SameSweep DEF TypeInv, LinesType
<1>3. 0 .. Len(output) \subseteq 0 .. Len(output')
  BY <1>1, LenProperties DEF LinesType
<1>4. ParserType'
  BY <1>3 DEF TypeInv, ParserType, QueueType, parserVars
<1> QED BY <1>2, <1>4

\* A step of the parser.
LEMMA TypeParser ==
  ASSUME TypeInv, ParserStep
  PROVE  TypeInv'
<1>1. /\ UNCHANGED <<sweep, scriptVars, kernelVars>>
      /\ ScriptType' /\ LinesType'
  BY SameSweep DEF ParserStep, ReadStart, ReadEnd, ReadOther, ReadEof, ParserOnly, TypeInv,
     ScriptType, LinesType, scriptVars, kernelVars
<1> DEFINE Positions == 0 .. Len(output)
           Times == 0 .. Runtime
           Tasks == Test \cup {NoTest}
           Samples == Seq(Nat \X Nat)
           States == ParserPcs
           ParserOk == parser \in [pos : Positions, timer : Times, task : Tasks,
                                   throughput : Samples, pc : States]
<1>2. ParserOk /\ QueueType /\ output \in Seq(LogLine) /\ output' = output
  BY <1>1 DEF TypeInv, ParserType, LinesType, scriptVars
<1> DEFINE Short == Len(upqueue) < QueueLimit \/ parser.pc = "refused"
<1>3. SUFFICES /\ parser' \in [pos : Positions, timer : Times, task : Tasks,
                               throughput : Samples, pc : States]
               /\ QueueType' /\ Short'
  BY <1>1, <1>2 DEF TypeInv, ParserType
<1>4. ASSUME NEW tags, Reading(tags)
      PROVE  /\ parser.pos + 1 \in 1 .. Len(output) /\ Current \in LogLine
             /\ Current.tag \in tags
  BY <1>2, <1>4, LenProperties, ElementOfSeq DEF Reading, Current
<1>5. /\ 0 \in Times /\ <<>> \in Samples /\ {"failed", "refused", "finished"} \subseteq States
      /\ \A tags : Reading(tags) => parser.pos + 1 \in Positions
      /\ Len(upqueue) < QueueLimit
  <2>1. Len(upqueue) < QueueLimit
    BY DEF TypeInv, ParserType, ParserStep, ReadStart, ReadEnd, ReadOther, ReadEof, Reading
  <2> QED BY <1>4, <2>1, EmptySeq, ConstantsAssumption DEF ConstantsAssumption, ParserPcs
<1> DEFINE Ok == parser' \in [pos : Positions, timer : Times, task : Tasks,
                              throughput : Samples, pc : States]
<1>6. ASSUME NEW condition, Asserts(condition)
      PROVE  Ok /\ QueueType' /\ Short'
  <2> HIDE DEF Positions, Times, Tasks, Samples, States
  <2> QED BY <1>2, <1>5, <1>6 DEF Asserts, QueueType
<1>13. ASSUME NEW batch \in Seq(RowType), Refused(batch)
       PROVE  Ok /\ QueueType' /\ Short'
  <2> HIDE DEF Positions, Times, Tasks, Samples, States
  <2> QED BY <1>2, <1>5, <1>13 DEF Refused, QueueType
<1>7. CASE ReadStart
  <2>1. CASE Asserts(parser.timer = 0)
    BY <1>6, <2>1
  <2>2. CASE /\ Reads([parser EXCEPT !.task = Named(Current.test), !.throughput = <<>>])
             /\ UNCHANGED <<rows, upqueue, uploads>>
    <3>1. Named(Current.test) \in Test
      <4>1. Current.test \in Tests
        BY <1>4, <1>7, SweepFacts DEF ReadStart, LogLine, LineType, TypeInv, ScriptType
      <4> QED BY <4>1, SweepFacts DEF TypeInv, ScriptType
    <3>2. parser.pos + 1 \in Positions
      BY <1>5, <1>7 DEF ReadStart
    <3>3. Ok
      <4>1. Named(Current.test) \in Tasks
        BY <3>1
      <4> HIDE DEF Positions, Times, Tasks, Samples, States
      <4> QED BY <1>2, <1>5, <2>2, <3>2, <4>1 DEF Reads
    <3> QED BY <1>2, <1>5, <2>2, <3>3 DEF QueueType
  <2> QED BY <1>7, <2>1, <2>2 DEF ReadStart
<1>8. CASE ReadEnd
  <2>1. CASE Asserts(parser.timer = TimerStop)
    BY <1>6, <2>1
  <2>3. Row \in RowType
    BY <1>2 DEF Row, RowType
  <2>4. Enqueued \in Seq(RowType)
    BY <1>2, <2>3, AppendProperties DEF QueueType, Enqueued
  <2>5. CASE Refused(Enqueued)
    BY <1>13, <2>4, <2>5
  <2>2. CASE /\ Reads([parser EXCEPT !.timer = 0])
             /\ rows' = Append(rows, Row)
             /\ Upload(Enqueued)
    <3>1. parser.pos + 1 \in Positions
      BY <1>5, <1>8 DEF ReadEnd
    <3>2. Ok
      <4> HIDE DEF Positions, Times, Tasks, Samples, States
      <4> QED BY <1>2, <1>5, <2>2, <3>1 DEF Reads
    <3> DEFINE queue == Enqueued
    <3>4. queue \in Seq(RowType)
      BY <2>4
    <3> HIDE DEF queue
    <3>5. /\ upqueue' \in Seq(RowType) /\ uploads' \in Seq(Seq(RowType))
          /\ Len(upqueue') < QueueLimit
      <4>1. CASE Len(queue) >= QueueLimit
        <5>1. uploads' = Append(uploads, queue) /\ upqueue' = <<>>
          BY <2>2, <4>1 DEF Upload, queue
        <5>2. 0 < QueueLimit
          BY ConstantsAssumption DEF ConstantsAssumption
        <5>3. Append(uploads, queue) \in Seq(Seq(RowType))
          BY <1>2, <3>4, AppendProperties DEF QueueType
        <5> QED BY <5>1, <5>2, <5>3, EmptySeq
      <4>2. CASE ~(Len(queue) >= QueueLimit)
        <5>1. uploads' = uploads /\ upqueue' = queue
          BY <2>2, <4>2 DEF Upload, queue
        <5>2. Len(queue) \in Nat /\ QueueLimit \in Nat
          BY <3>4, LenProperties, ConstantsAssumption DEF ConstantsAssumption
        <5> QED BY <1>2, <3>4, <4>2, <5>1, <5>2 DEF QueueType
      <4> QED BY <4>1, <4>2
    <3>6. rows' \in Seq(RowType)
      BY <1>2, <2>2, <2>3, AppendProperties DEF QueueType
    <3> QED BY <3>2, <3>5, <3>6 DEF QueueType
  <2> QED BY <1>8, <2>1, <2>2, <2>5 DEF ReadEnd
<1>9. CASE ReadOther
  <2>1. parser.pos + 1 \in Positions /\ Current \in LogLine
    BY <1>4, <1>5, <1>9 DEF ReadOther
  <2>2. Current.test \in Nat /\ Current.n \in 0 .. Runtime /\ Current.n \in Nat
    BY <2>1, SweepFacts, ConstantsAssumption DEF LogLine, LineType, TypeInv, ScriptType, ConstantsAssumption
  <2>3. Append(parser.throughput, <<Current.test, Current.n>>) \in Seq(Nat \X Nat)
    <3>1. <<Current.test, Current.n>> \in Nat \X Nat
      BY <2>2
    <3> QED BY <1>2, <3>1, AppendProperties
  <2>4. CASE Current.tag = "second" /\ Current.n = parser.timer + 1
    <3>1. parser' = [[parser EXCEPT !.throughput = Append(@, <<Current.test, Current.n>>),
                                    !.timer = @ + 1] EXCEPT !.pos = @ + 1]
      BY <1>9, <2>4 DEF ReadOther, Reads
    <3>2. parser.timer + 1 \in Times
      BY <1>2, <2>2, <2>4
    <3>3. Ok
      <4>1. Append(parser.throughput, <<Current.test, Current.n>>) \in Samples
        BY <2>3
      <4> HIDE DEF Positions, Times, Tasks, Samples, States
      <4> QED BY <1>2, <2>1, <3>1, <3>2, <4>1
    <3> QED BY <1>2, <1>5, <1>9, <3>3 DEF ReadOther, QueueType
  <2>5. CASE ~(Current.tag = "second" /\ Current.n = parser.timer + 1)
    <3>1. parser' = [parser EXCEPT !.pos = @ + 1]
      BY <1>9, <2>5 DEF ReadOther, Reads
    <3>2. Ok
      <4> HIDE DEF Positions, Times, Tasks, Samples, States
      <4> QED BY <1>2, <2>1, <3>1
    <3> QED BY <1>2, <1>5, <1>9, <3>2 DEF ReadOther, QueueType
  <2> QED BY <2>4, <2>5
<1>10. CASE ReadEof
  <2>1. CASE Refused(upqueue)
    BY <1>2, <1>13, <2>1 DEF QueueType
  <2>2. CASE ~Refused(upqueue)
    <3>1. /\ parser' = [parser EXCEPT !.pc = "finished"]
          /\ uploads' = Append(uploads, upqueue) /\ UNCHANGED <<rows, upqueue>>
      BY <1>10, <2>2 DEF ReadEof
    <3>2. Ok
      <4> HIDE DEF Positions, Times, Tasks, Samples, States
      <4> QED BY <1>2, <1>5, <3>1
    <3>3. QueueType' /\ Short'
      BY <1>2, <1>5, <3>1, AppendProperties DEF QueueType
    <3> QED BY <3>2, <3>3
  <2> QED BY <2>1, <2>2
<1> QED BY <1>7, <1>8, <1>9, <1>10 DEF ParserStep

LEMMA TypeStep ==
  ASSUME TypeInv, [Next]_vars
  PROVE  TypeInv'
<1>1. /\ sweep \in Sweeps /\ ScriptType /\ log \in Seq(LogLine) /\ output \in Seq(LogLine)
      /\ Len(sweep.tests) \in Nat /\ Tests = 1 .. Len(sweep.tests)
  BY SweepFacts DEF TypeInv, ScriptType, LinesType
<1>2. script.pc \in Busy => script.test \in Tests
  BY <1>1 DEF ScriptType
<1>3. /\ 0 \in 0 .. Runtime
      /\ \A tag \in {"command", "start", "end", "error", "begin", "average", "latend"} :
           \A r \in Tests : Line(tag, r, 0) \in LogLine
      /\ \A r \in Tests : Line("header", r, 0) \in LogLine
      /\ \A r \in Tests, n \in 0 .. Runtime : Line("second", r, n) \in LogLine
  <2>1. 0 \in 0 .. Runtime
    BY ConstantsAssumption DEF ConstantsAssumption
  <2> QED BY <1>1, <2>1, LineFacts
<1>4. CASE NextTest
  <2> DEFINE r == script.test + 1
             lines == IF Polls THEN <<Line("header", r, 0)>> ELSE <<>>
  <2>1. r \in Tests
    BY <1>1, <1>4 DEF NextTest, ScriptType
  <2>2. lines \in Seq(LogLine) /\ output' = output \o lines
    <3>1. Line("header", r, 0) \in LogLine
      BY <1>3, <2>1
    <3>2. CASE Polls
      <4>1. output' = Append(output, Line("header", r, 0))
        BY <1>4, <3>2 DEF NextTest
      <4> HIDE DEF r
      <4> QED BY <1>1, <3>1, <3>2, <4>1, OneByOne
    <3>3. CASE ~Polls
      BY <1>1, <1>4, <3>3, EmptySeq, ConcatEmptySeq DEF NextTest
    <3> QED BY <3>2, <3>3
  <2>3. LinesType' /\ ParserType'
    <3> HIDE DEF lines
    <3> QED BY <1>4, <2>2, TypeOutput DEF NextTest, kernelVars
  <2>4. ScriptType'
    <3>1. /\ script' = [script EXCEPT !.pc = script'.pc, !.test = r]
          /\ script'.pc \in {"next", "write"} /\ UNCHANGED <<sweep, seconds, worker, noise>>
      <4> HIDE DEF r
      <4>1. script' = [script EXCEPT !.pc = IF ~Polls /\ Passes(Named(r)) THEN "next" ELSE "write",
                                     !.test = r]
        BY <1>4 DEF NextTest, r
      <4> QED BY <1>1, <1>4, <4>1 DEF NextTest, ScriptType, kernelVars
    <3>2. r \in 0 .. Len(sweep.tests) /\ r # 0
      BY <1>1, <2>1
    <3> HIDE DEF r
    <3>3. /\ script' \in [pc : Busy \cup {"next", "ended"}, test : 0 .. Len(sweep.tests), sleep : Sleeps]
          /\ script'.test # 0
      BY <1>1, <3>1, <3>2 DEF ScriptType, Busy
    <3> QED BY <1>1, <3>1, <3>3, SameSweep DEF ScriptType
  <2> QED BY <2>3, <2>4 DEF TypeInv
<1>5. CASE Write
  <2>1. script.test \in Tests /\ script.pc = "write"
    BY <1>2, <1>5 DEF Write, Busy
  <2>2. ScriptType'
    <3>1. /\ script' = [script EXCEPT !.pc = script'.pc] /\ script'.pc \in {"inside", "returned"}
          /\ script'.test = script.test
      BY <1>1, <1>5 DEF Write, ScriptType, GoesTo
    <3>2. /\ script' \in [pc : Busy \cup {"next", "ended"}, test : 0 .. Len(sweep.tests), sleep : Sleeps]
          /\ script'.test # 0
      BY <1>1, <2>1, <3>1 DEF ScriptType, Busy
    <3>3. UNCHANGED <<sweep, seconds, noise>>
      BY <1>5 DEF Write
    <3>4. worker' \in [Tests -> {"none", "created", "begun", "measured", "reported"}]
      BY <1>1, <1>5 DEF Write, ScriptType
    <3> QED BY <1>1, <3>2, <3>3, <3>4, SameSweep DEF ScriptType
  <2> DEFINE r == script.test
             told == <<Line("command", r, 0), Line("start", r, 0)>>
             refused == <<Line("command", r, 0), Line("error", r, 0), Line("error", r, 0)>>
  <2>3. told \in Seq(LogLine) /\ refused \in Seq(LogLine)
    <3> HIDE DEF r
    <3>1. /\ Line("command", r, 0) \in LogLine /\ Line("start", r, 0) \in LogLine
          /\ Line("error", r, 0) \in LogLine
      BY <1>3, <2>1 DEF r
    <3> QED BY <3>1
  <2>4. LinesType' /\ ParserType'
    <3>1. Prints(told) \/ Prints(refused)
      BY <1>5 DEF Write
    <3> HIDE DEF told, refused
    <3> QED BY <1>5, <2>3, <3>1, TypePrints DEF Write
  <2> QED BY <2>2, <2>4 DEF TypeInv
<1>6. CASE Second
  <2>1. script.test \in Tests /\ seconds + 1 \in 0 .. Runtime
    BY <1>1, <1>2, <1>6, ConstantsAssumption DEF Second, Busy, ScriptType, ConstantsAssumption
  <2>2. ScriptType'
    BY <1>1, <1>6, <2>1, SameSweep DEF Second, ScriptType, scriptVars
  <2> DEFINE lines == <<Line("second", script.test, seconds + 1)>>
  <2>3. lines \in Seq(LogLine) /\ Prints(lines)
    <3>1. Line("second", script.test, seconds + 1) \in LogLine
      BY <1>3, <2>1
    <3> QED BY <1>3, <1>6, <2>1, <3>1 DEF Second
  <2>4. LinesType' /\ ParserType'
    <3> HIDE DEF lines
    <3> QED BY <1>6, <2>3, TypePrints DEF Second, scriptVars
  <2> QED BY <2>2, <2>4 DEF TypeInv
<1>7. CASE WriteReturns
  <2>1. script.test \in Tests
    BY <1>2, <1>7 DEF WriteReturns, Busy
  <2>2. ScriptType'
    BY <1>1, <1>3, <1>7, <2>1, SameSweep DEF WriteReturns, ScriptType, GoesTo, Busy
  <2> DEFINE lines == <<Line("end", script.test, 0)>>
  <2>3. lines \in Seq(LogLine) /\ Prints(lines)
    <3>1. Line("end", script.test, 0) \in LogLine
      BY <1>3, <2>1
    <3> QED BY <1>3, <1>7, <2>1, <3>1 DEF WriteReturns
  <2>4. LinesType' /\ ParserType'
    <3> HIDE DEF lines
    <3> QED BY <1>7, <2>3, TypePrints DEF WriteReturns
  <2> QED BY <2>2, <2>4 DEF TypeInv
<1>15. CASE Poll
  <2>1. /\ script' = [script EXCEPT !.pc = "collect", !.sleep = script'.sleep]
        /\ script'.sleep \in Sleeps /\ script.pc \in Busy
        /\ UNCHANGED <<sweep, output, kernelVars, parserVars>>
    BY <1>1, <1>15 DEF Poll, ScriptType, Sleeps, Busy
  <2>2. ScriptType'
    BY <1>1, <2>1, SameSweep DEF ScriptType, kernelVars, Busy
  <2>3. LinesType' /\ ParserType'
    BY <2>1, SameSweep DEF TypeInv, LinesType, ParserType, QueueType, kernelVars, parserVars
  <2> QED BY <2>2, <2>3 DEF TypeInv
<1>8. CASE Returned \/ SweepEnds
  <2>1. /\ UNCHANGED <<sweep, output, kernelVars, parserVars>>
        /\ \E pc \in Busy \cup {"next", "ended"} :
             GoesTo(pc) /\ (pc \in Busy => script.pc \in Busy)
    BY <1>8 DEF Returned, SweepEnds, Busy
  <2>2. ScriptType'
    BY <1>1, <2>1, SameSweep DEF ScriptType, GoesTo, kernelVars
  <2>3. LinesType' /\ ParserType'
    BY <2>1, SameSweep DEF TypeInv, LinesType, ParserType, QueueType, kernelVars, parserVars
  <2> QED BY <2>2, <2>3 DEF TypeInv
<1>9. CASE Collect
  <2>1. Found \in Seq(LogLine) /\ output' = output \o Found
    BY <1>1, <1>9, FoundType DEF Collect, Found
  <2>2. LinesType' /\ ParserType'
    BY <1>9, <2>1, TypeOutput DEF Collect, kernelVars
  <2>3. ScriptType'
    BY <1>1, <1>9, SameSweep DEF Collect, ScriptType, GoesTo, kernelVars, Busy
  <2> QED BY <2>2, <2>3 DEF TypeInv
<1>10. ASSUME NEW r \in Tests, NEW from, NEW tag \in {"begin", "average", "latend"},
              NEW to \in {"begun", "measured", "reported"}, WorkerPrints(r, from, tag, to)
       PROVE  TypeInv'
  <2>2. ScriptType'
    BY <1>1, <1>10, SameSweep DEF WorkerPrints, ScriptType, scriptVars
  <2> DEFINE lines == <<Line(tag, r, 0)>>
  <2>3. lines \in Seq(LogLine) /\ Prints(lines)
    <3>1. Line(tag, r, 0) \in LogLine
      BY <1>3, <1>10
    <3> QED BY <1>3, <1>10, <3>1 DEF WorkerPrints
  <2>4. LinesType' /\ ParserType'
    <3> HIDE DEF lines
    <3> QED BY <1>10, <2>3, TypePrints DEF WorkerPrints, scriptVars
  <2> QED BY <2>2, <2>4 DEF TypeInv
<1>11. CASE OthersPrint
  <2>1. ScriptType'
    BY <1>1, <1>11, SameSweep, ConstantsAssumption
    DEF OthersPrint, ScriptType, scriptVars, ConstantsAssumption
  <2> DEFINE lines == <<Line("noise", 0, 0)>>
  <2>3. lines \in Seq(LogLine) /\ Prints(lines)
    <3>1. Line("noise", 0, 0) \in LogLine
      BY <1>1, ConstantsAssumption DEF Line, LogLine, LineType, ConstantsAssumption
    <3> QED BY <1>11, <3>1 DEF OthersPrint
  <2>4. LinesType' /\ ParserType'
    <3> HIDE DEF lines
    <3> QED BY <1>11, <2>3, TypePrints DEF OthersPrint, scriptVars
  <2> QED BY <2>1, <2>4 DEF TypeInv
<1>12. CASE ParserStep
  BY <1>12, TypeParser
<1>13. CASE UNCHANGED vars
  BY <1>1, <1>13, SameSweep DEF vars, TypeInv, ScriptType, LinesType, ParserType, QueueType
<1>14. ASSUME NEW r \in Tests, WorkerStep(r) PROVE TypeInv'
  BY <1>10, <1>14 DEF WorkerStep, WorkerBegins, WorkerMeasures, WorkerReports
<1> QED BY <1>4, <1>5, <1>6, <1>7, <1>8, <1>9, <1>11, <1>12, <1>13, <1>14, <1>15 DEF Next, ScriptStep

\* No line, counter or queue leaves its range: the monitor prints no second
\* past its runtime (lat.c), each line the parser reads of a test is of one
\* of the sweep, and the queue of parse_bw.py holds less than an upload as
\* long as the store has refused none.
THEOREM TypeCorrect == Spec => []TypeOK
<1>1. TypeInv => TypeOK
  <2>1. LogLine \subseteq LineType
    BY DEF LogLine
  <2> QED BY <2>1, SeqMonotonic
    DEF TypeInv, ScriptType, LinesType, ParserType, QueueType, TypeOK, Busy, Sleeps, ParserPcs
<1>2. Spec => []TypeInv
  BY TypeInit, TypeStep, PTL DEF Spec
<1> QED BY <1>1, <1>2, PTL
-----------------------------------------------------------------------------
(***************************************************************************)
(* One test at a time.                                                     *)
(***************************************************************************)

\* The scripts write what testscript/subtests has them write, each its task.
TaskOf == [stridelat |-> 2, raw |-> 6, stridebw |-> 3, flushfence |-> 9]
SweepsAsWritten ==
  \A s \in Sweeps : \A r \in 1 .. Len(s.tests) : s.tests[r].task = TaskOf[s.script]

\* 20_stridelat.sh passes over no test that the kernel accepts: its sizes
\* compare as text the way they do as numbers.
NothingPassedOver ==
  \A s \in Sweeps : s.script = "stridelat" =>
    \A r \in 1 .. Len(s.tests) : Accepted(s.tests[r]) => ~Passes(s.tests[r])

\* Only the test that the script is at can be running, and a script that goes
\* on has seen its end.
TurnInv ==
  /\ script.pc = "inside" => Accepted(Named(script.test))
  /\ script.pc = "poll" => Polls
  /\ \A r \in Tests : worker[r] # "none" => IsLatency(Named(r)) /\ Accepted(Named(r))
  /\ Running \subseteq {script.test}
  /\ script.pc \in {"next", "write", "collect", "ended"} => Running = {}

\* Each LATTester_LAT_END of s has n lines behind it.
EndsBack(s, n) == \A k \in 1 .. Len(s) : s[k].tag = "latend" => k + n <= Len(s)

\* The lines printed since the command of a test that is running: the command
\* and the start, the end of the handler, the begin of the worker.
LinesSince ==
  (IF script.pc = "inside" THEN 2 ELSE 3) + (IF worker[script.test] = "created" THEN 0 ELSE 1)

\* The end of an older test is out of the tail that the script looks at.
OldEndsFarBack == Running # {} => EndsBack(log, LinesSince)

LEMMA EndsBackAppend ==
  ASSUME NEW S, NEW s \in Seq(S), NEW line \in S, line.tag # "latend",
         NEW n \in Nat, EndsBack(s, n)
  PROVE  EndsBack(Append(s, line), n + 1) /\ EndsBack(Append(s, line), n)
<1>1. /\ Len(s) \in Nat /\ Len(Append(s, line)) = Len(s) + 1
      /\ \A k \in 1 .. Len(s) : Append(s, line)[k] = s[k]
      /\ Append(s, line)[Len(s) + 1] = line
  BY LenProperties, AppendProperties
<1>2. ASSUME NEW k \in 1 .. Len(s) + 1, Append(s, line)[k].tag = "latend"
      PROVE  k + n <= Len(s)
  <2>1. k \in 1 .. Len(s) \/ k = Len(s) + 1
    BY <1>1
  <2>2. k \in 1 .. Len(s) /\ s[k].tag = "latend"
    BY <1>1, <1>2, <2>1
  <2> QED BY <2>2 DEF EndsBack
<1> QED BY <1>1, <1>2 DEF EndsBack

\* What the tail shows is near the end.
LEMMA TailShows ==
  ASSUME NEW S, log \in Seq(S), NEW k \in DOMAIN LastLines
  PROVE  \E j \in 1 .. Len(log) : LastLines[k] = log[j] /\ j + TailLines > Len(log)
<1> DEFINE from == IF Len(log) > TailLines THEN Len(log) - TailLines + 1 ELSE 1
<1>1. Len(log) \in Nat /\ TailLines \in Nat /\ TailLines > 0
      /\ \A j \in 1 .. Len(log) : log[j] \in S
  BY LenProperties, ElementOfSeq DEF TailLines
<1>2. from \in Int /\ Len(log) \in Int /\ from >= 1 /\ from + TailLines > Len(log)
  BY <1>1
<1>3. LastLines = SubSeq(log, from, Len(log))
  BY DEF LastLines
<1> HIDE DEF from
<1>4. \A j \in from .. Len(log) : log[j] \in S
  BY <1>1, <1>2
<1>5. /\ LastLines \in Seq(S)
      /\ Len(LastLines) = IF from <= Len(log) THEN Len(log) - from + 1 ELSE 0
      /\ \A i \in 1 .. Len(log) - from + 1 : LastLines[i] = log[from + i - 1]
  BY <1>2, <1>3, <1>4, SubSeqProperties
<1>6. k \in 1 .. Len(LastLines)
  BY <1>5, LenProperties
<1>7. k \in 1 .. Len(log) - from + 1
  BY <1>2, <1>5, <1>6
<1>8. /\ from + k - 1 \in 1 .. Len(log) /\ (from + k - 1) + TailLines > Len(log)
      /\ LastLines[k] = log[from + k - 1]
  <2>1. k \in Int /\ k >= 1 /\ k <= Len(log) - from + 1
    BY <1>2, <1>7
  <2>2. TailLines \in Int /\ from \in Int /\ from >= 1 /\ from + TailLines > Len(log) /\ Len(log) \in Int
    BY <1>1, <1>2
  <2> HIDE DEF LastLines
  <2>3. LastLines[k] = log[from + k - 1]
    BY <1>5, <1>7
  <2> QED BY <2>1, <2>2, <2>3
<1> QED BY <1>8

\* What a step makes of the log.
LEMMA PrintsOne ==
  ASSUME log \in Seq(LogLine), NEW line \in LogLine, Prints(<<line>>)
  PROVE  log' = Append(log, line)
BY OneByOne DEF Prints

LEMMA TurnInit ==
  ASSUME Init
  PROVE  TurnInv /\ OldEndsFarBack
<1>1. \A r \in Tests : worker[r] = "none"
  BY DEF Init
<1>2. Running = {}
  BY <1>1 DEF Running
<1> QED BY <1>1, <1>2 DEF Init, TurnInv, OldEndsFarBack

\* A command is written when nothing runs; its lines put older ends back.
LEMMA TurnWrite ==
  ASSUME TypeInv, TurnInv, OldEndsFarBack, Write
  PROVE  TurnInv' /\ OldEndsFarBack'
<1> DEFINE r == script.test
<1>1. /\ r \in Tests /\ Running = {} /\ Tests' = Tests /\ sweep' = sweep
      /\ log \in Seq(LogLine) /\ worker \in [Tests -> {"none", "created", "begun", "measured", "reported"}]
      /\ script \in [pc : Busy \cup {"next", "ended"}, test : 0 .. Len(sweep.tests), sleep : Sleeps]
  BY SweepFacts, SameSweep DEF Write, TypeInv, ScriptType, LinesType, Busy, TurnInv
<1>2. \A t \in Tests : worker[t] \notin {"created", "begun", "measured"}
  BY <1>1 DEF Running
<1>3. \A t : Named(t)' = Named(t)
  BY <1>1 DEF Named
<1>6. script'.pc # "poll"
  BY <1>1 DEF Write, GoesTo
<1>4. CASE Accepted(Named(r)) /\ IsLatency(Named(r))
  <2>1. /\ worker' = [worker EXCEPT ![r] = "created"] /\ script' = [script EXCEPT !.pc = "inside"]
        /\ Prints(<<Line("command", r, 0), Line("start", r, 0)>>)
    BY <1>4 DEF Write, GoesTo
  <2>2. script'.pc = "inside" /\ script'.test = r
    BY <1>1, <2>1
  <2>3. Running' = {r} /\ worker'[r] = "created"
        /\ \A t \in Tests : worker'[t] # "none" => t = r \/ worker[t] # "none"
    BY <1>1, <1>2, <2>1 DEF Running
  <2>4. TurnInv'
    BY <1>1, <1>3, <1>4, <2>2, <2>3 DEF TurnInv, Polls
  <2>5. EndsBack(log', 2)
    <3> DEFINE a == Line("command", r, 0)
               b == Line("start", r, 0)
    <3>1. 0 \in 0 .. Runtime
      BY ConstantsAssumption DEF ConstantsAssumption
    <3>2. a \in LogLine /\ b \in LogLine /\ a.tag # "latend" /\ b.tag # "latend"
      <4> HIDE DEF r
      <4> QED BY <1>1, <3>1, LineFacts DEF TypeInv, ScriptType
    <3>3. Prints(<<a, b>>)
      BY <2>1
    <3>4. log' = Append(Append(log, a), b)
      <4> HIDE DEF a, b
      <4> QED BY <1>1, <3>2, <3>3, OneByOne DEF Prints
    <3> HIDE DEF a, b
    <3>5. EndsBack(log, 0)
      BY <1>1, LenProperties DEF EndsBack
    <3>6. Append(log, a) \in Seq(LogLine) /\ EndsBack(Append(log, a), 1)
      <4>1. EndsBack(Append(log, a), 0 + 1)
        BY <1>1, <3>2, <3>5, EndsBackAppend
      <4> QED BY <1>1, <3>2, <4>1, AppendProperties
    <3>7. EndsBack(Append(Append(log, a), b), 2)
      <4>1. EndsBack(Append(Append(log, a), b), 1 + 1)
        BY <3>2, <3>6, EndsBackAppend
      <4> QED BY <4>1
    <3> QED BY <3>4, <3>7
  <2>6. LinesSince' = 2
    BY <2>2, <2>3 DEF LinesSince
  <2> QED BY <2>4, <2>5, <2>6 DEF OldEndsFarBack
<1>5. CASE ~(Accepted(Named(r)) /\ IsLatency(Named(r)))
  <2>1. worker' = worker /\ \E pc : script' = [script EXCEPT !.pc = pc]
    BY <1>5 DEF Write, GoesTo
  <2>2. Running' = {}
    BY <1>1, <2>1 DEF Running
  <2>3. script'.pc = "inside" => Accepted(Named(r))
    BY <1>1, <1>5 DEF Write, GoesTo
  <2>4. script'.test = r
    BY <1>1, <2>1
  <2>5. TurnInv'
    BY <1>1, <1>3, <1>6, <2>1, <2>2, <2>3, <2>4 DEF TurnInv
  <2> QED BY <2>2, <2>5 DEF OldEndsFarBack
<1> QED BY <1>4, <1>5

\* The handler of a test that runs prints on, and returns.
LEMMA TurnInside ==
  ASSUME TypeInv, TurnInv, OldEndsFarBack, Second \/ WriteReturns
  PROVE  TurnInv' /\ OldEndsFarBack'
<1>1. /\ UNCHANGED <<sweep, worker>> /\ Tests' = Tests /\ Running' = Running
      /\ script.pc = "inside" /\ script.test \in Tests /\ log \in Seq(LogLine)
      /\ script \in [pc : Busy \cup {"next", "ended"}, test : 0 .. Len(sweep.tests), sleep : Sleeps]
  BY SweepFacts, SameSweep
  DEF Second, WriteReturns, TypeInv, ScriptType, LinesType, Busy, scriptVars, Running
<1>2. /\ script'.test = script.test
      /\ \/ Second /\ script'.pc = "inside"
         \/ WriteReturns /\ script'.pc = "returned"
  BY <1>1 DEF Second, WriteReturns, scriptVars, GoesTo
<1>3. \A r : Named(r)' = Named(r)
  BY <1>1 DEF Named
<1>4. TurnInv'
  BY <1>1, <1>2, <1>3 DEF TurnInv
<1>5. PICK line \in LogLine : line.tag # "latend" /\ log' = Append(log, line)
  <2>1. CASE Second
    <3> DEFINE line == Line("second", script.test, seconds + 1)
    <3>1. seconds + 1 \in 0 .. Runtime
      BY <2>1, ConstantsAssumption DEF Second, TypeInv, ScriptType, ConstantsAssumption
    <3>2. line \in LogLine /\ line.tag # "latend"
      BY <1>1, <3>1, LineFacts DEF TypeInv, ScriptType
    <3>3. Prints(<<line>>)
      BY <2>1 DEF Second
    <3> HIDE DEF line
    <3> QED BY <1>1, <3>2, <3>3, PrintsOne
  <2>2. CASE WriteReturns
    <3> DEFINE line == Line("end", script.test, 0)
    <3>1. 0 \in 0 .. Runtime
      BY ConstantsAssumption DEF ConstantsAssumption
    <3>2. line \in LogLine /\ line.tag # "latend"
      BY <1>1, <3>1, LineFacts DEF TypeInv, ScriptType
    <3>3. Prints(<<line>>)
      BY <2>2 DEF WriteReturns
    <3> HIDE DEF line
    <3> QED BY <1>1, <3>2, <3>3, PrintsOne
  <2> QED BY <2>1, <2>2, <1>2
<1>6. LinesSince \in Nat /\ (LinesSince' = LinesSince \/ LinesSince' = LinesSince + 1)
  BY <1>1, <1>2 DEF LinesSince
<1>7. Running # {} => EndsBack(log', LinesSince + 1) /\ EndsBack(log', LinesSince)
  BY <1>1, <1>5, <1>6, EndsBackAppend DEF OldEndsFarBack
<1> QED BY <1>1, <1>4, <1>6, <1>7 DEF OldEndsFarBack

\* The worker of the test prints.
LEMMA TurnWorker ==
  ASSUME TypeInv, TurnInv, OldEndsFarBack, NEW r \in Tests, WorkerStep(r)
  PROVE  TurnInv' /\ OldEndsFarBack'
<1>1. PICK from, tag, to :
        /\ WorkerPrints(r, from, tag, to)
        /\ \/ from = "created" /\ tag = "begin" /\ to = "begun"
           \/ from = "begun" /\ tag = "average" /\ to = "measured"
           \/ from = "measured" /\ tag = "latend" /\ to = "reported"
  BY DEF WorkerStep, WorkerBegins, WorkerMeasures, WorkerReports
<1>2. /\ UNCHANGED <<sweep, script>> /\ Tests' = Tests /\ worker[r] = from
      /\ worker' = [worker EXCEPT ![r] = to] /\ Prints(<<Line(tag, r, 0)>>)
      /\ worker \in [Tests -> {"none", "created", "begun", "measured", "reported"}]
      /\ log \in Seq(LogLine)
  BY <1>1, SameSweep DEF WorkerPrints, TypeInv, ScriptType, LinesType, scriptVars
<1>3. r \in Running /\ script.test = r /\ Running = {r}
  BY <1>1, <1>2 DEF Running, TurnInv
<1>4. /\ Running' = IF to = "reported" THEN {} ELSE {r}
      /\ worker'[r] = to
      /\ \A t \in Tests : worker'[t] # "none" => worker[t] # "none"
  BY <1>1, <1>2, <1>3 DEF Running
<1>5. \A t : Named(t)' = Named(t)
  BY <1>2 DEF Named
<1>6. TurnInv'
  BY <1>2, <1>3, <1>4, <1>5 DEF TurnInv, Polls
<1>7. CASE to = "reported"
  BY <1>4, <1>6, <1>7 DEF OldEndsFarBack
<1>8. CASE to # "reported"
  <2> DEFINE line == Line(tag, r, 0)
  <2>1. line \in LogLine /\ line.tag # "latend"
    <3>1. 0 \in 0 .. Runtime
      BY ConstantsAssumption DEF ConstantsAssumption
    <3> QED BY <1>1, <1>8, <3>1, LineFacts DEF TypeInv, ScriptType
  <2>2. log' = Append(log, line)
    <3> HIDE DEF line
    <3>1. Prints(<<line>>)
      BY <1>2 DEF line
    <3> QED BY <1>2, <2>1, <3>1, PrintsOne
  <2> HIDE DEF line
  <2>3. LinesSince \in Nat /\ (LinesSince' = LinesSince \/ LinesSince' = LinesSince + 1)
    BY <1>1, <1>2, <1>3, <1>4, <1>8 DEF LinesSince
  <2>4. EndsBack(log', LinesSince + 1) /\ EndsBack(log', LinesSince)
    BY <1>2, <1>3, <2>1, <2>2, <2>3, EndsBackAppend DEF OldEndsFarBack
  <2> QED BY <1>6, <2>3, <2>4 DEF OldEndsFarBack
<1> QED BY <1>7, <1>8

\* The script goes on when the tail shows an end: it is that of its test.
LEMMA TurnPoll ==
  ASSUME TypeInv, TurnInv, OldEndsFarBack, Poll, script'.sleep = "enough"
  PROVE  Running = {}
<1> SUFFICES ASSUME Running # {} PROVE FALSE
  OBVIOUS
<1>1. PICK k \in DOMAIN LastLines : LastLines[k].tag = "latend"
  BY DEF Poll
<1>2. PICK j \in 1 .. Len(log) : log[j].tag = "latend" /\ j + TailLines > Len(log)
  BY <1>1, TailShows DEF TypeInv, LinesType
<1>3. EndsBack(log, LinesSince)
  BY DEF OldEndsFarBack
<1>4. j + LinesSince <= Len(log)
  BY <1>2, <1>3 DEF EndsBack
<1>5. LinesSince >= TailLines
  <2>1. sweep.script # "stridelat" => worker[script.test] # "created"
    <3>1. script \in [pc : Busy \cup {"next", "ended"}, test : 0 .. Len(sweep.tests), sleep : Sleeps]
      BY DEF TypeInv, ScriptType
    <3> QED BY <3>1 DEF Poll, Polls, TurnInv
  <2> QED BY <2>1 DEF LinesSince, TailLines, Poll
<1>6. LinesSince \in Nat /\ TailLines \in Nat /\ Len(log) \in Nat
  BY LenProperties DEF LinesSince, TailLines, TypeInv, LinesType
<1> QED BY <1>2, <1>4, <1>5, <1>6

LEMMA TurnStep ==
  ASSUME SweepsAsWritten, NothingPassedOver, TypeInv, TurnInv, OldEndsFarBack, [Next]_vars,
         script'.sleep = "enough"
  PROVE  TurnInv' /\ OldEndsFarBack'
<1>1. /\ sweep \in Sweeps /\ Tests = 1 .. Len(sweep.tests)
      /\ sweep.script \in Scripts
      /\ script \in [pc : Busy \cup {"next", "ended"}, test : 0 .. Len(sweep.tests), sleep : Sleeps]
      /\ script.pc \in Busy => script.test \in Tests
  BY SweepFacts DEF TypeInv, ScriptType
<1>2. ASSUME UNCHANGED <<sweep, kernelVars>>, script'.pc \notin {"inside", "poll"}, Running = {}
      PROVE  TurnInv' /\ OldEndsFarBack'
  <2>1. Tests' = Tests /\ Running' = {} /\ worker' = worker /\ \A r : Named(r)' = Named(r)
    BY <1>2 DEF Tests, Running, kernelVars, Named
  <2> QED BY <1>2, <2>1 DEF TurnInv, OldEndsFarBack
<1>3. ASSUME UNCHANGED <<sweep, kernelVars, script>>
      PROVE  TurnInv' /\ OldEndsFarBack'
  <2>1. /\ Tests' = Tests /\ Running' = Running /\ worker' = worker /\ log' = log
        /\ \A r : Named(r)' = Named(r)
    BY <1>3 DEF Tests, Running, kernelVars, Named
  <2> QED BY <1>3, <2>1 DEF TurnInv, OldEndsFarBack, LinesSince, EndsBack, Polls
<1>4. CASE NextTest
  BY <1>1, <1>2, <1>4 DEF NextTest, TurnInv
<1>5. CASE Returned
  <2>1. UNCHANGED <<sweep, kernelVars>> /\ script.pc = "returned" /\ script.test \in Tests
    BY <1>1, <1>5 DEF Returned, Busy
  <2>2. Named(script.test).task = TaskOf[sweep.script]
    BY <1>1, <2>1 DEF SweepsAsWritten, Named
  <2>3. CASE ~Polls
    <3>1. script'.pc = "collect"
      BY <1>1, <1>5, <2>3 DEF Returned, GoesTo
    <3>2. ~IsLatency(Named(script.test))
      BY <1>1, <2>2, <2>3 DEF IsLatency, TaskOf, Polls, Scripts
    <3>3. Running = {}
      BY <2>1, <3>2 DEF TurnInv, Running
    <3> QED BY <1>2, <2>1, <3>1, <3>3
  <2>4. CASE Polls /\ Passes(Named(script.test))
    <3>1. script'.pc = "next"
      BY <1>1, <1>5, <2>4 DEF Returned, GoesTo
    <3>2. sweep.script = "stridelat"
      BY <2>2, <2>4 DEF Passes, TaskOf, Polls
    <3>3. ~Accepted(Named(script.test))
      BY <1>1, <2>1, <2>4, <3>2 DEF NothingPassedOver, Named
    <3>4. Running = {}
      BY <2>1, <3>3 DEF TurnInv, Running
    <3> QED BY <1>2, <2>1, <3>1, <3>4
  <2>5. CASE Polls /\ ~Passes(Named(script.test))
    <3>1. script'.pc = "poll" /\ script'.test = script.test
      BY <1>1, <1>5, <2>5 DEF Returned, GoesTo
    <3>2. /\ Tests' = Tests /\ Running' = Running /\ worker' = worker /\ log' = log
          /\ Polls' /\ \A r : Named(r)' = Named(r)
      BY <2>1, <2>5 DEF Tests, Running, kernelVars, Named, Polls
    <3>3. TurnInv'
      BY <3>1, <3>2 DEF TurnInv
    <3>4. LinesSince' = LinesSince
      BY <2>1, <3>1, <3>2 DEF LinesSince
    <3> QED BY <3>2, <3>3, <3>4 DEF OldEndsFarBack
  <2> QED BY <2>3, <2>4, <2>5
<1>6. CASE Poll
  <2>1. Running = {}
    BY <1>6, TurnPoll
  <2>2. script'.pc = "collect"
    BY <1>1, <1>6 DEF Poll
  <2> QED BY <1>2, <1>6, <2>1, <2>2 DEF Poll
<1>7. CASE Collect \/ SweepEnds
  BY <1>1, <1>2, <1>7 DEF Collect, SweepEnds, GoesTo, TurnInv
<1>8. CASE OthersPrint
  <2>1. /\ UNCHANGED <<sweep, script, worker>> /\ Tests' = Tests /\ Running' = Running
        /\ log \in Seq(LogLine)
    BY <1>8, SameSweep DEF OthersPrint, scriptVars, Running, TypeInv, LinesType
  <2>2. \A r : Named(r)' = Named(r)
    BY <2>1 DEF Named
  <2>3. TurnInv'
    BY <2>1, <2>2 DEF TurnInv, Polls
  <2> DEFINE line == Line("noise", 0, 0)
  <2>4. line \in LogLine /\ line.tag # "latend"
    BY <1>1, SweepFacts, ConstantsAssumption
    DEF Line, LogLine, LineType, ConstantsAssumption
  <2>5. log' = Append(log, line)
    <3>1. Prints(<<line>>)
      BY <1>8 DEF OthersPrint
    <3> HIDE DEF line
    <3> QED BY <2>1, <2>4, <3>1, PrintsOne
  <2> HIDE DEF line
  <2>6. LinesSince' = LinesSince /\ LinesSince \in Nat
    BY <2>1 DEF LinesSince
  <2>7. Running # {} => EndsBack(log', LinesSince)
    BY <2>1, <2>4, <2>5, <2>6, EndsBackAppend DEF OldEndsFarBack
  <2> QED BY <2>1, <2>3, <2>6, <2>7 DEF OldEndsFarBack
<1>9. CASE ParserStep
  BY <1>3, <1>9
  DEF ParserStep, ReadStart, ReadEnd, ReadOther, ReadEof, ParserOnly, scriptVars
<1>10. CASE UNCHANGED vars
  BY <1>3, <1>10 DEF vars, kernelVars
<1> QED
  BY <1>4, <1>5, <1>6, <1>7, <1>8, <1>9, <1>10, TurnWrite, TurnInside, TurnWorker
  DEF Next, ScriptStep

\* As long as its sleeps have been enough the script takes its turns; only
\* a script that polls can find one too short.
TurnsInv ==
  /\ ~Polls => script.sleep = "enough"
  /\ script.sleep = "enough" => TurnInv /\ OldEndsFarBack

\* A sleep that was too short stays so.
LEMMA SleepKept ==
  ASSUME TypeInv, [Next]_vars
  PROVE  /\ script'.sleep = "enough" => script.sleep = "enough"
         /\ script'.sleep = script.sleep \/ sweep.script = "raw"
<1>1. script \in [pc : Busy \cup {"next", "ended"}, test : 0 .. Len(sweep.tests), sleep : Sleeps]
  BY DEF TypeInv, ScriptType
<1>2. CASE NextTest \/ Write \/ WriteReturns \/ Returned \/ Collect \/ SweepEnds
  BY <1>1, <1>2 DEF NextTest, Write, WriteReturns, Returned, Collect, SweepEnds, GoesTo
<1>3. CASE Poll
  BY <1>1, <1>3 DEF Poll
<1>4. CASE Second \/ OthersPrint \/ ParserStep \/ (\E r \in Tests : WorkerStep(r)) \/ UNCHANGED vars
  BY <1>4 DEF vars, Second, WorkerStep, WorkerBegins, WorkerMeasures, WorkerReports, WorkerPrints,
     scriptVars, OthersPrint, ParserStep, ReadStart, ReadEnd, ReadOther, ReadEof, ParserOnly
<1> QED BY <1>2, <1>3, <1>4 DEF Next, ScriptStep

LEMMA TurnsInit ==
  ASSUME Init
  PROVE  TurnsInv
BY TurnInit DEF TurnsInv, Init

LEMMA TurnsStep ==
  ASSUME SweepsAsWritten, NothingPassedOver, TypeInv, TurnsInv, [Next]_vars
  PROVE  TurnsInv'
<1>1. sweep' = sweep /\ Polls' = Polls
  BY DEF Next, vars, ScriptStep, NextTest, Write, Second, WriteReturns, Returned, Poll, Collect,
     SweepEnds, WorkerStep, WorkerBegins, WorkerMeasures, WorkerReports, WorkerPrints,
     OthersPrint, ParserStep, ReadStart, ReadEnd, ReadOther, ReadEof, ParserOnly, Polls
<1>2. script'.sleep = "enough" => TurnInv' /\ OldEndsFarBack'
  BY SleepKept, TurnStep DEF TurnsInv
<1>3. ~Polls => script'.sleep = "enough"
  BY SleepKept DEF TurnsInv, Polls
<1> QED BY <1>1, <1>2, <1>3 DEF TurnsInv

\* A polling script writes no command while the worker of an earlier test
\* runs: the LATTester_LAT_END that it finds is that of its test, because
\* what has been printed since the command has moved any older one out of
\* the tail.  That holds of sweeps whose sizes compare as text the way they
\* do as numbers (a test that 20_stridelat.sh writes and then passes over is
\* not waited for) and, for 60_raw.sh, as long as each of its sleeps outlasts
\* the start of the worker.
THEOREM ScriptsTakeTurns ==
  ASSUME SweepsAsWritten, NothingPassedOver
  PROVE  Spec => []OneTestAtATime
<1>1. TypeInv /\ TurnsInv => OneTestAtATime
  BY DEF TurnsInv, TurnInv, OneTestAtATime
<1>2. Init => TypeInv /\ TurnsInv
  BY TypeInit, TurnsInit
<1>3. TypeInv /\ TurnsInv /\ [Next]_vars => (TypeInv /\ TurnsInv)'
  BY TypeStep, TurnsStep
<1> QED BY <1>1, <1>2, <1>3, PTL DEF Spec
-----------------------------------------------------------------------------
(***************************************************************************)
(* A row per test.  Behind each line of a file stands which test is open,  *)
(* and how many of its seconds have been seen.                             *)
(***************************************************************************)

Label == [test : Nat, n : Nat]
Closed == [test |-> 0, n |-> 0]

\* The line may come behind c, and makes it what follows.
Fits(c, line) ==
  \/ line.tag \in {"start", "command", "error"} /\ c = Closed
  \/ line.tag = "second" /\ c.test = line.test /\ line.n = c.n + 1
  \/ line.tag = "end" /\ c.test = line.test /\ c.n = Runtime
  \/ line.tag = "noise"

After(c, line) ==
  CASE line.tag = "start" -> [test |-> line.test, n |-> 0]
    [] line.tag = "second" -> [test |-> c.test, n |-> line.n]
    [] line.tag = "end" -> Closed
    [] OTHER -> c

Labels(s, c) ==
  /\ c \in [0 .. Len(s) -> Label] /\ c[0] = Closed
  /\ \A k \in 1 .. Len(s) : Fits(c[k - 1], s[k]) /\ c[k] = After(c[k - 1], s[k])

\* The lines of s follow one another, and leave d behind them.
Leaves(s, d) == \E c : Labels(s, c) /\ c[Len(s)] = d

LEMMA AfterType ==
  ASSUME sweep \in Sweeps, NEW c \in Label, NEW line \in LogLine
  PROVE  After(c, line) \in Label
<1>1. line.test \in Nat /\ line.n \in Nat
  BY SweepFacts, ConstantsAssumption DEF LogLine, LineType, ConstantsAssumption
<1> QED BY <1>1 DEF After, Label, Closed

\* One line more.
LEMMA LeavesAppend ==
  ASSUME sweep \in Sweeps, NEW s \in Seq(LogLine), NEW line \in LogLine,
         NEW d, Leaves(s, d), Fits(d, line)
  PROVE  Leaves(Append(s, line), After(d, line))
<1>1. /\ Len(s) \in Nat /\ Len(Append(s, line)) = Len(s) + 1
      /\ \A k \in 1 .. Len(s) : Append(s, line)[k] = s[k]
      /\ Append(s, line)[Len(s) + 1] = line
  BY LenProperties, AppendProperties
<1>2. PICK c : Labels(s, c) /\ c[Len(s)] = d
  BY DEF Leaves
<1>3. d \in Label
  BY <1>1, <1>2 DEF Labels
<1> DEFINE e == [k \in 0 .. Len(s) + 1 |-> IF k = Len(s) + 1 THEN After(d, line) ELSE c[k]]
<1>4. /\ e \in [0 .. Len(s) + 1 -> Label] /\ e[0] = Closed
      /\ \A k \in 0 .. Len(s) : e[k] = c[k]
      /\ e[Len(s) + 1] = After(d, line)
  <2>1. After(d, line) \in Label
    BY <1>3, AfterType
  <2> QED BY <1>1, <1>2, <2>1 DEF Labels
<1> HIDE DEF e
<1>5. ASSUME NEW k \in 1 .. Len(s) + 1
      PROVE  /\ Fits(e[k - 1], Append(s, line)[k])
             /\ e[k] = After(e[k - 1], Append(s, line)[k])
  <2>1. CASE k = Len(s) + 1
    <3>1. k - 1 = Len(s) /\ Len(s) \in 0 .. Len(s)
      BY <1>1, <2>1
    <3>2. e[k - 1] = d /\ e[k] = After(d, line) /\ Append(s, line)[k] = line
      BY <1>1, <1>2, <1>4, <2>1, <3>1
    <3> QED BY <3>2
  <2>2. CASE k # Len(s) + 1
    <3>1. k \in 1 .. Len(s) /\ k - 1 \in 0 .. Len(s) /\ k \in 0 .. Len(s)
      BY <1>1, <2>2
    <3> QED BY <1>1, <1>2, <1>4, <3>1 DEF Labels
  <2> QED BY <2>1, <2>2
<1>6. Labels(Append(s, line), e) /\ e[Len(Append(s, line))] = After(d, line)
  BY <1>1, <1>4, <1>5 DEF Labels
<1> QED BY <1>6 DEF Leaves

\* One file behind another.
LEMMA LeavesConcat ==
  ASSUME NEW s \in Seq(LogLine), NEW t \in Seq(LogLine), NEW d,
         Leaves(s, Closed), Leaves(t, d)
  PROVE  Leaves(s \o t, d)
<1>1. /\ Len(s) \in Nat /\ Len(t) \in Nat /\ Len(s \o t) = Len(s) + Len(t)
      /\ \A k \in 1 .. Len(s) + Len(t) :
           (s \o t)[k] = IF k <= Len(s) THEN s[k] ELSE t[k - Len(s)]
  BY LenProperties, ConcatProperties
<1>2. PICK b : Labels(s, b) /\ b[Len(s)] = Closed
  BY DEF Leaves
<1>3. PICK c : Labels(t, c) /\ c[Len(t)] = d
  BY DEF Leaves
<1> DEFINE e == [k \in 0 .. Len(s) + Len(t) |-> IF k <= Len(s) THEN b[k] ELSE c[k - Len(s)]]
<1>4. /\ e \in [0 .. Len(s) + Len(t) -> Label]
      /\ \A k \in 0 .. Len(s) : e[k] = b[k]
      /\ \A k \in Len(s) .. Len(s) + Len(t) : e[k] = c[k - Len(s)]
  <2>1. \A k \in 0 .. Len(s) + Len(t) : k <= Len(s) => k \in 0 .. Len(s)
    BY <1>1
  <2>2. \A k \in Len(s) .. Len(s) + Len(t) :
          k \in 0 .. Len(s) + Len(t) /\ k - Len(s) \in 0 .. Len(t) /\ (k <= Len(s) => k = Len(s))
    BY <1>1
  <2>3. \A k \in 0 .. Len(s) + Len(t) : ~(k <= Len(s)) => k - Len(s) \in 0 .. Len(t)
    BY <1>1
  <2>4. b[Len(s)] = c[Len(s) - Len(s)]
    BY <1>1, <1>2, <1>3 DEF Labels
  <2>5. \A k \in 0 .. Len(s) : k \in 0 .. Len(s) + Len(t) /\ k <= Len(s)
    BY <1>1
  <2>6. e \in [0 .. Len(s) + Len(t) -> Label]
    BY <1>2, <1>3, <2>1, <2>3 DEF Labels
  <2>7. \A k \in 0 .. Len(s) : e[k] = b[k]
    BY <2>5
  <2>8. \A k \in Len(s) .. Len(s) + Len(t) : e[k] = c[k - Len(s)]
    BY <2>2, <2>4
  <2> QED BY <2>6, <2>7, <2>8
<1> HIDE DEF e
<1>5. ASSUME NEW k \in 1 .. Len(s) + Len(t)
      PROVE  /\ Fits(e[k - 1], (s \o t)[k])
             /\ e[k] = After(e[k - 1], (s \o t)[k])
  <2>1. CASE k <= Len(s)
    <3>1. k \in 1 .. Len(s) /\ k - 1 \in 0 .. Len(s) /\ k \in 0 .. Len(s)
      BY <1>1, <2>1
    <3> QED BY <1>1, <1>2, <1>4, <2>1, <3>1 DEF Labels
  <2>2. CASE ~(k <= Len(s))
    <3> DEFINE j == k - Len(s)
    <3>1. /\ j \in 1 .. Len(t) /\ (k - 1) - Len(s) = j - 1
          /\ k - 1 \in Len(s) .. Len(s) + Len(t) /\ k \in Len(s) .. Len(s) + Len(t)
      BY <1>1, <2>2
    <3>2. e[k - 1] = c[j - 1] /\ e[k] = c[j] /\ (s \o t)[k] = t[j]
      BY <1>1, <1>4, <2>2, <3>1
    <3> HIDE DEF j
    <3> QED BY <1>3, <3>1, <3>2 DEF Labels
  <2> QED BY <2>1, <2>2
<1>6. e[0] = Closed /\ e[Len(s) + Len(t)] = d
  <2>1. 0 \in 0 .. Len(s) /\ Len(s) + Len(t) \in Len(s) .. Len(s) + Len(t)
        /\ (Len(s) + Len(t)) - Len(s) = Len(t)
    BY <1>1
  <2> QED BY <1>2, <1>3, <1>4, <2>1 DEF Labels
<1>7. Labels(s \o t, e) /\ e[Len(s \o t)] = d
  BY <1>1, <1>4, <1>5, <1>6 DEF Labels
<1> QED BY <1>7 DEF Leaves

\* From a start to an end.
LEMMA LeavesCut ==
  ASSUME log \in Seq(LogLine), NEW d, Leaves(log, d),
         NEW from \in 1 .. Len(log), NEW to \in from .. Len(log),
         log[from].tag = "start", log[to].tag = "end"
  PROVE  Leaves(Cut(from, to), Closed)
<1> DEFINE s == Cut(from, to)
           n == to - from + 1
<1>1. /\ Len(log) \in Nat /\ from \in Nat /\ to \in Nat /\ from # 0 /\ to # 0
      /\ from \in 0 .. Len(log) /\ to \in 0 .. Len(log) /\ ~(to < from) /\ n \in Nat /\ n # 0
  BY LenProperties
<1>2. Len(s) = n /\ \A j \in 1 .. n : s[j] = log[from + j - 1]
  BY <1>1, CutFacts
<1>3. PICK c : Labels(log, c)
  BY DEF Leaves
<1> HIDE DEF s
<1> DEFINE e == [j \in 0 .. n |-> c[from - 1 + j]]
<1>4. \A j \in 0 .. n : from - 1 + j \in 0 .. Len(log)
  BY <1>1
<1>5. e \in [0 .. n -> Label] /\ \A j \in 0 .. n : e[j] = c[from - 1 + j]
  BY <1>3, <1>4 DEF Labels
<1>6. e[0] = Closed
  <2>1. c[from - 1] = Closed
    BY <1>3 DEF Labels, Fits
  <2> QED BY <1>1, <1>5, <2>1
<1>7. e[n] = Closed
  <2>1. c[to] = Closed
    <3>1. to \in 1 .. Len(log)
      BY <1>1
    <3> QED BY <1>3, <3>1 DEF Labels, After
  <2>2. from - 1 + n = to /\ n \in 0 .. n
    BY <1>1
  <2> QED BY <1>5, <2>1, <2>2
<1> HIDE DEF e
<1>8. ASSUME NEW j \in 1 .. n
      PROVE  Fits(e[j - 1], s[j]) /\ e[j] = After(e[j - 1], s[j])
  <2> DEFINE k == from + j - 1
  <2>1. /\ k \in 1 .. Len(log) /\ j - 1 \in 0 .. n /\ j \in 0 .. n
        /\ from - 1 + (j - 1) = k - 1 /\ from - 1 + j = k
    BY <1>1
  <2>2. s[j] = log[k] /\ e[j - 1] = c[k - 1] /\ e[j] = c[k]
    BY <1>2, <1>5, <2>1
  <2> HIDE DEF k
  <2> QED BY <1>3, <2>1, <2>2 DEF Labels
<1>9. Labels(s, e) /\ e[Len(s)] = Closed
  <2> HIDE DEF n
  <2> QED BY <1>2, <1>5, <1>6, <1>7, <1>8 DEF Labels
<1> QED BY <1>9 DEF Leaves, s

\* The log of a bandwidth sweep: outside of the handler each start has its
\* end, and the last end is that of the test that has just returned.
LogInv ==
  ~Polls =>
    /\ Leaves(log, IF script.pc = "inside" THEN [test |-> script.test, n |-> seconds] ELSE Closed)
    /\ script.pc # "inside" => seconds = 0 /\ LastIn(log, "start") <= LastIn(log, "end")
    /\ script.pc = "inside" \/ LastIn(log, "end") # 0 => LastIn(log, "start") # 0
    /\ script.pc \in {"returned", "collect"} /\ Accepted(Named(script.test)) =>
         /\ LastIn(log, "end") # 0
         /\ log[LastIn(log, "end")] = Line("end", script.test, 0)

\* What is known of a log with a line more.
LEMMA LogAppend ==
  ASSUME NEW s \in Seq(LogLine), NEW line \in LogLine
  PROVE  /\ Append(s, line) \in Seq(LogLine)
         /\ \A tag : /\ LastIn(Append(s, line), tag) =
                          IF line.tag = tag THEN Len(s) + 1 ELSE LastIn(s, tag)
                     /\ LastIn(s, tag) \in 0 .. Len(s)
         /\ Len(s) \in Nat /\ Append(s, line)[Len(s) + 1] = line
         /\ \A k \in 1 .. Len(s) : Append(s, line)[k] = s[k]
BY LenProperties, AppendProperties, LastInAppend, LastInFacts

\* A line of a refused command, or of others.
LEMMA LogQuiet ==
  ASSUME sweep \in Sweeps, NEW s \in Seq(LogLine), NEW line \in LogLine,
         line.tag \in {"command", "error"}, Leaves(s, Closed)
  PROVE  /\ Append(s, line) \in Seq(LogLine) /\ Leaves(Append(s, line), Closed)
         /\ LastIn(Append(s, line), "start") = LastIn(s, "start")
         /\ LastIn(Append(s, line), "end") = LastIn(s, "end")
<1>1. Fits(Closed, line) /\ After(Closed, line) = Closed
  BY DEF Fits, After
<1>2. Leaves(Append(s, line), After(Closed, line))
  BY <1>1, LeavesAppend
<1>3. line.tag # "start" /\ line.tag # "end"
  OBVIOUS
<1> QED BY <1>1, <1>2, <1>3, LogAppend

LEMMA LogInit ==
  ASSUME Init
  PROVE  LogInv
<1>1. log = <<>> /\ script.pc = "next" /\ seconds = 0
  BY DEF Init
<1>2. Len(log) = 0 /\ log \in Seq(LogLine)
  BY <1>1, EmptySeq
<1>3. LastIn(log, "start") = 0 /\ LastIn(log, "end") = 0
  <2>1. \A tag : LastIn(log, tag) \in 0 .. Len(log)
    BY <1>2, LastInFacts
  <2>2. LastIn(log, "start") \in 0 .. 0 /\ LastIn(log, "end") \in 0 .. 0
    BY <1>2, <2>1
  <2> QED BY <2>2
<1>4. Leaves(log, Closed)
  <2> DEFINE c == [k \in 0 .. 0 |-> Closed]
  <2>1. c[0] = Closed /\ c \in [0 .. 0 -> Label]
    BY DEF Closed, Label
  <2>2. Labels(log, c) /\ c[Len(log)] = Closed
    <3> HIDE DEF c
    <3> QED BY <1>2, <2>1 DEF Labels
  <2> HIDE DEF c
  <2> QED BY <2>2 DEF Leaves
<1> QED BY <1>1, <1>3, <1>4 DEF LogInv

LEMMA LogWrite ==
  ASSUME TypeInv, LogInv, ~Polls, Write
  PROVE  LogInv'
<1> DEFINE r == script.test
           a == Line("command", r, 0)
           b == Line("start", r, 0)
           e == Line("error", r, 0)
<1>1. /\ r \in Tests /\ sweep \in Sweeps /\ sweep' = sweep /\ log \in Seq(LogLine)
      /\ script.pc = "write" /\ seconds' = seconds
      /\ script \in [pc : Busy \cup {"next", "ended"}, test : 0 .. Len(sweep.tests), sleep : Sleeps]
  BY SweepFacts DEF Write, TypeInv, ScriptType, LinesType, Busy
<1>2. \A t : Named(t)' = Named(t)
  BY <1>1 DEF Named
<1>3. /\ a \in LogLine /\ a.tag = "command" /\ b \in LogLine /\ b.tag = "start" /\ b.test = r
      /\ e \in LogLine /\ e.tag = "error"
  <2>1. 0 \in 0 .. Runtime
    BY ConstantsAssumption DEF ConstantsAssumption
  <2> HIDE DEF r
  <2> QED BY <1>1, <2>1, LineFacts
<1>4. /\ Leaves(log, Closed) /\ seconds = 0
      /\ LastIn(log, "start") <= LastIn(log, "end")
      /\ LastIn(log, "end") # 0 => LastIn(log, "start") # 0
  BY <1>1 DEF LogInv
<1> DEFINE s == Append(log, a)
<1>5. CASE Accepted(Named(r))
  <2>1. Prints(<<a, b>>) /\ script' = [script EXCEPT !.pc = "inside"]
    BY <1>5 DEF Write, GoesTo
  <2>2. script'.pc = "inside" /\ script'.test = r
    BY <1>1, <2>1
  <2> HIDE DEF a, b, e
  <2>3. log' = Append(s, b)
    BY <1>1, <1>3, <2>1, OneByOne DEF Prints
  <2>4. s \in Seq(LogLine) /\ Leaves(s, Closed)
    BY <1>1, <1>3, <1>4, LeavesAppend, AppendProperties DEF Fits, After
  <2>5. Leaves(log', [test |-> r, n |-> 0])
    <3>1. Fits(Closed, b) /\ After(Closed, b) = [test |-> r, n |-> 0]
      BY <1>3 DEF Fits, After
    <3> HIDE DEF r, s
    <3> QED BY <1>1, <1>3, <2>3, <2>4, <3>1, LeavesAppend
  <2>6. LastIn(log', "start") # 0
    <3> HIDE DEF s
    <3>1. LastIn(log', "start") = Len(s) + 1 /\ Len(s) \in Nat
      BY <1>3, <2>3, <2>4, LogAppend
    <3> QED BY <3>1
  <2> QED BY <1>1, <1>4, <2>2, <2>5, <2>6 DEF LogInv
<1>6. CASE ~Accepted(Named(r))
  <2>1. Prints(<<a, e, e>>) /\ script' = [script EXCEPT !.pc = "returned"]
    BY <1>6 DEF Write, GoesTo
  <2>2. script'.pc = "returned" /\ script'.test = r
    BY <1>1, <2>1
  <2> HIDE DEF a, b, e
  <2> DEFINE t == Append(s, e)
  <2>3. log' = Append(t, e)
    BY <1>1, <1>3, <2>1, OneByOne DEF Prints
  <2>4. s \in Seq(LogLine) /\ Leaves(s, Closed)
        /\ LastIn(s, "start") = LastIn(log, "start") /\ LastIn(s, "end") = LastIn(log, "end")
    BY <1>1, <1>3, <1>4, LogQuiet
  <2>5. t \in Seq(LogLine) /\ Leaves(t, Closed)
        /\ LastIn(t, "start") = LastIn(s, "start") /\ LastIn(t, "end") = LastIn(s, "end")
    <3> HIDE DEF s
    <3> QED BY <1>1, <1>3, <2>4, LogQuiet
  <2>6. Leaves(log', Closed)
        /\ LastIn(log', "start") = LastIn(t, "start") /\ LastIn(log', "end") = LastIn(t, "end")
    <3> HIDE DEF t
    <3> QED BY <1>1, <1>3, <2>3, <2>5, LogQuiet
  <2> QED BY <1>1, <1>2, <1>4, <1>6, <2>2, <2>4, <2>5, <2>6 DEF LogInv
<1> QED BY <1>5, <1>6

LEMMA LogInside ==
  ASSUME SweepsAsWritten, TypeInv, LogInv, ~Polls, Second \/ WriteReturns
  PROVE  LogInv'
<1> DEFINE r == script.test
           d == [test |-> r, n |-> seconds]
<1>1. /\ r \in Tests /\ sweep \in Sweeps /\ sweep' = sweep /\ log \in Seq(LogLine)
      /\ script.pc = "inside" /\ seconds \in 0 .. Runtime
      /\ script \in [pc : Busy \cup {"next", "ended"}, test : 0 .. Len(sweep.tests), sleep : Sleeps]
      /\ sweep.script \in Scripts /\ Tests = 1 .. Len(sweep.tests)
  BY SweepFacts DEF Second, WriteReturns, TypeInv, ScriptType, LinesType, Busy
<1>2. ~IsLatency(Named(r))
  BY <1>1 DEF SweepsAsWritten, Named, IsLatency, TaskOf, Polls, Scripts
<1>3. Leaves(log, d) /\ LastIn(log, "start") # 0
  BY <1>1 DEF LogInv
<1>4. CASE Second
  <2> DEFINE line == Line("second", r, seconds + 1)
  <2>1. seconds + 1 \in 0 .. Runtime /\ seconds' = seconds + 1 /\ script' = script
        /\ Prints(<<line>>)
    BY <1>1, <1>4, ConstantsAssumption DEF Second, scriptVars, ConstantsAssumption
  <2>2. line \in LogLine /\ line.tag = "second" /\ line.test = r /\ line.n = seconds + 1
    BY <1>1, <2>1, LineFacts
  <2> HIDE DEF line
  <2>3. log' = Append(log, line)
    BY <1>1, <2>1, <2>2, PrintsOne
  <2>4. Fits(d, line) /\ After(d, line) = [test |-> r, n |-> seconds + 1]
    BY <2>2 DEF Fits, After
  <2> HIDE DEF d
  <2>5. Leaves(log', [test |-> r, n |-> seconds + 1])
    BY <1>1, <1>3, <2>2, <2>3, <2>4, LeavesAppend
  <2>6. LastIn(log', "start") # 0
    BY <1>1, <1>3, <2>2, <2>3, LogAppend
  <2> QED BY <1>1, <2>1, <2>5, <2>6 DEF LogInv
<1>5. CASE WriteReturns
  <2> DEFINE line == Line("end", r, 0)
  <2>1. seconds = Runtime /\ seconds' = 0 /\ script' = [script EXCEPT !.pc = "returned"]
        /\ Prints(<<line>>)
    BY <1>2, <1>5 DEF WriteReturns, GoesTo
  <2>2. line \in LogLine /\ line.tag = "end" /\ line.test = r
    <3>1. 0 \in 0 .. Runtime
      BY ConstantsAssumption DEF ConstantsAssumption
    <3> QED BY <1>1, <3>1, LineFacts
  <2>3. script'.pc = "returned" /\ script'.test = r
    BY <1>1, <2>1
  <2>4. line = Line("end", script'.test, 0)
    BY <2>3
  <2> HIDE DEF line
  <2>5. log' = Append(log, line)
    BY <1>1, <2>1, <2>2, PrintsOne
  <2>6. Fits(d, line) /\ After(d, line) = Closed
    BY <2>1, <2>2 DEF Fits, After
  <2>7. Leaves(log', Closed)
    <3> HIDE DEF d
    <3> QED BY <1>1, <1>3, <2>2, <2>5, <2>6, LeavesAppend
  <2>8. /\ LastIn(log', "end") = Len(log) + 1 /\ log'[Len(log) + 1] = line
        /\ LastIn(log', "start") = LastIn(log, "start")
        /\ LastIn(log, "start") \in 0 .. Len(log) /\ Len(log) \in Nat
    BY <1>1, <2>2, <2>5, LogAppend
  <2> QED BY <1>3, <2>1, <2>3, <2>4, <2>7, <2>8 DEF LogInv, Line
<1> QED BY <1>4, <1>5

LEMMA LogOthers ==
  ASSUME TypeInv, LogInv, ~Polls, OthersPrint
  PROVE  LogInv'
<1> DEFINE line == Line("noise", 0, 0)
           d == IF script.pc = "inside" THEN [test |-> script.test, n |-> seconds] ELSE Closed
<1>1. sweep \in Sweeps /\ log \in Seq(LogLine) /\ UNCHANGED <<sweep, script, seconds>>
      /\ Prints(<<line>>) /\ Leaves(log, d)
  BY DEF OthersPrint, TypeInv, ScriptType, LinesType, scriptVars, LogInv
<1>2. line \in LogLine /\ line.tag = "noise"
  BY <1>1, SweepFacts, ConstantsAssumption DEF Line, LogLine, LineType, ConstantsAssumption
<1> HIDE DEF line
<1>3. log' = Append(log, line)
  BY <1>1, <1>2, PrintsOne
<1>4. Leaves(log', d)
  <2>1. Fits(d, line) /\ After(d, line) = d
    BY <1>2 DEF Fits, After
  <2> HIDE DEF d
  <2> QED BY <1>1, <1>2, <1>3, <2>1, LeavesAppend
<1>5. /\ LastIn(log', "start") = LastIn(log, "start") /\ LastIn(log', "end") = LastIn(log, "end")
      /\ LastIn(log, "end") \in 0 .. Len(log)
      /\ \A k \in 1 .. Len(log) : log'[k] = log[k]
  BY <1>1, <1>2, <1>3, LogAppend
<1>6. LastIn(log, "end") # 0 => log'[LastIn(log', "end")] = log[LastIn(log, "end")]
  BY <1>1, <1>5, LenProperties
<1>7. \A t : Named(t)' = Named(t)
  BY <1>1 DEF Named
<1> QED BY <1>1, <1>4, <1>5, <1>6, <1>7 DEF LogInv

\* Test r has been written, and what was found of it is in output.txt.
Written(r) ==
  /\ Measured(r)
  /\ r < script.test \/ (r = script.test /\ script.pc \in {"next", "ended"})

OutputInv ==
  ~Polls =>
    /\ Leaves(output, Closed)
    /\ \A r \in Tests : Written(r) => \E k \in 1 .. Len(output) : output[k] = Line("end", r, 0)

Taken(t, n) == [k \in 1 .. n |-> <<t, k>>]

\* The parser has seen as much of the open test as there was to see.
Matches(d) ==
  IF d.test = 0 THEN parser.timer = 0
  ELSE /\ d.test \in Tests /\ parser.timer = d.n /\ parser.task = Named(d.test)
       /\ parser.throughput = Taken(d.test, d.n)

\* Each end that the parser has read has its row, and each row is a test.
RowsInv ==
  ~Polls =>
    /\ \E c : Labels(output, c) /\ c[Len(output)] = Closed /\ Matches(c[parser.pos])
    /\ \A k \in 1 .. parser.pos : output[k].tag = "end" =>
         \E j \in 1 .. Len(rows) : rows[j].throughput = SamplesOf(output[k].test)
    /\ \A k \in 1 .. Len(rows) :
         \E r \in Tests : rows[k] = [name |-> Named(r), throughput |-> SamplesOf(r)]
    /\ parser.pc = "failed" => TimerStop # Runtime
    /\ TimerStop # Runtime => rows = <<>>
    /\ parser.pc = "finished" => parser.pos = Len(output)

\* The parser begins when the sweep is over, and only for a bandwidth sweep.
IdleInv ==
  /\ script.pc # "ended" \/ Polls => parser = Idle /\ rows = <<>>
  /\ script.pc = "ended" => script.test = Len(sweep.tests)

\* A parser that has read nothing of a file of whole tests.
LEMMA IdleRows ==
  ASSUME NEW p, p = Idle, NEW s, Leaves(s, Closed)
  PROVE  /\ \E c : /\ Labels(s, c) /\ c[Len(s)] = Closed
                  /\ c[p.pos].test = 0 /\ p.timer = 0
         /\ 1 .. p.pos = {} /\ p.pc = "reading"
<1>1. PICK c : Labels(s, c) /\ c[Len(s)] = Closed
  BY DEF Leaves
<1>2. p.pos = 0 /\ p.timer = 0 /\ p.pc = "reading"
  BY DEF Idle
<1>3. c[p.pos] = Closed
  BY <1>1, <1>2 DEF Labels
<1>4. c[p.pos].test = 0
  BY <1>3 DEF Closed
<1>5. 1 .. p.pos = {}
  BY <1>2
<1> QED BY <1>1, <1>2, <1>4, <1>5

LEMMA OutputInit ==
  ASSUME Init
  PROVE  OutputInv /\ RowsInv /\ IdleInv
<1>1. output = <<>> /\ log = <<>> /\ parser = Idle /\ rows = <<>> /\ script.pc = "next"
      /\ script.test = 0
  BY DEF Init
<1>2. ~Polls => Leaves(output, Closed)
  BY <1>1, LogInit DEF LogInv
<1>3. \A r \in Tests : ~Written(r)
  BY <1>1, SweepFacts DEF Written, Measured, Init
<1>4. IdleInv
  BY <1>1 DEF IdleInv
<1>5. OutputInv
  BY <1>2, <1>3 DEF OutputInv
<1>6. RowsInv
  <2>1. 1 .. Len(rows) = {}
    BY <1>1, EmptySeq
  <2> QED BY <1>1, <1>2, <2>1, IdleRows DEF RowsInv, Matches
<1> QED BY <1>4, <1>5, <1>6

\* A step of the kernel.
LEMMA OutputKernel ==
  ASSUME OutputInv, RowsInv, IdleInv, UNCHANGED <<sweep, output, parserVars>>,
         script'.test = script.test, script.pc # "ended", script'.pc \notin {"next", "ended"}
  PROVE  OutputInv' /\ RowsInv' /\ IdleInv'
<1>1. /\ Tests' = Tests /\ Polls' = Polls /\ parser' = parser /\ rows' = rows
      /\ \A r : Named(r)' = Named(r)
      /\ TimerStop' = TimerStop
  BY DEF Tests, Polls, Named, parserVars, TimerStop
<1>2. IdleInv'
  BY <1>1 DEF IdleInv, Idle, NoTest
<1>3. OutputInv'
  BY <1>1 DEF OutputInv, Written, Measured, Line
<1>4. RowsInv'
  <2>1. \A d : Matches(d)' = Matches(d)
    BY <1>1 DEF Matches
  <2> QED BY <1>1, <2>1 DEF RowsInv, SamplesOf
<1> QED BY <1>2, <1>3, <1>4

\* A step of the script that leaves output.txt as it is, or adds what it has
\* found in the log.
LEMMA OutputScript ==
  ASSUME TypeInv, TurnInv, LogInv, OutputInv, RowsInv, IdleInv, ~Polls,
         NextTest \/ Returned \/ Poll \/ Collect \/ SweepEnds
  PROVE  LogInv' /\ OutputInv' /\ RowsInv' /\ IdleInv'
<1>1. /\ UNCHANGED <<sweep, kernelVars, parserVars>> /\ sweep \in Sweeps
      /\ Tests' = Tests /\ Polls' = Polls
      /\ \A r : Named(r)' = Named(r)
      /\ script \in [pc : Busy \cup {"next", "ended"}, test : 0 .. Len(sweep.tests), sleep : Sleeps]
      /\ Len(sweep.tests) \in Nat /\ log \in Seq(LogLine) /\ output \in Seq(LogLine)
  BY SameSweep, SweepFacts
  DEF NextTest, Returned, Poll, Collect, SweepEnds, TypeInv, ScriptType, LinesType
<1>2. parser' = Idle /\ rows' = <<>> /\ log' = log /\ seconds' = seconds
  BY <1>1 DEF parserVars, IdleInv, NextTest, Returned, Poll, Collect, SweepEnds, kernelVars
<1>3. SUFFICES LogInv' /\ OutputInv' /\ (script'.pc = "ended" => script'.test = Len(sweep.tests))
  <2>1. IdleInv'
    BY <1>1, <1>2, <1>3 DEF IdleInv, Idle, NoTest
  <2>2. RowsInv'
    <3>1. parser' = Idle /\ Leaves(output', Closed)
      BY <1>1, <1>2, <1>3 DEF OutputInv
    <3>2. 1 .. Len(rows') = {}
      BY <1>2, EmptySeq
    <3> QED BY <1>2, <3>1, <3>2, IdleRows DEF RowsInv, Matches
  <2> QED BY <1>3, <2>1, <2>2
<1>4. /\ Leaves(log, Closed) /\ seconds = 0 /\ Leaves(output, Closed)
      /\ LastIn(log, "start") <= LastIn(log, "end")
      /\ LastIn(log, "end") # 0 => LastIn(log, "start") # 0
  BY <1>1 DEF LogInv, OutputInv, NextTest, Returned, Poll, Collect, SweepEnds
<1>5. CASE NextTest
  <2>1. /\ script'.test = script.test + 1 /\ script'.pc \in {"next", "write"}
        /\ script'.pc = "next" => Passes(Named(script.test + 1))
        /\ output' = output /\ script.pc = "next"
    BY <1>5 DEF NextTest
  <2>2. LogInv'
    BY <1>1, <1>2, <1>4, <2>1 DEF LogInv
  <2>3. \A r \in Tests : Written(r)' => Written(r)
    BY <1>1, <2>1, SweepFacts DEF Written, Measured
  <2>4. OutputInv'
    BY <1>1, <1>4, <2>1, <2>3 DEF OutputInv, Line
  <2> QED BY <2>1, <2>2, <2>4
<1>6. CASE Returned
  <2>1. script.pc = "returned" /\ output' = output
        /\ script' = [script EXCEPT !.pc = "collect"]
    BY <1>6 DEF Returned, GoesTo
  <2>2. script'.pc = "collect" /\ script'.test = script.test
    BY <1>1, <2>1
  <2>3. LogInv'
    BY <1>1, <1>2, <1>4, <2>1, <2>2 DEF LogInv, Line
  <2>4. OutputInv'
    BY <1>1, <1>4, <2>1, <2>2 DEF OutputInv, Line, Written, Measured
  <2> QED BY <2>2, <2>3, <2>4
<1>7. CASE Poll
  BY <1>7 DEF Poll, TurnInv
<1>8. CASE SweepEnds
  <2>1. script.pc = "next" /\ output' = output /\ script.test = Len(sweep.tests)
        /\ script' = [script EXCEPT !.pc = "ended"]
    BY <1>8 DEF SweepEnds, GoesTo
  <2>2. script'.pc = "ended" /\ script'.test = script.test
    BY <1>1, <2>1
  <2>3. LogInv'
    BY <1>1, <1>2, <1>4, <2>1, <2>2 DEF LogInv, Line
  <2>4. OutputInv'
    BY <1>1, <1>4, <2>1, <2>2 DEF OutputInv, Line, Written, Measured
  <2> QED BY <2>1, <2>2, <2>3, <2>4
<1>9. CASE Collect
  <2> DEFINE from == LastIn(log, "start")
             to == LastIn(log, "end")
             lines == Cut(from, to)
  <2>1. script.pc = "collect" /\ script' = [script EXCEPT !.pc = "next"]
        /\ output' = output \o lines
    BY <1>9 DEF Collect, GoesTo, LastOf, LastIn
  <2>2. script'.pc = "next" /\ script'.test = script.test
    BY <1>1, <2>1
  <2>3. LogInv'
    BY <1>1, <1>2, <1>4, <2>1, <2>2 DEF LogInv, Line
  <2>4. /\ from \in 0 .. Len(log) /\ to \in 0 .. Len(log)
        /\ from # 0 => from \in 1 .. Len(log) /\ log[from].tag = "start"
        /\ to # 0 => to \in 1 .. Len(log) /\ log[to].tag = "end"
    BY <1>1, LastInFacts
  <2>5. lines \in Seq(LogLine)
    BY <1>1, <2>4, CutFacts
  <2>6. Leaves(output', Closed) /\ \A k \in 1 .. Len(output) : k \in 1 .. Len(output') /\ output'[k] = output[k]
    <3>1. from = 0 \/ to = 0 => lines = <<>> /\ output' = output
      BY <1>1, <2>1, <2>4, CutFacts, ConcatEmptySeq
    <3>2. from # 0 /\ to # 0 => Leaves(lines, Closed)
      <4>1. from # 0 /\ to # 0 => to \in from .. Len(log)
        BY <1>4, <2>4
      <4> HIDE DEF from, to
      <4> QED BY <1>1, <1>4, <2>4, <4>1, LeavesCut
    <3> HIDE DEF lines
    <3>3. from # 0 /\ to # 0 => Leaves(output', Closed)
      BY <1>1, <1>4, <2>1, <2>5, <3>2, LeavesConcat
    <3>4. \A k \in 1 .. Len(output) : k \in 1 .. Len(output') /\ output'[k] = output[k]
      BY <1>1, <2>1, <2>5, Added
    <3> QED BY <1>4, <3>1, <3>3, <3>4
  <2>7. ASSUME NEW r \in Tests, Written(r)'
        PROVE  \E k \in 1 .. Len(output') : output'[k] = Line("end", r, 0)
    <3>1. CASE r < script.test
      <4>1. PICK k \in 1 .. Len(output) : output[k] = Line("end", r, 0)
        BY <1>1, <2>7, <3>1 DEF Written, Measured, OutputInv
      <4> QED BY <2>6, <4>1
    <3>2. CASE r = script.test
      <4>1. to # 0 /\ from # 0 /\ log[to] = Line("end", r, 0)
        BY <1>1, <1>4, <2>1, <2>7, <3>2 DEF Written, Measured, LogInv
      <4> DEFINE n == to - from + 1
      <4>2. /\ Len(lines) = n /\ n \in 1 .. Len(lines) /\ lines[n] = log[to]
        <5>1. ~(to < from) /\ to \in Int /\ from \in Int /\ from + n - 1 = to /\ n >= 1
          BY <1>4, <2>4, <4>1
        <5>2. Len(lines) = n /\ \A j \in 1 .. Len(lines) : lines[j] = log[from + j - 1]
          <6> HIDE DEF from, to
          <6> QED BY <1>1, <2>4, <4>1, <5>1, CutFacts
        <5> HIDE DEF from, to, lines
        <5>3. n \in 1 .. Len(lines)
          BY <5>1, <5>2
        <5>4. lines[n] = log[from + n - 1]
          BY <5>2, <5>3
        <5> QED BY <5>1, <5>2, <5>3, <5>4
      <4> HIDE DEF lines, n, from, to
      <4>3. Len(output) + n \in 1 .. Len(output') /\ output'[Len(output) + n] = lines[n]
        BY <1>1, <2>1, <2>5, <4>2, Added
      <4> QED BY <4>1, <4>2, <4>3
    <3> QED BY <1>1, <2>2, <2>7, <3>1, <3>2 DEF Written, Measured
  <2>8. OutputInv'
    BY <1>1, <2>6, <2>7 DEF OutputInv, Line
  <2> QED BY <2>2, <2>3, <2>8
<1> QED BY <1>5, <1>6, <1>7, <1>8, <1>9

\* The next sample.
LEMMA TakenAppend ==
  ASSUME NEW t \in Nat, NEW n \in Nat
  PROVE  /\ Taken(t, 0) = <<>>
         /\ Append(Taken(t, n), <<t, n + 1>>) = Taken(t, n + 1)
<1>1. ASSUME NEW m \in Nat
      PROVE  Taken(t, m) \in Seq(Nat \X Nat) /\ Len(Taken(t, m)) = m
             /\ \A k \in 1 .. m : Taken(t, m)[k] = <<t, k>>
  <2>1. Taken(t, m) \in [1 .. m -> Nat \X Nat]
    BY DEF Taken
  <2>2. Taken(t, m) \in Seq(Nat \X Nat) /\ Len(Taken(t, m)) = m
    <3> DEFINE f == Taken(t, m)
    <3> HIDE DEF f
    <3>1. f \in [1 .. m -> Nat \X Nat]
      BY <2>1 DEF f
    <3>2. f \in Seq(Nat \X Nat)
      BY <3>1, SeqDef
    <3>3. DOMAIN f = 1 .. m /\ DOMAIN f = 1 .. Len(f) /\ Len(f) \in Nat
      BY <3>1, <3>2, LenProperties
    <3>4. Len(f) = m
      BY <3>3
    <3> QED BY <3>2, <3>4 DEF f
  <2> QED BY <2>2 DEF Taken
<1>2. Taken(t, 0) = <<>>
  BY <1>1, EmptySeq
<1> DEFINE S == Nat \X Nat
           s == Append(Taken(t, n), <<t, n + 1>>)
           u == Taken(t, n + 1)
<1>3. /\ s \in Seq(S) /\ Len(s) = n + 1 /\ s[n + 1] = <<t, n + 1>>
      /\ \A k \in 1 .. n : s[k] = <<t, k>>
  <2>1. <<t, n + 1>> \in S
    OBVIOUS
  <2>2. Taken(t, n) \in Seq(S) /\ Len(Taken(t, n)) = n
        /\ \A k \in 1 .. n : Taken(t, n)[k] = <<t, k>>
    BY <1>1
  <2> HIDE DEF S
  <2> QED BY <2>1, <2>2, AppendProperties
<1>4. u \in Seq(S) /\ Len(u) = n + 1 /\ \A k \in 1 .. n + 1 : u[k] = <<t, k>>
  BY <1>1
<1> HIDE DEF s, u, S
<1>5. \A k \in 1 .. n + 1 : s[k] = u[k]
  <2>1. \A k \in 1 .. n + 1 : k \in 1 .. n \/ k = n + 1
    OBVIOUS
  <2> QED BY <1>3, <1>4, <2>1
<1>6. s = u
  BY <1>3, <1>4, <1>5, SeqEqual
<1> QED BY <1>2, <1>6 DEF s, u

\* At the end of a test the parser has all of it.
LEMMA EndFacts ==
  ASSUME TypeInv, RowsInv, IdleInv, Reading({"end"})
  PROVE  /\ parser.pos + 1 \in 1 .. Len(output) /\ Current.tag = "end" /\ Current.test \in Tests
         /\ parser.timer = Runtime /\ parser.task = Named(Current.test)
         /\ parser.throughput = SamplesOf(Current.test)
<1>1. /\ sweep \in Sweeps /\ output \in Seq(LogLine) /\ Len(output) \in Nat
      /\ parser.pos \in 0 .. Len(output) /\ ~Polls /\ parser.pos < Len(output)
      /\ Current.tag = "end" /\ Tests = 1 .. Len(sweep.tests) /\ Len(sweep.tests) \in Nat
  BY SweepFacts, LenProperties DEF TypeInv, ScriptType, LinesType, ParserType, Reading, Current
<1>2. parser.pos + 1 \in 1 .. Len(output) /\ (parser.pos + 1) - 1 = parser.pos
  BY <1>1
<1>3. Current \in LogLine
  BY <1>1, <1>2, ElementOfSeq DEF Current
<1>4. Current.test \in Tests /\ Current.test # 0
  BY <1>1, <1>3 DEF LogLine, LineType
<1>5. PICK c : Labels(output, c) /\ Matches(c[parser.pos])
  BY <1>1 DEF RowsInv
<1>6. Fits(c[parser.pos], Current)
  BY <1>2, <1>5 DEF Labels, Current
<1>7. c[parser.pos].test = Current.test /\ c[parser.pos].n = Runtime
  BY <1>1, <1>6 DEF Fits
<1> QED BY <1>1, <1>2, <1>4, <1>5, <1>7 DEF Matches, Taken, SamplesOf

\* A step of the parser: an assertion fails only with the wrong duration.
LEMMA RowsParser ==
  ASSUME TypeInv, OutputInv, RowsInv, IdleInv, ParserStep
  PROVE  OutputInv' /\ RowsInv' /\ IdleInv'
<1>1. /\ UNCHANGED <<sweep, scriptVars, kernelVars>> /\ script.pc = "ended" /\ ~Polls
      /\ parser.pc = "reading" /\ output' = output /\ script' = script
  BY DEF ParserStep, ReadStart, ReadEnd, ReadOther, ReadEof, ParserOnly, Reading, scriptVars
<1>2. /\ sweep \in Sweeps /\ Tests' = Tests /\ Polls' = Polls
      /\ \A r : Named(r)' = Named(r)
      /\ output \in Seq(LogLine) /\ Len(output) \in Nat
      /\ parser.pos \in 0 .. Len(output) /\ rows \in Seq(RowType) /\ Len(rows) \in Nat
      /\ parser \in [pos : 0 .. Len(output), timer : 0 .. Runtime, task : Test \cup {NoTest},
                     throughput : Seq(Nat \X Nat), pc : ParserPcs]
      /\ Tests = 1 .. Len(sweep.tests) /\ Len(sweep.tests) \in Nat /\ TimerStop' = TimerStop
  BY <1>1, SameSweep, SweepFacts, LenProperties
  DEF TypeInv, ScriptType, LinesType, ParserType, QueueType, TimerStop
<1>3. OutputInv' /\ IdleInv'
  BY <1>1, <1>2 DEF OutputInv, IdleInv, Written, Measured, Line
<1>4. SUFFICES RowsInv'
  BY <1>3
<1>5. PICK c, pos, d : /\ Labels(output, c) /\ c[Len(output)] = Closed /\ Matches(d)
                       /\ pos = parser.pos /\ d = c[pos]
  BY <1>1 DEF RowsInv
<1> DEFINE line == output[pos + 1]
<1>6. ASSUME NEW tags, Reading(tags)
      PROVE  /\ pos + 1 \in 1 .. Len(output) /\ line \in LogLine /\ line.tag \in tags
             /\ line = Current /\ d \in Label
             /\ Fits(d, line) /\ c[pos + 1] = After(d, line)
  <2>1. pos + 1 \in 1 .. Len(output) /\ (pos + 1) - 1 = pos
    BY <1>2, <1>5, <1>6 DEF Reading
  <2> QED BY <1>2, <1>5, <1>6, <2>1, ElementOfSeq DEF Reading, Current, Labels
<1> DEFINE Rowed(k) == output[k].tag = "end" =>
                         \E j \in 1 .. Len(rows) : rows[j].throughput = SamplesOf(output[k].test)
           OfTest(k) == \E r \in Tests : rows[k] = [name |-> Named(r), throughput |-> SamplesOf(r)]
<1>7. /\ (\A k \in 1 .. pos : Rowed(k)) /\ (\A k \in 1 .. Len(rows) : OfTest(k))
      /\ TimerStop # Runtime => rows = <<>>
  BY <1>1, <1>5 DEF RowsInv
\* The parser stops where it is.
<1>13. ASSUME rows' = rows, NEW p, p \in ParserPcs, parser' = [parser EXCEPT !.pc = p],
              p = "failed" => TimerStop # Runtime, p = "finished" => pos = Len(output)
       PROVE  RowsInv'
  <2>1. /\ parser'.pos = pos /\ parser'.pc = p /\ parser'.timer = parser.timer
        /\ parser'.task = parser.task /\ parser'.throughput = parser.throughput
    BY <1>2, <1>5, <1>13
  <2>2. Matches(c[pos])'
    BY <1>2, <1>5, <2>1 DEF Matches
  <2>3. \A k \in 1 .. pos : Rowed(k)'
    BY <1>1, <1>7, <1>13 DEF SamplesOf
  <2>4. \A k \in 1 .. Len(rows) : OfTest(k)'
    BY <1>2, <1>7, <1>13 DEF SamplesOf
  <2> HIDE DEF Rowed, OfTest
  <2> QED BY <1>1, <1>2, <1>5, <1>7, <1>13, <2>1, <2>2, <2>3, <2>4 DEF RowsInv, Rowed, OfTest
\* A line that gives no row.
<1>8. ASSUME pos + 1 \in 1 .. Len(output), line.tag # "end", rows' = rows,
             parser'.pos = pos + 1, parser'.pc = "reading", Matches(c[pos + 1])'
      PROVE  RowsInv'
  <2>1. \A k \in 1 .. pos + 1 : Rowed(k)
    <3>1. \A k \in 1 .. pos + 1 : k \in 1 .. pos \/ k = pos + 1
      BY <1>2, <1>5
    <3> QED BY <1>7, <1>8, <3>1
  <2>2. \A k \in 1 .. pos + 1 : Rowed(k)'
    BY <1>1, <1>8, <2>1 DEF SamplesOf
  <2>3. \A k \in 1 .. Len(rows) : OfTest(k)'
    BY <1>2, <1>7, <1>8 DEF SamplesOf
  <2> HIDE DEF Rowed, OfTest
  <2> QED BY <1>1, <1>2, <1>5, <1>7, <1>8, <2>2, <2>3 DEF RowsInv, Rowed, OfTest
<1>9. CASE ReadStart
  <2>1. /\ pos + 1 \in 1 .. Len(output) /\ line \in LogLine /\ line.tag = "start"
        /\ line = Current /\ Fits(d, line) /\ c[pos + 1] = After(d, line)
    BY <1>6, <1>9 DEF ReadStart
  <2>2. d = Closed /\ parser.timer = 0
    BY <1>5, <2>1 DEF Fits, Matches, Closed
  <2>3. /\ rows' = rows
        /\ parser' = [[parser EXCEPT !.task = Named(Current.test), !.throughput = <<>>]
                        EXCEPT !.pos = @ + 1]
    BY <1>9, <2>2 DEF ReadStart, Reads, Asserts
  <2>4. /\ parser'.pos = pos + 1 /\ parser'.pc = "reading" /\ parser'.timer = 0
        /\ parser'.task = Named(line.test) /\ parser'.throughput = <<>>
    BY <1>1, <1>2, <1>5, <2>1, <2>2, <2>3
  <2>5. c[pos + 1] = [test |-> line.test, n |-> 0] /\ line.test \in Tests /\ line.test \in Nat
    <3> HIDE DEF line
    <3>1. c[pos + 1] = [test |-> line.test, n |-> 0]
      BY <2>1 DEF After
    <3>2. line.test \in Tests /\ line.test \in Nat
      BY <1>2, <2>1 DEF LogLine, LineType
    <3> QED BY <3>1, <3>2
  <2>6. Matches(c[pos + 1])'
    <3>1. Taken(line.test, 0) = <<>>
      BY <2>5, TakenAppend
    <3> HIDE DEF line
    <3> QED BY <1>2, <2>4, <2>5, <3>1 DEF Matches
  <2> QED BY <1>8, <2>1, <2>3, <2>4, <2>6
<1>10. CASE ReadOther
  <2>1. /\ pos + 1 \in 1 .. Len(output) /\ line \in LogLine /\ line.tag \in {"second", "noise"}
        /\ line = Current /\ Fits(d, line) /\ c[pos + 1] = After(d, line) /\ d \in Label
    BY <1>6, <1>10 DEF ReadOther
  <2>2. CASE line.tag = "second"
    <3>1. line.test \in Tests /\ line.test \in Nat /\ line.test # 0
      BY <1>2, <2>1, <2>2 DEF LogLine, LineType
    <3>2. /\ d.test = line.test /\ line.n = d.n + 1 /\ parser.timer = d.n /\ d.n \in Nat
          /\ parser.task = Named(line.test) /\ parser.throughput = Taken(line.test, d.n)
      BY <1>5, <2>1, <2>2, <3>1 DEF Fits, Matches, Label
    <3>3. /\ rows' = rows
          /\ parser' = [[parser EXCEPT !.throughput = Append(@, <<Current.test, Current.n>>),
                                       !.timer = @ + 1] EXCEPT !.pos = @ + 1]
      BY <1>10, <2>1, <2>2, <3>2 DEF ReadOther, Reads
    <3>4. /\ parser'.pos = pos + 1 /\ parser'.pc = "reading" /\ parser'.timer = d.n + 1
          /\ parser'.task = Named(line.test)
          /\ parser'.throughput = Append(Taken(line.test, d.n), <<line.test, d.n + 1>>)
      BY <1>1, <1>2, <1>5, <2>1, <3>2, <3>3
    <3>5. c[pos + 1] = [test |-> line.test, n |-> d.n + 1]
      BY <2>1, <2>2, <3>2 DEF After
    <3>6. Matches(c[pos + 1])'
      <4>1. parser'.throughput = Taken(line.test, d.n + 1)
        BY <3>1, <3>2, <3>4, TakenAppend
      <4> HIDE DEF line
      <4> QED BY <1>2, <3>1, <3>4, <3>5, <4>1 DEF Matches
    <3> QED BY <1>8, <2>1, <2>2, <3>3, <3>4, <3>6
  <2>3. CASE line.tag = "noise"
    <3>1. rows' = rows /\ parser' = [parser EXCEPT !.pos = @ + 1]
      BY <1>10, <2>1, <2>3 DEF ReadOther, Reads
    <3>2. /\ parser'.pos = pos + 1 /\ parser'.pc = "reading" /\ parser'.timer = parser.timer
          /\ parser'.task = parser.task /\ parser'.throughput = parser.throughput
      BY <1>1, <1>2, <1>5, <3>1
    <3>3. c[pos + 1] = d
      BY <2>1, <2>3 DEF After
    <3>4. Matches(c[pos + 1])'
      BY <1>2, <1>5, <3>2, <3>3 DEF Matches
    <3> QED BY <1>8, <2>1, <2>3, <3>1, <3>2, <3>4
  <2> QED BY <2>1, <2>2, <2>3
<1>14. CASE ReadEnd /\ rows' = rows
  <2>1. CASE Asserts(parser.timer = TimerStop)
    <3>1. TimerStop # Runtime
      BY <1>14, <2>1, EndFacts DEF ReadEnd, Asserts
    <3> QED BY <1>13, <2>1, <3>1 DEF Asserts, ParserPcs
  <2>2. CASE Refused(Enqueued)
    BY <1>13, <2>2 DEF Refused, ParserPcs
  <2>3. rows' # Append(rows, Row)
    <3>1. Row \in RowType
      BY <1>2 DEF Row, RowType
    <3>2. Len(Append(rows, Row)) = Len(rows) + 1
      BY <1>2, <3>1, AppendProperties
    <3> QED BY <1>2, <1>14, <3>2
  <2> QED BY <1>14, <2>1, <2>2, <2>3 DEF ReadEnd
<1>11. CASE ReadEnd /\ rows' # rows
  <2>1. /\ pos + 1 \in 1 .. Len(output) /\ line \in LogLine /\ line.tag = "end"
        /\ line = Current /\ Fits(d, line) /\ c[pos + 1] = After(d, line) /\ d \in Label
    BY <1>6, <1>11 DEF ReadEnd
  <2> DEFINE r == line.test
  <2>2. r \in Tests /\ r # 0
    BY <1>2, <2>1 DEF LogLine, LineType
  <2>3. /\ parser.timer = Runtime /\ parser.task = Named(r)
        /\ parser.throughput = SamplesOf(r)
    BY <1>5, <2>1, <2>2 DEF Fits, Matches, Taken, SamplesOf
  <2> DEFINE row == [name |-> Named(r), throughput |-> SamplesOf(r)]
  <2>4. parser' = [[parser EXCEPT !.timer = 0] EXCEPT !.pos = @ + 1]
        /\ rows' = Append(rows, row)
    BY <1>11, <2>3 DEF ReadEnd, Reads, Asserts, Refused, Row
  <2>12. TimerStop = Runtime
    BY <1>11, <2>3 DEF ReadEnd, Asserts
  <2>5. parser'.pos = pos + 1 /\ parser'.pc = "reading" /\ parser'.timer = 0
    BY <1>1, <1>2, <1>5, <2>4
  <2>6. row \in RowType
    <3>1. row = Row /\ Row \in RowType
      BY <1>2, <2>3 DEF Row, RowType
    <3> QED BY <3>1
  <2>7. /\ Len(rows') = Len(rows) + 1 /\ rows'[Len(rows) + 1] = row
        /\ \A k \in 1 .. Len(rows) : rows'[k] = rows[k]
    <3> HIDE DEF row
    <3> QED BY <1>2, <2>4, <2>6, AppendProperties
  <2> HIDE DEF row
  <2>8. \A k \in 1 .. Len(rows) : k \in 1 .. Len(rows')
    BY <1>2, <2>7
  <2>9. \A k \in 1 .. pos + 1 : Rowed(k)'
    <3>1. SUFFICES ASSUME NEW k \in 1 .. pos + 1, output[k].tag = "end"
                   PROVE  \E j \in 1 .. Len(rows') : rows'[j].throughput = SamplesOf(output[k].test)
      BY <1>1 DEF SamplesOf
    <3>2. CASE k = pos + 1
      <4>1. Len(rows) + 1 \in 1 .. Len(rows') /\ rows'[Len(rows) + 1].throughput = SamplesOf(r)
        BY <1>2, <2>7 DEF row
      <4> QED BY <3>2, <4>1
    <3>3. CASE k # pos + 1
      <4>1. k \in 1 .. pos
        BY <1>2, <1>5, <3>3
      <4>2. PICK j \in 1 .. Len(rows) : rows[j].throughput = SamplesOf(output[k].test)
        BY <1>7, <3>1, <4>1
      <4> QED BY <2>7, <2>8, <4>2
    <3> QED BY <3>2, <3>3
  <2>10. \A k \in 1 .. Len(rows') : OfTest(k)'
    <3>1. SUFFICES ASSUME NEW k \in 1 .. Len(rows')
                   PROVE  \E t \in Tests : rows'[k] = [name |-> Named(t), throughput |-> SamplesOf(t)]
      BY <1>2 DEF SamplesOf
    <3>2. k \in 1 .. Len(rows) \/ k = Len(rows) + 1
      <4>1. Len(rows) \in Nat /\ Len(rows') = Len(rows) + 1
        BY <1>2, <2>7
      <4> QED BY <4>1
    <3>3. CASE k = Len(rows) + 1
      BY <2>2, <2>7, <3>3 DEF row
    <3>4. CASE k \in 1 .. Len(rows)
      BY <1>7, <2>7, <3>4
    <3> QED BY <3>2, <3>3, <3>4
  <2>11. Matches(c[pos + 1])'
    BY <2>1, <2>5 DEF After, Closed, Matches
  <2> HIDE DEF Rowed, OfTest
  <2> QED BY <1>1, <1>2, <1>5, <2>5, <2>9, <2>10, <2>11, <2>12 DEF RowsInv, Rowed, OfTest
<1>12. CASE ReadEof
  <2>1. rows' = rows /\ pos = Len(output)
    BY <1>5, <1>12 DEF ReadEof, Refused
  <2>2. \E p \in {"refused", "finished"} : parser' = [parser EXCEPT !.pc = p]
    BY <1>12 DEF ReadEof, Refused
  <2> QED BY <1>13, <2>1, <2>2 DEF ParserPcs
<1> QED BY <1>9, <1>10, <1>11, <1>12, <1>14 DEF ParserStep

-----------------------------------------------------------------------------
(***************************************************************************)
(* The order of the tests, in the log, in output.txt and in the rows.      *)
(***************************************************************************)

\* Behind the last start of the log there is one end at most, and the last end
\* is of the last test that was measured.
LastEnd == log[LastIn(log, "end")].test
LogOrder ==
  /\ \A k \in 1 .. Len(log) : log[k].tag = "end" /\ k > LastIn(log, "start") => k = LastIn(log, "end")
  /\ script.pc = "inside" => LastIn(log, "end") <= LastIn(log, "start")
  /\ LastIn(log, "end") # 0 =>
       /\ LastEnd \in Tests /\ LastEnd <= script.test
       /\ \A t \in LastEnd + 1 .. script.test :
            Measured(t) => t = script.test /\ script.pc \in {"write", "inside"}

\* The ends in output.txt are no newer, and in their order.
OutputOrder ==
  /\ \A k \in 1 .. Len(output) : output[k].tag = "end" =>
       /\ output[k].test \in Tests /\ output[k].test <= script.test
       /\ script.pc \in Busy => output[k].test < script.test
       /\ LastIn(log, "end") # 0 /\ output[k].test <= LastEnd
  /\ \A j, k \in 1 .. Len(output) : j < k /\ output[j].tag = "end" /\ output[k].tag = "end" =>
       Precedes(output[j].test, output[k].test)

OrderInv ==
  ~Polls => LogOrder /\ OutputOrder /\ (script.pc \in Busy => ~Passes(Named(script.test)))

\* The rows are in the order of their tests, and no end that the parser has
\* not read is of a test before them.
RowsOrder ==
  ~Polls =>
    /\ \A j, k \in 1 .. Len(rows) : j < k => Precedes(TestOf(rows[j]), TestOf(rows[k]))
    /\ \A j \in 1 .. Len(rows), k \in parser.pos + 1 .. Len(output) :
         output[k].tag = "end" => Precedes(TestOf(rows[j]), output[k].test)

LEMMA OrderInit ==
  ASSUME Init
  PROVE  OrderInv /\ RowsOrder
<1>1. log = <<>> /\ output = <<>> /\ rows = <<>> /\ script.pc = "next"
  BY DEF Init
<1>2. Len(log) = 0 /\ Len(output) = 0 /\ Len(rows) = 0 /\ log \in Seq(LogLine)
  BY <1>1, EmptySeq
<1>3. LastIn(log, "end") = 0
  <2>1. LastIn(log, "end") \in 0 .. Len(log)
    BY <1>2, LastInFacts
  <2> QED BY <1>2, <2>1
<1> QED BY <1>1, <1>2, <1>3 DEF OrderInv, LogOrder, OutputOrder, RowsOrder, Busy

\* A line that is no end.
LEMMA OrderLine ==
  ASSUME log \in Seq(LogLine), LogOrder, OutputOrder, NEW line \in LogLine, line.tag # "end",
         UNCHANGED <<sweep, output>>, log' = Append(log, line), script'.test = script.test,
         script.pc \in Busy => script'.pc \in Busy, script'.pc \in Busy => script.pc \in Busy,
         script'.pc = "inside" => script.pc = "inside" \/ line.tag = "start",
         script.pc \in {"write", "inside"} => script'.pc \in {"write", "inside"} \/ ~Measured(script.test)
  PROVE  LogOrder' /\ OutputOrder'
<1>1. /\ Len(log) \in Nat /\ Len(log') = Len(log) + 1 /\ log'[Len(log) + 1] = line
      /\ \A k \in 1 .. Len(log) : log'[k] = log[k]
      /\ LastIn(log', "end") = LastIn(log, "end") /\ LastIn(log, "end") \in 0 .. Len(log)
      /\ LastIn(log', "start") = IF line.tag = "start" THEN Len(log) + 1 ELSE LastIn(log, "start")
      /\ LastIn(log, "start") \in 0 .. Len(log)
  BY LogAppend, AppendProperties
<1>2. /\ Tests' = Tests /\ \A t : Measured(t)' = Measured(t)
      /\ \A t : CutAgain(t)' = CutAgain(t)
  BY DEF Tests, Measured, Named, CutAgain
<1>3. LastIn(log, "end") # 0 => LastEnd' = LastEnd
  <2>1. LastIn(log, "end") # 0 => LastIn(log, "end") \in 1 .. Len(log)
    BY <1>1
  <2> QED BY <1>1, <2>1 DEF LastEnd
<1>4. \A k \in 1 .. Len(log') : log'[k].tag = "end" /\ k > LastIn(log', "start") => k = LastIn(log', "end")
  <2> SUFFICES ASSUME NEW k \in 1 .. Len(log'), log'[k].tag = "end", k > LastIn(log', "start")
               PROVE  k = LastIn(log, "end")
    BY <1>1
  <2>1. k \in 1 .. Len(log)
    BY <1>1
  <2>2. log[k].tag = "end" /\ k > LastIn(log, "start")
    BY <1>1, <2>1
  <2> QED BY <2>1, <2>2 DEF LogOrder
<1>5. script'.pc = "inside" => LastIn(log', "end") <= LastIn(log', "start")
  BY <1>1 DEF LogOrder
<1>6. LogOrder'
  BY <1>1, <1>2, <1>3, <1>4, <1>5 DEF LogOrder
<1>7. OutputOrder'
  BY <1>1, <1>2, <1>3 DEF OutputOrder, Precedes
<1> QED BY <1>6, <1>7

\* The steps of the kernel.
LEMMA OrderKernel ==
  ASSUME SweepsAsWritten, TypeInv, OrderInv, ~Polls, Write \/ Second \/ WriteReturns \/ OthersPrint
  PROVE  OrderInv'
<1> DEFINE r == script.test
<1>1. /\ UNCHANGED <<sweep, output>> /\ sweep \in Sweeps /\ log \in Seq(LogLine)
      /\ script \in [pc : Busy \cup {"next", "ended"}, test : 0 .. Len(sweep.tests), sleep : Sleeps]
      /\ script.pc \in Busy => r \in Tests
      /\ Tests = 1 .. Len(sweep.tests) /\ Len(sweep.tests) \in Nat /\ 0 \in 0 .. Runtime
      /\ Polls' = Polls /\ Tests' = Tests /\ (\A t : Named(t)' = Named(t))
      /\ sweep.script \in Scripts
  BY SweepFacts, SameSweep, ConstantsAssumption
  DEF Write, Second, WriteReturns, OthersPrint, scriptVars, TypeInv, ScriptType, LinesType, Busy,
      ConstantsAssumption
<1>2. LogOrder /\ OutputOrder /\ (script.pc \in Busy => ~Passes(Named(r)))
  BY DEF OrderInv
<1>3. script'.test = r /\ (script'.pc \in Busy <=> script.pc \in Busy)
  BY <1>1 DEF Write, Second, WriteReturns, OthersPrint, GoesTo, scriptVars, Busy
<1>4. (script.pc \in Busy => ~Passes(Named(script.test)))'
  <2>1. Named(script.test)' = Named(r)
    BY <1>1, <1>3 DEF Named
  <2> QED BY <1>2, <1>3, <2>1
<1>5. SUFFICES LogOrder' /\ OutputOrder'
  BY <1>1, <1>4 DEF OrderInv
<1>6. CASE Write
  <2> DEFINE a == Line("command", r, 0)
             b == Line("start", r, 0)
             e == Line("error", r, 0)
  <2>1. script.pc = "write" /\ r \in Tests
    BY <1>1, <1>6 DEF Write, Busy
  <2>2. /\ a \in LogLine /\ b \in LogLine /\ e \in LogLine
        /\ a.tag = "command" /\ b.tag = "start" /\ e.tag = "error"
    <3> HIDE DEF r
    <3> QED BY <1>1, <2>1, LineFacts DEF a, b, e
  <2> HIDE DEF a, b, e
  <2> DEFINE s == Append(log, a)
             t == Append(s, e)
  <2>3. s \in Seq(LogLine) /\ t \in Seq(LogLine)
    BY <1>1, <2>2, AppendProperties
\* What a step of quiet lines leaves behind.
  <2> DEFINE Quiet(l) == /\ LastIn(l, "end") = LastIn(log, "end")
                         /\ LastIn(l, "start") = LastIn(log, "start")
                         /\ Len(l) >= Len(log)
                         /\ \A k \in 1 .. Len(l) : l[k].tag = "end" => k \in 1 .. Len(log) /\ l[k] = log[k]
                         /\ \A k \in 1 .. Len(log) : l[k] = log[k]
  <2>4. ASSUME NEW l \in Seq(LogLine), NEW line \in LogLine, line.tag \in {"command", "error"}, Quiet(l)
        PROVE  Quiet(Append(l, line))
    <3>1. /\ Len(l) \in Nat /\ Len(Append(l, line)) = Len(l) + 1 /\ Append(l, line)[Len(l) + 1] = line
          /\ \A k \in 1 .. Len(l) : Append(l, line)[k] = l[k]
          /\ LastIn(Append(l, line), "end") = LastIn(l, "end")
          /\ LastIn(Append(l, line), "start") = LastIn(l, "start") /\ Len(log) \in Nat
      BY <1>1, <2>4, LogAppend, AppendProperties, LenProperties
    <3> DEFINE m == Append(l, line)
    <3>2. \A k \in 1 .. Len(m) : k \in 1 .. Len(l) \/ k = Len(l) + 1
      BY <3>1
    <3>3. \A k \in 1 .. Len(log) : k \in 1 .. Len(l)
      BY <2>4, <3>1
    <3>4. Len(m) >= Len(log)
      BY <2>4, <3>1
    <3> HIDE DEF m
    <3> QED BY <2>4, <3>1, <3>2, <3>3, <3>4 DEF m
  <2>5. Quiet(log)
    BY <1>1, LenProperties
  <2>6. ASSUME NEW l \in Seq(LogLine), Quiet(l)
        PROVE  /\ \A k \in 1 .. Len(l) :
                    l[k].tag = "end" /\ k > LastIn(l, "start") => k = LastIn(l, "end")
               /\ LastIn(l, "end") # 0 => l[LastIn(l, "end")] = log[LastIn(log, "end")]
    <3>1. LastIn(log, "end") \in 0 .. Len(log) /\ Len(log) \in Nat
      BY <1>1, LastInFacts, LenProperties
    <3>2. LastIn(log, "end") # 0 => LastIn(log, "end") \in 1 .. Len(log)
      BY <3>1
    <3> QED BY <1>2, <2>6, <3>2 DEF LogOrder
  <2> HIDE DEF Quiet, s, t
  <2>7. CASE Accepted(Named(r))
    <3>1. Prints(<<a, b>>) /\ script' = [script EXCEPT !.pc = "inside"]
      BY <1>6, <2>7 DEF Write, GoesTo, a, b
    <3>2. log' = Append(s, b) /\ script'.pc = "inside"
      BY <1>1, <2>2, <3>1, OneByOne DEF Prints, s
    <3>3. Quiet(s)
      BY <1>1, <2>2, <2>4, <2>5 DEF s
    <3>4. /\ Len(s) \in Nat /\ Len(log') = Len(s) + 1 /\ log'[Len(s) + 1] = b
          /\ \A k \in 1 .. Len(s) : log'[k] = s[k]
          /\ LastIn(log', "end") = LastIn(log, "end") /\ LastIn(log, "end") \in 0 .. Len(log)
          /\ LastIn(log', "start") = Len(s) + 1 /\ Len(log) \in Nat /\ Len(s) >= Len(log)
      BY <1>1, <2>2, <2>3, <3>2, <3>3, LogAppend, AppendProperties, LenProperties DEF Quiet
    <3>5. \A k \in 1 .. Len(log') : ~(k > LastIn(log', "start"))
      BY <3>4
    <3>6. LastIn(log', "end") <= LastIn(log', "start")
      BY <3>4
    <3>7. LastIn(log', "end") # 0 => LastEnd' = LastEnd
      <4>1. LastIn(log, "end") # 0 => LastIn(log, "end") \in 1 .. Len(s) /\ LastIn(log, "end") \in 1 .. Len(log)
        BY <3>4
      <4> QED BY <3>3, <3>4, <4>1 DEF LastEnd, Quiet
    <3>8. \A x : Measured(x)' = Measured(x)
      BY <1>1 DEF Measured
    <3>9. \A x, y : Precedes(x, y)' = Precedes(x, y)
      BY <1>1, <3>8 DEF Precedes, CutAgain
    <3>10. LogOrder'
      BY <1>1, <1>2, <1>3, <2>1, <3>2, <3>4, <3>5, <3>6, <3>7, <3>8 DEF LogOrder
    <3>11. OutputOrder'
      BY <1>1, <1>2, <1>3, <2>1, <3>2, <3>4, <3>7, <3>9 DEF OutputOrder
    <3> QED BY <3>10, <3>11
  <2>8. CASE ~Accepted(Named(r))
    <3>1. Prints(<<a, e, e>>) /\ script' = [script EXCEPT !.pc = "returned"]
      BY <1>6, <2>8 DEF Write, GoesTo, a, e
    <3>2. log' = Append(t, e) /\ script'.pc = "returned"
      BY <1>1, <2>2, <3>1, OneByOne DEF Prints, s, t
    <3>3. Quiet(t)
      BY <1>1, <2>2, <2>3, <2>4, <2>5 DEF s, t
    <3>4. Quiet(log') /\ log' \in Seq(LogLine)
      BY <2>2, <2>3, <2>4, <3>2, <3>3, AppendProperties
    <3>5. /\ LastIn(log', "end") = LastIn(log, "end") /\ (LastIn(log', "end") # 0 => LastEnd' = LastEnd)
          /\ \A k \in 1 .. Len(log') :
               log'[k].tag = "end" /\ k > LastIn(log', "start") => k = LastIn(log', "end")
      BY <2>6, <3>4 DEF Quiet, LastEnd
    <3>8. \A x : Measured(x)' = Measured(x)
      BY <1>1 DEF Measured
    <3>9. \A x, y : Precedes(x, y)' = Precedes(x, y)
      BY <1>1, <3>8 DEF Precedes, CutAgain
    <3>6. ~Measured(r)
      BY <2>8 DEF Measured
    <3>10. LogOrder'
      BY <1>1, <1>2, <1>3, <2>1, <3>2, <3>5, <3>6, <3>8 DEF LogOrder
    <3>11. OutputOrder'
      BY <1>1, <1>2, <1>3, <2>1, <3>2, <3>5, <3>9 DEF OutputOrder
    <3> QED BY <3>10, <3>11
  <2> QED BY <2>7, <2>8
<1>7. CASE Second \/ OthersPrint
  <2>1. PICK line \in LogLine : Prints(<<line>>) /\ line.tag \in {"second", "noise"}
    <3>1. CASE Second
      <4> DEFINE line == Line("second", r, seconds + 1)
      <4>1. seconds + 1 \in 0 .. Runtime /\ r \in Tests
        BY <1>1, <3>1, ConstantsAssumption
        DEF Second, TypeInv, ScriptType, Busy, ConstantsAssumption
      <4>2. line \in LogLine /\ line.tag = "second"
        BY <1>1, <4>1, LineFacts
      <4>3. Prints(<<line>>)
        BY <3>1 DEF Second
      <4> HIDE DEF line
      <4> QED BY <4>2, <4>3
    <3>2. CASE OthersPrint
      <4> DEFINE line == Line("noise", 0, 0)
      <4>1. line \in LogLine /\ line.tag = "noise"
        BY <1>1, SweepFacts, ConstantsAssumption DEF Line, LogLine, LineType, ConstantsAssumption
      <4>2. Prints(<<line>>)
        BY <3>2 DEF OthersPrint
      <4> HIDE DEF line
      <4> QED BY <4>1, <4>2
    <3> QED BY <1>7, <3>1, <3>2
  <2>2. log' = Append(log, line) /\ script' = script
    BY <1>1, <1>7, <2>1, PrintsOne DEF Second, OthersPrint, scriptVars
  <2>3. line.tag # "end"
    BY <2>1
  <2> QED BY <1>1, <1>2, <2>1, <2>2, <2>3, OrderLine
<1>8. CASE WriteReturns
  <2> DEFINE line == Line("end", r, 0)
  <2>1. script.pc = "inside" /\ r \in Tests /\ script'.pc = "returned"
    BY <1>1, <1>8 DEF WriteReturns, GoesTo, Busy
  <2>2. line \in LogLine /\ line.tag = "end" /\ line.test = r
    BY <1>1, <2>1, LineFacts
  <2>3. Prints(<<line>>)
    BY <1>8 DEF WriteReturns
  <2> HIDE DEF line
  <2>4. log' = Append(log, line)
    BY <1>1, <2>2, <2>3, PrintsOne
  <2>5. /\ Len(log) \in Nat /\ Len(log') = Len(log) + 1 /\ log'[Len(log) + 1] = line
        /\ \A k \in 1 .. Len(log) : log'[k] = log[k]
        /\ LastIn(log', "end") = Len(log) + 1 /\ LastIn(log, "end") \in 0 .. Len(log)
        /\ LastIn(log', "start") = LastIn(log, "start") /\ LastIn(log, "start") \in 0 .. Len(log)
        /\ \A k \in 1 .. Len(log) : log[k].tag = "end" => k <= LastIn(log, "end")
    BY <1>1, <2>2, <2>4, LogAppend, AppendProperties, LastInFacts
  <2>6. LastIn(log, "end") <= LastIn(log, "start")
    BY <1>2, <2>1 DEF LogOrder
  <2>7. \A k \in 1 .. Len(log') : log'[k].tag = "end" /\ k > LastIn(log', "start") => k = LastIn(log', "end")
    <3> SUFFICES ASSUME NEW k \in 1 .. Len(log'), log'[k].tag = "end", k > LastIn(log, "start")
                 PROVE  k = Len(log) + 1
      BY <2>5
    <3> SUFFICES ASSUME k # Len(log) + 1 PROVE FALSE
      OBVIOUS
    <3>1. k \in 1 .. Len(log)
      BY <2>5
    <3>2. k <= LastIn(log, "end")
      BY <2>5, <3>1
    <3> QED BY <2>5, <2>6, <3>1, <3>2
  <2>8. LastEnd' = r /\ LastIn(log', "end") # 0 /\ r \in Nat
    BY <1>1, <2>1, <2>2, <2>5 DEF LastEnd
  <2>9. LogOrder'
    <3>1. r + 1 .. r = {}
      BY <2>8
    <3> QED BY <1>1, <1>3, <2>1, <2>7, <2>8, <3>1 DEF LogOrder
  <2>10. \A x, y : Precedes(x, y)' = Precedes(x, y)
    BY <1>1 DEF Precedes, CutAgain, Measured
  <2>11. OutputOrder'
    BY <1>1, <1>2, <1>3, <2>1, <2>8, <2>10 DEF OutputOrder, Busy
  <2> QED BY <2>9, <2>11
<1> QED BY <1>6, <1>7, <1>8

\* The steps of the script: what it cuts out of the log has one end, the last.
LEMMA OrderScript ==
  ASSUME TypeInv, TurnInv, LogInv, OrderInv, ~Polls,
         NextTest \/ Returned \/ Poll \/ Collect \/ SweepEnds
  PROVE  OrderInv'
<1> DEFINE r == script.test
<1>1. /\ UNCHANGED <<sweep, kernelVars, parserVars>> /\ sweep \in Sweeps
      /\ Tests' = Tests /\ Polls' = Polls
      /\ \A t : Named(t)' = Named(t)
      /\ script \in [pc : Busy \cup {"next", "ended"}, test : 0 .. Len(sweep.tests), sleep : Sleeps]
      /\ script.pc \in Busy => r \in Tests
      /\ Tests = 1 .. Len(sweep.tests) /\ Len(sweep.tests) \in Nat
      /\ log \in Seq(LogLine) /\ output \in Seq(LogLine)
  BY SameSweep, SweepFacts
  DEF NextTest, Returned, Poll, Collect, SweepEnds, TypeInv, ScriptType, LinesType, Busy
<1>2. log' = log /\ LogOrder /\ OutputOrder /\ (script.pc \in Busy => ~Passes(Named(r)))
  BY <1>1 DEF OrderInv, kernelVars
<1>3. /\ \A t : Measured(t)' = Measured(t)
      /\ \A s, t : Precedes(s, t)' = Precedes(s, t)
  BY <1>1 DEF Measured, Precedes, CutAgain
<1>4. CASE NextTest
  <2>1. /\ script'.test = r + 1 /\ script'.pc \in {"next", "write"}
        /\ script'.pc = "next" => Passes(Named(r + 1)) 
        /\ script'.pc = "write" => ~Passes(Named(r + 1))
        /\ output' = output /\ script.pc = "next"
    BY <1>1, <1>4 DEF NextTest
  <2>2. LogOrder'
    <3>1. ASSUME LastIn(log, "end") # 0
          PROVE  /\ LastEnd \in Tests /\ LastEnd <= r + 1
                 /\ \A t \in LastEnd + 1 .. r + 1 : Measured(t) => t = r + 1 /\ script'.pc = "write"
      <4>1. LastEnd \in Tests /\ LastEnd <= r /\ \A t \in LastEnd + 1 .. r : ~Measured(t)
        BY <1>1, <1>2, <2>1, <3>1 DEF LogOrder
      <4>2. \A t \in LastEnd + 1 .. r + 1 : t \in LastEnd + 1 .. r \/ t = r + 1
        BY <1>1, <4>1
      <4>3. Measured(r + 1) => script'.pc = "write"
        BY <2>1 DEF Measured
      <4> QED BY <1>1, <4>1, <4>2, <4>3
    <3> HIDE DEF r
    <3> QED BY <1>1, <1>2, <1>3, <2>1, <3>1 DEF LogOrder, LastEnd
  <2>3. OutputOrder'
    <3>1. \A k \in 1 .. Len(output) : output[k].tag = "end" =>
            output[k].test \in Tests /\ output[k].test < r + 1 /\ output[k].test <= r + 1
      BY <1>1, <1>2 DEF OutputOrder
    <3> HIDE DEF r
    <3> QED BY <1>1, <1>2, <1>3, <2>1, <3>1 DEF OutputOrder, LastEnd
  <2>4. (script.pc \in Busy => ~Passes(Named(script.test)))'
    <3>1. Named(script.test)' = Named(r + 1)
      BY <1>1, <2>1 DEF Named
    <3> QED BY <2>1, <3>1 DEF Busy
  <2> QED BY <2>2, <2>3, <2>4 DEF OrderInv
<1>5. CASE Returned \/ SweepEnds
  <2>1. /\ script'.test = r /\ output' = output /\ script.pc \notin {"write", "inside"}
        /\ script'.pc \in {"collect", "ended"} /\ (script'.pc \in Busy => script.pc \in Busy)
    BY <1>1, <1>5 DEF Returned, SweepEnds, GoesTo, Busy
  <2>2. LogOrder'
    BY <1>1, <1>2, <1>3, <2>1 DEF LogOrder, LastEnd
  <2>3. OutputOrder'
    BY <1>1, <1>2, <1>3, <2>1 DEF OutputOrder, LastEnd
  <2>4. (script.pc \in Busy => ~Passes(Named(script.test)))'
    <3>1. Named(script.test)' = Named(r)
      BY <1>1, <2>1 DEF Named
    <3> QED BY <1>2, <2>1, <3>1
  <2> QED BY <2>2, <2>3, <2>4 DEF OrderInv
<1>6. CASE Poll
  BY <1>6 DEF Poll, TurnInv
<1>7. CASE Collect
  <2> DEFINE from == LastIn(log, "start")
             to == LastIn(log, "end")
             lines == Cut(from, to)
  <2>1. /\ script.pc = "collect" /\ script'.pc = "next" /\ script'.test = r /\ r \in Tests
        /\ output' = output \o lines
    BY <1>1, <1>7 DEF Collect, GoesTo, LastOf, LastIn, Busy
  <2>2. LogOrder'
    BY <1>1, <1>2, <1>3, <2>1 DEF LogOrder, LastEnd
  <2>3. (script.pc \in Busy => ~Passes(Named(script.test)))'
    BY <2>1 DEF Busy
  <2>4. /\ from \in 0 .. Len(log) /\ to \in 0 .. Len(log) /\ Len(log) \in Nat /\ from <= to
        /\ from # 0 => log[from].tag = "start"
    BY <1>1, <2>1, LastInFacts, LenProperties DEF LogInv
  <2>5. lines \in Seq(LogLine)
    BY <1>1, <2>4, CutFacts
  <2>6. SUFFICES OutputOrder'
    BY <2>2, <2>3 DEF OrderInv
  <2>7. CASE from = 0 \/ to = 0
    <3>1. output' = output
      BY <1>1, <2>1, <2>4, <2>7, CutFacts, ConcatEmptySeq
    <3> QED BY <1>1, <1>2, <1>3, <2>1, <3>1 DEF OutputOrder, LastEnd, Busy
  <2>8. CASE from # 0 /\ to # 0
    <3> DEFINE n == to - from + 1
    <3>1. /\ Len(lines) = n /\ n \in Nat /\ n # 0
          /\ \A j \in 1 .. n : from + j - 1 \in from .. Len(log) /\ lines[j] = log[from + j - 1]
      <4>1. ~(to < from) /\ n \in Nat /\ n # 0 /\ from \in Nat
        BY <2>4, <2>8
      <4>2. /\ Len(lines) = n
            /\ \A j \in 1 .. Len(lines) : j + from - 1 \in 1 .. Len(log) /\ lines[j] = log[from + j - 1]
        <5> HIDE DEF from, to
        <5> QED BY <1>1, <2>4, <2>8, <4>1, CutFacts
      <4> HIDE DEF from, to, lines
      <4>3. \A j \in 1 .. n : from + j - 1 \in from .. Len(log)
        BY <2>4, <4>1, <4>2
      <4> QED BY <4>1, <4>2, <4>3
    <3>2. \A k \in 1 .. Len(log) : log[k].tag = "end" /\ k > from => k = to
      BY <1>2 DEF LogOrder
    <3>3. LastEnd = log[to].test
      BY DEF LastEnd
    <3> HIDE DEF lines, from, to
    <3>4. \A j \in 1 .. n : lines[j].tag = "end" => j = n /\ lines[j].test = LastEnd
      <4> SUFFICES ASSUME NEW j \in 1 .. n, lines[j].tag = "end"
                   PROVE  j = n /\ lines[j].test = LastEnd
        OBVIOUS
      <4>1. /\ log[from + j - 1].tag = "end" /\ lines[j] = log[from + j - 1]
            /\ from + j - 1 \in from .. Len(log)
        BY <3>1
      <4>2. from + j - 1 # from
        BY <2>4, <2>8, <4>1
      <4>3. from + j - 1 \in 1 .. Len(log) /\ from + j - 1 > from
        BY <2>4, <2>8, <4>1, <4>2
      <4>4. from + j - 1 = to
        BY <3>2, <4>1, <4>3
      <4> QED BY <2>4, <3>3, <4>1, <4>4
    <3> HIDE DEF n
    <3>5. /\ Len(output) \in Nat /\ Len(output') = Len(output) + n
          /\ \A k \in 1 .. Len(output) : output'[k] = output[k]
          /\ \A j \in 1 .. n : output'[Len(output) + j] = lines[j]
      <4>1. /\ Len(output) \in Nat /\ Len(output \o lines) = Len(output) + Len(lines)
            /\ \A k \in 1 .. Len(output) : (output \o lines)[k] = output[k]
            /\ \A j \in 1 .. Len(lines) : (output \o lines)[Len(output) + j] = lines[j]
        BY <1>1, <2>5, Added
      <4>2. Len(lines) = n /\ output' = output \o lines
        BY <2>1, <3>1
      <4> QED BY <4>1, <4>2
\* An end of the new output.txt is an old one, or the last line.
    <3>6. ASSUME NEW k \in 1 .. Len(output'), output'[k].tag = "end"
          PROVE  \/ k \in 1 .. Len(output) /\ output[k].tag = "end" /\ output'[k] = output[k]
                 \/ k = Len(output') /\ k > Len(output) /\ output'[k].test = LastEnd
      <4>1. CASE k <= Len(output)
        BY <3>5, <3>6, <4>1
      <4>2. CASE ~(k <= Len(output))
        <5>1. k - Len(output) \in 1 .. n /\ Len(output) + (k - Len(output)) = k
          BY <3>1, <3>5, <4>2
        <5>2. output'[k] = lines[k - Len(output)]
          BY <3>5, <5>1
        <5>3. k - Len(output) = n /\ output'[k].test = LastEnd
          BY <3>4, <3>6, <5>1, <5>2
        <5> QED BY <3>1, <3>5, <4>2, <5>1, <5>3
      <4> QED BY <4>1, <4>2
    <3>7. LastEnd \in Tests /\ LastEnd <= r /\ LastEnd' = LastEnd
          /\ \A t \in LastEnd + 1 .. r : ~Measured(t)
      BY <1>1, <1>2, <2>1, <2>8 DEF LogOrder, LastEnd, to
    <3>8. ASSUME NEW k \in 1 .. Len(output), output[k].tag = "end"
          PROVE  /\ output[k].test \in Tests /\ output[k].test < r /\ output[k].test <= LastEnd
                 /\ Precedes(output[k].test, LastEnd)
      <4>1. output[k].test \in Tests /\ output[k].test < r /\ output[k].test <= LastEnd
        BY <1>2, <2>1, <3>8 DEF OutputOrder, Busy
      <4>2. CASE output[k].test < LastEnd
        BY <4>1, <4>2 DEF Precedes
      <4>3. CASE output[k].test = LastEnd
        <5>1. LastEnd < r /\ r \in LastEnd + 1 .. r
          BY <1>1, <3>7, <4>1, <4>3
        <5>2. ~Measured(r) /\ ~Passes(Named(r))
          BY <1>2, <2>1, <3>7, <5>1 DEF Busy
        <5>3. CutAgain(output[k].test)
          BY <2>1, <3>7, <4>3, <5>1, <5>2 DEF CutAgain, Measured
        <5> QED BY <4>1, <4>3, <5>3 DEF Precedes
      <4>4. output[k].test < LastEnd \/ output[k].test = LastEnd
        BY <1>1, <3>7, <4>1
      <4> QED BY <4>1, <4>2, <4>3, <4>4
    <3>9. ASSUME NEW k \in 1 .. Len(output'), output'[k].tag = "end"
          PROVE  output'[k].test \in Tests /\ output'[k].test <= r /\ output'[k].test <= LastEnd
      <4>1. \A t \in Tests : t < r => t <= r
        BY <1>1
      <4>2. LastEnd <= LastEnd
        BY <1>1, <3>7
      <4> QED BY <3>6, <3>7, <3>8, <3>9, <4>1, <4>2
    <3>10. ASSUME NEW j \in 1 .. Len(output'), NEW k \in 1 .. Len(output'), j < k,
                  output'[j].tag = "end", output'[k].tag = "end"
           PROVE  Precedes(output'[j].test, output'[k].test)
      <4>1. j # Len(output') /\ (k \in 1 .. Len(output) => j \in 1 .. Len(output))
        BY <3>1, <3>5, <3>10
      <4>2. j \in 1 .. Len(output) /\ output[j].tag = "end" /\ output'[j] = output[j]
        BY <3>6, <3>10, <4>1
      <4>3. CASE k \in 1 .. Len(output) /\ output[k].tag = "end" /\ output'[k] = output[k]
        BY <1>2, <3>10, <4>2, <4>3 DEF OutputOrder
      <4>4. CASE output'[k].test = LastEnd
        BY <3>8, <4>2, <4>4
      <4> QED BY <3>6, <3>10, <4>3, <4>4
    <3>11. LastIn(log', "end") # 0 /\ script'.pc \notin Busy
      BY <1>2, <2>1, <2>8 DEF to, Busy
    <3> HIDE DEF r
    <3> QED BY <1>1, <1>3, <2>1, <3>7, <3>9, <3>10, <3>11 DEF OutputOrder
  <2> QED BY <2>7, <2>8
<1> QED BY <1>4, <1>5, <1>6, <1>7

\* Before the parser begins there are no rows.
LEMMA NoRows ==
  ASSUME IdleInv, script.pc # "ended" \/ Polls, rows' = rows
  PROVE  RowsOrder'
<1>1. rows' = <<>>
  BY DEF IdleInv
<1>2. 1 .. Len(rows') = {}
  BY <1>1, EmptySeq
<1> QED BY <1>2 DEF RowsOrder

\* A row more, that of the next end.
LEMMA RowsOrderParser ==
  ASSUME TypeInv, OrderInv, RowsInv, IdleInv, RowsOrder, ParserStep
  PROVE  RowsOrder'
<1>1. /\ UNCHANGED <<sweep, output>> /\ ~Polls /\ output \in Seq(LogLine) /\ Len(output) \in Nat
      /\ rows \in Seq(RowType) /\ Len(rows) \in Nat /\ parser.pos \in 0 .. Len(output)
      /\ parser \in [pos : 0 .. Len(output), timer : 0 .. Runtime, task : Test \cup {NoTest},
                     throughput : Seq(Nat \X Nat), pc : ParserPcs]
  BY LenProperties DEF ParserStep, ReadStart, ReadEnd, ReadOther, ReadEof, ParserOnly, Reading,
     scriptVars, TypeInv, LinesType, ParserType, QueueType
<1>2. /\ \A s, t : Precedes(s, t)' = Precedes(s, t)
  BY <1>1 DEF Precedes, CutAgain, Measured, Named, Tests
<1>3. /\ \A j, k \in 1 .. Len(rows) : j < k => Precedes(TestOf(rows[j]), TestOf(rows[k]))
      /\ \A j \in 1 .. Len(rows), k \in parser.pos + 1 .. Len(output) :
           output[k].tag = "end" => Precedes(TestOf(rows[j]), output[k].test)
  BY <1>1 DEF RowsOrder
<1>4. ASSUME rows' = rows, parser'.pos >= parser.pos, parser'.pos \in 0 .. Len(output)
      PROVE  RowsOrder'
  <2>1. \A k \in parser'.pos + 1 .. Len(output) : k \in parser.pos + 1 .. Len(output)
    BY <1>1, <1>4
  <2> QED BY <1>1, <1>2, <1>3, <1>4, <2>1 DEF RowsOrder, TestOf
<1>5. CASE rows' = rows
  <2>1. parser'.pos >= parser.pos /\ parser'.pos \in 0 .. Len(output)
    <3>1. parser'.pos = parser.pos \/ (parser'.pos = parser.pos + 1 /\ parser.pos < Len(output))
      BY <1>1 DEF ParserStep, ReadStart, ReadEnd, ReadOther, ReadEof, Reading, Asserts, Refused, Reads
    <3> QED BY <1>1, <3>1
  <2> QED BY <1>4, <1>5, <2>1
<1>6. CASE rows' # rows
  <2>1. ReadEnd
    BY <1>6 DEF ParserStep, ReadStart, ReadOther, ReadEof, Asserts, Refused
  <2>2. /\ parser' = [[parser EXCEPT !.timer = 0] EXCEPT !.pos = @ + 1] /\ rows' = Append(rows, Row)
    BY <1>6, <2>1 DEF ReadEnd, Asserts, Refused, Reads
  <2> DEFINE r == Current.test
             pos == parser.pos + 1
  <2>3. /\ pos \in 1 .. Len(output) /\ output[pos].tag = "end" /\ output[pos].test = r
        /\ parser.throughput = SamplesOf(r) /\ parser'.pos = pos
    BY <1>1, <2>1, <2>2, EndFacts DEF ReadEnd, Current
  <2>4. TestOf(Row) = r
    <3>1. Row.throughput = SamplesOf(r) /\ 1 \in 1 .. Runtime
      BY <2>3, ConstantsAssumption DEF Row, ConstantsAssumption
    <3> QED BY <3>1 DEF TestOf, SamplesOf
  <2>5. /\ Len(rows') = Len(rows) + 1 /\ rows'[Len(rows) + 1] = Row
        /\ \A k \in 1 .. Len(rows) : rows'[k] = rows[k]
    <3>1. Row \in RowType
      BY <1>1 DEF Row, RowType
    <3> QED BY <1>1, <2>2, <3>1, AppendProperties
  <2> HIDE DEF r
  <2>6. ASSUME NEW j \in 1 .. Len(rows) + 1
        PROVE  \/ j \in 1 .. Len(rows) /\ TestOf(rows'[j]) = TestOf(rows[j])
               \/ j = Len(rows) + 1 /\ TestOf(rows'[j]) = r
    <3>1. j \in 1 .. Len(rows) \/ j = Len(rows) + 1
      BY <1>1
    <3>2. j \in 1 .. Len(rows) => rows'[j] = rows[j]
      BY <2>5
    <3> QED BY <2>4, <2>5, <3>1, <3>2
  <2>7. \A j \in 1 .. Len(rows) : Precedes(TestOf(rows[j]), r)
    <3>1. pos \in parser.pos + 1 .. Len(output)
      BY <1>1, <2>3
    <3> QED BY <1>3, <2>3, <3>1
  <2>8. ASSUME NEW j \in 1 .. Len(rows) + 1, NEW k \in 1 .. Len(rows) + 1, j < k
        PROVE  Precedes(TestOf(rows'[j]), TestOf(rows'[k]))
    <3>1. j # Len(rows) + 1
      BY <1>1, <2>8
    <3>2. j \in 1 .. Len(rows) /\ TestOf(rows'[j]) = TestOf(rows[j])
      BY <2>6, <3>1
    <3> QED BY <1>3, <2>6, <2>7, <2>8, <3>2
  <2>9. ASSUME NEW j \in 1 .. Len(rows) + 1, NEW k \in pos + 1 .. Len(output), output[k].tag = "end"
        PROVE  Precedes(TestOf(rows'[j]), output[k].test)
    <3>1. k \in parser.pos + 1 .. Len(output) /\ k \in 1 .. Len(output) /\ pos < k
      BY <1>1, <2>3
    <3>2. Precedes(r, output[k].test)
      BY <1>1, <2>3, <2>9, <3>1 DEF OrderInv, OutputOrder
    <3> QED BY <1>3, <2>6, <2>9, <3>1, <3>2
  <2> HIDE DEF pos
  <2> QED BY <1>1, <1>2, <2>3, <2>5, <2>8, <2>9 DEF RowsOrder, TestOf
<1> QED BY <1>5, <1>6

LogStepInv ==
  TypeInv /\ TurnsInv /\ LogInv /\ OutputInv /\ RowsInv /\ IdleInv /\ OrderInv /\ RowsOrder

\* No step of a worker is one of a bandwidth sweep.
LEMMA NoWorker ==
  ASSUME SweepsAsWritten, TypeInv, TurnInv, ~Polls, NEW r \in Tests
  PROVE  ~WorkerStep(r)
<1>1. /\ sweep \in Sweeps /\ Tests = 1 .. Len(sweep.tests) /\ sweep.script \in Scripts
  BY SweepFacts DEF TypeInv, ScriptType
<1>2. ~IsLatency(Named(r))
  BY <1>1 DEF SweepsAsWritten, Named, IsLatency, TaskOf, Polls, Scripts
<1>3. worker[r] = "none"
  BY <1>2 DEF TurnInv
<1> QED BY <1>3 DEF WorkerStep, WorkerBegins, WorkerMeasures, WorkerReports, WorkerPrints

\* Nothing is parsed of a sweep that polls.
LEMMA PollsIdle ==
  ASSUME TypeInv, IdleInv, Polls, [Next]_vars
  PROVE  LogInv' /\ OutputInv' /\ RowsInv' /\ IdleInv' /\ OrderInv' /\ RowsOrder'
<1>1. UNCHANGED <<sweep, parser, rows>>
  BY DEF Next, vars, ScriptStep, NextTest, Write, Second, WriteReturns, Returned, Poll, Collect,
     SweepEnds, WorkerStep, WorkerBegins, WorkerMeasures, WorkerReports, WorkerPrints,
     OthersPrint, ParserStep, ReadStart, ReadEnd, ReadOther, ReadEof, Reading, parserVars
<1>2. Polls'
  BY <1>1 DEF Polls
<1>3. script'.pc = "ended" => script'.test = Len(sweep.tests)
  <2>1. script \in [pc : Busy \cup {"next", "ended"}, test : 0 .. Len(sweep.tests), sleep : Sleeps]
    BY DEF TypeInv, ScriptType
  <2>2. CASE NextTest \/ Write \/ WriteReturns
    <3>1. script'.pc # "ended"
      BY <2>1, <2>2 DEF NextTest, Write, WriteReturns, GoesTo
    <3> QED BY <3>1
  <2>3. CASE Returned \/ Poll \/ Collect
    <3>1. script'.pc # "ended"
      BY <2>1, <2>3 DEF Returned, Poll, Collect, GoesTo
    <3> QED BY <3>1
  <2>4. CASE SweepEnds
    BY <2>1, <2>4 DEF SweepEnds, GoesTo
  <2>5. CASE Second \/ OthersPrint \/ ParserStep \/ (\E r \in Tests : WorkerStep(r)) \/ UNCHANGED vars
    <3>1. script' = script
      BY <2>5 DEF vars, Second, WorkerStep, WorkerBegins, WorkerMeasures, WorkerReports, WorkerPrints,
         scriptVars, OthersPrint, ParserStep, ReadStart, ReadEnd, ReadOther, ReadEof, ParserOnly
    <3> QED BY <3>1 DEF IdleInv
  <2> QED BY <2>2, <2>3, <2>4, <2>5 DEF Next, ScriptStep
<1>4. IdleInv'
  BY <1>1, <1>2, <1>3 DEF IdleInv, Idle, NoTest
<1> QED BY <1>2, <1>4 DEF LogInv, OutputInv, RowsInv, OrderInv, RowsOrder

\* The definitions of a sweep are those of the next state.
LEMMA SameTests ==
  ASSUME sweep' = sweep
  PROVE  /\ Polls' = Polls /\ Tests' = Tests /\ TimerStop' = TimerStop
         /\ \A t : Named(t)' = Named(t)
         /\ \A t : Measured(t)' = Measured(t)
         /\ \A s, t : Precedes(s, t)' = Precedes(s, t)
<1>1. Polls' = Polls /\ Tests' = Tests /\ TimerStop' = TimerStop /\ \A t : Named(t)' = Named(t)
  BY DEF Polls, Tests, TimerStop, Named
<1>2. \A t : Measured(t)' = Measured(t)
  BY <1>1 DEF Measured
<1> QED BY <1>1, <1>2 DEF Precedes, CutAgain

\* A step of the kernel changes no row.
LEMMA RowsOrderKept ==
  ASSUME RowsOrder, UNCHANGED <<sweep, output, parser, rows>>
  PROVE  RowsOrder'
BY SameTests DEF RowsOrder, TestOf

LEMMA RowsStep ==
  ASSUME SweepsAsWritten, TypeInv, TurnsInv, LogInv, OutputInv, RowsInv, IdleInv, OrderInv, RowsOrder,
         [Next]_vars
  PROVE  LogInv' /\ OutputInv' /\ RowsInv' /\ IdleInv' /\ OrderInv' /\ RowsOrder'
<1>1. CASE Polls
  BY <1>1, PollsIdle
<1> SUFFICES ASSUME ~Polls
             PROVE  LogInv' /\ OutputInv' /\ RowsInv' /\ IdleInv' /\ OrderInv' /\ RowsOrder'
  BY <1>1
<1>2. /\ script \in [pc : Busy \cup {"next", "ended"}, test : 0 .. Len(sweep.tests), sleep : Sleeps]
      /\ TurnInv
  BY DEF TypeInv, ScriptType, TurnsInv
<1>3. CASE Write
  <2>1. /\ UNCHANGED <<sweep, output, parserVars>> /\ script'.test = script.test
        /\ script.pc # "ended" /\ script'.pc \notin {"next", "ended"}
    BY <1>2, <1>3 DEF Write, GoesTo
  <2>2. LogInv' /\ OutputInv' /\ RowsInv' /\ IdleInv'
    BY <1>3, <2>1, LogWrite, OutputKernel
  <2> QED BY <1>3, <2>1, <2>2, OrderKernel, RowsOrderKept DEF parserVars
<1>4. CASE Second \/ WriteReturns
  <2>1. /\ UNCHANGED <<sweep, output, parserVars>> /\ script'.test = script.test
        /\ script.pc # "ended" /\ script'.pc \notin {"next", "ended"}
    BY <1>2, <1>4 DEF Second, WriteReturns, GoesTo, scriptVars
  <2>2. LogInv' /\ OutputInv' /\ RowsInv' /\ IdleInv'
    BY <1>4, <2>1, LogInside, OutputKernel
  <2> QED BY <1>4, <2>1, <2>2, OrderKernel, RowsOrderKept DEF parserVars
<1>5. CASE OthersPrint
  <2>1. LogInv'
    BY <1>5, LogOthers
  <2>2. UNCHANGED <<sweep, script, output, parser, rows>>
    BY <1>5 DEF OthersPrint, scriptVars, parserVars
  <2>3. OutputInv' /\ RowsInv' /\ IdleInv'
    BY <2>2, SameTests DEF OutputInv, RowsInv, IdleInv, Written, Matches, SamplesOf, Idle, NoTest, Line
  <2> QED BY <1>5, <2>1, <2>2, <2>3, OrderKernel, RowsOrderKept
<1>6. CASE NextTest \/ Returned \/ Poll \/ Collect \/ SweepEnds
  <2>1. script.pc # "ended" /\ rows' = rows
    BY <1>2, <1>6 DEF NextTest, Returned, Poll, Collect, SweepEnds, parserVars
  <2> QED BY <1>2, <1>6, <2>1, OutputScript, OrderScript, NoRows
<1>7. CASE ParserStep
  <2>1. OutputInv' /\ RowsInv' /\ IdleInv' /\ RowsOrder'
    BY <1>7, RowsParser, RowsOrderParser
  <2>2. UNCHANGED <<sweep, script, log, seconds, output>>
    BY <1>7 DEF ParserStep, ReadStart, ReadEnd, ReadOther, ReadEof, ParserOnly, scriptVars, kernelVars
  <2>3. LogInv'
    BY <2>2 DEF LogInv, Polls, Named, Line
  <2>4. OrderInv'
    BY <2>2, SameTests DEF OrderInv, LogOrder, OutputOrder, LastEnd
  <2> QED BY <2>1, <2>3, <2>4
<1>8. CASE UNCHANGED vars
  <2>1. UNCHANGED <<sweep, script, log, seconds, output, parser, rows>>
    BY <1>8 DEF vars
  <2>2. OutputInv' /\ RowsInv' /\ IdleInv'
    BY <2>1, SameTests DEF OutputInv, RowsInv, IdleInv, Written, Matches, SamplesOf, Idle, NoTest, Line
  <2>3. LogInv'
    BY <2>1 DEF LogInv, Polls, Named, Line
  <2>4. OrderInv'
    BY <2>1, SameTests DEF OrderInv, LogOrder, OutputOrder, LastEnd
  <2> QED BY <2>1, <2>2, <2>3, <2>4, RowsOrderKept
<1>9. ASSUME NEW r \in Tests PROVE ~WorkerStep(r)
  BY <1>2, NoWorker
<1> QED BY <1>3, <1>4, <1>5, <1>6, <1>7, <1>8, <1>9 DEF Next, ScriptStep

\* The rows that the parser prints are the tests of the sweep.  A row has all
\* the seconds of one test, none of another and none twice, and the name of
\* that test; the rows are in the order of the tests, and a test has a second
\* one only when a command behind it was refused; each test that was written
\* and accepted has its row when the parser is at its end.  An assertion fails
\* only when the parser was given another duration than the tests ran, and
\* then there is no row.  What others print to the log does not disturb it.
THEOREM RowsAreTests ==
  ASSUME SweepsAsWritten, NothingPassedOver
  PROVE  Spec => []RowPerTest
<1>1. LogStepInv => RowPerTest
  <2> SUFFICES ASSUME LogStepInv PROVE RowPerTest
    OBVIOUS
  <2>1. DOMAIN rows = 1 .. Len(rows) /\ Len(rows) \in Nat /\ Len(sweep.tests) \in Nat
        /\ Tests = 1 .. Len(sweep.tests) /\ parser.pos \in 0 .. Len(output) /\ Len(output) \in Nat
    BY LenProperties, SweepFacts DEF LogStepInv, TypeInv, ParserType, QueueType, ScriptType, LinesType
  <2>2. CASE Polls
    <3>1. parser.pc = "reading" /\ rows = <<>> /\ Len(rows) = 0
      BY <2>2, EmptySeq DEF LogStepInv, IdleInv, Idle
    <3>2. 1 .. Len(rows) = {}
      BY <3>1
    <3> QED BY <2>1, <3>1, <3>2 DEF RowPerTest
  <2>3. CASE ~Polls
    <3>1. /\ TimerStop = Runtime => parser.pc # "failed"
          /\ TimerStop # Runtime => rows = <<>>
          /\ \A k \in DOMAIN rows :
               \E r \in Tests : rows[k] = [name |-> Named(r), throughput |-> SamplesOf(r)]
      BY <2>1, <2>3 DEF LogStepInv, RowsInv
    <3>2. \A j, k \in DOMAIN rows : j < k => Precedes(TestOf(rows[j]), TestOf(rows[k]))
      BY <2>1, <2>3 DEF LogStepInv, RowsOrder
    <3>3. ASSUME parser.pc = "finished", NEW r \in Tests, Measured(r)
          PROVE  \E k \in DOMAIN rows : rows[k].throughput = SamplesOf(r)
      <4>1. script.pc = "ended" /\ script.test = Len(sweep.tests) /\ parser.pos = Len(output)
        BY <2>3, <3>3 DEF LogStepInv, IdleInv, Idle, RowsInv
      <4>2. Written(r)
        BY <2>1, <3>3, <4>1 DEF Written
      <4>3. PICK k \in 1 .. Len(output) : output[k] = Line("end", r, 0)
        BY <2>3, <4>2 DEF LogStepInv, OutputInv
      <4>4. k \in 1 .. parser.pos /\ output[k].tag = "end" /\ output[k].test = r
        BY <4>1, <4>3 DEF Line
      <4> QED BY <2>1, <2>3, <4>4 DEF LogStepInv, RowsInv
    <3> QED BY <3>1, <3>2, <3>3 DEF RowPerTest
  <2> QED BY <2>2, <2>3
<1>2. Init => LogStepInv
  BY TypeInit, TurnsInit, LogInit, OutputInit, OrderInit DEF LogStepInv
<1>3. LogStepInv /\ [Next]_vars => LogStepInv'
  BY TypeStep, TurnsStep, RowsStep DEF LogStepInv
<1> QED BY <1>1, <1>2, <1>3, PTL DEF Spec
-----------------------------------------------------------------------------
(***************************************************************************)
(* What is uploaded.                                                       *)
(***************************************************************************)

\* The queue of a sweep that repeats tests has a name once.
UploadsInv == UploadsRows /\ (sweep.script = "flushfence" => NamesOnce(upqueue))

\* What is uploaded or queued, given whether the parser is at its end.
Sent == IF parser.pc = "finished" THEN Uploaded ELSE Uploaded \o upqueue

\* Of a sweep that repeats tests: each row has its name in s, and s has only rows.
ByName(s, printed) ==
  /\ \A k \in DOMAIN printed : HasRow(s, printed[k])
  /\ \A k \in DOMAIN s : \E j \in DOMAIN printed : s[k] = printed[j]

LEMMA UploadsInit ==
  ASSUME Init
  PROVE  UploadsInv
<1>1. /\ uploads = <<>> /\ upqueue = <<>> /\ rows = <<>> /\ parser.pc = "reading"
  BY DEF Init, Idle
<1>2. FlattenSeq(uploads) = <<>>
  <2>1. Len(uploads) = 0 /\ Len(uploads) \in Nat
    BY <1>1, EmptySeq
  <2> QED BY <1>1, <2>1, FlattenDefined
<1>3. <<>> \o <<>> = <<>>
  BY EmptySeq, ConcatEmptySeq
<1>4. Sent = <<>>
  BY <1>1, <1>2, <1>3 DEF Sent, Uploaded
<1>5. DOMAIN <<>> = {}
  BY EmptySeq, LenProperties
<1> QED BY <1>1, <1>4, <1>5 DEF UploadsInv, UploadsRows, Sent, NamesOnce, HasRow

\* A row that is not in the queue goes behind it.
LEMMA NamesOnceAppend ==
  ASSUME NEW q \in Seq(RowType), NEW row \in RowType, NamesOnce(q),
         \A k \in DOMAIN q : q[k].name # row.name
  PROVE  NamesOnce(Append(q, row))
<1>1. /\ Len(q) \in Nat /\ DOMAIN q = 1 .. Len(q) /\ DOMAIN Append(q, row) = 1 .. Len(q) + 1
      /\ \A k \in 1 .. Len(q) : Append(q, row)[k] = q[k]
      /\ Append(q, row)[Len(q) + 1] = row
  BY LenProperties, AppendProperties
<1>2. ASSUME NEW j \in 1 .. Len(q) + 1, NEW k \in 1 .. Len(q) + 1,
             Append(q, row)[j].name = Append(q, row)[k].name
      PROVE  j = k
  <2>1. /\ j \in 1 .. Len(q) \/ j = Len(q) + 1
        /\ k \in 1 .. Len(q) \/ k = Len(q) + 1
    BY <1>1
  <2>2. CASE j \in 1 .. Len(q) /\ k \in 1 .. Len(q)
    BY <1>1, <1>2, <2>2 DEF NamesOnce
  <2>3. CASE j \in 1 .. Len(q) /\ k = Len(q) + 1
    BY <1>1, <1>2, <2>3
  <2>4. CASE j = Len(q) + 1 /\ k \in 1 .. Len(q)
    BY <1>1, <1>2, <2>4
  <2> QED BY <2>1, <2>2, <2>3, <2>4
<1> QED BY <1>1, <1>2 DEF NamesOnce

\* A row more, on both sides.
LEMMA ByNameBoth ==
  ASSUME NEW s \in Seq(RowType), NEW printed \in Seq(RowType), NEW row \in RowType,
         ByName(s, printed)
  PROVE  /\ ByName(Append(s, row), Append(printed, row))
         /\ HasRow(s, row) => ByName(s, Append(printed, row))
<1>1. /\ Len(s) \in Nat /\ DOMAIN s = 1 .. Len(s) /\ DOMAIN Append(s, row) = 1 .. Len(s) + 1
      /\ \A k \in 1 .. Len(s) : Append(s, row)[k] = s[k]
      /\ Append(s, row)[Len(s) + 1] = row
  BY LenProperties, AppendProperties
<1>2. /\ Len(printed) \in Nat /\ DOMAIN printed = 1 .. Len(printed)
      /\ DOMAIN Append(printed, row) = 1 .. Len(printed) + 1
      /\ \A k \in 1 .. Len(printed) : Append(printed, row)[k] = printed[k]
      /\ Append(printed, row)[Len(printed) + 1] = row
  BY LenProperties, AppendProperties
<1>3. /\ \A k \in 1 .. Len(s) + 1 : k \in 1 .. Len(s) \/ k = Len(s) + 1
      /\ \A k \in 1 .. Len(printed) + 1 : k \in 1 .. Len(printed) \/ k = Len(printed) + 1
      /\ \A k \in 1 .. Len(s) : k \in 1 .. Len(s) + 1
      /\ \A k \in 1 .. Len(printed) : k \in 1 .. Len(printed) + 1
      /\ Len(s) + 1 \in 1 .. Len(s) + 1 /\ Len(printed) + 1 \in 1 .. Len(printed) + 1
  BY <1>1, <1>2
<1>4. \A k \in DOMAIN printed : HasRow(s, printed[k])
  BY DEF ByName
<1>5. \A k \in DOMAIN s : \E j \in DOMAIN Append(printed, row) : s[k] = Append(printed, row)[j]
  <2> SUFFICES ASSUME NEW k \in DOMAIN s
               PROVE  \E j \in DOMAIN Append(printed, row) : s[k] = Append(printed, row)[j]
    OBVIOUS
  <2>1. PICK j \in DOMAIN printed : s[k] = printed[j]
    BY DEF ByName
  <2> QED BY <1>2, <1>3, <2>1
<1>6. \A k \in DOMAIN printed : HasRow(Append(s, row), printed[k])
  BY <1>1, <1>3, <1>4 DEF HasRow
<1>7. HasRow(Append(s, row), row)
  BY <1>1, <1>3 DEF HasRow
<1>8. ByName(Append(s, row), Append(printed, row))
  <2>1. \A k \in DOMAIN Append(printed, row) : HasRow(Append(s, row), Append(printed, row)[k])
    BY <1>2, <1>3, <1>6, <1>7
  <2>2. \A k \in DOMAIN Append(s, row) :
          \E j \in DOMAIN Append(printed, row) : Append(s, row)[k] = Append(printed, row)[j]
    BY <1>1, <1>2, <1>3, <1>5
  <2> QED BY <2>1, <2>2 DEF ByName
<1>9. ASSUME HasRow(s, row)
      PROVE  ByName(s, Append(printed, row))
  <2>1. \A k \in DOMAIN Append(printed, row) : HasRow(s, Append(printed, row)[k])
    BY <1>2, <1>3, <1>4, <1>9
  <2> QED BY <1>5, <2>1 DEF ByName
<1> QED BY <1>8, <1>9

\* A step that prints no row and uploads none.
LEMMA UploadsKept ==
  ASSUME UploadsInv, UNCHANGED <<sweep, rows, upqueue, uploads>>,
         \/ parser' = parser
         \/ {parser.pc, parser'.pc} \cap {"finished", "refused"} = {}
  PROVE  UploadsInv'
<1>1. CASE parser' = parser
  BY <1>1 DEF UploadsInv, UploadsRows, Uploaded, NamesOnce, HasRow, Row
<1>2. CASE {parser.pc, parser'.pc} \cap {"finished", "refused"} = {}
  BY <1>2 DEF UploadsInv, UploadsRows, Uploaded, NamesOnce, HasRow
<1> QED BY <1>1, <1>2

\* The end of a test: its row is queued, unless it is one of task 9 and its
\* name is; a full queue is uploaded, or refused.
LEMMA UploadsEnd ==
  ASSUME SweepsAsWritten, TypeInv, RowsInv, IdleInv, UploadsInv, ReadEnd
  PROVE  UploadsInv'
<1>1. /\ sweep' = sweep /\ sweep \in Sweeps /\ ~Polls /\ parser.pc = "reading"
      /\ Tests = 1 .. Len(sweep.tests) /\ sweep.script \in Scripts
      /\ rows \in Seq(RowType) /\ upqueue \in Seq(RowType) /\ uploads \in Seq(Seq(RowType))
      /\ parser \in [pos : 0 .. Len(output), timer : 0 .. Runtime, task : Test \cup {NoTest},
                     throughput : Seq(Nat \X Nat), pc : ParserPcs]
      /\ output' = output /\ Polls' = Polls
  BY SweepFacts DEF ReadEnd, Reading, TypeInv, ScriptType, ParserType, QueueType, ParserOnly, Polls, scriptVars
<1>2. Row \in RowType /\ Row.name = parser.task
  BY <1>1 DEF Row, RowType
<1>3. parser.task.task = TaskOf[sweep.script]
  <2>1. Current.test \in Tests /\ parser.task = Named(Current.test)
    BY EndFacts DEF ReadEnd
  <2> QED BY <1>1, <2>1 DEF SweepsAsWritten, Named
<1> DEFINE queue == IF Queued(Row.name) THEN upqueue ELSE Append(upqueue, Row)
<1>4. queue \in Seq(RowType) /\ Enqueued = queue
  BY <1>1, <1>2, AppendProperties DEF Enqueued
<1> DEFINE before == Uploaded \o upqueue
           after == Uploaded \o queue
<1>5. Uploaded \in Seq(RowType) /\ before \in Seq(RowType)
  BY <1>1, FlattenAppend, ConcatProperties DEF Uploaded
<1>6. Sent = before
  BY <1>1 DEF Sent
<1>7. ~Queued(Row.name) => after = Append(before, Row)
  <2>1. Uploaded \o Append(upqueue, Row) = Append(Uploaded \o upqueue, Row)
    <3>1. /\ Append(upqueue, Row) = upqueue \o <<Row>> /\ <<Row>> \in Seq(RowType)
          /\ Append(Uploaded \o upqueue, Row) = (Uploaded \o upqueue) \o <<Row>>
      <4> HIDE DEF before
      <4>1. <<Row>> \in Seq(RowType)
        BY <1>2
      <4> QED BY <1>1, <1>2, <1>5, <4>1, AppendIsConcat DEF before
    <3>2. (Uploaded \o upqueue) \o <<Row>> = Uploaded \o (upqueue \o <<Row>>)
      <4>1. Uploaded \in Seq(RowType) /\ upqueue \in Seq(RowType) /\ <<Row>> \in Seq(RowType)
        BY <1>1, <1>5, <3>1
      <4> QED BY ONLY <4>1, ConcatAssociative
    <3> QED BY <3>1, <3>2
  <2> QED BY <2>1
\* Of a sweep of task 3 every row is queued, of one of task 9 a name once.
<1>8. ASSUME sweep.script # "flushfence"
      PROVE  before = rows /\ after = Append(rows, Row)
  <2>1. ~Queued(Row.name)
    BY <1>1, <1>2, <1>3, <1>8 DEF Queued, TaskOf, Scripts
  <2>2. before = rows
    BY <1>1, <1>6, <1>8 DEF UploadsInv, UploadsRows, Sent
  <2> QED BY <1>7, <2>1, <2>2
<1>9. ASSUME sweep.script = "flushfence"
      PROVE  ByName(before, rows) /\ NamesOnce(upqueue) /\ NamesOnce(queue)
  <2>1. ByName(before, rows) /\ NamesOnce(upqueue)
    BY <1>6, <1>9 DEF UploadsInv, UploadsRows, Sent, ByName
  <2>2. CASE Queued(Row.name)
    BY <2>1, <2>2
  <2>3. CASE ~Queued(Row.name)
    <3>1. \A k \in DOMAIN upqueue : upqueue[k].name # Row.name
      BY <1>2, <1>3, <1>9, <2>3 DEF Queued, TaskOf
    <3> QED BY <1>1, <1>2, <2>1, <2>3, <3>1, NamesOnceAppend
  <2> QED BY <2>1, <2>2, <2>3
\* The wrong duration.
<1>10. CASE Asserts(parser.timer = TimerStop)
  <2>1. UNCHANGED <<rows, upqueue, uploads>> /\ parser' = [parser EXCEPT !.pc = "failed"]
    BY <1>10 DEF Asserts
  <2>2. parser'.pc = "failed"
    BY <1>1, <2>1
  <2> QED BY <1>1, <2>1, <2>2, UploadsKept
\* The store refuses the batch.
<1>11. CASE Refused(Enqueued)
  <2>1. /\ UNCHANGED <<rows, uploads>> /\ upqueue' = queue /\ ~NamesOnce(queue)
        /\ parser' = [parser EXCEPT !.pc = "refused"]
    BY <1>4, <1>11 DEF Refused
  <2>2. parser'.pc = "refused" /\ Row' = Row
    BY <1>1, <2>1 DEF Row
  <2>3. sweep.script # "flushfence"
    BY <1>9, <2>1
  <2>4. Sent' = after /\ NamesOnce(upqueue)' = NamesOnce(queue)
    BY <2>1, <2>2 DEF Sent, Uploaded, NamesOnce
  <2>5. Sent' = Append(rows, Row)
    BY <1>8, <2>3, <2>4
  <2> HIDE DEF queue, after, before
  <2> QED BY <1>1, <2>1, <2>2, <2>3, <2>4, <2>5 DEF UploadsInv, UploadsRows, Sent
\* The row is printed, and the store takes what it is given.
<1>12. CASE /\ parser' = [[parser EXCEPT !.timer = 0] EXCEPT !.pos = @ + 1]
            /\ rows' = Append(rows, Row) /\ Upload(queue)
  <2>1. parser'.pc = "reading"
    BY <1>1, <1>12
  <2>2. Sent' = after
    <3> HIDE DEF queue
    <3>1. CASE Len(queue) >= QueueLimit
      <4>1. uploads' = Append(uploads, queue) /\ upqueue' = <<>>
        BY <1>12, <3>1 DEF Upload
      <4>2. FlattenSeq(uploads') = after
        BY <1>1, <1>4, <4>1, FlattenAppend DEF Uploaded
      <4>3. after \o <<>> = after
        BY <1>4, <1>5, ConcatProperties, ConcatEmptySeq
      <4> QED BY <2>1, <4>1, <4>2, <4>3 DEF Sent, Uploaded
    <3>2. CASE ~(Len(queue) >= QueueLimit)
      <4>1. uploads' = uploads /\ upqueue' = queue
        BY <1>12, <3>2 DEF Upload
      <4> QED BY <2>1, <4>1 DEF Sent, Uploaded
    <3> QED BY <3>1, <3>2
  <2>3. CASE sweep.script # "flushfence"
    <3>1. Sent' = rows'
      BY <1>8, <1>12, <2>2, <2>3
    <3> QED BY <1>1, <2>1, <2>3, <3>1 DEF UploadsInv, UploadsRows, Sent
  <2>4. CASE sweep.script = "flushfence"
    <3>1. ByName(after, Append(rows, Row))
      <4>1. CASE Queued(Row.name)
        <5>1. PICK k \in DOMAIN upqueue : upqueue[k].name = Row.name
          BY <4>1 DEF Queued
        <5>2. k \in 1 .. Len(upqueue)
          BY <1>1, LenProperties
        <5>3. /\ Len(Uploaded) + k \in 1 .. Len(before) /\ before[Len(Uploaded) + k] = upqueue[k]
              /\ DOMAIN before = 1 .. Len(before)
          <6>1. /\ Len(before) = Len(Uploaded) + Len(upqueue)
                /\ Len(Uploaded) \in Nat /\ Len(upqueue) \in Nat
                /\ \A j \in 1 .. Len(upqueue) : before[Len(Uploaded) + j] = upqueue[j]
            BY <1>1, <1>5, Added
          <6>2. DOMAIN before = 1 .. Len(before)
            BY <1>5, LenProperties
          <6> HIDE DEF before
          <6> QED BY <5>2, <6>1, <6>2
        <5>4. HasRow(before, Row)
          <6> HIDE DEF before
          <6> QED BY <5>1, <5>3 DEF HasRow
        <5> QED BY <1>1, <1>2, <1>5, <1>9, <2>4, <4>1, <5>4, ByNameBoth
      <4>2. CASE ~Queued(Row.name)
        <5> HIDE DEF after, before
        <5> QED BY <1>1, <1>2, <1>5, <1>7, <1>9, <2>4, <4>2, ByNameBoth
      <4> QED BY <4>1, <4>2
    <3>2. ByName(Sent', rows')
      BY <1>12, <2>2, <3>1
    <3>3. NamesOnce(upqueue')
      <4> HIDE DEF queue
      <4>1. NamesOnce(<<>>)
        BY EmptySeq, LenProperties DEF NamesOnce
      <4>2. upqueue' = <<>> \/ upqueue' = queue
        BY <1>12 DEF Upload
      <4> QED BY <1>9, <2>4, <4>1, <4>2
    <3> QED BY <1>1, <2>1, <2>4, <3>2, <3>3
            DEF UploadsInv, UploadsRows, Sent, ByName, HasRow, NamesOnce
  <2> QED BY <2>3, <2>4
<1> QED
  <2>1. \/ Asserts(parser.timer = TimerStop)
        \/ Refused(Enqueued)
        \/ Reads([parser EXCEPT !.timer = 0]) /\ rows' = Append(rows, Row) /\ Upload(Enqueued)
    BY DEF ReadEnd
  <2>2. Upload(Enqueued) = Upload(queue)
    BY <1>4
  <2> HIDE DEF queue
  <2> QED BY <1>10, <1>11, <1>12, <2>1, <2>2 DEF Reads

\* The end of the file: what is left is uploaded, or refused.
LEMMA UploadsEof ==
  ASSUME TypeInv, UploadsInv, ReadEof
  PROVE  UploadsInv'
<1>1. /\ UNCHANGED <<sweep, rows, upqueue>> /\ parser.pc = "reading"
      /\ upqueue \in Seq(RowType) /\ uploads \in Seq(Seq(RowType))
      /\ parser \in [pos : 0 .. Len(output), timer : 0 .. Runtime, task : Test \cup {NoTest},
                     throughput : Seq(Nat \X Nat), pc : ParserPcs]
  BY DEF ReadEof, ParserOnly, Refused, TypeInv, ParserType, QueueType
<1>2. CASE Refused(upqueue)
  <2>1. /\ uploads' = uploads /\ ~NamesOnce(upqueue)
        /\ parser' = [parser EXCEPT !.pc = "refused"]
    BY <1>2 DEF Refused
  <2>2. parser'.pc = "refused"
    BY <1>1, <2>1
  <2>3. sweep.script # "flushfence" /\ Sent = rows
    BY <1>1, <2>1 DEF UploadsInv, UploadsRows, Sent
  <2>4. Sent' = Sent /\ NamesOnce(upqueue)' = NamesOnce(upqueue)
    BY <1>1, <2>1, <2>2 DEF Sent, Uploaded, NamesOnce
  <2> QED BY <1>1, <2>1, <2>2, <2>3, <2>4 DEF UploadsInv, UploadsRows, Sent
<1>3. CASE parser' = [parser EXCEPT !.pc = "finished"] /\ uploads' = Append(uploads, upqueue)
  <2>1. parser'.pc = "finished"
    BY <1>1, <1>3
  <2>2. Sent' = Sent
    BY <1>1, <1>3, <2>1, FlattenAppend DEF Sent, Uploaded
  <2>3. CASE sweep.script # "flushfence"
    BY <1>1, <2>1, <2>2, <2>3 DEF UploadsInv, UploadsRows, Sent
  <2>4. CASE sweep.script = "flushfence"
    <3>1. ByName(Sent, rows) /\ NamesOnce(upqueue)
      BY <2>4 DEF UploadsInv, UploadsRows, Sent, ByName
    <3>2. ByName(Sent', rows')
      BY <1>1, <2>2, <3>1
    <3> QED BY <1>1, <2>1, <2>4, <3>1, <3>2 DEF UploadsInv, UploadsRows, Sent, ByName, HasRow, NamesOnce
  <2> QED BY <2>3, <2>4
<1> QED BY <1>2, <1>3 DEF ReadEof

LEMMA UploadsStep ==
  ASSUME SweepsAsWritten, TypeInv, RowsInv, IdleInv, UploadsInv, [Next]_vars
  PROVE  UploadsInv'
<1>1. parser \in [pos : 0 .. Len(output), timer : 0 .. Runtime, task : Test \cup {NoTest},
                  throughput : Seq(Nat \X Nat), pc : ParserPcs]
  BY DEF TypeInv, ParserType
<1>2. CASE NextTest \/ Returned \/ Poll \/ Collect \/ SweepEnds
  BY <1>2, UploadsKept DEF NextTest, Returned, Poll, Collect, SweepEnds, parserVars
<1>3. CASE Write \/ Second \/ WriteReturns \/ OthersPrint
  BY <1>3, UploadsKept DEF Write, Second, WriteReturns, OthersPrint, parserVars
<1>4. ASSUME NEW r \in Tests, WorkerStep(r) PROVE UploadsInv'
  BY <1>4, UploadsKept DEF WorkerStep, WorkerBegins, WorkerMeasures, WorkerReports, WorkerPrints, parserVars
<1>5. CASE ReadStart
  <2>1. UNCHANGED <<sweep, rows, upqueue, uploads>> /\ parser.pc = "reading"
    BY <1>5 DEF ReadStart, Asserts, ParserOnly, Reading
  <2>2. parser'.pc \in {"reading", "failed"}
    BY <1>1, <1>5, <2>1 DEF ReadStart, Asserts, Reads
  <2> QED BY <2>1, <2>2, UploadsKept
<1>6. CASE ReadOther
  <2>1. UNCHANGED <<sweep, rows, upqueue, uploads>> /\ parser.pc = "reading"
    BY <1>6 DEF ReadOther, ParserOnly, Reading
  <2>2. parser'.pc = "reading"
    BY <1>1, <1>6, <2>1 DEF ReadOther, Reads
  <2> QED BY <2>1, <2>2, UploadsKept
<1>7. CASE UNCHANGED vars
  BY <1>7, UploadsKept DEF vars
<1> QED BY <1>2, <1>3, <1>4, <1>5, <1>6, <1>7, UploadsEnd, UploadsEof DEF Next, ScriptStep, ParserStep

\* What the parser has printed is in the store or in its queue, in the order
\* it was printed; of the sweep that repeats tests each name is, and no other
\* row.  A batch is refused only because it has a name twice, which that
\* sweep's never have; then its rows are not stored, and the last of them is
\* not printed.  However many rows make an upload.
THEOREM RowsAreUploaded ==
  ASSUME SweepsAsWritten, NothingPassedOver
  PROVE  Spec => []UploadsRows
<1>1. Init => LogStepInv /\ UploadsInv
  BY TypeInit, TurnsInit, LogInit, OutputInit, OrderInit, UploadsInit DEF LogStepInv
<1>2. LogStepInv /\ [Next]_vars => LogStepInv'
  BY TypeStep, TurnsStep, RowsStep DEF LogStepInv
<1>3. LogStepInv /\ UploadsInv /\ [Next]_vars => UploadsInv'
  BY UploadsStep DEF LogStepInv
<1>4. UploadsInv => UploadsRows
  BY DEF UploadsInv
<1> QED BY <1>1, <1>2, <1>3, <1>4, PTL DEF Spec
-----------------------------------------------------------------------------
(***************************************************************************)
(* What a polling script collects.                                         *)
(***************************************************************************)

\* The lines of a tag behind the last start of a test.
Own(s, tag) == {k \in 1 .. Len(s) : k > LastIn(s, "start") /\ s[k].tag = tag}

\* What s shows of test r, whose worker is at w.
Shows(s, r, w) ==
  /\ LastIn(s, "start") # 0
  /\ w \in {"created", "begun"} => Own(s, "average") = {} /\ Own(s, "latend") = {}
  /\ w \in {"measured", "reported"} =>
       \E a \in 1 .. Len(s) : /\ Own(s, "average") = {a} /\ s[a] = Line("average", r, 0)
                              /\ \A k \in Own(s, "latend") : a < k
  /\ w = "reported" => Own(s, "latend") # {}

\* Behind the last start is what the worker of the script's test has printed.
PollInv ==
  Polls /\ script.pc \in {"inside", "returned", "poll", "collect"} /\ Accepted(Named(script.test)) =>
    worker[script.test] # "none" /\ Shows(log, script.test, worker[script.test])

\* The script is past test r, and its average is where it belongs in s.
Past(r) ==
  /\ Polls /\ Accepted(Named(r))
  /\ r < script.test \/ (r = script.test /\ script.pc \in {"next", "ended"})
Collected(s, r) ==
  \E k \in DOMAIN s :
    /\ s[k] = Line("header", r, 0)
    /\ k < Len(s) /\ s[k + 1] = Line("average", r, 0)
    /\ k + 1 < Len(s) => s[k + 2].tag = "header"

\* What is to be collected comes behind the header of its test.
HeaderInv ==
  /\ \A r \in Tests : Past(r) => Collected(output, r)
  /\ Polls /\ script.pc \in Busy =>
       output # <<>> /\ output[Len(output)] = Line("header", script.test, 0)

LEMMA OwnAppend ==
  ASSUME NEW s \in Seq(LogLine), NEW line \in LogLine, line.tag # "start", NEW tag
  PROVE  /\ Own(Append(s, line), tag) =
              IF line.tag = tag THEN Own(s, tag) \cup {Len(s) + 1} ELSE Own(s, tag)
         /\ \A k \in Own(s, tag) : k < Len(s) + 1
<1>1. /\ Len(s) \in Nat /\ Len(Append(s, line)) = Len(s) + 1
      /\ LastIn(Append(s, line), "start") = LastIn(s, "start")
      /\ LastIn(s, "start") \in 0 .. Len(s)
      /\ Append(s, line)[Len(s) + 1] = line
      /\ \A k \in 1 .. Len(s) : Append(s, line)[k] = s[k]
  BY LogAppend, AppendProperties
<1>2. \A k \in 1 .. Len(s) + 1 : k \in 1 .. Len(s) \/ k = Len(s) + 1
  BY <1>1
<1>3. \A k \in 1 .. Len(s) : k \in 1 .. Len(s) + 1 /\ k < Len(s) + 1
  BY <1>1
<1>4. Len(s) + 1 \in 1 .. Len(s) + 1 /\ Len(s) + 1 > LastIn(s, "start")
  BY <1>1
<1>5. \A k \in Own(s, tag) : k < Len(s) + 1
  BY <1>3 DEF Own
<1> DEFINE t == Append(s, line)
<1>6. ASSUME NEW k
      PROVE  k \in Own(t, tag) <=> k \in Own(s, tag) \/ (line.tag = tag /\ k = Len(s) + 1)
  <2>1. k \in Own(t, tag) <=>
          k \in 1 .. Len(s) + 1 /\ k > LastIn(s, "start") /\ t[k].tag = tag
    BY <1>1 DEF Own
  <2>2. CASE k \in 1 .. Len(s)
    <3>1. k # Len(s) + 1 /\ k \in 1 .. Len(s) + 1 /\ t[k] = s[k]
      BY <1>1, <1>3, <2>2
    <3> HIDE DEF t
    <3> QED BY <2>1, <2>2, <3>1 DEF Own
  <2>3. CASE k = Len(s) + 1
    <3>1. k \notin 1 .. Len(s) /\ t[k] = line
      BY <1>1, <2>3
    <3> HIDE DEF t
    <3> QED BY <1>4, <2>1, <2>3, <3>1 DEF Own
  <2>4. CASE k \notin 1 .. Len(s) + 1
    <3>1. k \notin 1 .. Len(s) /\ k # Len(s) + 1
      BY <1>3, <1>4, <2>4
    <3> HIDE DEF t
    <3> QED BY <2>1, <2>4, <3>1 DEF Own
  <2> QED BY <1>2, <2>2, <2>3, <2>4
<1>7. Own(t, tag) = IF line.tag = tag THEN Own(s, tag) \cup {Len(s) + 1} ELSE Own(s, tag)
  <2> HIDE DEF t
  <2> QED BY <1>6
<1> QED BY <1>5, <1>7

\* A line more, of others, of the handler or of the worker.
LEMMA ShowsAppend ==
  ASSUME NEW s \in Seq(LogLine), NEW line \in LogLine, NEW r, NEW w, Shows(s, r, w)
  PROVE  /\ line.tag \notin {"start", "average", "latend"} => Shows(Append(s, line), r, w)
         /\ w = "created" /\ line.tag = "begin" => Shows(Append(s, line), r, "begun")
         /\ w = "begun" /\ line = Line("average", r, 0) => Shows(Append(s, line), r, "measured")
         /\ w = "measured" /\ line.tag = "latend" => Shows(Append(s, line), r, "reported")
<1> DEFINE t == Append(s, line)
<1>1. /\ Len(s) \in Nat /\ Len(t) = Len(s) + 1 /\ t[Len(s) + 1] = line
      /\ \A k \in 1 .. Len(s) : t[k] = s[k] /\ k \in 1 .. Len(t)
      /\ Len(s) + 1 \in 1 .. Len(t)
  BY LogAppend, AppendProperties, LenProperties
<1>2. line.tag # "start" => LastIn(t, "start") # 0
  BY LogAppend DEF Shows
<1>3. line.tag # "start" =>
        \A tag : /\ Own(t, tag) = IF line.tag = tag THEN Own(s, tag) \cup {Len(s) + 1} ELSE Own(s, tag)
                 /\ \A k \in Own(s, tag) : k < Len(s) + 1
  BY OwnAppend
<1> HIDE DEF t
<1>4. ASSUME line.tag \notin {"start", "average", "latend"}
      PROVE  Shows(t, r, w)
  <2>1. Own(t, "average") = Own(s, "average") /\ Own(t, "latend") = Own(s, "latend")
    BY <1>3, <1>4
  <2> QED BY <1>1, <1>2, <1>4, <2>1 DEF Shows
<1>5. ASSUME w = "created", line.tag = "begin"
      PROVE  Shows(t, r, "begun")
  <2>1. Own(t, "average") = Own(s, "average") /\ Own(t, "latend") = Own(s, "latend")
    BY <1>3, <1>5
  <2> QED BY <1>1, <1>2, <1>5, <2>1 DEF Shows
<1>6. ASSUME w = "begun", line = Line("average", r, 0)
      PROVE  Shows(t, r, "measured")
  <2>1. line.tag = "average"
    BY <1>6 DEF Line
  <2>2. Own(s, "average") = {} /\ Own(s, "latend") = {}
    BY <1>6 DEF Shows
  <2>3. Own(t, "average") = {Len(s) + 1} /\ Own(t, "latend") = {}
    BY <1>3, <2>1, <2>2
  <2> QED BY <1>1, <1>2, <1>6, <2>1, <2>3 DEF Shows
<1>7. ASSUME w = "measured", line.tag = "latend"
      PROVE  Shows(t, r, "reported")
  <2>1. PICK a \in 1 .. Len(s) : /\ Own(s, "average") = {a} /\ s[a] = Line("average", r, 0)
                                 /\ \A k \in Own(s, "latend") : a < k
    BY <1>7 DEF Shows
  <2>2. Own(t, "average") = {a} /\ Own(t, "latend") = Own(s, "latend") \cup {Len(s) + 1}
    BY <1>3, <1>7, <2>1
  <2>3. a \in 1 .. Len(t) /\ t[a] = Line("average", r, 0) /\ a < Len(s) + 1
    BY <1>1, <2>1
  <2>4. \A k \in Own(t, "latend") : a < k
    BY <2>1, <2>2, <2>3
  <2> QED BY <1>2, <1>7, <2>2, <2>3, <2>4 DEF Shows
<1> QED BY <1>4, <1>5, <1>6, <1>7 DEF t

\* From the last start to the last LATTester_LAT_END there is one average.
LEMMA FoundOne ==
  ASSUME log \in Seq(LogLine), Polls, NEW r, Shows(log, r, "reported")
  PROVE  Found = <<Line("average", r, 0)>>
<1> DEFINE from == LastIn(log, "start")
           to == LastIn(log, "latend")
           lines == Cut(from, to)
<1>1. /\ Len(log) \in Nat /\ from \in 1 .. Len(log) /\ log[from].tag = "start"
      /\ to \in 0 .. Len(log)
      /\ \A k \in 1 .. Len(log) : log[k].tag = "latend" => k <= to
  BY LastInFacts, LenProperties DEF Shows
<1>2. PICK a \in 1 .. Len(log) : /\ Own(log, "average") = {a} /\ log[a] = Line("average", r, 0)
                                 /\ \A k \in Own(log, "latend") : a < k
  BY DEF Shows
<1>3. PICK l \in 1 .. Len(log) : l \in Own(log, "latend") /\ log[l].tag = "latend"
  BY DEF Shows, Own
<1>4. from < a /\ a < to /\ to \in 1 .. Len(log)
  <2>1. a > from
    BY <1>2 DEF Own
  <2>2. a < l /\ l <= to
    BY <1>1, <1>2, <1>3
  <2> HIDE DEF from, to
  <2> QED BY <1>1, <1>2, <1>3, <2>1, <2>2
<1>5. Found = Grep("average", lines)
  BY DEF Found, LastOf, LastIn
<1>6. \A k \in 1 .. Len(log) : k >= from /\ log[k].tag = "average" => k = a
  <2>1. \A k \in 1 .. Len(log) : k > from /\ log[k].tag = "average" => k \in Own(log, "average")
    BY DEF Own
  <2> HIDE DEF from, to
  <2>2. \A k \in 1 .. Len(log) : k >= from => k > from \/ k = from
    BY <1>1
  <2> QED BY <1>1, <1>2, <2>1, <2>2
<1> HIDE DEF from, to
<1>7. /\ lines \in Seq(LogLine) /\ Len(lines) = to - from + 1
      /\ \A j \in 1 .. Len(lines) :
           j + from - 1 \in 1 .. Len(log) /\ lines[j] = log[from + j - 1]
  <2>1. from \in 0 .. Len(log) /\ from # 0 /\ to # 0 /\ ~(to < from)
    BY <1>1, <1>4
  <2> QED BY <1>1, <2>1, CutFacts
<1> HIDE DEF lines
<1> DEFINE i == a - from + 1
<1>8. i \in 1 .. Len(lines) /\ from + i - 1 = a
  BY <1>1, <1>4, <1>7
<1>9. lines[i] = Line("average", r, 0)
  <2>1. lines[i] = log[from + i - 1]
    <3> HIDE DEF i
    <3> QED BY <1>7, <1>8
  <2> HIDE DEF i
  <2> QED BY <1>2, <1>8, <2>1
<1>10. \A j \in 1 .. Len(lines) : lines[j].tag = "average" <=> j = i
  <2> SUFFICES ASSUME NEW j \in 1 .. Len(lines)
               PROVE  lines[j].tag = "average" <=> j = i
    OBVIOUS
  <2>1. /\ from + j - 1 \in 1 .. Len(log) /\ from + j - 1 >= from
        /\ from + j - 1 = a => j = i
    BY <1>1, <1>2, <1>7
  <2>2. lines[j].tag = "average" => j = i
    <3> HIDE DEF i
    <3> QED BY <1>6, <1>7, <2>1
  <2>3. j = i => lines[j].tag = "average"
    <3> HIDE DEF i
    <3> QED BY <1>9 DEF Line
  <2> QED BY <2>2, <2>3
<1> HIDE DEF i
<1> QED BY <1>5, <1>7, <1>8, <1>9, <1>10, GrepOne

\* The averages of the tests that are past stay where they are: what comes
\* behind the last of them is a header.
LEMMA CollectedConcat ==
  ASSUME NEW s \in Seq(LogLine), NEW t \in Seq(LogLine), NEW r, Collected(s, r),
         Len(t) = 0 \/ t[1].tag = "header" \/ s[Len(s)].tag = "header"
  PROVE  Collected(s \o t, r)
<1>1. /\ s \o t \in Seq(LogLine) /\ Len(s \o t) = Len(s) + Len(t)
      /\ Len(s) \in Nat /\ Len(t) \in Nat
      /\ \A k \in 1 .. Len(s) : (s \o t)[k] = s[k]
      /\ \A k \in 1 .. Len(t) : (s \o t)[Len(s) + k] = t[k]
      /\ DOMAIN s = 1 .. Len(s) /\ DOMAIN (s \o t) = 1 .. Len(s \o t)
  BY Added, LenProperties
<1>2. PICK k \in 1 .. Len(s) : /\ s[k] = Line("header", r, 0)
                               /\ k < Len(s) /\ s[k + 1] = Line("average", r, 0)
                               /\ k + 1 < Len(s) => s[k + 2].tag = "header"
  BY <1>1 DEF Collected
<1> DEFINE u == s \o t
<1> HIDE DEF u
<1>3. k \in 1 .. Len(u) /\ k < Len(u) /\ k + 1 \in 1 .. Len(s)
  BY <1>1, <1>2 DEF u
<1>4. u[k] = Line("header", r, 0) /\ u[k + 1] = Line("average", r, 0)
  BY <1>1, <1>2, <1>3 DEF u
<1>5. ASSUME k + 1 < Len(u)
      PROVE  u[k + 2].tag = "header"
  <2>1. CASE k + 1 < Len(s)
    <3>1. k + 2 \in 1 .. Len(s)
      BY <1>1, <2>1
    <3> QED BY <1>1, <1>2, <2>1, <3>1 DEF u
  <2>2. CASE ~(k + 1 < Len(s))
    <3>1. k + 1 = Len(s) /\ k + 2 = Len(s) + 1
      <4>1. k \in Int /\ Len(s) \in Int /\ k < Len(s)
        BY <1>1, <1>2
      <4> QED BY <2>2, <4>1
    <3>2. s[Len(s)].tag # "header"
      BY <1>2, <3>1 DEF Line
    <3>3. Len(t) # 0 /\ 1 \in 1 .. Len(t)
      BY <1>1, <1>5, <3>1 DEF u
    <3> QED BY <1>1, <3>1, <3>2, <3>3 DEF u
  <2> QED BY <2>1, <2>2
<1> QED BY <1>1, <1>3, <1>4, <1>5 DEF u, Collected

\* A step that leaves output.txt as it is.
LEMMA HeaderKept ==
  ASSUME HeaderInv, UNCHANGED <<sweep, output>>,
         \A r \in Tests : Past(r)' => Past(r),
         script'.pc \in Busy => script.pc \in Busy /\ script'.test = script.test
  PROVE  HeaderInv'
<1>1. Tests' = Tests /\ Polls' = Polls
  BY DEF Tests, Polls
<1> QED BY <1>1 DEF HeaderInv, Collected, Line

LEMMA PollHeaderInit ==
  ASSUME Init
  PROVE  PollInv /\ HeaderInv
<1>1. script.pc = "next" /\ script.test = 0 /\ Len(sweep.tests) \in Nat /\ Tests = 1 .. Len(sweep.tests)
  BY SweepFacts DEF Init
<1>2. \A r \in Tests : ~Past(r)
  BY <1>1 DEF Past
<1> QED BY <1>1, <1>2 DEF PollInv, HeaderInv, Busy

\* The steps of the kernel.
LEMMA PollKernel ==
  ASSUME SweepsAsWritten, TypeInv, TurnInv, PollInv, Polls,
         Write \/ Second \/ WriteReturns \/ OthersPrint \/ (\E r \in Tests : WorkerStep(r))
  PROVE  PollInv'
<1> DEFINE r == script.test
<1>1. /\ sweep \in Sweeps /\ sweep' = sweep /\ Tests' = Tests /\ Polls' = Polls
      /\ Tests = 1 .. Len(sweep.tests) /\ log \in Seq(LogLine)
      /\ script \in [pc : Busy \cup {"next", "ended"}, test : 0 .. Len(sweep.tests), sleep : Sleeps]
      /\ script.pc \in Busy => r \in Tests
      /\ worker \in [Tests -> {"none", "created", "begun", "measured", "reported"}]
      /\ script'.test = r
      /\ \A t : Named(t)' = Named(t)
  <2>1. sweep' = sweep
    BY DEF Write, Second, WriteReturns, OthersPrint, WorkerStep, WorkerBegins, WorkerMeasures,
           WorkerReports, WorkerPrints
  <2>2. /\ sweep \in Sweeps /\ Tests = 1 .. Len(sweep.tests) /\ log \in Seq(LogLine)
        /\ script \in [pc : Busy \cup {"next", "ended"}, test : 0 .. Len(sweep.tests), sleep : Sleeps]
        /\ script.pc \in Busy => r \in Tests
        /\ worker \in [Tests -> {"none", "created", "begun", "measured", "reported"}]
    BY SweepFacts DEF TypeInv, ScriptType, LinesType
  <2>3. CASE Write
    BY <2>1, <2>2, <2>3, SameSweep DEF Write, GoesTo
  <2>4. CASE Second \/ OthersPrint
    BY <2>1, <2>2, <2>4, SameSweep DEF Second, OthersPrint, scriptVars
  <2>5. CASE WriteReturns
    BY <2>1, <2>2, <2>5, SameSweep DEF WriteReturns, GoesTo
  <2>6. CASE \E t \in Tests : WorkerStep(t)
    BY <2>1, <2>2, <2>6, SameSweep
    DEF WorkerStep, WorkerBegins, WorkerMeasures, WorkerReports, WorkerPrints, scriptVars
  <2> QED BY <2>3, <2>4, <2>5, <2>6
<1>2. \A t \in Tests : IsLatency(Named(t))
  BY <1>1 DEF SweepsAsWritten, Named, IsLatency, TaskOf, Polls
<1>3. 0 \in 0 .. Runtime
  BY ConstantsAssumption DEF ConstantsAssumption
<1>4. CASE Write
  <2>1. script.pc = "write" /\ r \in Tests
    BY <1>1, <1>4 DEF Write, Busy
  <2>2. CASE Accepted(Named(r))
    <3> DEFINE a == Line("command", r, 0)
               b == Line("start", r, 0)
               s == Append(log, a)
               t == Append(s, b)
    <3>1. a \in LogLine /\ b \in LogLine /\ b.tag = "start"
      BY <1>1, <1>3, <2>1, LineFacts
    <3>2. Prints(<<a, b>>) /\ worker' = [worker EXCEPT ![r] = "created"]
      BY <1>2, <1>4, <2>1, <2>2 DEF Write
    <3>3. worker'[r] = "created"
      BY <1>1, <2>1, <3>2
    <3> HIDE DEF a, b
    <3>4. log' = t
      BY <1>1, <3>1, <3>2, OneByOne DEF Prints
    <3>5. s \in Seq(LogLine)
      BY <1>1, <3>1, AppendProperties
    <3> HIDE DEF s
    <3>6. LastIn(t, "start") = Len(s) + 1 /\ Len(t) = Len(s) + 1 /\ Len(s) \in Nat
      BY <3>1, <3>5, LogAppend, AppendProperties
    <3>7. Own(t, "average") = {} /\ Own(t, "latend") = {} /\ LastIn(t, "start") # 0
      BY <3>6 DEF Own
    <3>8. Shows(t, r, "created")
      <4> HIDE DEF t
      <4> QED BY <3>7 DEF Shows
    <3> HIDE DEF t, r
    <3> QED BY <1>1, <3>3, <3>4, <3>8 DEF PollInv, Shows, Line
  <2>3. CASE ~Accepted(Named(r))
    BY <1>1, <2>3 DEF PollInv
  <2> QED BY <2>2, <2>3
<1>5. CASE Second
  BY <1>1, <1>2, <1>5 DEF Second, Busy
<1>6. ASSUME Accepted(Named(r)), script'.pc \in {"inside", "returned", "poll", "collect"},
             script.pc \in {"inside", "returned", "poll", "collect"}
      PROVE  /\ r \in Tests /\ worker[r] # "none" /\ Shows(log, r, worker[r])
  BY <1>1, <1>6 DEF PollInv, Busy
<1>7. CASE WriteReturns \/ OthersPrint
  <2>1. PICK line \in LogLine : Prints(<<line>>) /\ line.tag \in {"end", "noise"}
    <3>1. CASE WriteReturns
      <4> DEFINE line == Line("end", r, 0)
      <4>1. line \in LogLine /\ line.tag = "end"
        BY <1>1, <1>3, <3>1, LineFacts DEF WriteReturns, Busy
      <4>2. Prints(<<line>>)
        BY <3>1 DEF WriteReturns
      <4> HIDE DEF line
      <4> QED BY <4>1, <4>2
    <3>2. CASE OthersPrint
      <4> DEFINE line == Line("noise", 0, 0)
      <4>1. line \in LogLine /\ line.tag = "noise"
        BY <1>1, SweepFacts, ConstantsAssumption DEF Line, LogLine, LineType, ConstantsAssumption
      <4>2. Prints(<<line>>)
        BY <3>2 DEF OthersPrint
      <4> HIDE DEF line
      <4> QED BY <4>1, <4>2
    <3> QED BY <1>7, <3>1, <3>2
  <2>2. log' = Append(log, line) /\ worker' = worker
    BY <1>1, <1>7, <2>1, PrintsOne DEF WriteReturns, OthersPrint
  <2>3. script'.pc \in {"inside", "returned", "poll", "collect"} =>
          script.pc \in {"inside", "returned", "poll", "collect"}
    BY <1>7 DEF WriteReturns, OthersPrint, scriptVars
  <2> SUFFICES ASSUME Accepted(Named(r)), script'.pc \in {"inside", "returned", "poll", "collect"}
               PROVE  worker[r] # "none" /\ Shows(log', r, worker[r])
    <3>1. script'.test = script.test /\ Named(script.test)' = Named(script.test)
          /\ worker'[script'.test] = worker[r]
      BY <1>1, <2>2
    <3> HIDE DEF r
    <3> QED BY <1>1, <2>2, <3>1 DEF PollInv, Shows, Line, r
  <2>4. worker[r] # "none" /\ Shows(log, r, worker[r])
    BY <1>6, <2>3
  <2> QED BY <1>1, <2>1, <2>2, <2>4, ShowsAppend
<1>8. ASSUME NEW t \in Tests, WorkerStep(t)
      PROVE  PollInv'
  <2>1. PICK from, tag, to :
          /\ WorkerPrints(t, from, tag, to)
          /\ \/ from = "created" /\ tag = "begin" /\ to = "begun"
             \/ from = "begun" /\ tag = "average" /\ to = "measured"
             \/ from = "measured" /\ tag = "latend" /\ to = "reported"
    BY <1>8 DEF WorkerStep, WorkerBegins, WorkerMeasures, WorkerReports
  <2>2. t \in Running /\ t = r
    BY <2>1 DEF WorkerPrints, Running, TurnInv
  <2>3. script' = script /\ worker[r] = from /\ worker'[r] = to /\ worker[r] # "none"
    BY <1>1, <2>1, <2>2 DEF WorkerPrints, scriptVars
  <2> DEFINE line == Line(tag, t, 0)
  <2>4. line \in LogLine /\ line.tag = tag
    BY <1>1, <1>3, <2>1, LineFacts
  <2>5. Prints(<<line>>)
    BY <2>1 DEF WorkerPrints
  <2>6. line = Line(tag, r, 0)
    BY <2>2
  <2> HIDE DEF line
  <2>7. log' = Append(log, line)
    BY <1>1, <2>4, <2>5, PrintsOne
  <2> SUFFICES ASSUME Accepted(Named(r)), script.pc \in {"inside", "returned", "poll", "collect"}
               PROVE  to # "none" /\ Shows(log', r, to)
    <3>1. script'.pc = script.pc /\ Named(script.test)' = Named(script.test)
          /\ worker'[script'.test] = to
      BY <1>1, <2>3
    <3> QED BY <1>1, <2>3, <3>1 DEF PollInv, Shows, Line
  <2>8. Shows(log, r, from)
    BY <1>6, <2>3
  <2> QED BY <1>1, <2>1, <2>4, <2>6, <2>7, <2>8, ShowsAppend
<1> QED BY <1>4, <1>5, <1>7, <1>8

\* The steps of the script.
LEMMA PollScript ==
  ASSUME SweepsAsWritten, NothingPassedOver, TypeInv, TurnInv, PollInv, HeaderInv, Polls,
         NextTest \/ Returned \/ Poll \/ Collect \/ SweepEnds
  PROVE  PollInv' /\ HeaderInv'
<1> DEFINE r == script.test
<1>1. /\ UNCHANGED <<sweep, kernelVars, parserVars>> /\ sweep \in Sweeps /\ log' = log /\ worker' = worker
      /\ Tests' = Tests /\ Polls' = Polls
      /\ \A t : Named(t)' = Named(t)
      /\ script \in [pc : Busy \cup {"next", "ended"}, test : 0 .. Len(sweep.tests), sleep : Sleeps]
      /\ script.pc \in Busy => r \in Tests
      /\ Tests = 1 .. Len(sweep.tests) /\ log \in Seq(LogLine) /\ output \in Seq(LogLine)
      /\ Len(sweep.tests) \in Nat
  <2>1. UNCHANGED <<sweep, kernelVars, parserVars>>
    BY DEF NextTest, Returned, Poll, Collect, SweepEnds
  <2>2. sweep' = sweep /\ log' = log /\ worker' = worker
    BY <2>1 DEF kernelVars
  <2>3. /\ sweep \in Sweeps /\ Tests = 1 .. Len(sweep.tests) /\ Len(sweep.tests) \in Nat
        /\ log \in Seq(LogLine) /\ output \in Seq(LogLine)
        /\ script \in [pc : Busy \cup {"next", "ended"}, test : 0 .. Len(sweep.tests), sleep : Sleeps]
        /\ script.pc \in Busy => r \in Tests
    BY SweepFacts DEF TypeInv, ScriptType, LinesType
  <2>4. Tests' = Tests /\ Polls' = Polls /\ (\A t : Named(t)' = Named(t))
    BY <2>2, SameSweep
  <2> QED BY <2>1, <2>2, <2>3, <2>4
<1>2. ASSUME script'.test = r,
             script'.pc \in {"inside", "returned", "poll", "collect"} =>
               script.pc \in {"inside", "returned", "poll", "collect"}
      PROVE  PollInv'
  BY <1>1, <1>2 DEF PollInv, Shows, Line
<1>3. ASSUME script'.pc \notin {"inside", "returned", "poll", "collect"}
      PROVE  PollInv'
  BY <1>3 DEF PollInv
<1>4. CASE NextTest
  <2> DEFINE h == Line("header", r + 1, 0)
  <2>1. script.pc = "next" /\ script' = [script EXCEPT !.pc = "write", !.test = r + 1]
        /\ output' = Append(output, h)
    BY <1>4 DEF NextTest
  <2>2. script'.pc = "write" /\ script'.test = r + 1
    BY <1>1, <2>1
  <2>3. h \in LogLine /\ h.tag = "header"
    <3>1. r + 1 \in Tests
      BY <1>1, <1>4 DEF NextTest
    <3>2. 0 \in 0 .. Runtime
      BY ConstantsAssumption DEF ConstantsAssumption
    <3> HIDE DEF r
    <3> QED BY <1>1, <3>1, <3>2, LineFacts
  <2>4. output' = output \o <<h>> /\ <<h>> \in Seq(LogLine) /\ <<h>>[1] = h
    <3> HIDE DEF h
    <3> QED BY <1>1, <2>1, <2>3, OneByOne
  <2>5. \A t \in Tests : Past(t)' => Past(t)
    BY <1>1, <2>1, <2>2 DEF Past
  <2>6. \A t \in Tests : Past(t)' => Collected(output', t)
    <3> HIDE DEF h
    <3> QED BY <1>1, <2>3, <2>4, <2>5, CollectedConcat DEF HeaderInv
  <2>7. output' # <<>> /\ output'[Len(output')] = h
    <3> HIDE DEF h
    <3> QED BY <1>1, <2>1, <2>3, AppendProperties
  <2>8. h = Line("header", script'.test, 0)
    BY <2>2
  <2>9. HeaderInv'
    BY <1>1, <2>6, <2>7, <2>8 DEF HeaderInv, Collected, Line
  <2> QED BY <1>3, <2>2, <2>9
<1>5. CASE Returned \/ Poll
  <2>1. /\ output' = output /\ script'.test = r
        /\ script.pc \in {"returned", "poll"}
        /\ script'.pc \in {"poll", "collect", "next"}
        /\ script'.pc = "next" => script.pc = "returned" /\ Passes(Named(r))
    BY <1>1, <1>5 DEF Returned, Poll, GoesTo
  <2>2. PollInv'
    BY <1>2, <2>1
  <2>3. script'.pc = "next" => ~Accepted(Named(r))
    <3> SUFFICES ASSUME script'.pc = "next" PROVE ~Accepted(Named(r))
      OBVIOUS
    <3>1. r \in Tests /\ Passes(Named(r))
      BY <1>1, <2>1 DEF Busy
    <3>2. sweep.script = "stridelat"
      BY <1>1, <3>1 DEF SweepsAsWritten, Named, Passes, TaskOf, Polls
    <3> QED BY <1>1, <3>1, <3>2 DEF NothingPassedOver, Named
  <2>4. \A t \in Tests : Past(t)' => Past(t)
    BY <1>1, <2>1, <2>3 DEF Past
  <2>5. HeaderInv'
    BY <1>1, <2>1, <2>4, HeaderKept DEF Busy
  <2> QED BY <2>2, <2>5
<1>6. CASE SweepEnds
  <2>1. output' = output /\ script'.test = r /\ script.pc = "next" /\ script'.pc = "ended"
    BY <1>1, <1>6 DEF SweepEnds, GoesTo
  <2>2. PollInv'
    BY <1>3, <2>1
  <2>3. \A t \in Tests : Past(t)' => Past(t)
    BY <1>1, <2>1 DEF Past
  <2>4. HeaderInv'
    BY <1>1, <2>1, <2>3, HeaderKept DEF Busy
  <2> QED BY <2>2, <2>4
<1>7. CASE Collect
  <2>1. /\ script.pc = "collect" /\ script'.pc = "next" /\ script'.test = r
        /\ output' = output \o Found /\ r \in Tests
    BY <1>1, <1>7 DEF Collect, GoesTo, Found, Busy
  <2>2. PollInv'
    BY <1>3, <2>1
  <2>3. Found \in Seq(LogLine)
    BY <1>1, FoundType
  <2>4. output # <<>> /\ output[Len(output)] = Line("header", r, 0)
    BY <2>1 DEF HeaderInv, Busy
  <2>5. output[Len(output)].tag = "header"
    BY <2>4 DEF Line
  <2>6. \A t \in Tests : Past(t) => Collected(output', t)
    BY <1>1, <2>1, <2>3, <2>5, CollectedConcat DEF HeaderInv
  <2>7. Accepted(Named(r)) => Collected(output', r)
    <3> SUFFICES ASSUME Accepted(Named(r)) PROVE Collected(output', r)
      OBVIOUS
    <3>1. worker[r] # "none" /\ Shows(log, r, worker[r])
      BY <2>1 DEF PollInv
    <3>2. worker[r] = "reported"
      <4>1. r \notin Running
        BY <2>1 DEF TurnInv
      <4>2. worker[r] \in {"none", "created", "begun", "measured", "reported"}
        BY <2>1 DEF TypeInv, ScriptType
      <4> QED BY <2>1, <3>1, <4>1, <4>2 DEF Running
    <3>3. Found = <<Line("average", r, 0)>>
      <4> HIDE DEF r
      <4> QED BY <1>1, <3>1, <3>2, FoundOne
    <3> DEFINE a == Line("average", r, 0)
    <3>4. a \in LogLine
      <4>1. 0 \in 0 .. Runtime
        BY ConstantsAssumption DEF ConstantsAssumption
      <4> HIDE DEF r
      <4> QED BY <1>1, <2>1, <4>1, LineFacts
    <3>5. output' = Append(output, a)
      <4>1. output' = output \o <<a>>
        BY <2>1, <3>3
      <4> HIDE DEF a
      <4> QED BY <1>1, <3>4, <4>1, OneByOne
    <3>6. /\ Len(output) \in Nat /\ Len(output) # 0 /\ Len(output') = Len(output) + 1
          /\ output'[Len(output) + 1] = a /\ \A k \in 1 .. Len(output) : output'[k] = output[k]
          /\ DOMAIN output' = 1 .. Len(output')
      <4> HIDE DEF a
      <4> QED BY <1>1, <2>4, <3>4, <3>5, AppendProperties, LenProperties, EmptySeq
    <3>7. Len(output) \in DOMAIN output' /\ output'[Len(output)] = Line("header", r, 0)
      BY <2>4, <3>6
    <3>8. Len(output) < Len(output') /\ ~(Len(output) + 1 < Len(output'))
      BY <3>6
    <3> QED BY <3>6, <3>7, <3>8 DEF Collected
  <2>8. \A t \in Tests : Past(t)' => Past(t) \/ (t = r /\ Accepted(Named(r)))
    BY <1>1, <2>1 DEF Past
  <2>9. HeaderInv'
    BY <1>1, <2>1, <2>6, <2>7, <2>8 DEF HeaderInv, Collected, Line, Busy
  <2> QED BY <2>2, <2>9
<1> QED BY <1>4, <1>5, <1>6, <1>7

LEMMA PollHeaderStep ==
  ASSUME SweepsAsWritten, NothingPassedOver, TypeInv, TurnInv, PollInv, HeaderInv, [Next]_vars
  PROVE  PollInv' /\ HeaderInv'
<1>1. sweep' = sweep
  BY DEF Next, vars, ScriptStep, NextTest, Write, Second, WriteReturns, Returned, Poll, Collect,
     SweepEnds, WorkerStep, WorkerBegins, WorkerMeasures, WorkerReports, WorkerPrints,
     OthersPrint, ParserStep, ReadStart, ReadEnd, ReadOther, ReadEof, ParserOnly
<1>2. CASE ~Polls
  BY <1>1, <1>2 DEF PollInv, HeaderInv, Past, Polls
<1> SUFFICES ASSUME Polls PROVE PollInv' /\ HeaderInv'
  BY <1>2
<1>3. CASE NextTest \/ Returned \/ Poll \/ Collect \/ SweepEnds
  BY <1>3, PollScript
<1>4. CASE Write \/ Second \/ WriteReturns \/ OthersPrint \/ (\E r \in Tests : WorkerStep(r))
  <2>1. PollInv'
    BY <1>4, PollKernel
  <2>2. /\ output' = output /\ script'.test = script.test
        /\ script' = script \/ (script.pc \in Busy /\ script'.pc \in {"inside", "returned"})
    <3>1. script \in [pc : Busy \cup {"next", "ended"}, test : 0 .. Len(sweep.tests), sleep : Sleeps]
      BY DEF TypeInv, ScriptType
    <3>2. CASE Write
      BY <3>1, <3>2 DEF Write, GoesTo, Busy
    <3>3. CASE WriteReturns
      BY <3>1, <3>3 DEF WriteReturns, GoesTo, Busy
    <3>4. CASE Second \/ OthersPrint \/ (\E r \in Tests : WorkerStep(r))
      BY <3>4 DEF Second, OthersPrint, WorkerStep, WorkerBegins, WorkerMeasures, WorkerReports,
         WorkerPrints, scriptVars
    <3> QED BY <1>4, <3>2, <3>3, <3>4
  <2>3. \A r \in Tests : Past(r)' => Past(r)
    BY <1>1, <2>2 DEF Past, Named, Polls
  <2> QED BY <1>1, <2>1, <2>2, <2>3, HeaderKept
<1>5. CASE ParserStep \/ UNCHANGED vars
  <2>1. UNCHANGED <<sweep, script, output, log, worker>>
    BY <1>5 DEF ParserStep, ReadStart, ReadEnd, ReadOther, ReadEof, ParserOnly, scriptVars,
       kernelVars, vars
  <2> QED BY <2>1 DEF PollInv, HeaderInv, Shows, Own, Line, Past, Collected, Polls, Named, Tests
<1> QED BY <1>3, <1>4, <1>5 DEF Next, ScriptStep

\* Past a test that was accepted output.txt has its averages, and only its,
\* under its own header, for 60_raw.sh as long as each of its sleeps outlasts
\* the start of the worker: the script has waited for the end of that test, so
\* that the last start and the last LATTester_LAT_END of the log are its, and
\* grep finds its averages between them.
THEOREM AveragesAreCollected ==
  ASSUME SweepsAsWritten, NothingPassedOver
  PROVE  Spec => []CollectsEachTest
<1> DEFINE Inv == /\ TypeInv /\ TurnsInv
                  /\ script.sleep = "enough" => PollInv /\ HeaderInv
<1>1. Inv => CollectsEachTest
  BY DEF HeaderInv, CollectsEachTest, Past, Collected
<1>2. Init => Inv
  BY TypeInit, TurnsInit, PollHeaderInit
<1>3. Inv /\ [Next]_vars => Inv'
  <2> SUFFICES ASSUME Inv, [Next]_vars PROVE Inv'
    OBVIOUS
  <2>1. TypeInv' /\ TurnsInv'
    BY TypeStep, TurnsStep
  <2>2. script'.sleep = "enough" => PollInv' /\ HeaderInv'
    BY SleepKept, PollHeaderStep DEF TurnsInv
  <2> QED BY <2>1, <2>2
<1> QED BY <1>1, <1>2, <1>3, PTL DEF Spec
=============================================================================
