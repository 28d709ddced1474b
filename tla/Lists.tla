------------------------------- MODULE Lists --------------------------------
(***************************************************************************)
(* Lemmas about natural numbers, and about the operators of the community  *)
(* modules that the models use on their lists and sets.                    *)
(*                                                                         *)
(* Induction and the least-number principle are stated with sets instead   *)
(* of predicates.  The library states these principles for an operator     *)
(* P(_), which the provers cannot instantiate; here they come from the     *)
(* theorem that the finite sets are well-founded under strict inclusion.   *)
(***************************************************************************)
EXTENDS SequencesExt, FiniteSetTheorems, SequenceTheorems, WellFoundedInduction, TLAPS

(* Every nonempty set of natural numbers has a least element.              *)
LEMMA LeastNatural ==
  ASSUME NEW S \in SUBSET Nat, S # {}
  PROVE  \E m \in S : \A k \in S : m <= k
<1> DEFINE T == {0 .. n : n \in S}
           R == StrictSubsetOrdering(Nat)
<1>1. T \subseteq FiniteSubsetsOf(Nat)
  <2> SUFFICES ASSUME NEW n \in S PROVE 0 .. n \in FiniteSubsetsOf(Nat)
    OBVIOUS
  <2>1. IsFiniteSet(0 .. n)
    BY FS_Interval
  <2> QED
    BY <2>1 DEF FiniteSubsetsOf
<1>2. T # {}
  OBVIOUS
<1>3. IsWellFoundedOn(R, FiniteSubsetsOf(Nat))
  BY FS_StrictSubsetOrderingWellFounded
<1>4. PICK x \in T : \A y \in T : ~ (<<y, x>> \in R)
  BY <1>1, <1>2, <1>3, WFMin
<1>5. PICK m \in S : x = 0 .. m
  OBVIOUS
<1>6. ASSUME NEW k \in S, k < m PROVE FALSE
  <2>1. 0 .. k \subseteq 0 .. m /\ 0 .. k # 0 .. m
    BY <1>6
  <2>2. 0 .. k \in SUBSET Nat /\ 0 .. m \in SUBSET Nat
    OBVIOUS
  <2>3. <<0 .. k, x>> \in R
    BY <1>5, <2>1, <2>2 DEF StrictSubsetOrdering
  <2> QED
    BY <1>4, <2>3
<1> QED
  BY <1>6

(* A set with 0 and the successor of each of its elements is all of Nat.   *)
LEMMA NatSetInduction ==
  ASSUME NEW S, 0 \in S, \A n \in Nat : n \in S => n + 1 \in S
  PROVE  Nat \subseteq S
<1> SUFFICES ASSUME Nat \ S # {} PROVE FALSE
  OBVIOUS
<1>1. PICK m \in Nat \ S : \A k \in Nat \ S : m <= k
  BY LeastNatural
<1>2. m # 0 /\ m - 1 \in Nat
  OBVIOUS
<1>3. m - 1 \in S
  BY <1>1, <1>2
<1> QED
  BY <1>2, <1>3

(* What holds of f[0] and is passed on from each f[k - 1] to f[k] holds of *)
(* f[n].                                                                   *)
LEMMA IterationIn ==
  ASSUME NEW n \in Nat, NEW f, NEW G,
         f[0] \in G[0],
         \A k \in 1 .. n : f[k - 1] \in G[k - 1] => f[k] \in G[k]
  PROVE  \A k \in 0 .. n : f[k] \in G[k]
<1> DEFINE S == {k \in Nat : k <= n => f[k] \in G[k]}
<1>1. 0 \in S
  OBVIOUS
<1>2. ASSUME NEW k \in Nat, k \in S PROVE k + 1 \in S
  <2> SUFFICES ASSUME k + 1 <= n PROVE f[k + 1] \in G[k + 1]
    OBVIOUS
  <2>1. k + 1 \in 1 .. n /\ (k + 1) - 1 = k /\ k <= n
    OBVIOUS
  <2>2. f[k] \in G[k]
    BY <1>2, <2>1
  <2> QED
    BY <2>1, <2>2
<1>3. Nat \subseteq S
  <2> HIDE DEF S
  <2> QED
    BY <1>1, <1>2, NatSetInduction
<1> QED
  BY <1>3

(* Iterating n times, from a, steps F[1] .. F[n] that stay in S defines a  *)
(* function.                                                               *)
StepsIn(n, S) == [1 .. n -> [S -> S]]

IsIteration(f, n, S, a, F) ==
  /\ f \in [0 .. n -> S]
  /\ f[0] = a
  /\ \A k \in 1 .. n : f[k] = F[k][f[k - 1]]

LEMMA IterationExists ==
  ASSUME NEW n \in Nat, NEW S, NEW a \in S, NEW F \in StepsIn(n, S)
  PROVE  \E f : IsIteration(f, n, S, a, F)
<1> USE DEF StepsIn, IsIteration
<1> DEFINE Upto(m) == {f \in [0 .. m -> S] :
                         /\ f[0] = a
                         /\ \A k \in 1 .. m : f[k] = F[k][f[k - 1]]}
           T == {m \in Nat : m <= n => Upto(m) # {}}
<1>1. 0 \in T
  <2>1. [k \in 0 .. 0 |-> a] \in Upto(0)
    OBVIOUS
  <2> QED
    BY <2>1
<1>2. ASSUME NEW m \in Nat, m \in T PROVE m + 1 \in T
  <2> SUFFICES ASSUME m + 1 <= n PROVE Upto(m + 1) # {}
    OBVIOUS
  <2>1. PICK f \in Upto(m) : TRUE
    BY <1>2
  <2> DEFINE g == [k \in 0 .. m + 1 |-> IF k = m + 1 THEN F[m + 1][f[m]] ELSE f[k]]
  <2>2. m + 1 \in 1 .. n /\ f[m] \in S
    BY <2>1
  <2>3. F[m + 1][f[m]] \in S
    BY <2>2
  <2>4. g \in [0 .. m + 1 -> S]
    BY <2>1, <2>3
  <2>5. g[0] = a
    BY <2>1
  <2>6. ASSUME NEW k \in 1 .. m + 1 PROVE g[k] = F[k][g[k - 1]]
    <3>1. CASE k = m + 1
      BY <3>1, <2>2
    <3>2. CASE k # m + 1
      <4>1. k \in 1 .. m /\ k - 1 \in 0 .. m
        BY <3>2
      <4>2. g[k] = f[k] /\ g[k - 1] = f[k - 1]
        BY <4>1, <3>2
      <4> QED
        BY <2>1, <4>1, <4>2
    <3> QED
      BY <3>1, <3>2
  <2>7. g \in Upto(m + 1)
    BY <2>4, <2>5, <2>6
  <2> QED
    BY <2>7
<1>3. Nat \subseteq T
  <2> HIDE DEF T
  <2> QED
    BY <1>1, <1>2, NatSetInduction
<1>4. Upto(n) # {}
  BY <1>3
<1> QED
  BY <1>4

-----------------------------------------------------------------------------
(* Lists.                                                                  *)
LEMMA AppendIndices ==
  ASSUME NEW S, NEW q \in Seq(S), NEW x \in S
  PROVE  /\ Append(q, x) \in Seq(S)
         /\ \A i \in DOMAIN Append(q, x) :
              \/ i \in DOMAIN q /\ Append(q, x)[i] = q[i]
              \/ i = Len(q) + 1 /\ Append(q, x)[i] = x
         /\ \A i \in DOMAIN q : i \in Nat /\ i < Len(q) + 1
<1>1. Len(q) \in Nat /\ DOMAIN q = 1 .. Len(q)
  BY LenProperties
<1>2. /\ Append(q, x) \in Seq(S) /\ Len(Append(q, x)) = Len(q) + 1
      /\ \A i \in 1 .. Len(q) : Append(q, x)[i] = q[i]
      /\ Append(q, x)[Len(q) + 1] = x
  BY AppendProperties
<1>3. DOMAIN Append(q, x) = 1 .. Len(q) + 1
  BY <1>2, LenProperties
<1> QED
  BY <1>1, <1>2, <1>3

LEMMA TailIndices ==
  ASSUME NEW S, NEW q \in Seq(S), q # <<>>
  PROVE  /\ 1 \in DOMAIN q /\ q[1] = Head(q) /\ Head(q) \in S /\ Tail(q) \in Seq(S)
         /\ \A i \in DOMAIN Tail(q) :
              /\ i \in Nat \ {0} /\ i + 1 \in DOMAIN q
              /\ Tail(q)[i] = q[i + 1] /\ 1 < i + 1
<1>1. Len(q) \in Nat \ {0} /\ DOMAIN q = 1 .. Len(q)
  BY EmptySeq, LenProperties
<1>2. /\ Tail(q) \in Seq(S) /\ Len(Tail(q)) = Len(q) - 1 /\ Head(q) = q[1] /\ Head(q) \in S
      /\ \A i \in 1 .. Len(Tail(q)) : Tail(q)[i] = q[i + 1]
  BY HeadTailProperties
<1>3. DOMAIN Tail(q) = 1 .. Len(Tail(q))
  BY <1>2, LenProperties
<1> QED
  BY <1>1, <1>2, <1>3

LEMMA AppendHead ==
  ASSUME NEW S, NEW q \in Seq(S), NEW x \in S
  PROVE  Head(Append(q, x)) = IF q = <<>> THEN x ELSE Head(q)
<1>1. /\ Append(q, x) \in Seq(S) /\ Len(Append(q, x)) = Len(q) + 1
      /\ \A i \in 1 .. Len(q) : Append(q, x)[i] = q[i]
      /\ Append(q, x)[Len(q) + 1] = x
  BY AppendProperties
<1>2. Len(q) \in Nat
  BY LenProperties
<1>3. Append(q, x) # <<>>
  BY <1>1, <1>2, EmptySeq
<1>4. Head(Append(q, x)) = Append(q, x)[1]
  BY <1>1, <1>3, TailIndices
<1>5. CASE q = <<>>
  <2>1. Len(q) = 0
    BY <1>5
  <2> QED BY <1>1, <1>4, <1>5, <2>1
<1>6. CASE q # <<>>
  <2>1. q[1] = Head(q) /\ Len(q) # 0
    BY <1>6, TailIndices, EmptySeq
  <2>2. 1 \in 1 .. Len(q)
    BY <1>2, <2>1
  <2> QED BY <1>1, <1>4, <1>6, <2>1, <2>2
<1> QED
  BY <1>5, <1>6

LEMMA MinimumOf ==
  ASSUME NEW S \in SUBSET Nat, S # {}
  PROVE  Min(S) \in S
<1>1. \E x \in S : \A y \in S : x <= y
  BY LeastNatural
<1> QED
  BY <1>1 DEF Min

LEMMA OneElement ==
  ASSUME NEW S
  PROVE  (\A c, d \in S : c = d) => Cardinality(S) <= 1
<1> SUFFICES ASSUME \A c, d \in S : c = d PROVE Cardinality(S) <= 1
  OBVIOUS
<1>1. CASE S = {}
  BY <1>1, FS_EmptySet
<1>2. CASE S # {}
  <2>1. PICK c : S = {c}
    BY <1>2
  <2>2. Cardinality(S) = 1
    BY <2>1, FS_Singleton
  <2> QED BY <2>2
<1> QED
  BY <1>1, <1>2

LEMMA InFront ==
  ASSUME NEW S, NEW l \in Seq(S), NEW x \in S
  PROVE  /\ <<x>> \o l \in Seq(S)
         /\ Range(<<x>> \o l) = {x} \cup Range(l)
         /\ IsInjective(l) /\ x \notin Range(l) => IsInjective(<<x>> \o l)
<1> DEFINE n == Len(l)
           h == <<x>> \o l
<1>1. /\ <<x>> \in Seq(S) /\ Len(<<x>>) = 1 /\ <<x>>[1] = x
      /\ n \in Nat /\ DOMAIN l = 1 .. n
  BY LenProperties
<1>2. /\ h \in Seq(S) /\ Len(h) = 1 + n
      /\ \A i \in 1 .. 1 + n : h[i] = IF i <= 1 THEN <<x>>[i] ELSE l[i - 1]
  BY <1>1, ConcatProperties
<1> HIDE DEF h, n
<1>3. DOMAIN h = 1 .. n + 1 /\ \A i \in 1 .. n + 1 : h[i] = IF i = 1 THEN x ELSE l[i - 1]
  BY <1>1, <1>2, LenProperties
<1>4. Range(h) = {x} \cup Range(l)
  <2>1. Range(h) \subseteq {x} \cup Range(l)
    BY <1>1, <1>3 DEF Range
  <2>2. x \in Range(h)
    <3>1. 1 \in DOMAIN h /\ h[1] = x
      BY <1>1, <1>3
    <3> QED BY <3>1 DEF Range
  <2>3. ASSUME NEW j \in 1 .. n PROVE l[j] \in Range(h)
    <3>1. j + 1 \in DOMAIN h /\ h[j + 1] = l[j]
      BY <1>1, <1>3
    <3> QED BY <3>1 DEF Range
  <2> QED BY <1>1, <2>1, <2>2, <2>3 DEF Range
<1>5. IsInjective(l) /\ x \notin Range(l) => IsInjective(h)
  <2> SUFFICES ASSUME IsInjective(l), x \notin Range(l),
                      NEW i \in 1 .. n + 1, NEW j \in 1 .. n + 1, h[i] = h[j]
               PROVE  i = j
    BY <1>3 DEF IsInjective
  <2>1. \A k \in 1 .. n : l[k] # x
    BY <1>1 DEF Range
  <2>2. \A k \in 1 .. n + 1 : k = 1 \/ k - 1 \in 1 .. n
    BY <1>1
  <2>3. CASE i = 1 \/ j = 1
    BY <1>3, <2>1, <2>2, <2>3
  <2>4. CASE i # 1 /\ j # 1
    <3>1. i - 1 = j - 1
      BY <1>1, <1>3, <2>2, <2>4 DEF IsInjective
    <3> QED BY <1>1, <3>1
  <2> QED BY <2>3, <2>4
<1> QED
  BY <1>2, <1>4, <1>5 DEF h

LEMMA WithoutOne ==
  ASSUME NEW S, NEW l \in Seq(S), NEW i \in DOMAIN l, IsInjective(l)
  PROVE  /\ RemoveAt(l, i) \in Seq(S)
         /\ Range(RemoveAt(l, i)) = Range(l) \ {l[i]}
         /\ IsInjective(RemoveAt(l, i))
<1> DEFINE n == Len(l)
           a == SubSeq(l, 1, i - 1)
           b == SubSeq(l, i + 1, n)
           r == a \o b
<1>1. n \in Nat /\ DOMAIN l = 1 .. n /\ i \in 1 .. n
  BY LenProperties
<1>2. /\ a \in Seq(S) /\ Len(a) = i - 1 /\ \A k \in 1 .. i - 1 : a[k] = l[k]
      /\ b \in Seq(S) /\ Len(b) = n - i /\ \A k \in 1 .. n - i : b[k] = l[i + k]
  <2>1. /\ \A k \in 1 .. i - 1 : l[k] \in S
        /\ \A k \in i + 1 .. n : l[k] \in S
    BY <1>1, ElementOfSeq
  <2>2. /\ a \in Seq(S) /\ Len(a) = i - 1
        /\ \A k \in 1 .. i - 1 : a[k] = l[1 + k - 1]
    <3>1. i - 1 - 1 + 1 = i - 1
      BY <1>1
    <3> QED BY <1>1, <2>1, <3>1, SubSeqProperties
  <2>3. /\ b \in Seq(S) /\ Len(b) = n - i
        /\ \A k \in 1 .. n - i : b[k] = l[i + 1 + k - 1]
    <3>1. n - (i + 1) + 1 = n - i
      BY <1>1
    <3> QED BY <1>1, <2>1, <3>1, SubSeqProperties
  <2> HIDE DEF a, b, n
  <2>4. ASSUME NEW k \in 1 .. i - 1 PROVE a[k] = l[k]
    <3>1. 1 + k - 1 = k
      OBVIOUS
    <3> QED BY <2>2, <3>1
  <2>5. ASSUME NEW k \in 1 .. n - i PROVE b[k] = l[i + k]
    <3>1. i + 1 + k - 1 = i + k
      BY <1>1
    <3> QED BY <2>3, <3>1
  <2> QED BY <2>2, <2>3, <2>4, <2>5
<1> HIDE DEF a, b, n
<1>3. /\ r \in Seq(S) /\ Len(r) = Len(a) + Len(b)
      /\ \A k \in 1 .. Len(a) + Len(b) :
           r[k] = IF k <= Len(a) THEN a[k] ELSE b[k - Len(a)]
  BY <1>2, ConcatProperties
<1> HIDE DEF r
<1>4. DOMAIN r = 1 .. n - 1
  BY <1>1, <1>2, <1>3, LenProperties
<1>5. ASSUME NEW k \in 1 .. n - 1 PROVE r[k] = l[IF k < i THEN k ELSE k + 1]
  <2>1. CASE k < i
    <3>1. k \in 1 .. Len(a) + Len(b) /\ k <= Len(a) /\ k \in 1 .. i - 1
      BY <1>1, <1>2, <2>1
    <3> QED BY <1>2, <1>3, <2>1, <3>1
  <2>2. CASE ~ k < i
    <3>1. /\ k \in 1 .. Len(a) + Len(b) /\ ~ k <= Len(a)
          /\ k - Len(a) \in 1 .. n - i /\ i + (k - Len(a)) = k + 1
      BY <1>1, <1>2, <2>2
    <3> QED BY <1>2, <1>3, <2>2, <3>1
  <2> QED BY <2>1, <2>2
<1>6. \A j, k \in 1 .. n : l[j] = l[k] => j = k
  BY <1>1 DEF IsInjective
<1>7. Range(r) = Range(l) \ {l[i]}
  <2>1. ASSUME NEW k \in 1 .. n - 1 PROVE r[k] \in Range(l) \ {l[i]}
    <3>1. PICK j \in 1 .. n : r[k] = l[j] /\ j # i
      BY <1>1, <1>5
    <3> QED BY <1>1, <1>6, <3>1 DEF Range
  <2>2. ASSUME NEW j \in 1 .. n, j # i PROVE l[j] \in Range(r)
    <3>1. CASE j < i
      <4>1. j \in 1 .. n - 1 /\ r[j] = l[j]
        BY <1>1, <1>5, <3>1
      <4> QED BY <1>4, <4>1 DEF Range
    <3>2. CASE j > i
      <4>1. j - 1 \in 1 .. n - 1 /\ r[j - 1] = l[j]
        <5>1. j - 1 \in 1 .. n - 1 /\ ~ j - 1 < i /\ (j - 1) + 1 = j
          BY <1>1, <3>2
        <5> QED BY <1>5, <5>1
      <4> QED BY <1>4, <4>1 DEF Range
    <3> QED BY <1>1, <2>2, <3>1, <3>2
  <2>3. Range(r) \subseteq Range(l) \ {l[i]}
    BY <1>4, <2>1 DEF Range
  <2>4. Range(l) \ {l[i]} \subseteq Range(r)
    <3> SUFFICES ASSUME NEW j \in 1 .. n, l[j] # l[i] PROVE l[j] \in Range(r)
      BY <1>1 DEF Range
    <3> QED BY <2>2
  <2> QED BY <2>3, <2>4
<1>8. IsInjective(r)
  <2> SUFFICES ASSUME NEW j \in 1 .. n - 1, NEW k \in 1 .. n - 1, r[j] = r[k] PROVE j = k
    BY <1>4 DEF IsInjective
  <2>1. (IF j < i THEN j ELSE j + 1) = (IF k < i THEN k ELSE k + 1)
    BY <1>1, <1>5, <1>6
  <2> QED BY <1>1, <2>1
<1> QED
  BY <1>3, <1>7, <1>8 DEF RemoveAt, r, a, b, n

-----------------------------------------------------------------------------
(* FlattenSeq: its recursive definition has a solution, by which the       *)
(* elements are joined one after the other.                                *)
LEMMA FlattenUnfolds ==
  ASSUME NEW S, NEW qs \in Seq(Seq(S))
  PROVE  \E f \in [0 .. Len(qs) -> Seq(S)] :
           /\ f[0] = <<>>
           /\ \A k \in 1 .. Len(qs) : f[k] = f[k - 1] \o qs[k]
           /\ FlattenSeq(qs) = f[Len(qs)]
<1>1. PICK n \in Nat : n = Len(qs)
  BY LenProperties
<1>2. PICK G : G = Seq(S)
  OBVIOUS
<1>3. \A k \in 1 .. n : qs[k] \in G
  BY <1>1, <1>2, ElementOfSeq
<1>4. <<>> \in G /\ \A r \in G, q \in G : r \o q \in G
  BY <1>2, ConcatProperties, EmptySeq
<1>5. PICK F \in StepsIn(n, G) :
         F = [k \in 1 .. n |-> [r \in G |-> r \o qs[k]]]
  BY <1>3, <1>4 DEF StepsIn
<1>6. PICK f : IsIteration(f, n, G, <<>>, F)
  BY <1>4, IterationExists, Zenon
<1>7. /\ f \in [0 .. n -> G] /\ f[0] = <<>>
      /\ \A k \in 1 .. n : f[k] = f[k - 1] \o qs[k]
  <2>1. ASSUME NEW k \in 1 .. n PROVE f[k] = f[k - 1] \o qs[k]
    <3>1. F[k] = [r \in G |-> r \o qs[k]] /\ f[k - 1] \in G
      BY <1>5, <1>6 DEF IsIteration
    <3> QED BY <1>6, <3>1 DEF IsIteration
  <2> QED BY <1>6, <2>1 DEF IsIteration
<1>8. CASE n = 0
  <2>1. qs = <<>> /\ FlattenSeq(qs) = <<>>
    BY <1>1, <1>8, EmptySeq DEF FlattenSeq
  <2> QED BY <1>1, <1>2, <1>7, <1>8, <2>1
<1>9. CASE n # 0
  <2> DEFINE Solves(g) == g = [i \in 1 .. n |->
                                 IF i = 1 THEN qs[i] ELSE g[i - 1] \o qs[i]]
             h == CHOOSE g : Solves(g)
  <2>1. FlattenSeq(qs) = h[n]
    BY <1>1, <1>9 DEF FlattenSeq
  <2>2. \E g : Solves(g)
    <3>1. PICK g : g = [i \in 1 .. n |-> f[i]]
      OBVIOUS
    <3>2. ASSUME NEW i \in 1 .. n
          PROVE  g[i] = IF i = 1 THEN qs[i] ELSE g[i - 1] \o qs[i]
      <4>1. CASE i = 1
        <5>1. 1 \in 1 .. n /\ 1 - 1 = 0
          BY <4>1
        <5>2. f[1] = <<>> \o qs[1] /\ qs[1] \in Seq(S)
          BY <1>2, <1>3, <1>7, <5>1
        <5> QED BY <3>1, <4>1, <5>2, ConcatEmptySeq
      <4>2. CASE i # 1
        <5>1. i - 1 \in 1 .. n
          BY <4>2
        <5> QED BY <1>7, <3>1, <4>2, <5>1
      <4> QED BY <4>1, <4>2
    <3>3. g = [i \in 1 .. n |-> IF i = 1 THEN qs[i] ELSE g[i - 1] \o qs[i]]
      BY <3>1, <3>2
    <3> QED BY <3>3
  <2>3. Solves(h)
    <3> HIDE DEF Solves
    <3> QED BY <2>2
  <2>4. \A k \in 1 .. n : h[k] = IF k = 1 THEN qs[k] ELSE h[k - 1] \o qs[k]
    <3> HIDE DEF h
    <3> QED BY <2>3
  <2> HIDE DEF h
  <2>5. PICK T : T = {k \in Nat : k + 1 <= n => h[k + 1] = f[k + 1]}
    OBVIOUS
  <2>6. 0 \in T
    <3>1. 1 \in 1 .. n /\ f[1] = <<>> \o qs[1] /\ qs[1] \in Seq(S)
      <4>1. 1 \in 1 .. n /\ 1 - 1 = 0
        BY <1>9
      <4> QED BY <1>2, <1>3, <1>7, <4>1
    <3>2. h[1] = f[1]
      BY <2>4, <3>1, ConcatEmptySeq
    <3> QED BY <2>5, <3>2
  <2>7. ASSUME NEW k \in Nat, k \in T PROVE k + 1 \in T
    <3> SUFFICES ASSUME (k + 1) + 1 <= n PROVE h[(k + 1) + 1] = f[(k + 1) + 1]
      BY <2>5
    <3>1. PICK j \in 1 .. n : j = (k + 1) + 1
      OBVIOUS
    <3>2. j - 1 = k + 1 /\ k + 1 <= n /\ j # 1
      BY <3>1
    <3>3. h[j - 1] = f[j - 1]
      BY <2>5, <2>7, <3>2
    <3>4. h[j] = f[j]
      BY <1>7, <2>4, <3>2, <3>3
    <3> QED BY <3>1, <3>4
  <2>8. Nat \subseteq T
    BY <2>6, <2>7, NatSetInduction
  <2>9. h[n] = f[n]
    <3>1. n - 1 \in Nat /\ (n - 1) + 1 = n
      BY <1>9
    <3>2. n - 1 \in T
      BY <2>8, <3>1
    <3> QED BY <2>5, <3>1, <3>2
  <2> QED BY <1>1, <1>2, <1>7, <2>1, <2>9
<1> QED
  BY <1>8, <1>9

LEMMA FlattenType ==
  ASSUME NEW S, NEW qs \in Seq(Seq(S))
  PROVE  FlattenSeq(qs) \in Seq(S)
<1>1. PICK f \in [0 .. Len(qs) -> Seq(S)] : FlattenSeq(qs) = f[Len(qs)]
  BY FlattenUnfolds
<1> QED
  BY <1>1, LenProperties

LEMMA FlattenEmpty == FlattenSeq(<<>>) = <<>>
BY DEF FlattenSeq

LEMMA JoinedThree ==
  ASSUME NEW S
  PROVE  \A a, b, c \in Seq(S) : (a \o b) \o c = a \o (b \o c)
<1>1. ASSUME NEW a \in Seq(S), NEW b \in Seq(S), NEW c \in Seq(S)
      PROVE  (a \o b) \o c = a \o (b \o c)
  BY ConcatAssociative
<1> QED
  BY <1>1

LEMMA FlattenJoined ==
  ASSUME NEW S
  PROVE  \A ps, qs \in Seq(Seq(S)) :
           FlattenSeq(ps \o qs) = FlattenSeq(ps) \o FlattenSeq(qs)
<1>0. \A a, b, c \in Seq(S) : (a \o b) \o c = a \o (b \o c)
  BY JoinedThree
<1> SUFFICES ASSUME NEW ps \in Seq(Seq(S)), NEW qs \in Seq(Seq(S))
             PROVE  FlattenSeq(ps \o qs) = FlattenSeq(ps) \o FlattenSeq(qs)
  OBVIOUS
<1>1. PICK m \in Nat, n \in Nat : m = Len(ps) /\ n = Len(qs)
  BY LenProperties
<1>2. PICK rs : rs = ps \o qs
  OBVIOUS
<1>3. /\ rs \in Seq(Seq(S)) /\ Len(rs) = m + n
      /\ \A k \in 1 .. m + n : rs[k] = IF k <= m THEN ps[k] ELSE qs[k - m]
  BY <1>1, <1>2, ConcatProperties
<1>4. PICK f \in [0 .. m -> Seq(S)] :
             /\ f[0] = <<>>
             /\ \A k \in 1 .. m : f[k] = f[k - 1] \o ps[k]
             /\ FlattenSeq(ps) = f[m]
  BY <1>1, FlattenUnfolds
<1>5. PICK g \in [0 .. n -> Seq(S)] :
             /\ g[0] = <<>>
             /\ \A k \in 1 .. n : g[k] = g[k - 1] \o qs[k]
             /\ FlattenSeq(qs) = g[n]
  BY <1>1, FlattenUnfolds
<1>6. PICK h \in [0 .. m + n -> Seq(S)] :
             /\ h[0] = <<>>
             /\ \A k \in 1 .. m + n : h[k] = h[k - 1] \o rs[k]
             /\ FlattenSeq(rs) = h[m + n]
  <2>1. PICK l \in Nat : l = m + n
    OBVIOUS
  <2>2. rs \in Seq(Seq(S)) /\ Len(rs) = l
    BY <1>3, <2>1
  <2>3. \E h \in [0 .. l -> Seq(S)] :
             /\ h[0] = <<>>
             /\ \A k \in 1 .. l : h[k] = h[k - 1] \o rs[k]
             /\ FlattenSeq(rs) = h[l]
    BY <2>2, FlattenUnfolds
  <2> QED BY <2>1, <2>3
<1>7. h[m] = f[m]
  <2>1. PICK G : G = [k \in 0 .. m |-> {f[k]}]
    OBVIOUS
  <2>2. h[0] \in G[0]
    BY <1>4, <1>6, <2>1
  <2>3. ASSUME NEW k \in 1 .. m, h[k - 1] \in G[k - 1] PROVE h[k] \in G[k]
    <3>1. k \in 1 .. m + n /\ k - 1 \in 0 .. m /\ k \in 0 .. m /\ k <= m
      OBVIOUS
    <3>2. h[k - 1] = f[k - 1] /\ rs[k] = ps[k]
      BY <1>3, <2>1, <2>3, <3>1
    <3> QED BY <1>4, <1>6, <2>1, <3>1, <3>2
  <2>4. \A k \in 0 .. m : h[k] \in G[k]
    BY <2>2, <2>3, IterationIn
  <2> QED BY <2>1, <2>4
<1>8. h[m + n] = f[m] \o g[n]
  <2>1. PICK G : G = [k \in 0 .. n |-> {f[m] \o g[k]}]
    OBVIOUS
  <2>2. PICK e : e = [k \in 0 .. n |-> h[m + k]]
    OBVIOUS
  <2>3. e[0] \in G[0]
    <3>1. f[m] \o <<>> = f[m]
      <4>1. f[m] \in Seq(S)
        OBVIOUS
      <4> QED BY <4>1, ConcatEmptySeq
    <3>2. 0 \in 0 .. n /\ m + 0 = m
      OBVIOUS
    <3>3. e[0] = h[m]
      BY <2>2, <3>2
    <3>4. G[0] = {f[m] \o <<>>}
      BY <1>5, <2>1, <3>2
    <3> QED BY <1>7, <3>1, <3>3, <3>4
  <2>4. ASSUME NEW k \in 1 .. n, e[k - 1] \in G[k - 1] PROVE e[k] \in G[k]
    <3>1. /\ m + k \in 1 .. m + n /\ k - 1 \in 0 .. n /\ k \in 0 .. n /\ ~ m + k <= m
          /\ (m + k) - 1 = m + (k - 1) /\ (m + k) - m = k
      OBVIOUS
    <3>2. e[k - 1] = f[m] \o g[k - 1] /\ e[k - 1] = h[(m + k) - 1] /\ e[k] = h[m + k]
      BY <2>1, <2>2, <2>4, <3>1
    <3>3. h[m + k] = h[(m + k) - 1] \o qs[k]
      BY <1>3, <1>6, <3>1
    <3>4. f[m] \in Seq(S) /\ g[k - 1] \in Seq(S) /\ qs[k] \in Seq(S)
      <4>1. qs[k] \in Seq(S)
        BY <1>1, ElementOfSeq
      <4> QED BY <3>1, <4>1
    <3>5. (f[m] \o g[k - 1]) \o qs[k] = f[m] \o (g[k - 1] \o qs[k])
      BY <1>0, <3>4
    <3>6. g[k] = g[k - 1] \o qs[k]
      BY <1>5
    <3> QED BY <2>1, <3>1, <3>2, <3>3, <3>5, <3>6
  <2>5. \A k \in 0 .. n : e[k] \in G[k]
    BY <2>3, <2>4, IterationIn
  <2> QED BY <2>1, <2>2, <2>5
<1> QED
  BY <1>2, <1>4, <1>5, <1>6, <1>7, <1>8

LEMMA FlattenOne ==
  ASSUME NEW S, NEW x \in Seq(S)
  PROVE  FlattenSeq(<<x>>) = x
<1>1. <<x>> \in Seq(Seq(S)) /\ Len(<<x>>) = 1 /\ <<x>>[1] = x
  OBVIOUS
<1>2. PICK f \in [0 .. 1 -> Seq(S)] :
             /\ f[0] = <<>>
             /\ \A k \in 1 .. 1 : f[k] = f[k - 1] \o <<x>>[k]
             /\ FlattenSeq(<<x>>) = f[1]
  BY <1>1, FlattenUnfolds
<1>3. f[1] = <<>> \o x
  <2>1. 1 \in 1 .. 1 /\ 1 - 1 = 0
    OBVIOUS
  <2> QED BY <1>1, <1>2, <2>1
<1> QED
  BY <1>2, <1>3, ConcatEmptySeq

LEMMA FlattenAppend ==
  ASSUME NEW S, NEW qs \in Seq(Seq(S)), NEW x \in Seq(S)
  PROVE  FlattenSeq(Append(qs, x)) = FlattenSeq(qs) \o x
<1>1. Append(qs, x) = qs \o <<x>>
  BY AppendIsConcat
<1>2. <<x>> \in Seq(Seq(S))
  OBVIOUS
<1>3. FlattenSeq(qs \o <<x>>) = FlattenSeq(qs) \o FlattenSeq(<<x>>)
  BY <1>2, FlattenJoined
<1> QED
  BY <1>1, <1>3, FlattenOne

LEMMA FlattenFront ==
  ASSUME NEW S, NEW qs \in Seq(Seq(S)), NEW x \in Seq(S)
  PROVE  FlattenSeq(<<x>> \o qs) = x \o FlattenSeq(qs)
<1>1. <<x>> \in Seq(Seq(S))
  OBVIOUS
<1>2. FlattenSeq(<<x>> \o qs) = FlattenSeq(<<x>>) \o FlattenSeq(qs)
  BY <1>1, FlattenJoined
<1> QED
  BY <1>2, FlattenOne

LEMMA HeadAndTail ==
  ASSUME NEW S, NEW l \in Seq(S), l # <<>>
  PROVE  l = <<Head(l)>> \o Tail(l) /\ Head(l) \in S /\ Tail(l) \in Seq(S)
<1>1. Len(l) \in Nat \ {0} /\ l[1] = Head(l)
  BY EmptySeq, LenProperties
<1>2. SubSeq(l, 1, Len(l)) = <<l[1]>> \o SubSeq(l, 2, Len(l))
  <2>1. 1 \in 1 .. Len(l) /\ Len(l) \in 1 .. Len(l) /\ 1 + 1 = 2
    BY <1>1
  <2> QED BY <2>1, SubSeqRecursiveFirst
<1>3. Tail(l) = SubSeq(l, 2, Len(l))
  BY TailIsSubSeq
<1> QED
  BY <1>1, <1>2, <1>3, SubSeqFull, HeadTailProperties

LEMMA FlattenHead ==
  ASSUME NEW S, NEW qs \in Seq(Seq(S)), qs # <<>>
  PROVE  FlattenSeq(qs) = Head(qs) \o FlattenSeq(Tail(qs))
<1>1. /\ qs = <<Head(qs)>> \o Tail(qs) /\ Head(qs) \in Seq(S)
      /\ Tail(qs) \in Seq(Seq(S))
  BY HeadAndTail
<1> QED
  BY <1>1, FlattenFront

LEMMA SplitAt ==
  ASSUME NEW S, NEW l \in Seq(S), NEW k \in 0 .. Len(l)
  PROVE  /\ SubSeq(l, 1, k) \in Seq(S) /\ SubSeq(l, k + 1, Len(l)) \in Seq(S)
         /\ SubSeq(l, 1, k) \o SubSeq(l, k + 1, Len(l)) = l
         /\ Len(SubSeq(l, 1, k)) = k /\ Len(SubSeq(l, k + 1, Len(l))) = Len(l) - k
<1>1. PICK n \in Nat : n = Len(l)
  BY LenProperties
<1>2. \A i \in 1 .. n : l[i] \in S
  BY <1>1, ElementOfSeq
<1>3. /\ SubSeq(l, 1, k) \in Seq(S)
      /\ Len(SubSeq(l, 1, k)) = IF 1 <= k THEN k - 1 + 1 ELSE 0
  <2>1. 1 \in Int /\ k \in Int /\ \A i \in 1 .. k : l[i] \in S
    BY <1>1, <1>2
  <2> QED BY <2>1, SubSeqProperties
<1>4. /\ SubSeq(l, k + 1, n) \in Seq(S)
      /\ Len(SubSeq(l, k + 1, n)) = IF k + 1 <= n THEN n - (k + 1) + 1 ELSE 0
  <2>1. k + 1 \in Int /\ n \in Int /\ \A i \in k + 1 .. n : l[i] \in S
    BY <1>1, <1>2
  <2> QED BY <2>1, SubSeqProperties
<1>5. SubSeq(l, 1, k) \o SubSeq(l, k + 1, Len(l)) = SubSeq(l, 1, Len(l))
  <2>1. 1 \in 1 .. Len(l) + 1 /\ k \in 1 - 1 .. Len(l) /\ Len(l) \in k .. Len(l)
    BY <1>1
  <2> QED BY <2>1, ConcatAdjacentSubSeq
<1>6. SubSeq(l, 1, Len(l)) = l
  BY SubSeqFull
<1>7. Len(SubSeq(l, 1, k)) = k /\ Len(SubSeq(l, k + 1, n)) = n - k
  BY <1>1, <1>3, <1>4
<1> QED
  BY <1>1, <1>3, <1>4, <1>5, <1>6, <1>7

LEMMA FlattenPart ==
  ASSUME NEW S, NEW qs \in Seq(Seq(S)), NEW k \in 0 .. Len(qs)
  PROVE  /\ SubSeq(qs, 1, k) \in Seq(Seq(S))
         /\ \E u \in Seq(S) : FlattenSeq(qs) = FlattenSeq(SubSeq(qs, 1, k)) \o u
<1>1. PICK a, b : a = SubSeq(qs, 1, k) /\ b = SubSeq(qs, k + 1, Len(qs))
  OBVIOUS
<1>2. a \in Seq(Seq(S)) /\ b \in Seq(Seq(S)) /\ a \o b = qs
  BY <1>1, SplitAt
<1>3. FlattenSeq(a \o b) = FlattenSeq(a) \o FlattenSeq(b)
  BY <1>2, FlattenJoined
<1> QED
  BY <1>1, <1>2, <1>3, FlattenType

-----------------------------------------------------------------------------
(* IsPrefix.                                                               *)
LEMMA PrefixMeans ==
  ASSUME NEW S, NEW s \in Seq(S), NEW t \in Seq(S)
  PROVE  IsPrefix(s, t) <=> /\ Len(s) <= Len(t)
                            /\ \A i \in 1 .. Len(s) : s[i] = t[i]
<1>1. /\ Len(s) \in Nat /\ Len(t) \in Nat
      /\ \A i \in 1 .. Len(s) : s[i] \in S
      /\ \A i \in 1 .. Len(t) : t[i] \in S
  BY LenProperties, ElementOfSeq
<1>2. SubSeq(s, 1, Len(s)) = s
  BY SubSeqFull
<1>3. CASE Len(s) <= Len(t)
  <2>1. PICK u : u = SubSeq(t, 1, Len(s))
    OBVIOUS
  <2>2. /\ u \in Seq(S) /\ Len(u) = Len(s)
        /\ \A i \in 1 .. Len(s) : u[i] = t[i]
    <3>1. \A i \in 1 .. Len(s) : t[i] \in S /\ 1 + i - 1 = i
      BY <1>1, <1>3
    <3>2. Len(s) - 1 + 1 = Len(s)
      BY <1>1
    <3>3. /\ u \in Seq(S) /\ Len(u) = IF 1 <= Len(s) THEN Len(s) - 1 + 1 ELSE 0
          /\ \A i \in 1 .. Len(s) - 1 + 1 : u[i] = t[1 + i - 1]
      BY <1>1, <2>1, <3>1, SubSeqProperties
    <3> QED BY <1>1, <3>1, <3>2, <3>3
  <2>3. IsPrefix(s, t) <=> s = u
    BY <1>2, <1>3, <2>1 DEF IsPrefix
  <2>4. s = u <=> \A i \in 1 .. Len(s) : s[i] = u[i]
    BY <2>2, SeqEqual
  <2> QED BY <1>3, <2>2, <2>3, <2>4
<1>4. CASE ~ Len(s) <= Len(t)
  BY <1>4 DEF IsPrefix
<1> QED
  BY <1>3, <1>4

LEMMA PrefixOfJoined ==
  ASSUME NEW S, NEW s \in Seq(S), NEW u \in Seq(S)
  PROVE  IsPrefix(s, s \o u)
<1>1. /\ s \o u \in Seq(S) /\ Len(s \o u) = Len(s) + Len(u)
      /\ \A i \in 1 .. Len(s) + Len(u) :
           (s \o u)[i] = IF i <= Len(s) THEN s[i] ELSE u[i - Len(s)]
  BY ConcatProperties
<1>2. Len(s) \in Nat /\ Len(u) \in Nat
  BY LenProperties
<1>3. Len(s) <= Len(s \o u) /\ \A i \in 1 .. Len(s) : s[i] = (s \o u)[i]
  BY <1>1, <1>2
<1> QED
  BY <1>1, <1>3, PrefixMeans

LEMMA PrefixOfPrefix ==
  ASSUME NEW S, NEW s \in Seq(S), NEW t \in Seq(S), NEW u \in Seq(S),
         IsPrefix(s, t), IsPrefix(t, u)
  PROVE  IsPrefix(s, u)
<1>1. Len(s) \in Nat /\ Len(t) \in Nat /\ Len(u) \in Nat
  BY LenProperties
<1>2. Len(s) <= Len(t) /\ \A i \in 1 .. Len(s) : s[i] = t[i]
  BY PrefixMeans
<1>3. Len(t) <= Len(u) /\ \A i \in 1 .. Len(t) : t[i] = u[i]
  BY PrefixMeans
<1>4. Len(s) <= Len(u) /\ \A i \in 1 .. Len(s) : s[i] = u[i]
  BY <1>1, <1>2, <1>3
<1> QED
  BY <1>4, PrefixMeans

-----------------------------------------------------------------------------
(* SetToSeq of at most one element.                                        *)
LEMMA ListOfNone == SetToSeq({}) = <<>>
<1>1. \A f \in [1 .. 0 -> {}] : f = <<>>
  OBVIOUS
<1>2. <<>> \in [1 .. 0 -> {}] /\ IsInjective(<<>>)
  BY DEF IsInjective
<1>3. Cardinality({}) = 0
  BY FS_EmptySet
<1> QED
  BY <1>1, <1>2, <1>3 DEF SetToSeq

LEMMA ListOfOne ==
  ASSUME NEW x
  PROVE  SetToSeq({x}) = <<x>>
<1>1. Cardinality({x}) = 1
  BY FS_Singleton
<1>2. PICK g : g = [i \in 1 .. 1 |-> x]
  OBVIOUS
<1>3. g = <<x>>
  BY <1>2
<1>4. g \in [1 .. 1 -> {x}] /\ IsInjective(g)
  BY <1>2 DEF IsInjective
<1>5. \A f \in [1 .. 1 -> {x}] : f = g
  BY <1>2
<1>6. SetToSeq({x}) \in [1 .. 1 -> {x}]
  BY <1>1, <1>4 DEF SetToSeq
<1> QED
  BY <1>3, <1>5, <1>6

(* The first k elements of the first list are cut off.                     *)
Cut(l, k) ==
  LET rest == SubSeq(Head(l), k + 1, Len(Head(l)))
  IN IF rest = <<>> THEN Tail(l) ELSE <<rest>> \o Tail(l)

LEMMA CutHead ==
  ASSUME NEW S
  PROVE  \A l \in Seq(Seq(S)) : l # <<>> => \A k \in 0 .. Len(Head(l)) :
           /\ SubSeq(Head(l), 1, k) \in Seq(S) /\ Cut(l, k) \in Seq(Seq(S))
           /\ FlattenSeq(Cut(l, k)) \in Seq(S)
           /\ FlattenSeq(l) = SubSeq(Head(l), 1, k) \o FlattenSeq(Cut(l, k))
<1>0. \A a, b, c \in Seq(S) : (a \o b) \o c = a \o (b \o c)
  BY JoinedThree
<1> SUFFICES ASSUME NEW l \in Seq(Seq(S)), l # <<>>, NEW k \in 0 .. Len(Head(l))
             PROVE  /\ SubSeq(Head(l), 1, k) \in Seq(S) /\ Cut(l, k) \in Seq(Seq(S))
                    /\ FlattenSeq(Cut(l, k)) \in Seq(S)
                    /\ FlattenSeq(l) = SubSeq(Head(l), 1, k) \o FlattenSeq(Cut(l, k))
  BY Zenon
<1> DEFINE rest == SubSeq(Head(l), k + 1, Len(Head(l)))
           left == Cut(l, k)
<1>9. left = IF rest = <<>> THEN Tail(l) ELSE <<rest>> \o Tail(l)
  BY DEF Cut
<1> HIDE DEF left, rest
<1>1. PICK h \in Seq(S), t \in Seq(Seq(S)) : h = Head(l) /\ t = Tail(l)
  BY HeadAndTail
<1>2. PICK a : a = SubSeq(h, 1, k)
  OBVIOUS
<1>3. a \in Seq(S) /\ rest \in Seq(S) /\ a \o rest = h
  BY <1>1, <1>2, SplitAt DEF rest
<1>4. FlattenSeq(l) = h \o FlattenSeq(t)
  BY <1>1, FlattenHead
<1>5. FlattenSeq(t) \in Seq(S)
  BY FlattenType
<1>6. CASE rest = <<>>
  <2>1. a = h
    BY <1>3, <1>6, ConcatEmptySeq
  <2> QED BY <1>1, <1>2, <1>3, <1>4, <1>5, <1>6, <1>9, <2>1 DEF left
<1>7. CASE rest # <<>>
  <2>1. left = <<rest>> \o t
    BY <1>1, <1>7, <1>9
  <2>2. FlattenSeq(left) = rest \o FlattenSeq(t)
    BY <1>3, <2>1, FlattenFront
  <2>3. <<rest>> \in Seq(Seq(S))
    BY <1>3
  <2>4. left \in Seq(Seq(S))
    BY <2>1, <2>3, ConcatProperties
  <2>5. FlattenSeq(left) \in Seq(S)
    BY <2>4, FlattenType
  <2>6. (a \o rest) \o FlattenSeq(t) = a \o (rest \o FlattenSeq(t))
    BY ONLY <1>0, <1>3, <1>5
  <2> QED BY <1>1, <1>2, <1>3, <1>4, <2>2, <2>4, <2>5, <2>6 DEF left
<1> QED
  BY <1>6, <1>7
=============================================================================
