---------------------------- MODULE InductionLemmas ----------------------------
(***************************************************************************)
(* Facts of arithmetic and about library operators that the proofs of      *)
(* several components use.  Induction over the natural numbers is stated   *)
(* for sets of numbers, as a fact about their least elements.              *)
(***************************************************************************)
EXTENDS Integers, SequencesExt, Filtering, SequenceTheorems, FiniteSetTheorems, WellFoundedInduction, TLAPS

(* A set of natural numbers that is not empty has a least element.         *)
LEMMA LeastNumber ==
    ASSUME NEW T \in SUBSET Nat, T # {}
    PROVE  \E n \in T : \A m \in T : n <= m
<1> DEFINE R == OpToRel(<, Nat)
<1>1. IsWellFoundedOn(R, Nat)
  BY NatLessThanWellFounded
<1>2. \E n \in T : \A m \in T : ~(<<m, n>> \in R)
  <2> HIDE DEF R
  <2> QED
    BY <1>1, WFMin
<1>3. PICK n \in T : \A m \in T : ~(<<m, n>> \in R)
  BY <1>2
<1>4. ASSUME NEW m \in T PROVE n <= m
  <2>1. m \in Nat /\ n \in Nat
    OBVIOUS
  <2>2. ~(<<m, n>> \in R)
    BY <1>3
  <2>3. m < n => <<m, n>> \in R
    BY <2>1 DEF OpToRel
  <2>4. ~(m < n)
    <3> HIDE DEF R
    <3> QED
      BY <2>2, <2>3
  <2> QED
    BY <2>1, <2>4
<1> QED
  BY <1>4

(* Induction: a set that holds 0, and with a number its successor, holds   *)
(* all numbers.                                                            *)
LEMMA SetInduction ==
    ASSUME NEW T \in SUBSET Nat, 0 \in T, \A n \in T : n + 1 \in T
    PROVE  T = Nat
<1> DEFINE U == Nat \ T
<1> SUFFICES ASSUME U # {} PROVE FALSE
  OBVIOUS
<1>1. U \in SUBSET Nat
  OBVIOUS
<1>2. \E n \in U : \A m \in U : n <= m
  <2> HIDE DEF U
  <2> QED
    BY <1>1, LeastNumber
<1>3. PICK n \in U : \A m \in U : n <= m
  BY <1>2
<1>4. n # 0 /\ n - 1 \in Nat /\ (n - 1) + 1 = n
  BY <1>3
<1>5. n - 1 \in T
  BY <1>3, <1>4
<1> QED
  BY <1>4, <1>5

(* Where a sequence of bounds that starts below k and ends at k or above   *)
(* passes it: every position is in one of the batches the bounds cut off.  *)
LEMMA PassedOnce ==
    ASSUME NEW n \in Nat, NEW c \in [0..n -> Nat], NEW k \in Nat, NEW last \in 0..n,
           c[0] < k, k <= c[last]
    PROVE  \E t \in 1..n : c[t-1] < k /\ k <= c[t]
<1> DEFINE T == {t \in 0..n : k <= c[t]}
<1>1. T \in SUBSET Nat /\ T # {}
  OBVIOUS
<1>2. \E t \in T : \A u \in T : t <= u
  <2> HIDE DEF T
  <2> QED
    BY <1>1, LeastNumber
<1>3. PICK t \in T : \A u \in T : t <= u
  BY <1>2
<1>4. t # 0 /\ t - 1 \in 0..n /\ t \in 1..n
  BY <1>3
<1>5. t - 1 \notin T
  BY <1>3, <1>4
<1>6. c[t-1] \in Nat /\ ~(k <= c[t-1])
  BY <1>4, <1>5
<1> QED
  BY <1>3, <1>4, <1>6

(* Bounds that do not decrease from one position to the next do not        *)
(* decrease at all.                                                        *)
LEMMA Monotone ==
    ASSUME NEW n \in Nat, NEW c \in [0..n -> Nat], \A w \in 1..n : c[w-1] <= c[w]
    PROVE  \A v, w \in 0..n : v <= w => c[v] <= c[w]
<1> SUFFICES ASSUME NEW v \in 0..n PROVE \A w \in 0..n : v <= w => c[v] <= c[w]
  OBVIOUS
<1> DEFINE T == {w \in Nat : w <= n /\ v <= w /\ ~(c[v] <= c[w])}
<1>1. T = {}
  <2> SUFFICES ASSUME T # {} PROVE FALSE
    OBVIOUS
  <2>1. \E w \in T : \A u \in T : w <= u
    <3> HIDE DEF T
    <3>1. T \in SUBSET Nat
      BY DEF T
    <3> QED
      BY <3>1, LeastNumber
  <2>2. PICK w \in T : \A u \in T : w <= u
    BY <2>1
  <2>3. w # v /\ w \in 1..n /\ w - 1 \in 0..n /\ v <= w - 1 /\ w - 1 \in Nat /\ w - 1 <= n
    BY <2>2
  <2>4. c[v] <= c[w-1]
    BY <2>2, <2>3
  <2>5. c[w-1] <= c[w] /\ c[v] \in Nat /\ c[w-1] \in Nat /\ c[w] \in Nat /\ ~(c[v] <= c[w])
    BY <2>2, <2>3
  <2> QED
    BY <2>4, <2>5
<1>2. \A w \in 0..n : w \in Nat /\ w <= n
  OBVIOUS
<1> QED
  BY <1>1, <1>2

-----------------------------------------------------------------------------
(* Sequences.                                                              *)

(* The elements of s follow each other as R has it.                        *)
OrderedBy(s, R) == \A a, b \in DOMAIN s : a < b => <<s[a], s[b]>> \in R

(* Putting t after s.                                                      *)
LEMMA ConcatFacts ==
    ASSUME NEW A, NEW s \in Seq(A), NEW t \in Seq(A)
    PROVE  /\ s \o t \in Seq(A) /\ Range(s \o t) = Range(s) \cup Range(t)
           /\ \A R : /\ OrderedBy(s, R) /\ OrderedBy(t, R)
                     /\ \A x \in Range(s), y \in Range(t) : <<x, y>> \in R
                     => OrderedBy(s \o t, R)
<1>1. /\ s \o t \in Seq(A) /\ Len(s) \in Nat /\ Len(t) \in Nat
      /\ DOMAIN s = 1..Len(s) /\ DOMAIN t = 1..Len(t)
      /\ DOMAIN (s \o t) = 1..Len(s) + Len(t)
      /\ \A k \in 1..Len(s) + Len(t) : (s \o t)[k] = IF k <= Len(s) THEN s[k] ELSE t[k - Len(s)]
  BY ConcatProperties
<1>2. \A k \in 1..Len(s) + Len(t) :
          /\ k <= Len(s) => k \in DOMAIN s
          /\ ~(k <= Len(s)) => k - Len(s) \in DOMAIN t
  BY <1>1
<1>3. Range(s \o t) \subseteq Range(s) \cup Range(t)
  BY <1>1, <1>2 DEF Range
<1>4. Range(s) \subseteq Range(s \o t)
  BY <1>1 DEF Range
<1>5. ASSUME NEW k \in DOMAIN t PROVE t[k] \in Range(s \o t)
  <2>1. Len(s) + k \in 1..Len(s) + Len(t) /\ ~(Len(s) + k <= Len(s)) /\ (Len(s) + k) - Len(s) = k
    BY <1>1
  <2> QED
    BY <2>1, <1>1 DEF Range
<1>6. ASSUME NEW R, OrderedBy(s, R), OrderedBy(t, R),
             \A x \in Range(s), y \in Range(t) : <<x, y>> \in R
      PROVE  OrderedBy(s \o t, R)
  <2> SUFFICES ASSUME NEW a \in 1..Len(s) + Len(t), NEW b \in 1..Len(s) + Len(t), a < b
               PROVE  <<(s \o t)[a], (s \o t)[b]>> \in R
    BY <1>1 DEF OrderedBy
  <2>1. CASE b <= Len(s)
    <3>1. a \in DOMAIN s /\ b \in DOMAIN s /\ (s \o t)[a] = s[a] /\ (s \o t)[b] = s[b]
      BY <2>1, <1>1
    <3> QED
      BY <3>1, <1>6 DEF OrderedBy
  <2>2. CASE a <= Len(s) /\ ~(b <= Len(s))
    <3>1. s[a] \in Range(s) /\ t[b - Len(s)] \in Range(t)
      BY <2>2, <1>2 DEF Range
    <3> QED
      BY <3>1, <2>2, <1>1, <1>6
  <2>3. CASE ~(a <= Len(s)) /\ ~(b <= Len(s))
    <3>1. /\ a - Len(s) \in DOMAIN t /\ b - Len(s) \in DOMAIN t /\ a - Len(s) < b - Len(s)
          /\ (s \o t)[a] = t[a - Len(s)] /\ (s \o t)[b] = t[b - Len(s)]
      BY <2>3, <1>1, <1>2
    <3> QED
      BY <3>1, <1>6 DEF OrderedBy
  <2>4. a <= Len(s) \/ ~(a <= Len(s))
    OBVIOUS
  <2>5. ~(a <= Len(s)) => ~(b <= Len(s))
    BY <1>1
  <2> QED
    BY <2>1, <2>2, <2>3, <2>5
<1> QED
  BY <1>1, <1>3, <1>4, <1>5, <1>6 DEF Range

(* Putting one element after s.                                            *)
LEMMA AppendFacts ==
    ASSUME NEW A, NEW s \in Seq(A), NEW x \in A
    PROVE  Append(s, x) \in Seq(A) /\ Range(Append(s, x)) = Range(s) \cup {x}
<1>1. /\ Append(s, x) \in Seq(A) /\ Len(s) \in Nat /\ DOMAIN s = 1..Len(s)
      /\ DOMAIN Append(s, x) = 1..Len(s) + 1
      /\ \A k \in 1..Len(s) : Append(s, x)[k] = s[k]
      /\ Append(s, x)[Len(s) + 1] = x
  OBVIOUS
<1>2. /\ \A k \in 1..Len(s) + 1 : k \in 1..Len(s) \/ k = Len(s) + 1
      /\ \A k \in 1..Len(s) : k \in 1..Len(s) + 1
      /\ Len(s) + 1 \in 1..Len(s) + 1
  BY <1>1
<1> QED
  BY <1>1, <1>2 DEF Range

LEMMA OrderedAppend ==
    ASSUME NEW A, NEW s \in Seq(A), NEW x \in A, NEW R,
           OrderedBy(s, R), \A y \in Range(s) : <<y, x>> \in R
    PROVE  OrderedBy(Append(s, x), R)
<1>1. /\ Len(s) \in Nat /\ DOMAIN s = 1..Len(s)
      /\ DOMAIN Append(s, x) = 1..Len(s) + 1
      /\ \A k \in 1..Len(s) : Append(s, x)[k] = s[k]
      /\ Append(s, x)[Len(s) + 1] = x
  OBVIOUS
<1>2. SUFFICES ASSUME NEW a \in 1..Len(s) + 1, NEW b \in 1..Len(s) + 1, a < b
               PROVE  <<Append(s, x)[a], Append(s, x)[b]>> \in R
  BY <1>1 DEF OrderedBy
<1>3. a \in 1..Len(s) /\ (b \in 1..Len(s) \/ b = Len(s) + 1)
  BY <1>1, <1>2
<1>4. CASE b \in 1..Len(s)
  BY <1>1, <1>2, <1>3, <1>4 DEF OrderedBy
<1>5. CASE b = Len(s) + 1
  BY <1>1, <1>3, <1>5 DEF Range
<1> QED
  BY <1>3, <1>4, <1>5

(* The recursive function inside FlattenSeq.                               *)
LEMMA FlattenSteps ==
    ASSUME NEW ss, Len(ss) \in Nat \ {0}
    PROVE  \E F : /\ F = [i \in 1..Len(ss) |-> IF i = 1 THEN ss[i] ELSE F[i-1] \o ss[i]]
                  /\ FlattenSeq(ss) = F[Len(ss)]
<1> DEFINE Steps(f, n) == f = [i \in 1..n |-> IF i = 1 THEN ss[i] ELSE f[i-1] \o ss[i]]
           T == {n \in Nat : \E f : Steps(f, n)}
<1>1. 0 \in T
  <2> DEFINE f == [i \in 1..0 |-> <<>>]
  <2>1. Steps(f, 0)
    OBVIOUS
  <2> QED
    BY <2>1
<1>2. ASSUME NEW n \in T PROVE n + 1 \in T
  <2>1. PICK f : Steps(f, n)
    OBVIOUS
  <2> DEFINE g == [i \in 1..(n+1) |-> IF i = 1 THEN ss[i] ELSE f[i-1] \o ss[i]]
  <2>2. \A j \in 1..n : g[j] = f[j]
    <3>1. \A j \in 1..n : f[j] = IF j = 1 THEN ss[j] ELSE f[j-1] \o ss[j]
      BY <2>1, Zenon
    <3>2. \A j \in 1..n : j \in 1..(n+1)
      OBVIOUS
    <3> QED
      BY <3>1, <3>2, Zenon
  <2>3. \A i \in 1..(n+1) : i # 1 => i - 1 \in 1..n
    OBVIOUS
  <2>4. \A i \in 1..(n+1) : g[i] = IF i = 1 THEN ss[i] ELSE g[i-1] \o ss[i]
    BY <2>2, <2>3
  <2> HIDE DEF g
  <2>5. g = [i \in 1..(n+1) |-> g[i]]
    BY DEF g
  <2>6. Steps(g, n + 1)
    BY <2>4, <2>5
  <2>7. \E f1 : Steps(f1, n + 1)
    <3> HIDE DEF Steps
    <3> QED
      BY <2>6
  <2>8. n + 1 \in Nat
    OBVIOUS
  <2> HIDE DEF Steps
  <2> QED
    BY <2>7, <2>8
<1>3. T = Nat
  <2> HIDE DEF T
  <2>1. T \in SUBSET Nat
    BY DEF T
  <2> QED
    BY <1>1, <1>2, <2>1, SetInduction
<1>4. \E f : Steps(f, Len(ss))
  BY <1>3
<1> DEFINE F == CHOOSE f : Steps(f, Len(ss))
<1>5. Steps(F, Len(ss))
  BY <1>4
<1>6. FlattenSeq(ss) = F[Len(ss)]
  BY DEF FlattenSeq
<1> QED
  BY <1>5, <1>6

(* What FlattenSeq returns: a sequence of the elements of all its parts;   *)
(* it is in order if each part is, and each two of them are.               *)
LEMMA FlattenFacts ==
    ASSUME NEW A, NEW ss \in Seq(Seq(A))
    PROVE  /\ FlattenSeq(ss) \in Seq(A)
           /\ Range(FlattenSeq(ss)) = UNION {Range(ss[k]) : k \in DOMAIN ss}
           /\ \A R : /\ \A k \in DOMAIN ss : OrderedBy(ss[k], R)
                     /\ \A k, l \in DOMAIN ss : k < l =>
                           \A x \in Range(ss[k]), y \in Range(ss[l]) : <<x, y>> \in R
                     => OrderedBy(FlattenSeq(ss), R)
<1>0. Len(ss) \in Nat /\ DOMAIN ss = 1..Len(ss) /\ \A k \in 1..Len(ss) : ss[k] \in Seq(A)
  OBVIOUS
<1>1. CASE Len(ss) = 0
  <2>1. FlattenSeq(ss) = ss /\ ss = <<>>
    BY <1>0, <1>1 DEF FlattenSeq
  <2>2. DOMAIN ss = {} /\ <<>> \in Seq(A)
    BY <1>0, <1>1
  <2>3. Range(ss) = {} /\ UNION {Range(ss[k]) : k \in DOMAIN ss} = {}
    BY <2>2 DEF Range
  <2>4. \A R : OrderedBy(ss, R)
    BY <2>2 DEF OrderedBy
  <2> QED
    BY <2>1, <2>2, <2>3, <2>4
<1>2. CASE Len(ss) # 0
  <2>1. PICK F : /\ F = [i \in 1..Len(ss) |-> IF i = 1 THEN ss[i] ELSE F[i-1] \o ss[i]]
                 /\ FlattenSeq(ss) = F[Len(ss)]
    BY <1>0, <1>2, FlattenSteps
  <2>2. \A i \in 1..Len(ss) : F[i] = IF i = 1 THEN ss[i] ELSE F[i-1] \o ss[i]
    BY <2>1, Zenon
  <2> DEFINE Parts(i) == UNION {Range(ss[k]) : k \in 1..i}
             Good(i) == /\ F[i] \in Seq(A) /\ Range(F[i]) = Parts(i)
                        /\ \A R : /\ \A k \in DOMAIN ss : OrderedBy(ss[k], R)
                                  /\ \A k, l \in DOMAIN ss : k < l =>
                                        \A x \in Range(ss[k]), y \in Range(ss[l]) : <<x, y>> \in R
                                  => OrderedBy(F[i], R)
             T == {n \in Nat : n \in 1..Len(ss) => Good(n)}
  <2>3. 0 \in T
    BY <1>0
  <2>4. ASSUME NEW n \in T PROVE n + 1 \in T
    <3> SUFFICES ASSUME n + 1 \in 1..Len(ss) PROVE Good(n + 1)
      OBVIOUS
    <3>1. CASE n = 0
      <4>1. n + 1 = 1 /\ F[1] = ss[1] /\ 1 \in DOMAIN ss /\ ss[1] \in Seq(A)
        BY <1>0, <1>2, <2>2, <3>1
      <4>2. Parts(1) = Range(ss[1])
        <5>1. 1..1 = {1}
          OBVIOUS
        <5> QED
          BY <5>1
      <4> HIDE DEF Parts
      <4>3. Good(1)
        BY <4>1, <4>2
      <4> HIDE DEF Good
      <4> QED
        BY <4>1, <4>3
    <3>2. CASE n # 0
      <4>0. n \in 1..Len(ss) /\ n + 1 # 1 /\ (n + 1) - 1 = n
        BY <1>0, <3>2
      <4>1. Good(n)
        BY <4>0
      <4>2. F[n+1] = F[n] \o ss[n+1]
        BY <4>0, <2>2
      <4>3. ss[n+1] \in Seq(A) /\ F[n] \in Seq(A)
        BY <1>0, <4>1
      <4>4. F[n+1] \in Seq(A) /\ Range(F[n+1]) = Range(F[n]) \cup Range(ss[n+1])
        BY <4>2, <4>3, ConcatFacts
      <4>5. Parts(n + 1) = Parts(n) \cup Range(ss[n+1])
        <5>1. 1..(n+1) = 1..n \cup {n+1}
          BY <4>0
        <5> QED
          BY <5>1
      <4>6. ASSUME NEW R, \A k \in DOMAIN ss : OrderedBy(ss[k], R),
                   \A k, l \in DOMAIN ss : k < l =>
                       \A x \in Range(ss[k]), y \in Range(ss[l]) : <<x, y>> \in R
            PROVE  OrderedBy(F[n+1], R)
        <5>1. OrderedBy(F[n], R) /\ OrderedBy(ss[n+1], R)
          BY <4>1, <4>6, <1>0
        <5>2. ASSUME NEW x \in Range(F[n]), NEW y \in Range(ss[n+1]) PROVE <<x, y>> \in R
          <6>1. PICK k \in 1..n : x \in Range(ss[k])
            BY <4>1
          <6>2. k \in DOMAIN ss /\ n + 1 \in DOMAIN ss /\ k < n + 1
            BY <1>0, <6>1, <4>0
          <6> QED
            BY <6>1, <6>2, <4>6
        <5> QED
          BY <5>1, <5>2, <4>2, <4>3, ConcatFacts
      <4> HIDE DEF Parts
      <4>7. Range(F[n]) = Parts(n)
        BY <4>1
      <4> QED
        BY <4>4, <4>5, <4>6, <4>7
    <3> QED
      BY <3>1, <3>2
  <2>5. T = Nat
    <3> HIDE DEF T
    <3>1. T \in SUBSET Nat
      BY DEF T
    <3> QED
      BY <2>3, <2>4, <3>1, SetInduction
  <2>6. Good(Len(ss))
    <3>1. Len(ss) \in 1..Len(ss)
      BY <1>0, <1>2
    <3>2. Len(ss) \in T
      <4> HIDE DEF T
      <4> QED
        BY <1>0, <2>5
    <3> HIDE DEF Good
    <3> QED
      BY <3>1, <3>2
  <2> QED
    BY <1>0, <2>1, <2>6
<1> QED
  BY <1>1, <1>2

(* No element of s is there twice.                                         *)
Distinct(s) == \A a, b \in DOMAIN s : a # b => s[a] # s[b]
Apart(A) == {z \in A \X A : z[1] # z[2]}

LEMMA DistinctOrdered ==
    ASSUME NEW A, NEW s \in Seq(A)
    PROVE  Distinct(s) <=> OrderedBy(s, Apart(A))
<1>1. \A a \in DOMAIN s : a \in Nat /\ s[a] \in A
  BY ElementOfSeq
<1>2. \A a, b \in DOMAIN s : <<s[a], s[b]>> \in Apart(A) <=> s[a] # s[b]
  BY <1>1 DEF Apart
<1>3. \A a, b \in DOMAIN s : a # b <=> a < b \/ b < a
  BY <1>1
<1> QED
  BY <1>2, <1>3 DEF Distinct, OrderedBy

(* A list of distinct elements, one more of them, and lists of them that   *)
(* have none in common put after each other.                               *)
LEMMA DistinctAppend ==
    ASSUME NEW A, NEW s \in Seq(A), NEW x \in A, Distinct(s), x \notin Range(s)
    PROVE  Distinct(Append(s, x))
<1>1. /\ Len(s) \in Nat /\ DOMAIN s = 1..Len(s)
      /\ DOMAIN Append(s, x) = 1..Len(s) + 1
      /\ \A k \in 1..Len(s) : Append(s, x)[k] = s[k]
      /\ Append(s, x)[Len(s) + 1] = x
  OBVIOUS
<1>2. \A k \in 1..Len(s) + 1 : k \in 1..Len(s) \/ k = Len(s) + 1
  BY <1>1
<1>3. \A k \in 1..Len(s) : s[k] # x
  BY <1>1 DEF Range
<1> HIDE DEF Distinct
<1> SUFFICES ASSUME NEW a \in 1..Len(s) + 1, NEW b \in 1..Len(s) + 1, a # b
             PROVE  Append(s, x)[a] # Append(s, x)[b]
  BY <1>1 DEF Distinct
<1> QED
  BY <1>1, <1>2, <1>3 DEF Distinct

LEMMA DistinctFlatten ==
    ASSUME NEW A, NEW ss \in Seq(Seq(A)),
           \A k \in DOMAIN ss : Distinct(ss[k]),
           \A k, l \in DOMAIN ss : k < l => Range(ss[k]) \cap Range(ss[l]) = {}
    PROVE  Distinct(FlattenSeq(ss))
<1>1. \A k \in DOMAIN ss : ss[k] \in Seq(A)
  BY ElementOfSeq
<1>2. \A k \in DOMAIN ss : OrderedBy(ss[k], Apart(A))
  BY <1>1, DistinctOrdered
<1>3. \A k \in DOMAIN ss : Range(ss[k]) \subseteq A
  BY <1>1, ElementOfSeq DEF Range
<1>4. \A k, l \in DOMAIN ss : k < l =>
          \A x \in Range(ss[k]), y \in Range(ss[l]) : <<x, y>> \in Apart(A)
  BY <1>3 DEF Apart
<1>5. FlattenSeq(ss) \in Seq(A) /\ OrderedBy(FlattenSeq(ss), Apart(A))
  BY <1>2, <1>4, FlattenFacts
<1> QED
  BY <1>5, DistinctOrdered

(* The list of the elements of s that are in S.                            *)
LEMMA KeepFacts ==
    ASSUME NEW A, NEW s \in Seq(A), NEW S
    PROVE  /\ Keep(s, S) \in Seq(A)
           /\ Range(Keep(s, S)) = Range(s) \cap S
           /\ \A R : OrderedBy(s, R) => OrderedBy(Keep(s, S), R)
<1> DEFINE ss == [k \in DOMAIN s |-> IF s[k] \in S THEN <<s[k]>> ELSE <<>>]
<1>0. Len(s) \in Nat /\ DOMAIN s = 1..Len(s) /\ \A k \in 1..Len(s) : s[k] \in A
  OBVIOUS
<1>1. \A x \in A : /\ <<x>> \in Seq(A) /\ DOMAIN <<x>> = {1} /\ <<x>>[1] = x
  <2> SUFFICES ASSUME NEW x \in A
               PROVE  <<x>> \in Seq(A) /\ DOMAIN <<x>> = {1} /\ <<x>>[1] = x
    OBVIOUS
  <2>1. DOMAIN <<x>> = 1..1 /\ 1..1 = {1}
    OBVIOUS
  <2> QED
    BY <2>1
<1>2. <<>> \in Seq(A) /\ DOMAIN <<>> = {}
  OBVIOUS
<1>3. ss \in Seq(Seq(A)) /\ DOMAIN ss = DOMAIN s
  <2>1. \A k \in 1..Len(s) : (IF s[k] \in S THEN <<s[k]>> ELSE <<>>) \in Seq(A)
    BY <1>0, <1>1, <1>2
  <2> QED
    BY <1>0, <2>1
<1>4. \A k \in DOMAIN ss : ss[k] = IF s[k] \in S THEN <<s[k]>> ELSE <<>>
  OBVIOUS
<1>5. \A k \in DOMAIN s : Range(<<s[k]>>) = {s[k]} /\ Range(<<>>) = {}
  BY <1>0, <1>1, <1>2 DEF Range
<1>6. \A k \in DOMAIN ss : Range(ss[k]) = IF s[k] \in S THEN {s[k]} ELSE {}
  BY <1>3, <1>4, <1>5
<1>7. Keep(s, S) = FlattenSeq(ss)
  BY DEF Keep
<1> HIDE DEF ss
<1>8. /\ FlattenSeq(ss) \in Seq(A)
      /\ Range(FlattenSeq(ss)) = UNION {Range(ss[k]) : k \in DOMAIN ss}
      /\ \A R : /\ \A k \in DOMAIN ss : OrderedBy(ss[k], R)
                /\ \A k, l \in DOMAIN ss : k < l =>
                      \A x \in Range(ss[k]), y \in Range(ss[l]) : <<x, y>> \in R
                => OrderedBy(FlattenSeq(ss), R)
  BY <1>3, FlattenFacts
<1>9. UNION {Range(ss[k]) : k \in DOMAIN ss} = Range(s) \cap S
  <2>1. ASSUME NEW x \in Range(s), x \in S PROVE \E k \in DOMAIN ss : x \in Range(ss[k])
    <3>1. PICK k \in DOMAIN s : x = s[k]
      BY DEF Range
    <3> QED
      BY <1>3, <1>6, <2>1, <3>1
  <2>2. ASSUME NEW k \in DOMAIN ss, NEW x \in Range(ss[k]) PROVE x \in Range(s) /\ x \in S
    BY <1>3, <1>6 DEF Range
  <2> QED
    BY <2>1, <2>2
<1>10. ASSUME NEW R, OrderedBy(s, R) PROVE OrderedBy(FlattenSeq(ss), R)
  <2>1. \A k \in DOMAIN ss : OrderedBy(ss[k], R)
    <3> SUFFICES ASSUME NEW k \in DOMAIN ss PROVE OrderedBy(ss[k], R)
      OBVIOUS
    <3>1. DOMAIN ss[k] \subseteq {1}
      BY <1>0, <1>1, <1>2, <1>3, <1>4
    <3>2. \A a, b \in {1} : ~(a < b)
      OBVIOUS
    <3> QED
      BY <3>1, <3>2 DEF OrderedBy
  <2>2. ASSUME NEW k \in DOMAIN ss, NEW l \in DOMAIN ss, k < l,
               NEW x \in Range(ss[k]), NEW y \in Range(ss[l])
        PROVE  <<x, y>> \in R
    <3>1. x = s[k] /\ y = s[l]
      BY <1>3, <1>6
    <3> QED
      BY <1>3, <1>10, <2>2, <3>1 DEF OrderedBy
  <2> QED
    BY <1>8, <2>1, <2>2
<1> QED
  BY <1>7, <1>8, <1>9, <1>10

(* An increasing function reflects the order of its values.                *)
LEMMA IncreasingReflects ==
    ASSUME NEW n \in Nat, NEW t \in [1..n -> Nat],
           \A a, b \in 1..n : a < b => t[a] < t[b],
           NEW j \in 1..n, NEW k \in 1..n, t[j] < t[k]
    PROVE  j < k
<1>1. k < j => t[k] < t[j]
  OBVIOUS
<1>2. t[j] \in Nat /\ t[k] \in Nat /\ j \in Nat /\ k \in Nat
  OBVIOUS
<1>3. k # j
  BY <1>2
<1> QED
  BY <1>1, <1>2, <1>3

(* s, of length m, and t, of length n, are increasing and have the same    *)
(* elements.                                                               *)
SameIncreasing(m, n, s, t) ==
    /\ \A a, b \in 1..m : a < b => s[a] < s[b]
    /\ \A a, b \in 1..n : a < b => t[a] < t[b]
    /\ \A k \in 1..m : \E j \in 1..n : t[j] = s[k]
    /\ \A k \in 1..n : \E j \in 1..m : s[j] = t[k]

(* Two increasing sequences of numbers with the same elements are the same.*)
LEMMA IncreasingAgree ==
    ASSUME NEW m \in Nat, NEW n \in Nat, NEW s \in [1..m -> Nat], NEW t \in [1..n -> Nat],
           SameIncreasing(m, n, s, t)
    PROVE  m = n /\ \A k \in 1..m : s[k] = t[k]
<1> USE DEF SameIncreasing
<1> DEFINE T == {k \in Nat : k \in 1..m /\ k \in 1..n /\ s[k] # t[k]}
<1>1. T = {}
  <2> SUFFICES ASSUME T # {} PROVE FALSE
    OBVIOUS
  <2>1. \E k \in T : \A j \in T : k <= j
    <3> HIDE DEF T
    <3>1. T \in SUBSET Nat
      BY DEF T
    <3> QED
      BY <3>1, LeastNumber
  <2>2. PICK k \in T : \A j \in T : k <= j
    BY <2>1
  <2>3. /\ k \in 1..m /\ k \in 1..n /\ s[k] # t[k] /\ s[k] \in Nat /\ t[k] \in Nat
    BY <2>2
  <2>4. ASSUME NEW j \in 1..m, j < k PROVE j \in 1..n /\ s[j] = t[j]
    <3>1. j \in Nat /\ j \in 1..n /\ ~(k <= j)
      BY <2>3, <2>4
    <3> QED
      BY <3>1, <2>2, <2>4
  <2>5. CASE s[k] < t[k]
    <3>1. PICK j \in 1..n : t[j] = s[k]
      BY <2>3
    <3>2. j < k
      <4>1. t[j] < t[k]
        BY <2>5, <3>1
      <4> QED
        BY <4>1, <2>3, <3>1, IncreasingReflects
    <3>3. j \in 1..m
      BY <2>3, <3>2
    <3>4. s[j] = t[j] /\ s[j] < s[k]
      BY <2>3, <2>4, <3>2, <3>3
    <3> QED
      BY <3>1, <3>4, <2>3
  <2>6. CASE t[k] < s[k]
    <3>1. PICK j \in 1..m : s[j] = t[k]
      BY <2>3
    <3>2. j < k
      <4>1. s[j] < s[k]
        BY <2>6, <3>1
      <4> QED
        BY <4>1, <2>3, <3>1, IncreasingReflects
    <3>3. j \in 1..n /\ s[j] = t[j] /\ t[j] < t[k]
      BY <2>3, <2>4, <3>2
    <3> QED
      BY <3>1, <3>3, <2>3
  <2> QED
    BY <2>3, <2>5, <2>6
<1>2. \A k \in 1..m : k \in 1..n => s[k] = t[k]
  <2>1. \A k \in 1..m : k \in Nat
    OBVIOUS
  <2> QED
    BY <1>1, <2>1
<1>3. ~(m < n)
  <2> SUFFICES ASSUME m < n PROVE FALSE
    OBVIOUS
  <2>1. m + 1 \in 1..n
    OBVIOUS
  <2>2. PICK j \in 1..m : s[j] = t[m + 1]
    BY <2>1
  <2>3. j \in 1..n /\ t[j] < t[m + 1] /\ s[j] = t[j] /\ t[j] \in Nat
    BY <1>2, <2>1, <2>2
  <2> QED
    BY <2>2, <2>3
<1>4. ~(n < m)
  <2> SUFFICES ASSUME n < m PROVE FALSE
    OBVIOUS
  <2>1. n + 1 \in 1..m
    OBVIOUS
  <2>2. PICK j \in 1..n : t[j] = s[n + 1]
    BY <2>1
  <2>3. j \in 1..m /\ s[j] < s[n + 1] /\ s[j] = t[j] /\ s[j] \in Nat
    BY <1>2, <2>1, <2>2
  <2> QED
    BY <2>2, <2>3
<1> QED
  BY <1>2, <1>3, <1>4

-----------------------------------------------------------------------------
(* Sums.                                                                   *)

Chosen(s) == CHOOSE x \in s : TRUE
SumStep(c, f, s) == IF s = {} THEN 0 ELSE c[Chosen(s)] + f[s \ {Chosen(s)}]

(* G sums up c over each of the subsets of 1..n.                           *)
Sums(c, n, G) == \A s \in SUBSET (1..n) : G[s] = SumStep(c, G, s)
Additive(c, n, G) ==
    \A s \in SUBSET (1..n) : G[s] \in Nat /\ \A x \in s : G[s] = c[x] + G[s \ {x}]

(* The subsets of 1..n lose one element when their chosen one is removed.  *)
LEMMA SmallerSubset ==
    ASSUME NEW n \in Nat, NEW s \in SUBSET (1..n)
    PROVE  /\ IsFiniteSet(s) /\ Cardinality(s) \in Nat /\ (Cardinality(s) = 0 <=> s = {})
           /\ s # {} => Chosen(s) \in s
           /\ \A x \in s : s \ {x} \in SUBSET (1..n) /\ Cardinality(s \ {x}) = Cardinality(s) - 1
<1>1. IsFiniteSet(1..n)
  BY FS_Interval
<1>2. IsFiniteSet(s)
  BY <1>1, FS_Subset
<1>3. Cardinality(s) \in Nat /\ (Cardinality(s) = 0 <=> s = {})
  BY <1>2, FS_CardinalityType, FS_EmptySet
<1>4. \A x \in s : Cardinality(s \ {x}) = Cardinality(s) - 1
  BY <1>2, FS_RemoveElement
<1> QED
  BY <1>2, <1>3, <1>4 DEF Chosen

(* The recursive function inside SumFunction.                              *)
LEMMA SumSteps ==
    ASSUME NEW n \in Nat, NEW c \in [1..n -> Nat]
    PROVE  \E G : Sums(c, n, G) /\ SumFunction(c) = G[1..n]
<1> DEFINE D(k) == {s \in SUBSET (1..n) : Cardinality(s) <= k}
           Steps(f, k) == f = [s \in D(k) |-> SumStep(c, f, s)]
           T == {k \in Nat : \E f : Steps(f, k)}
<1>0. \A k \in Nat : \A s \in D(k + 1) : s # {} => s \ {Chosen(s)} \in D(k)
  <2> SUFFICES ASSUME NEW k \in Nat, NEW s \in D(k + 1), s # {}
               PROVE  s \ {Chosen(s)} \in D(k)
    OBVIOUS
  <2>1. /\ s \in SUBSET (1..n) /\ Cardinality(s) <= k + 1 /\ Cardinality(s) \in Nat
        /\ s \ {Chosen(s)} \in SUBSET (1..n)
        /\ Cardinality(s \ {Chosen(s)}) = Cardinality(s) - 1
    BY SmallerSubset
  <2> QED
    BY <2>1
<1>1. 0 \in T
  <2> DEFINE f == [s \in D(0) |-> 0]
  <2>1. \A s \in D(0) : s = {}
    <3> SUFFICES ASSUME NEW s \in D(0) PROVE s = {}
      OBVIOUS
    <3>1. s \in SUBSET (1..n) /\ Cardinality(s) <= 0 /\ Cardinality(s) \in Nat
      BY SmallerSubset
    <3>2. Cardinality(s) = 0
      BY <3>1
    <3> QED
      BY <3>1, <3>2, SmallerSubset
  <2>2. Steps(f, 0)
    <3> HIDE DEF D
    <3> QED
      BY <2>1 DEF SumStep
  <2>3. \E f1 : Steps(f1, 0)
    <3> HIDE DEF Steps
    <3> QED
      BY <2>2
  <2> QED
    BY <2>3
<1>2. ASSUME NEW k \in T PROVE k + 1 \in T
  <2>1. PICK f : Steps(f, k)
    OBVIOUS
  <2> DEFINE g == [s \in D(k + 1) |-> SumStep(c, f, s)]
  <2>2. \A s \in D(k) : s \in D(k + 1)
    <3> SUFFICES ASSUME NEW s \in D(k) PROVE s \in D(k + 1)
      OBVIOUS
    <3>1. Cardinality(s) \in Nat
      BY SmallerSubset
    <3> QED
      BY <3>1
  <2> HIDE DEF D
  <2>3. \A s \in D(k) : g[s] = f[s]
    <3>1. \A s \in D(k) : f[s] = SumStep(c, f, s)
      BY <2>1, Zenon
    <3> QED
      BY <2>2, <3>1, Zenon
  <2>4. \A s \in D(k + 1) : g[s] = SumStep(c, g, s)
    BY <1>0, <2>3 DEF SumStep
  <2> HIDE DEF g
  <2>5. g = [s \in D(k + 1) |-> g[s]]
    BY DEF g
  <2>6. Steps(g, k + 1)
    BY <2>4, <2>5
  <2>7. \E f1 : Steps(f1, k + 1)
    <3> HIDE DEF Steps
    <3> QED
      BY <2>6
  <2>8. k + 1 \in Nat
    OBVIOUS
  <2> HIDE DEF Steps
  <2> QED
    BY <2>7, <2>8
<1>3. T = Nat
  <2> HIDE DEF T
  <2>1. T \in SUBSET Nat
    BY DEF T
  <2> QED
    BY <1>1, <1>2, <2>1, SetInduction
<1>4. D(n) = SUBSET (1..n)
  <2> SUFFICES ASSUME NEW s \in SUBSET (1..n) PROVE Cardinality(s) <= n
    OBVIOUS
  <2>1. IsFiniteSet(1..n) /\ Cardinality(1..n) = n
    <3>1. 1 \in Int /\ n \in Int /\ (IF 1 > n THEN 0 ELSE n - 1 + 1) = n
      OBVIOUS
    <3> QED
      BY <3>1, FS_Interval
  <2>2. Cardinality(s) <= Cardinality(1..n)
    BY <2>1, FS_Subset
  <2> QED
    BY <2>1, <2>2
<1> DEFINE Whole(f) == f = [s \in SUBSET (1..n) |-> SumStep(c, f, s)]
<1>5. \E f : Whole(f)
  <2>1. \E f : Steps(f, n)
    <3> HIDE DEF Steps
    <3> QED
      BY <1>3
  <2> HIDE DEF D
  <2> QED
    BY <2>1, <1>4
<1> DEFINE G == CHOOSE f : Whole(f)
<1>6. Whole(G)
  BY <1>5
<1>7. SumFunction(c) = G[1..n]
  BY DEF SumFunction, SumFunctionOnSet, FoldFunctionOnSet, MapThenFoldSet, SumStep, Chosen
<1>8. \A s \in SUBSET (1..n) : G[s] = SumStep(c, G, s)
  <2> HIDE DEF G
  <2> QED
    BY <1>6, Zenon
<1> QED
  BY <1>7, <1>8 DEF Sums

(* The order in which the elements are summed up does not matter.          *)
LEMMA SumOrder ==
    ASSUME NEW n \in Nat, NEW c \in [1..n -> Nat], NEW G, Sums(c, n, G)
    PROVE  Additive(c, n, G)
<1>1. \A s \in SUBSET (1..n) : G[s] = SumStep(c, G, s)
  BY DEF Sums
<1>e. G[{}] = 0
  <2>1. {} \in SUBSET (1..n)
    OBVIOUS
  <2>2. G[{}] = SumStep(c, G, {})
    BY <1>1, <2>1, Zenon
  <2> QED
    BY <2>2 DEF SumStep
<1>s. \A s \in SUBSET (1..n) : Cardinality(s) \in Nat /\ (Cardinality(s) = 0 <=> s = {})
  BY SmallerSubset
<1> DEFINE Good(s) == G[s] \in Nat /\ \A x \in s : G[s] = c[x] + G[s \ {x}]
           T == {k \in Nat : \A s \in SUBSET (1..n) : Cardinality(s) <= k => Good(s)}
<1>2. 0 \in T
  <2> SUFFICES ASSUME NEW s \in SUBSET (1..n), Cardinality(s) <= 0 PROVE Good(s)
    OBVIOUS
  <2>1. Cardinality(s) = 0
    BY <1>s
  <2>2. s = {}
    BY <1>s, <2>1
  <2> QED
    BY <1>e, <2>2
<1>3. ASSUME NEW k \in T PROVE k + 1 \in T
  <2>1. ASSUME NEW s \in SUBSET (1..n), Cardinality(s) <= k + 1, s # {} PROVE Good(s)
    <3>a. \A u \in SUBSET (1..n) : Cardinality(u) <= k => Good(u)
      OBVIOUS
    <3> DEFINE y == Chosen(s)
    <3>0. y \in s /\ Cardinality(s) \in Nat
      BY <2>1, SmallerSubset
    <3>1. \A x \in s : s \ {x} \in SUBSET (1..n) /\ Cardinality(s \ {x}) <= k
      <4> SUFFICES ASSUME NEW x \in s
                   PROVE  s \ {x} \in SUBSET (1..n) /\ Cardinality(s \ {x}) <= k
        OBVIOUS
      <4>1. s \ {x} \in SUBSET (1..n) /\ Cardinality(s \ {x}) = Cardinality(s) - 1
        BY SmallerSubset
      <4> QED
        BY <2>1, <3>0, <4>1
    <3>2. \A x \in s : Good(s \ {x})
      BY <3>1
    <3>3. \A x \in s : c[x] \in Nat
      OBVIOUS
    <3> HIDE DEF y
    <3>4. G[s] = c[y] + G[s \ {y}]
      BY <1>1, <2>1 DEF SumStep, y
    <3>5. ASSUME NEW x \in s PROVE G[s] = c[x] + G[s \ {x}]
      <4>1. CASE x = y
        BY <3>4, <4>1
      <4>2. CASE x # y
        <5> DEFINE r == (s \ {x}) \ {y}
        <5>1. (s \ {y}) \ {x} = r /\ x \in s \ {y} /\ y \in s \ {x}
          BY <3>0, <4>2
        <5>2. G[s \ {y}] = c[x] + G[r] /\ G[s \ {x}] = c[y] + G[r]
          <6>1. Good(s \ {x}) /\ Good(s \ {y})
            BY <3>0, <3>2
          <6> QED
            BY <5>1, <6>1
        <5>3. G[r] \in Nat
          <6>1. s \ {x} \in SUBSET (1..n) /\ Cardinality(s \ {x}) <= k
            BY <3>1
          <6>2. r \in SUBSET (1..n) /\ Cardinality(r) = Cardinality(s \ {x}) - 1
            BY <5>1, <6>1, SmallerSubset
          <6>3. Cardinality(s \ {x}) \in Nat /\ Cardinality(r) \in Nat
            BY <1>s, <6>1, <6>2
          <6>4. Cardinality(r) <= k
            BY <6>1, <6>2, <6>3
          <6> QED
            BY <6>2, <6>4
        <5> HIDE DEF r
        <5>4. c[x] \in Nat /\ c[y] \in Nat
          BY <3>0, <3>3
        <5> QED
          BY <3>4, <5>2, <5>3, <5>4
      <4> QED
        BY <4>1, <4>2
    <3>6. G[s] \in Nat
      <4>1. c[y] \in Nat /\ G[s \ {y}] \in Nat
        BY <3>0, <3>2, <3>3
      <4> QED
        BY <3>4, <4>1
    <3> QED
      BY <3>5, <3>6
  <2>2. Good({})
    BY <1>e
  <2>3. k + 1 \in Nat
    OBVIOUS
  <2> HIDE DEF Good
  <2> QED
    BY <2>1, <2>2, <2>3
<1>4. T = Nat
  <2> HIDE DEF T
  <2>1. T \in SUBSET Nat
    BY DEF T
  <2> QED
    BY <1>2, <1>3, <2>1, SetInduction
<1> SUFFICES ASSUME NEW s \in SUBSET (1..n) PROVE Good(s)
  BY DEF Additive
<1>5. Cardinality(s) \in Nat
  BY SmallerSubset
<1>6. Cardinality(s) \in T /\ Cardinality(s) <= Cardinality(s)
  <2> HIDE DEF T
  <2> QED
    BY <1>4, <1>5
<1> HIDE DEF Good
<1> QED
  BY <1>6

(* Amounts that do not exceed the room between consecutive bounds, and add *)
(* up to the last bound, fill all the room.                                *)
LEMMA SumBounded ==
    ASSUME NEW n \in Nat, NEW c \in [1..n -> Nat], NEW d \in [0..n -> Nat], d[0] = 0,
           \A w \in 1..n : d[w-1] + c[w] <= d[w],
           SumFunction(c) = d[n]
    PROVE  \A w \in 1..n : d[w-1] + c[w] = d[w]
<1>1. PICK G : Sums(c, n, G) /\ SumFunction(c) = G[1..n]
  BY SumSteps
<1>2. Additive(c, n, G)
  BY <1>1, SumOrder
<1>3. G[{}] = 0
  BY <1>1 DEF Sums, SumStep
<1> DEFINE Full(m) == \A w \in 1..m : d[w-1] + c[w] = d[w]
           Good(m) == G[1..m] <= d[m] /\ (G[1..m] = d[m] => Full(m))
           T == {m \in Nat : m <= n => Good(m)}
<1>4. 0 \in T
  <2>1. 1..0 = {}
    OBVIOUS
  <2> QED
    BY <1>3, <2>1
<1>5. ASSUME NEW m \in T PROVE m + 1 \in T
  <2>1. ASSUME m + 1 <= n PROVE Good(m + 1)
    <3>1. m \in Nat /\ m <= n /\ m + 1 \in 1..n /\ m \in 0..n /\ m + 1 \in 0..n /\ (m + 1) - 1 = m
      BY <2>1
    <3>2. Good(m)
      BY <3>1
    <3>3. G[1..(m+1)] = c[m+1] + G[1..m]
      <4>0. \A x \in 1..(m+1) : x # m + 1 => x \in 1..m
        BY <3>1
      <4>3. \A x \in 1..m : x \in 1..(m+1) /\ x # m + 1
        BY <3>1
      <4>1. 1..(m+1) \in SUBSET (1..n) /\ m + 1 \in 1..(m+1)
        BY <3>1
      <4>2. (1..(m+1)) \ {m+1} = 1..m
        BY <4>0, <4>3
      <4> QED
        BY <1>2, <4>1, <4>2 DEF Additive
    <3>4. G[1..m] \in Nat
      <4>1. 1..m \in SUBSET (1..n)
        BY <3>1
      <4> QED
        BY <1>2, <4>1 DEF Additive
    <3>5. c[m+1] \in Nat /\ d[m] \in Nat /\ d[m+1] \in Nat /\ d[m] + c[m+1] <= d[m+1]
      BY <3>1
    <3>6. G[1..(m+1)] <= d[m+1]
      BY <3>2, <3>3, <3>4, <3>5
    <3>7. ASSUME G[1..(m+1)] = d[m+1] PROVE Full(m + 1)
      <4>1. d[m] + c[m+1] = d[m+1] /\ G[1..m] = d[m]
        BY <3>2, <3>3, <3>4, <3>5, <3>7
      <4>2. Full(m)
        BY <3>2, <4>1
      <4>3. \A w \in 1..(m+1) : w \in 1..m \/ w = m + 1
        BY <3>1
      <4> QED
        BY <3>1, <4>1, <4>2, <4>3
    <3> HIDE DEF Full
    <3> QED
      BY <3>6, <3>7
  <2>2. m + 1 \in Nat
    OBVIOUS
  <2> HIDE DEF Good
  <2> QED
    BY <2>1, <2>2
<1>6. T = Nat
  <2> HIDE DEF T
  <2>1. T \in SUBSET Nat
    BY DEF T
  <2> QED
    BY <1>4, <1>5, <2>1, SetInduction
<1>7. Good(n)
  <2>1. n \in T /\ n <= n
    <3> HIDE DEF T
    <3> QED
      BY <1>6
  <2> HIDE DEF Good
  <2> QED
    BY <2>1
<1> QED
  BY <1>1, <1>7
-----------------------------------------------------------------------------
(* Sequences put together from parts, one part at a time.                  *)

LEMMA FlattenAppend ==
    ASSUME NEW A, NEW ss \in Seq(Seq(A)), NEW p \in Seq(A)
    PROVE  /\ FlattenSeq(ss) \in Seq(A)
           /\ FlattenSeq(Append(ss, p)) = FlattenSeq(ss) \o p
<1> DEFINE n == Len(ss)
           tt == Append(ss, p)
<1>1. /\ n \in Nat /\ Len(tt) = n + 1 /\ tt[n+1] = p
      /\ \A k \in 1..n : tt[k] = ss[k] /\ tt[k] \in Seq(A)
  OBVIOUS
<1> HIDE DEF n, tt
<1>2. FlattenSeq(ss) \in Seq(A)
  BY FlattenFacts
<1>3. PICK F : /\ F = [i \in 1..(n+1) |-> IF i = 1 THEN tt[i] ELSE F[i-1] \o tt[i]]
               /\ FlattenSeq(tt) = F[n + 1]
  <2>1. Len(tt) \in Nat \ {0}
    BY <1>1
  <2> QED
    BY <1>1, <2>1, FlattenSteps
<1>4. CASE n = 0
  <2>1. ss = <<>> /\ FlattenSeq(ss) = <<>>
    BY <1>4 DEF n, FlattenSeq
  <2>2. F[1] = p
    BY <1>1, <1>3, <1>4
  <2>3. <<>> \o p = p
    OBVIOUS
  <2> QED
    BY <1>2, <1>3, <1>4, <2>1, <2>2, <2>3 DEF tt
<1>5. CASE n # 0
  <2>1. PICK G : /\ G = [i \in 1..n |-> IF i = 1 THEN ss[i] ELSE G[i-1] \o ss[i]]
                 /\ FlattenSeq(ss) = G[n]
    BY <1>1, <1>5, FlattenSteps DEF n
  <2> DEFINE T == {m \in Nat : m \in 1..n => F[m] = G[m]}
  <2>2. ASSUME NEW m \in T PROVE m + 1 \in T
    <3> SUFFICES ASSUME m + 1 \in 1..n PROVE F[m + 1] = G[m + 1]
      OBVIOUS
    <3>0. m \in Nat /\ (m \in 1..n => F[m] = G[m])
      OBVIOUS
    <3> HIDE DEF T
    <3>1. F[m + 1] = IF m + 1 = 1 THEN tt[m + 1] ELSE F[(m + 1) - 1] \o tt[m + 1]
      <4>1. m + 1 \in 1..(n+1)
        BY <1>1
      <4> QED
        BY <1>3, <4>1
    <3>2. G[m + 1] = IF m + 1 = 1 THEN ss[m + 1] ELSE G[(m + 1) - 1] \o ss[m + 1]
      BY <2>1
    <3>3. (m + 1) - 1 = m /\ (m + 1 # 1 => m \in 1..n) /\ tt[m+1] = ss[m+1]
      BY <1>1, <3>0
    <3> QED
      BY <3>0, <3>1, <3>2, <3>3
  <2>3. T = Nat
    <3>1. T \in SUBSET Nat /\ 0 \in T
      OBVIOUS
    <3> HIDE DEF T
    <3> QED
      BY <2>2, <3>1, SetInduction
  <2>4. F[n] = G[n]
    <3>1. n \in 1..n
      BY <1>1, <1>5
    <3>2. n \in T
      <4> HIDE DEF T
      <4> QED
        BY <1>1, <2>3
    <3> QED
      BY <3>1, <3>2
  <2>5. F[n + 1] = F[n] \o tt[n + 1]
    <3>1. n + 1 # 1 /\ (n + 1) - 1 = n /\ n + 1 \in 1..(n+1)
      BY <1>1, <1>5
    <3> QED
      BY <1>3, <3>1
  <2> QED
    BY <1>1, <1>2, <1>3, <2>1, <2>4, <2>5 DEF tt
<1> QED
  BY <1>4, <1>5

(* The same for parts given by a function of the position.                 *)
LEMMA PartsAppended ==
    ASSUME NEW A, NEW n \in Nat, NEW P \in [1..n -> Seq(A)], NEW Q \in [1..(n+1) -> Seq(A)],
           \A k \in 1..n : P[k] = Q[k]
    PROVE  FlattenSeq(P) \in Seq(A) /\ FlattenSeq(Q) = FlattenSeq(P) \o Q[n+1]
<1>1. P \in Seq(Seq(A)) /\ Q \in Seq(Seq(A)) /\ Q[n+1] \in Seq(A) /\ Len(P) = n /\ Len(Q) = n + 1
  OBVIOUS
<1>2. Q = Append(P, Q[n+1])
  <2>1. Append(P, Q[n+1]) \in Seq(Seq(A)) /\ Len(Append(P, Q[n+1])) = n + 1
    BY <1>1
  <2>2. \A k \in 1..(n+1) : Append(P, Q[n+1])[k] = Q[k]
    BY <1>1
  <2> QED
    BY <1>1, <2>1, <2>2
<1> QED
  BY <1>1, <1>2, FlattenAppend

LEMMA KeepEmpty == ASSUME NEW S PROVE Keep(<<>>, S) = <<>>
<1>1. FlattenSeq(<<>>) = <<>>
  BY DEF FlattenSeq
<1>2. [k \in DOMAIN <<>> |-> IF <<>>[k] \in S THEN <<(<<>>[k])>> ELSE <<>>] = <<>>
  OBVIOUS
<1> QED
  BY <1>1, <1>2 DEF Keep

LEMMA KeepAppend ==
    ASSUME NEW A, NEW s \in Seq(A), NEW x \in A, NEW S
    PROVE  Keep(Append(s, x), S) = Keep(s, S) \o (IF x \in S THEN <<x>> ELSE <<>>)
<1> DEFINE n == Len(s)
           t == Append(s, x)
           P == [k \in 1..n |-> IF s[k] \in S THEN <<s[k]>> ELSE <<>>]
           Q == [k \in 1..(n+1) |-> IF t[k] \in S THEN <<t[k]>> ELSE <<>>]
<1>1. /\ n \in Nat /\ DOMAIN s = 1..n /\ DOMAIN t = 1..(n+1) /\ t[n+1] = x
      /\ \A k \in 1..n : t[k] = s[k]
      /\ \A k \in 1..(n+1) : t[k] \in A
  OBVIOUS
<1>3. /\ \A k \in 1..n : P[k] = Q[k]
      /\ P \in [1..n -> Seq(A)] /\ Q \in [1..(n+1) -> Seq(A)]
      /\ Q[n+1] = IF x \in S THEN <<x>> ELSE <<>>
  <2> HIDE DEF n, t
  <2>1. \A y \in A : <<y>> \in Seq(A)
    OBVIOUS
  <2>2. <<>> \in Seq(A)
    OBVIOUS
  <2>3. \A k \in 1..(n+1) : Q[k] \in Seq(A)
    BY <1>1, <2>1, <2>2
  <2>4. \A k \in 1..n : P[k] = Q[k] /\ P[k] \in Seq(A)
    BY <1>1, <2>3
  <2>5. n + 1 \in 1..(n+1) /\ \A k \in 1..n : k \in 1..(n+1)
    BY <1>1
  <2> QED
    BY <1>1, <2>3, <2>4, <2>5
<1>4. Keep(s, S) = FlattenSeq(P) /\ Keep(t, S) = FlattenSeq(Q)
  BY <1>1 DEF Keep
<1> HIDE DEF P, Q, n
<1>5. FlattenSeq(Q) = FlattenSeq(P) \o Q[n+1]
  BY <1>1, <1>3, PartsAppended
<1> QED
  BY <1>3, <1>4, <1>5

-----------------------------------------------------------------------------
(* How often an element occurs in a sequence.                              *)

Occurrences(s, x) == Cardinality({k \in DOMAIN s : s[k] = x})

LEMMA OccurrencesEmpty == ASSUME NEW x PROVE Occurrences(<<>>, x) = 0
<1>1. {k \in DOMAIN <<>> : <<>>[k] = x} = {}
  OBVIOUS
<1> QED
  BY <1>1, FS_EmptySet DEF Occurrences

LEMMA OccurrencesAppend ==
    ASSUME NEW A, NEW s \in Seq(A), NEW y \in A, NEW x
    PROVE  /\ Occurrences(s, x) \in Nat
           /\ Occurrences(Append(s, y), x) = Occurrences(s, x) + (IF x = y THEN 1 ELSE 0)
<1> DEFINE n == Len(s)
           t == Append(s, y)
           O(u) == {k \in DOMAIN u : u[k] = x}
<1>1. /\ n \in Nat /\ DOMAIN s = 1..n /\ DOMAIN t = 1..(n+1) /\ t[n+1] = y
      /\ \A k \in 1..n : t[k] = s[k]
  OBVIOUS
<1> HIDE DEF n, t
<1>2. O(s) \subseteq 1..n /\ IsFiniteSet(O(s)) /\ n + 1 \notin O(s) /\ Cardinality(O(s)) \in Nat
  <2>1. O(s) \subseteq 1..n /\ n + 1 \notin O(s)
    BY <1>1
  <2>2. IsFiniteSet(1..n)
    BY <1>1, FS_Interval
  <2> HIDE DEF O
  <2> QED
    BY <2>1, <2>2, FS_Subset, FS_CardinalityType
<1>3. O(t) = IF x = y THEN O(s) \cup {n + 1} ELSE O(s)
  <2>1. \A k : k \in 1..(n+1) <=> k \in 1..n \/ k = n + 1
    BY <1>1
  <2> QED
    BY <1>1, <2>1
<1>5. Occurrences(s, x) = Cardinality(O(s)) /\ Occurrences(t, x) = Cardinality(O(t))
  BY DEF Occurrences
<1> HIDE DEF O
<1>6. Cardinality(O(s) \cup {n + 1}) = Cardinality(O(s)) + 1
  BY <1>2, FS_AddElement
<1> QED
  BY <1>2, <1>3, <1>5, <1>6 DEF t

(* The occurrences in two sequences, one after the other.                  *)
LEMMA OccurrencesConcat ==
    ASSUME NEW A, NEW s \in Seq(A), NEW t \in Seq(A), NEW x
    PROVE  Occurrences(s \o t, x) = Occurrences(s, x) + Occurrences(t, x)
<1> DEFINE u(m) == SubSeq(t, 1, m)
           T == {m \in Nat : m <= Len(t) =>
                     Occurrences(s \o u(m), x) = Occurrences(s, x) + Occurrences(u(m), x)}
<1>0. /\ Len(t) \in Nat /\ u(Len(t)) = t /\ u(0) = <<>> /\ s \o <<>> = s
      /\ \A m \in 0..Len(t) : u(m) \in Seq(A)
      /\ \A m \in Nat : m + 1 <= Len(t) => t[m+1] \in A
  OBVIOUS
<1>1. \A m \in Nat : m + 1 <= Len(t) =>
          u(m+1) = Append(u(m), t[m+1]) /\ s \o u(m+1) = Append(s \o u(m), t[m+1])
  OBVIOUS
<1> HIDE DEF u
<1>a. \A v \in Seq(A), y \in A :
          /\ Occurrences(v, x) \in Nat
          /\ Occurrences(Append(v, y), x) = Occurrences(v, x) + (IF x = y THEN 1 ELSE 0)
  BY OccurrencesAppend
<1>2. 0 \in T
  <2>1. Occurrences(s, x) \in Nat
    <3>1. IsFiniteSet(1..Len(s)) /\ {k \in DOMAIN s : s[k] = x} \subseteq 1..Len(s)
      BY FS_Interval
    <3> QED
      BY <3>1, FS_Subset, FS_CardinalityType DEF Occurrences
  <2>2. Occurrences(u(0), x) = 0 /\ s \o u(0) = s
    BY <1>0, OccurrencesEmpty
  <2>3. Occurrences(s \o u(0), x) = Occurrences(s, x) + Occurrences(u(0), x)
    <3>1. Occurrences(s \o u(0), x) = Occurrences(s, x)
      BY <2>2, Zenon
    <3> QED
      BY <2>1, <2>2, <3>1
  <2> QED
    BY <2>3
<1>3. ASSUME NEW m \in T PROVE m + 1 \in T
  <2> SUFFICES ASSUME m + 1 <= Len(t)
               PROVE  Occurrences(s \o u(m+1), x) = Occurrences(s, x) + Occurrences(u(m+1), x)
    OBVIOUS
  <2>1. /\ m \in Nat /\ m \in 0..Len(t)
        /\ Occurrences(s \o u(m), x) = Occurrences(s, x) + Occurrences(u(m), x)
    BY <1>0
  <2> HIDE DEF T
  <2>2. u(m) \in Seq(A) /\ s \o u(m) \in Seq(A) /\ t[m+1] \in A
    BY <1>0, <2>1
  <2>3. /\ Occurrences(u(m+1), x) = Occurrences(u(m), x) + (IF x = t[m+1] THEN 1 ELSE 0)
        /\ Occurrences(s \o u(m+1), x) = Occurrences(s \o u(m), x) + (IF x = t[m+1] THEN 1 ELSE 0)
    BY <1>a, <1>1, <2>1, <2>2
  <2>4. Occurrences(u(m), x) \in Nat /\ Occurrences(s, x) \in Nat
    BY <1>a, <2>2
  <2> QED
    BY <2>1, <2>3, <2>4
<1>4. T = Nat
  <2>1. T \in SUBSET Nat
    OBVIOUS
  <2> HIDE DEF T
  <2> QED
    BY <1>2, <1>3, <2>1, SetInduction
<1>5. Len(t) \in T
  <2> HIDE DEF T
  <2> QED
    BY <1>0, <1>4
<1> QED
  BY <1>0, <1>5

(* Keeping the elements of S keeps all their occurrences; keeping every    *)
(* element keeps the sequence.                                             *)
LEMMA OccurrencesKept ==
    ASSUME NEW A, NEW s \in Seq(A), NEW S
    PROVE  /\ \A x : Occurrences(Keep(s, S), x) = IF x \in S THEN Occurrences(s, x) ELSE 0
           /\ Range(s) \subseteq S => Keep(s, S) = s
<1> DEFINE u(m) == SubSeq(s, 1, m)
           T == {m \in Nat : m <= Len(s) =>
                     /\ \A x : Occurrences(Keep(u(m), S), x) = IF x \in S THEN Occurrences(u(m), x) ELSE 0
                     /\ Range(s) \subseteq S => Keep(u(m), S) = u(m)}
<1>0. /\ Len(s) \in Nat /\ u(Len(s)) = s /\ u(0) = <<>> /\ <<>> \in Seq(A)
      /\ \A m \in 0..Len(s) : u(m) \in Seq(A)
      /\ \A m \in Nat : m + 1 <= Len(s) => s[m+1] \in A /\ s[m+1] \in Range(s)
  BY DEF Range
<1>1. \A m \in Nat : m + 1 <= Len(s) => u(m+1) = Append(u(m), s[m+1])
  OBVIOUS
<1> HIDE DEF u
<1>2. 0 \in T
  <2>1. Keep(<<>>, S) = <<>> /\ \A x : Occurrences(<<>>, x) = 0
    BY KeepEmpty, OccurrencesEmpty
  <2> QED
    BY <1>0, <2>1
<1>3. ASSUME NEW m \in T PROVE m + 1 \in T
  <2> SUFFICES ASSUME m + 1 <= Len(s)
               PROVE  /\ \A x : Occurrences(Keep(u(m+1), S), x) =
                                    IF x \in S THEN Occurrences(u(m+1), x) ELSE 0
                      /\ Range(s) \subseteq S => Keep(u(m+1), S) = u(m+1)
    OBVIOUS
  <2>1. /\ m \in Nat /\ m \in 0..Len(s)
        /\ \A x : Occurrences(Keep(u(m), S), x) = IF x \in S THEN Occurrences(u(m), x) ELSE 0
        /\ Range(s) \subseteq S => Keep(u(m), S) = u(m)
    BY <1>0
  <2> HIDE DEF T
  <2> DEFINE y == s[m+1]
  <2>2. u(m) \in Seq(A) /\ y \in A /\ y \in Range(s) /\ u(m+1) = Append(u(m), y)
    BY <1>0, <1>1, <2>1
  <2> HIDE DEF y
  <2>3. Keep(u(m), S) \in Seq(A)
    BY <2>2, KeepFacts
  <2>4. Keep(u(m+1), S) = Keep(u(m), S) \o (IF y \in S THEN <<y>> ELSE <<>>)
    <3>1. Keep(Append(u(m), y), S) = Keep(u(m), S) \o (IF y \in S THEN <<y>> ELSE <<>>)
      BY <2>2, KeepAppend
    <3> QED
      BY <2>2, <3>1
  <2>5. Keep(u(m+1), S) = IF y \in S THEN Append(Keep(u(m), S), y) ELSE Keep(u(m), S)
    <3>1. \A v \in Seq(A) : v \o <<y>> = Append(v, y) /\ v \o <<>> = v
      BY <2>2
    <3> QED
      BY <2>3, <2>4, <3>1
  <2>o. \A v \in Seq(A) : \A x :
            /\ Occurrences(v, x) \in Nat
            /\ Occurrences(Append(v, y), x) = Occurrences(v, x) + (IF x = y THEN 1 ELSE 0)
    BY <2>2, OccurrencesAppend
  <2>6. ASSUME NEW x
        PROVE  Occurrences(Keep(u(m+1), S), x) = IF x \in S THEN Occurrences(u(m+1), x) ELSE 0
    <3>1. Occurrences(u(m+1), x) = Occurrences(u(m), x) + (IF x = y THEN 1 ELSE 0)
      BY <2>2, <2>o
    <3>2. y \in S => Occurrences(Keep(u(m+1), S), x) =
                         Occurrences(Keep(u(m), S), x) + (IF x = y THEN 1 ELSE 0)
      BY <2>3, <2>5, <2>o
    <3>3. Occurrences(u(m), x) \in Nat
      BY <2>2, <2>o
    <3> QED
      BY <2>1, <2>5, <3>1, <3>2, <3>3
  <2>7. Range(s) \subseteq S => Keep(u(m+1), S) = u(m+1)
    BY <2>1, <2>2, <2>5
  <2> QED
    BY <2>6, <2>7
<1>4. T = Nat
  <2>1. T \in SUBSET Nat
    OBVIOUS
  <2> HIDE DEF T
  <2> QED
    BY <1>2, <1>3, <2>1, SetInduction
<1>5. Len(s) \in T
  <2> HIDE DEF T
  <2> QED
    BY <1>0, <1>4
<1> QED
  BY <1>0, <1>5

=============================================================================
