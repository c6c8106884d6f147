----------------------------- MODULE DataProofs -----------------------------
(***************************************************************************)
(* What the pure parts of the judge compute, for every input: the order    *)
(* of the tests, the samples, versions, reading up to a cap, and comparing *)
(* outputs.                                                                *)
(*                                                                         *)
(* Induction is by the least counterexample (Least, from the library's     *)
(* theorem that < is well founded on Nat), over a set instead of over an   *)
(* operator.                                                               *)
(***************************************************************************)
EXTENDS Judge, SequenceTheorems, FiniteSetTheorems, WellFoundedInduction, TLAPS

(* Every set of naturals has a least element.                               *)
LEMMA Least ==
  ASSUME NEW S \in SUBSET Nat, S # {}
  PROVE  \E m \in S : \A k \in S : m <= k
<1> DEFINE R == {ss \in Nat \X Nat : ss[1] < ss[2]}
<1>1. IsWellFoundedOn(R, Nat)
  BY NatLessThanWellFounded, Zenon DEF OpToRel
<1>2. \A x, y \in Nat : y < x => <<y, x>> \in R
  OBVIOUS
<1> HIDE DEF R
<1>3. PICK m \in S : \A k \in S : ~(<<k, m>> \in R)
  BY <1>1, WFMin
<1>4. \A k \in S : ~(k < m)
  BY <1>2, <1>3
<1> QED
  BY <1>4

LEMMA MinIsLeast ==
  ASSUME NEW S \in SUBSET Nat, S # {}
  PROVE  Min(S) \in S /\ \A k \in S : Min(S) <= k
<1>1. \E m \in S : \A k \in S : m <= k
  BY Least
<1> QED
  BY <1>1 DEF Min

(* Induction: a set of naturals with 0 and all successors is Nat.           *)
LEMMA SetInduction ==
  ASSUME NEW S \in SUBSET Nat, 0 \in S, \A n \in S : n + 1 \in S
  PROVE  S = Nat
<1> SUFFICES ASSUME Nat \ S # {} PROVE FALSE
  OBVIOUS
<1>1. PICK m \in Nat \ S : \A k \in Nat \ S : m <= k
  BY Least
<1>2. m # 0 /\ m - 1 \in Nat /\ m - 1 < m
  OBVIOUS
<1>3. m - 1 \in S
  BY <1>1, <1>2
<1> QED
  BY <1>1, <1>3

(* The same up to a bound.                                                  *)
LEMMA BoundedInduction ==
  ASSUME NEW N \in Nat, NEW S, 0 \in S, \A n \in 1 .. N : n - 1 \in S => n \in S
  PROVE  0 .. N \subseteq S
<1> SUFFICES ASSUME (0 .. N) \ S # {} PROVE FALSE
  OBVIOUS
<1>0. (0 .. N) \ S \in SUBSET Nat
  OBVIOUS
<1>1. PICK m \in (0 .. N) \ S : \A k \in (0 .. N) \ S : m <= k
  BY <1>0, Least
<1>2. m \in 1 .. N /\ m - 1 \in 0 .. N /\ m - 1 < m
  OBVIOUS
<1>3. m - 1 \in S
  BY <1>1, <1>2
<1> QED
  BY <1>1, <1>2, <1>3

(* A function is defined by its first value and a step, in a set V.         *)
Iterates(g, V, N, first, step) ==
  g \in [0 .. N -> V] /\ g[0] = first /\ \A n \in 1 .. N : g[n] = step[<<n, g[n - 1]>>]

LEMMA StepsDefine ==
  ASSUME NEW V, NEW N \in Nat, NEW first \in V, NEW step \in [(1 .. N) \X V -> V]
  PROVE  \E g : Iterates(g, V, N, first, step)
<1> DEFINE Upto(m, g) == /\ g \in [0 .. m -> V] /\ g[0] = first
                         /\ \A n \in 1 .. m : g[n] = step[<<n, g[n - 1]>>]
           S == {m \in 0 .. N : \E g : Upto(m, g)}
<1>1. 0 \in S
  <2>1. Upto(0, [n \in 0 .. 0 |-> first])
    OBVIOUS
  <2> HIDE DEF Upto
  <2> QED
    BY <2>1
<1>2. ASSUME NEW m \in 1 .. N, m - 1 \in S PROVE m \in S
  <2>1. PICK g : Upto(m - 1, g)
    BY <1>2
  <2> DEFINE h == [n \in 0 .. m |-> IF n = m THEN step[<<m, g[m - 1]>>] ELSE g[n]]
  <2>2. step[<<m, g[m - 1]>>] \in V
    BY <2>1
  <2>3. h \in [0 .. m -> V] /\ h[0] = first
    BY <2>1, <2>2
  <2>4. ASSUME NEW n \in 1 .. m PROVE h[n] = step[<<n, h[n - 1]>>]
    <3>1. CASE n = m
      <4>1. n - 1 \in 0 .. m /\ n - 1 # m /\ n \in 0 .. m
        OBVIOUS
      <4>2. h[n] = step[<<m, g[m - 1]>>] /\ h[n - 1] = g[m - 1]
        BY <3>1, <4>1
      <4> QED
        BY <3>1, <4>2
    <3>2. CASE n # m
      <4>1. n \in 1 .. m - 1 /\ n - 1 \in 0 .. m - 1 /\ n - 1 # m
        BY <3>2
      <4>2. h[n] = g[n] /\ h[n - 1] = g[n - 1]
        BY <4>1, <3>2
      <4> QED
        BY <4>1, <4>2, <2>1
    <3> QED
      BY <3>1, <3>2
  <2>5. Upto(m, h)
    BY <2>3, <2>4
  <2> HIDE DEF Upto
  <2> QED
    BY <2>5
<1> HIDE DEF S
<1>3. N \in S
  BY <1>1, <1>2, BoundedInduction
<1> QED
  BY <1>3 DEF S, Iterates

-----------------------------------------------------------------------------
(* The samples of a problem are tests of it whose names are sample names.   *)
LEMMA SamplesAreSamples ==
  ASSUME NEW T, NEW problem, problem.tests \in Seq(T)
  PROVE  Samples(problem) \in Seq({t \in T : t.name \in problem.samples})
<1> DEFINE N     == Len(problem.tests)
           good  == {t \in T : t.name \in problem.samples}
           V     == Seq(good)
           none  == <<>>
           keep(n, s) == IF problem.tests[n].name \in problem.samples
                         THEN Append(s, problem.tests[n]) ELSE s
           Q(g)  == g = [n \in 0 .. N |-> IF n = 0 THEN none ELSE keep(n, g[n - 1])]
           step  == [p \in (1 .. N) \X V |-> keep(p[1], p[2])]
           h     == CHOOSE f : Q(f)
<1>1. N \in Nat /\ none \in V
  BY LenProperties, EmptySeq
<1>2. ASSUME NEW n \in 1 .. N, NEW s \in V
      PROVE  keep(n, s) \in V
  <2>1. problem.tests[n] \in T
    BY ElementOfSeq
  <2>2. problem.tests[n].name \in problem.samples => Append(s, problem.tests[n]) \in Seq(good)
    BY <2>1, AppendProperties
  <2> QED
    BY <2>2
<1>3. Samples(problem) = h[N]
  BY Zenon DEF Samples
<1> HIDE DEF N, V, none, keep
<1>4. /\ step \in [(1 .. N) \X V -> V]
      /\ \A n \in 1 .. N, s \in V : step[<<n, s>>] = keep(n, s)
  BY <1>2
<1> HIDE DEF step
<1>5. PICK g : Iterates(g, V, N, none, step)
  BY <1>1, <1>4, StepsDefine
<1>6. \A n \in 1 .. N : n - 1 \in 0 .. N /\ g[n - 1] \in V /\ g[n] = keep(n, g[n - 1])
  <2>1. \A n \in 1 .. N : n - 1 \in 0 .. N
    BY <1>1
  <2> QED
    BY <2>1, <1>4, <1>5, Zenon DEF Iterates
<1>7. Q(g)
  BY <1>1, <1>5, <1>6 DEF Iterates
<1>8. Q(h)
  <2> HIDE DEF Q
  <2> QED
    BY <1>7
<1> HIDE DEF h
<1>9. \A n \in 0 .. N : h[n] = g[n]
  <2> DEFINE S == {n \in 0 .. N : h[n] = g[n]}
  <2>1. 0 \in S
    BY <1>1, <1>5, <1>8 DEF Iterates
  <2>2. ASSUME NEW n \in 1 .. N, n - 1 \in S PROVE n \in S
    BY <2>2, <1>1, <1>6, <1>8
  <2> HIDE DEF S
  <2>3. 0 .. N \subseteq S
    BY <1>1, <2>1, <2>2, BoundedInduction
  <2> QED
    BY <2>3 DEF S
<1> QED
  BY <1>1, <1>3, <1>5, <1>9 DEF V, Iterates
-----------------------------------------------------------------------------
(* a comes before b: they agree on their first k bytes, and then a ends or  *)
(* has the smaller byte.                                                    *)
Differ(a, b, k) ==
  /\ k <= Len(a) /\ k < Len(b)
  /\ \A i \in 1 .. k : a[i] = b[i]
  /\ k < Len(a) => a[k + 1] < b[k + 1]

(* A prefix of a sequence: its length and its elements.                     *)
LEMMA PrefixIs ==
  ASSUME NEW a \in Seq(Int), NEW k \in Nat, k <= Len(a)
  PROVE  /\ SubSeq(a, 1, k) \in Seq(Int) /\ Len(SubSeq(a, 1, k)) = k
         /\ \A i \in 1 .. k : SubSeq(a, 1, k)[i] = a[i]
<1>1. 1 \in Int /\ k \in Int /\ Len(a) \in Nat
  BY LenProperties
<1>2. \A i \in 1 .. k : a[i] \in Int
  BY <1>1, ElementOfSeq
<1> DEFINE p == SubSeq(a, 1, k)
<1>3. /\ p \in Seq(Int) /\ Len(p) = (IF 1 <= k THEN k - 1 + 1 ELSE 0)
      /\ \A i \in 1 .. k - 1 + 1 : p[i] = a[1 + i - 1]
  BY ONLY <1>1, <1>2
<1> HIDE DEF p
<1>4. k - 1 + 1 = k /\ \A i \in 1 .. k : 1 + i - 1 = i
  OBVIOUS
<1>5. p \in Seq(Int) /\ Len(p) = k /\ \A i \in 1 .. k : p[i] = a[i]
  BY <1>3, <1>4
<1> QED
  BY <1>5 DEF p

(* Two prefixes are equal if they agree everywhere.                         *)
LEMMA SamePrefix ==
  ASSUME NEW a \in Seq(Int), NEW b \in Seq(Int), NEW k \in Nat, k <= Len(a), k <= Len(b)
  PROVE  SubSeq(a, 1, k) = SubSeq(b, 1, k) <=> \A i \in 1 .. k : a[i] = b[i]
<1>2. /\ SubSeq(a, 1, k) \in Seq(Int) /\ Len(SubSeq(a, 1, k)) = k
      /\ \A i \in 1 .. k : SubSeq(a, 1, k)[i] = a[i]
  BY PrefixIs
<1>3. /\ SubSeq(b, 1, k) \in Seq(Int) /\ Len(SubSeq(b, 1, k)) = k
      /\ \A i \in 1 .. k : SubSeq(b, 1, k)[i] = b[i]
  BY PrefixIs
<1>4. ASSUME \A i \in 1 .. k : a[i] = b[i] PROVE SubSeq(a, 1, k) = SubSeq(b, 1, k)
  BY <1>2, <1>3, <1>4, SeqEqual
<1> QED
  BY <1>2, <1>3, <1>4

LEMMA BeforeIsDiffer ==
  ASSUME NEW a \in Seq(Int), NEW b \in Seq(Int)
  PROVE  Before(a, b) <=> \E k \in Nat : Differ(a, b, k)
<1>0. Len(a) \in Nat /\ Len(b) \in Nat
  BY LenProperties
<1>1. /\ Len(a) \in Nat /\ Len(b) \in Nat /\ DOMAIN a = 1 .. Len(a) /\ DOMAIN b = 1 .. Len(b)
      /\ \A i \in 1 .. Len(a) : a[i] \in Int
      /\ \A i \in 1 .. Len(b) : b[i] \in Int
  BY LenProperties, ElementOfSeq
<1>2. ASSUME IsStrictPrefix(a, b) PROVE Differ(a, b, Len(a))
  <2>1. Len(a) <= Len(b) /\ \A i \in 1 .. Len(a) : a[i] = b[i]
    BY <1>1, <1>2, SamePrefix DEF IsStrictPrefix, IsPrefix
  <2>2. Len(a) # Len(b)
    BY <1>2, <2>1, SeqEqual DEF IsStrictPrefix
  <2>3. Len(a) <= Len(a) /\ Len(a) < Len(b) /\ ~(Len(a) < Len(a))
    BY <1>0, <2>1, <2>2
  <2> QED
    BY <2>1, <2>3 DEF Differ
<1>3. ASSUME NEW i \in DOMAIN a \cap DOMAIN b, a[i] < b[i],
             SubSeq(a, 1, i - 1) = SubSeq(b, 1, i - 1)
      PROVE  i - 1 \in Nat /\ Differ(a, b, i - 1)
  <2>1. i \in 1 .. Len(a) /\ i \in 1 .. Len(b) /\ i - 1 \in Nat /\ (i - 1) + 1 = i
        /\ i - 1 < Len(a) /\ i - 1 < Len(b)
    BY <1>1
  <2>2. \A j \in 1 .. i - 1 : a[j] = b[j]
    BY <1>1, <1>3, <2>1, SamePrefix
  <2> QED
    BY <1>1, <1>3, <2>1, <2>2 DEF Differ
<1>4. ASSUME NEW k \in Nat, Differ(a, b, k) PROVE Before(a, b)
  <2>1. SubSeq(a, 1, k) = SubSeq(b, 1, k)
    BY <1>1, <1>4, SamePrefix DEF Differ
  <2>2. CASE k = Len(a)
    <3>1. Len(a) # Len(b) /\ Len(a) <= Len(b)
      <4>1. k < Len(b)
        BY <1>4 DEF Differ
      <4> QED
        BY <1>0, <2>2, <4>1
    <3> QED
      BY <2>1, <2>2, <3>1 DEF Before, IsStrictPrefix, IsPrefix
  <2>3. CASE k # Len(a)
    <3>1. k + 1 \in 1 .. Len(a) /\ k + 1 \in 1 .. Len(b) /\ (k + 1) - 1 = k /\ a[k + 1] < b[k + 1]
      <4>1. k < Len(b) /\ k <= Len(a) /\ (k < Len(a) => a[k + 1] < b[k + 1])
        BY <1>4 DEF Differ
      <4> QED
        BY <1>0, <2>3, <4>1
    <3>2. k + 1 \in DOMAIN a \cap DOMAIN b
      BY <1>1, <3>1
    <3> QED
      BY <2>1, <3>1, <3>2 DEF Before
  <2> QED
    BY <2>2, <2>3
<1> QED
  BY <1>1, <1>2, <1>3, <1>4 DEF Before

(* Any two names are in order one way or the other ...                      *)
LEMMA BeforeIsTotal ==
  ASSUME NEW a \in Seq(Int), NEW b \in Seq(Int), a # b
  PROVE  Before(a, b) \/ Before(b, a)
<1>1. /\ Len(a) \in Nat /\ Len(b) \in Nat
      /\ \A i \in 1 .. Len(a) : a[i] \in Int
      /\ \A i \in 1 .. Len(b) : b[i] \in Int
  BY LenProperties, ElementOfSeq
<1> DEFINE D == {i \in Nat \ {0} : i <= Len(a) /\ i <= Len(b) /\ a[i] # b[i]}
<1>2. CASE D # {}
  <2>1. D \in SUBSET Nat
    OBVIOUS
  <2>2. PICK m \in D : \A k \in D : m <= k
    BY <1>2, <2>1, Least
  <2>3. m - 1 \in Nat /\ (m - 1) + 1 = m /\ m \in 1 .. Len(a) /\ m \in 1 .. Len(b)
    BY <1>1, <2>2
  <2>4. \A i \in 1 .. m - 1 : a[i] = b[i]
    <3> SUFFICES ASSUME NEW i \in 1 .. m - 1, a[i] # b[i] PROVE FALSE
      OBVIOUS
    <3>1. i \in Nat \ {0} /\ i <= Len(a) /\ i <= Len(b) /\ ~(m <= i)
      BY <1>1, <2>2, <2>3
    <3> QED
      BY <2>2, <3>1
  <2>5. a[m] < b[m] \/ b[m] < a[m]
    BY <1>1, <2>2, <2>3
  <2>6. Differ(a, b, m - 1) \/ Differ(b, a, m - 1)
    BY <1>1, <2>3, <2>4, <2>5 DEF Differ
  <2> QED
    BY <2>3, <2>6, BeforeIsDiffer
<1>3. CASE D = {}
  <2>1. \A i \in Nat \ {0} : i <= Len(a) /\ i <= Len(b) => a[i] = b[i]
    BY <1>3
  <2>2. Len(a) # Len(b)
    <3> SUFFICES ASSUME Len(a) = Len(b) PROVE FALSE
      OBVIOUS
    <3>1. \A i \in 1 .. Len(a) : a[i] = b[i]
      BY <1>1, <2>1
    <3> QED
      BY <3>1, SeqEqual
  <2>3. Differ(a, b, Len(a)) \/ Differ(b, a, Len(b))
    BY <1>1, <2>1, <2>2 DEF Differ
  <2> QED
    BY <1>1, <2>3, BeforeIsDiffer
<1> QED
  BY <1>2, <1>3

(* ... and never both ways, so no name is before itself ...                 *)
LEMMA BeforeIsStrict ==
  ASSUME NEW a \in Seq(Int)
  PROVE  ~Before(a, a)
<1>1. Len(a) \in Nat /\ \A i \in 1 .. Len(a) : a[i] \in Int
  BY LenProperties, ElementOfSeq
<1> QED
  BY <1>1, BeforeIsDiffer DEF Differ

(* ... and the order is transitive.                                         *)
LEMMA BeforeIsTransitive ==
  ASSUME NEW a \in Seq(Int), NEW b \in Seq(Int), NEW c \in Seq(Int), Before(a, b), Before(b, c)
  PROVE  Before(a, c)
<1>1. /\ Len(a) \in Nat /\ Len(b) \in Nat /\ Len(c) \in Nat
      /\ \A i \in 1 .. Len(a) : a[i] \in Int
      /\ \A i \in 1 .. Len(b) : b[i] \in Int
      /\ \A i \in 1 .. Len(c) : c[i] \in Int
  BY LenProperties, ElementOfSeq
<1>2. PICK k \in Nat : Differ(a, b, k)
  BY BeforeIsDiffer
<1>3. PICK l \in Nat : Differ(b, c, l)
  BY BeforeIsDiffer
<1>4. CASE k < l
  <2>1. Differ(a, c, k)
    BY <1>1, <1>2, <1>3, <1>4 DEF Differ
  <2> QED
    BY <2>1, BeforeIsDiffer
<1>5. CASE k = l
  <2>1. Differ(a, c, k)
    BY <1>1, <1>2, <1>3, <1>5, SMTT(60) DEF Differ
  <2> QED
    BY <2>1, BeforeIsDiffer
<1>6. CASE k > l
  <2>1. Differ(a, c, l)
    <3>1. l <= Len(a) /\ l < Len(c) /\ l < Len(b) /\ l + 1 \in 1 .. k /\ l + 1 \in 1 .. Len(a)
      BY <1>1, <1>2, <1>3, <1>6, SMTT(60) DEF Differ
    <3>2. \A i \in 1 .. l : a[i] = c[i]
      BY <1>2, <1>3, <1>6 DEF Differ
    <3>3. a[l + 1] = b[l + 1] /\ b[l + 1] < c[l + 1]
      BY <1>2, <1>3, <3>1 DEF Differ
    <3> QED
      BY <3>1, <3>2, <3>3 DEF Differ
  <2> QED
    BY <2>1, BeforeIsDiffer
<1> QED
  BY <1>4, <1>5, <1>6
(* The names of S in order, each at its place.                              *)
Sorts(s, S) ==
  /\ s \in [1 .. Cardinality(S) -> S]
  /\ \A i, j \in 1 .. Cardinality(S) : i < j => Before(s[i], s[j])

(* A name that is inserted between the smaller and the larger ones.         *)
LEMMA InsertSorts ==
  ASSUME NEW S \in SUBSET Seq(Int), IsFiniteSet(S), NEW x \in S, NEW s, Sorts(s, S \ {x})
  PROVE  \E t : Sorts(t, S)
<1> DEFINE n == Cardinality(S \ {x})
           after == {i \in 1 .. n : Before(x, s[i])}
<1>1. n \in Nat /\ Cardinality(S) = n + 1
  <2>1. IsFiniteSet(S \ {x}) /\ n = Cardinality(S) - 1 /\ Cardinality(S) \in Nat
    BY FS_RemoveElement, FS_CardinalityType
  <2>2. n \in Nat
    BY <2>1, FS_CardinalityType
  <2> HIDE DEF n
  <2> QED
    BY <2>1, <2>2
<1>2. /\ \A i \in 1 .. n : s[i] \in S /\ s[i] # x /\ s[i] \in Seq(Int)
      /\ \A i, j \in 1 .. n : i < j => Before(s[i], s[j])
      /\ x \in Seq(Int)
  BY DEF Sorts
<1> HIDE DEF n
<1>3. PICK k \in 1 .. n + 1 : /\ \A i \in 1 .. n : i < k => Before(s[i], x)
                              /\ \A i \in 1 .. n : i >= k => Before(x, s[i])
  <2>1. CASE after = {}
    <3>1. \A i \in 1 .. n : Before(s[i], x)
      BY <2>1, <1>2, BeforeIsTotal
    <3>2. n + 1 \in 1 .. n + 1 /\ \A i \in 1 .. n : ~(i >= n + 1)
      BY <1>1
    <3> QED
      BY <3>1, <3>2
  <2>2. CASE after # {}
    <3>1. after \in SUBSET Nat
      BY <1>1
    <3>2. PICK m \in after : \A i \in after : m <= i
      BY <2>2, <3>1, Least
    <3>3. m \in 1 .. n + 1 /\ m \in 1 .. n
      BY <1>1, <3>2
    <3>4. ASSUME NEW i \in 1 .. n, i < m PROVE Before(s[i], x)
      <4>1. ~Before(x, s[i])
        BY <1>1, <3>2, <3>3, <3>4
      <4> QED
        BY <4>1, <1>2, BeforeIsTotal
    <3>5. ASSUME NEW i \in 1 .. n, i >= m PROVE Before(x, s[i])
      <4>1. i = m \/ m < i
        BY <1>1, <3>3, <3>5
      <4>2. Before(x, s[m])
        BY <3>2
      <4> QED
        BY <4>1, <4>2, <3>3, <1>2, BeforeIsTransitive
    <3> QED
      BY <3>3, <3>4, <3>5
  <2> QED
    BY <2>1, <2>2
<1> DEFINE t == [i \in 1 .. n + 1 |-> IF i < k THEN s[i] ELSE IF i = k THEN x ELSE s[i - 1]]
<1>4. \A i \in 1 .. n + 1 : /\ i < k => i \in 1 .. n
                            /\ i > k => i - 1 \in 1 .. n /\ i - 1 >= k
                            /\ i < k \/ i = k \/ i > k
  BY <1>1
<1>5. \A i \in 1 .. n + 1 : /\ i < k => t[i] = s[i]
                            /\ i = k => t[i] = x
                            /\ i > k => t[i] = s[i - 1]
  BY <1>1
<1>6. t \in [1 .. n + 1 -> S]
  BY <1>2, <1>4
<1> HIDE DEF t
<1>7. ASSUME NEW i \in 1 .. n + 1, NEW j \in 1 .. n + 1, i < j PROVE Before(t[i], t[j])
  <2>1. CASE i < k /\ j < k
    BY <2>1, <1>2, <1>4, <1>5, <1>7
  <2>2. CASE i < k /\ j = k
    BY <2>2, <1>3, <1>4, <1>5
  <2>3. CASE i < k /\ j > k
    <3>1. t[i] = s[i] /\ t[j] = s[j - 1] /\ i \in 1 .. n /\ j - 1 \in 1 .. n /\ j - 1 >= k
      BY <2>3, <1>4, <1>5
    <3>2. Before(s[i], x) /\ Before(x, s[j - 1])
      BY <2>3, <3>1, <1>3
    <3> QED
      BY <3>1, <3>2, <1>2, BeforeIsTransitive
  <2>4. CASE i = k /\ j > k
    BY <2>4, <1>3, <1>4, <1>5
  <2>5. CASE i > k /\ j > k
    <3>1. t[i] = s[i - 1] /\ t[j] = s[j - 1] /\ i - 1 \in 1 .. n /\ j - 1 \in 1 .. n
      BY <2>5, <1>4, <1>5
    <3>2. i - 1 < j - 1
      BY <1>7
    <3> QED
      BY <3>1, <3>2, <1>2
  <2>6. (i = k \/ i > k) => j > k
    BY <1>1, <1>7
  <2> QED
    BY <2>1, <2>2, <2>3, <2>4, <2>5, <2>6, <1>4
<1> QED
  BY <1>1, <1>6, <1>7 DEF Sorts

(* Every finite set of names can be sorted, so InOrder sorts it.            *)
LEMMA InOrderSorts ==
  ASSUME NEW S \in SUBSET Seq(Int), IsFiniteSet(S)
  PROVE  Cardinality(S) \in Nat /\ Sorts(InOrder(S), S)
<1> DEFINE Sortable(n) == \A T \in SUBSET Seq(Int) :
                            IsFiniteSet(T) /\ Cardinality(T) = n => \E s : Sorts(s, T)
           K == {n \in Nat : Sortable(n)}
<1>1. 0 \in K
  <2>1. ASSUME NEW T \in SUBSET Seq(Int), Cardinality(T) = 0 PROVE Sorts([i \in 1 .. 0 |-> i], T)
    BY <2>1 DEF Sorts
  <2> QED
    BY <2>1
<1>2. ASSUME NEW n \in K PROVE n + 1 \in K
  <2>1. ASSUME NEW T \in SUBSET Seq(Int), IsFiniteSet(T), Cardinality(T) = n + 1
        PROVE  \E s : Sorts(s, T)
    <3>1. T # {}
      BY <2>1, FS_EmptySet
    <3>2. PICK x \in T : TRUE
      BY <3>1
    <3>3. IsFiniteSet(T \ {x}) /\ Cardinality(T \ {x}) = n
      BY <2>1, <3>2, FS_RemoveElement
    <3>4. PICK s : Sorts(s, T \ {x})
      BY <1>2, <3>3
    <3> QED
      BY <2>1, <3>4, InsertSorts
  <2> QED
    BY <1>2, <2>1
<1>3. K = Nat
  <2> HIDE DEF K
  <2>1. K \in SUBSET Nat
    BY DEF K
  <2> QED
    BY <1>1, <1>2, <2>1, SetInduction
<1>4. Cardinality(S) \in Nat
  BY FS_CardinalityType
<1>5. \E s : Sorts(s, S)
  BY <1>3, <1>4
<1>6. \E s \in [1 .. Cardinality(S) -> S] : \A i, j \in DOMAIN s : i < j => Before(s[i], s[j])
  BY <1>5 DEF Sorts
<1>7. /\ InOrder(S) \in [1 .. Cardinality(S) -> S]
      /\ \A i, j \in DOMAIN InOrder(S) : i < j => Before(InOrder(S)[i], InOrder(S)[j])
  BY <1>6 DEF InOrder
<1> QED
  BY <1>4, <1>7 DEF Sorts
-----------------------------------------------------------------------------
TestCase == [name : Text, input : Text, expected : {NULL} \cup Text]

(* The sorted names are those of the directory, each once.                  *)
LEMMA InOrderIsBijective ==
  ASSUME NEW S \in SUBSET Text, IsFiniteSet(S)
  PROVE  /\ Cardinality(S) \in Nat
         /\ InOrder(S) \in Seq(S) /\ Len(InOrder(S)) = Cardinality(S)
         /\ \A name \in S : \E i \in DOMAIN InOrder(S) : InOrder(S)[i] = name
         /\ \A i, j \in DOMAIN InOrder(S) : i < j => Before(InOrder(S)[i], InOrder(S)[j])
<1> DEFINE s == InOrder(S)
           n == Cardinality(S)
<1>0. S \in SUBSET Seq(Int)
  <2>1. Byte \subseteq Int
    BY DEF Byte
  <2> QED
    BY <2>1, SeqMonotonic DEF Text
<1>1. n \in Nat /\ s \in [1 .. n -> S] /\ \A i, j \in 1 .. n : i < j => Before(s[i], s[j])
  BY <1>0, InOrderSorts DEF Sorts
<1> HIDE DEF s
<1>2. ASSUME NEW i \in 1 .. n, NEW j \in 1 .. n, i # j PROVE s[i] # s[j]
  <2>1. i < j \/ j < i
    BY <1>1, <1>2
  <2>2. Before(s[i], s[j]) \/ Before(s[j], s[i])
    BY <1>1, <2>1
  <2>3. s[i] \in Seq(Int) /\ s[j] \in Seq(Int)
    BY <1>0, <1>1
  <2> QED
    BY <2>2, <2>3, BeforeIsStrict
<1>3. s \in Injection(1 .. n, S)
  BY <1>1, <1>2 DEF Injection, IsInjective
<1>4. s \in Surjection(1 .. n, S)
  <2>1. Cardinality(1 .. n) = n
    BY <1>1, FS_Interval
  <2> QED
    BY <1>3, <2>1, FS_Injection
<1>5. \A name \in S : \E i \in 1 .. n : s[i] = name
  BY <1>4 DEF Surjection
<1>6. s \in Seq(S) /\ Len(s) = n /\ DOMAIN s = 1 .. n
  BY <1>1, SeqDef
<1> QED
  BY <1>1, <1>5, <1>6 DEF s

(* The tests of a problem that loads are complete test cases.               *)
LEMMA LoadedProblem ==
  ASSUME NEW dir, IsDirectory(dir), Load(dir) # NULL
  PROVE  /\ Loadable(dir) /\ Load(dir).tests = TestCases(dir)
         /\ TestCases(dir) \in Seq([name : DOMAIN dir.tests, input : Text, expected : Text])
         /\ Len(TestCases(dir)) = Cardinality(DOMAIN dir.tests)
         /\ Load(dir).samples = dir.samples
         /\ Load(dir).limits = dir.limits /\ Load(dir).comparer = dir.comparer
         /\ Load(dir).show_failed_input = dir.show_failed_input
         /\ Load(dir).version = Version(dir)
<1>1. Loadable(dir)
  BY DEF Load
<1> DEFINE D == DOMAIN dir.tests
           s == InOrder(D)
           n == Cardinality(D)
<1>2. n \in Nat /\ s \in Seq(D) /\ Len(s) = n
  BY InOrderIsBijective DEF IsDirectory
<1>3. DOMAIN s = 1 .. n /\ \A i \in 1 .. n : s[i] \in D
  BY <1>2, LenProperties, ElementOfSeq
<1>4. \A name \in D : dir.tests[name].in \in Text /\ dir.tests[name].out \in Text
  BY <1>1 DEF IsDirectory, Loadable
<1> DEFINE C == [name : D, input : Text, expected : Text]
<1>5. \A i \in 1 .. n : [name |-> s[i], input |-> dir.tests[s[i]].in, expected |-> dir.tests[s[i]].out] \in C
  BY <1>3, <1>4
<1>6. TestCases(dir) \in [1 .. n -> C]
  <2>1. TestCases(dir) = [i \in 1 .. n |-> [name |-> s[i], input |-> dir.tests[s[i]].in,
                                            expected |-> dir.tests[s[i]].out]]
    BY <1>3 DEF TestCases
  <2> HIDE DEF n, s, C
  <2> QED
    BY <2>1, <1>5
<1>7. TestCases(dir) \in Seq(C) /\ Len(TestCases(dir)) = n
  <2> HIDE DEF n, C
  <2> QED
    BY <1>2, <1>6, SeqDef
<1> HIDE DEF C
<1> QED
  BY <1>1, <1>7 DEF Load, C
-----------------------------------------------------------------------------
(* Where the elements of a concatenation come from.                         *)
LEMMA ConcatAt ==
  ASSUME NEW S, NEW s \in Seq(S), NEW t \in Seq(S)
  PROVE  /\ s \o t \in Seq(S)
         /\ Len(s) \in Nat /\ Len(t) \in Nat /\ Len(s \o t) = Len(s) + Len(t)
         /\ \A i \in 1 .. Len(s) : (s \o t)[i] = s[i]
         /\ \A i \in 1 .. Len(t) : (s \o t)[Len(s) + i] = t[i]
<1> DEFINE m == Len(s)
           n == Len(t)
           c == s \o t
<1>1. m \in Nat /\ n \in Nat
  BY LenProperties
<1>2. /\ c \in Seq(S) /\ Len(c) = m + n
      /\ \A i \in 1 .. m + n : c[i] = IF i <= m THEN s[i] ELSE t[i - m]
  BY ConcatProperties
<1> HIDE DEF m, n, c
<1>3. \A i \in 1 .. m : c[i] = s[i]
  BY <1>1, <1>2
<1>4. ASSUME NEW i \in 1 .. n PROVE c[m + i] = t[i]
  <2>1. m + i \in 1 .. m + n /\ ~(m + i <= m) /\ (m + i) - m = i
    BY <1>1
  <2>2. c[m + i] = t[(m + i) - m]
    BY <1>2, <2>1, Zenon
  <2> QED
    BY <2>1, <2>2, Zenon
<1> QED
  BY <1>1, <1>2, <1>3, <1>4, Zenon DEF m, n, c

(* f[n] is the first n of seqs in a row.                                    *)
Joins(f, seqs, T) ==
  /\ f \in [0 .. Len(seqs) -> Seq(T)]
  /\ f[0] = <<>>
  /\ \A n \in 1 .. Len(seqs) : f[n] = f[n - 1] \o seqs[n]

LEMMA FlattenSteps ==
  ASSUME NEW T, NEW seqs \in Seq(Seq(T))
  PROVE  \E f : Joins(f, seqs, T) /\ FlattenSeq(seqs) = f[Len(seqs)]
<1> DEFINE N == Len(seqs)
           V == Seq(T)
           none == <<>>
           join(n, s) == s \o seqs[n]
           step == [p \in (1 .. N) \X V |-> join(p[1], p[2])]
<1>1. N \in Nat /\ none \in V /\ \A n \in 1 .. N : seqs[n] \in V
  BY LenProperties, EmptySeq, ElementOfSeq
<1>2. \A n \in 1 .. N, s \in V : join(n, s) \in V
  BY <1>1, ConcatProperties
<1>z. N = 0 => FlattenSeq(seqs) = none
  BY LenProperties, EmptySeq DEF FlattenSeq
<1>o. \A n \in 1 .. N : none \o seqs[n] = seqs[n]
  BY <1>1, ConcatEmptySeq
<1> DEFINE Q(g) == g = [i \in 1 .. Len(seqs) |-> IF i = 1 THEN seqs[i] ELSE g[i - 1] \o seqs[i]]
           h == CHOOSE g : Q(g)
<1>3. N # 0 => FlattenSeq(seqs) = h[N]
  BY Zenon DEF FlattenSeq
<1> HIDE DEF V, none, join
<1>4. /\ step \in [(1 .. N) \X V -> V]
      /\ \A n \in 1 .. N, s \in V : step[<<n, s>>] = join(n, s)
  BY <1>2
<1> HIDE DEF step
<1>5. PICK g : Iterates(g, V, N, none, step)
  BY <1>1, <1>4, StepsDefine
<1>6. \A n \in 1 .. N : n - 1 \in 0 .. N /\ g[n - 1] \in V /\ g[n] = join(n, g[n - 1])
  <2>1. \A n \in 1 .. N : n - 1 \in 0 .. N
    BY <1>1
  <2> QED
    BY <2>1, <1>4, <1>5, Zenon DEF Iterates
<1>j. \A n \in 1 .. N : g[n] = g[n - 1] \o seqs[n]
  BY <1>6 DEF join
<1>0. g[0] = none
  BY <1>5 DEF Iterates
<1>f. 1 \in 1 .. N => g[1] = seqs[1]
  <2> SUFFICES ASSUME 1 \in 1 .. N PROVE g[1] = seqs[1]
    OBVIOUS
  <2>1. g[1] = g[1 - 1] \o seqs[1]
    BY <1>j
  <2>2. g[1 - 1] = none
    BY <1>0
  <2> QED
    BY <2>1, <2>2, <1>o, Zenon
<1> DEFINE k == [i \in 1 .. N |-> g[i]]
<1>7. Q(k)
  <2>1. ASSUME NEW i \in 1 .. N
        PROVE  g[i] = IF i = 1 THEN seqs[i] ELSE k[i - 1] \o seqs[i]
    <3>1. CASE i = 1
      BY <3>1, <1>f
    <3>2. CASE i # 1
      <4>1. i - 1 \in 1 .. N
        BY <1>1, <3>2
      <4> QED
        BY <3>2, <4>1, <1>j
    <3> QED
      BY <3>1, <3>2
  <2> QED
    BY <2>1
<1>8. Q(h)
  <2> HIDE DEF Q, k
  <2> QED
    BY <1>7
<1>h. \A n \in 1 .. N : h[n] = IF n = 1 THEN seqs[n] ELSE h[n - 1] \o seqs[n]
  <2> HIDE DEF h
  <2> QED
    BY <1>8
<1> HIDE DEF h, N
<1>9. \A n \in 0 .. N : n # 0 => h[n] = g[n]
  <2> DEFINE S == {n \in 0 .. N : n # 0 => h[n] = g[n]}
  <2>1. 0 \in S
    BY <1>1
  <2>2. ASSUME NEW n \in 1 .. N, n - 1 \in S PROVE n \in S
    <3>1. CASE n = 1
      BY <3>1, <1>1, <1>f, <1>h
    <3>2. CASE n # 1
      <4>1. n - 1 # 0
        BY <3>2
      <4>2. h[n - 1] = g[n - 1]
        BY <2>2, <4>1
      <4> QED
        <5>1. h[n] = h[n - 1] \o seqs[n] /\ g[n] = g[n - 1] \o seqs[n]
          BY <3>2, <1>j, <1>h, Zenon
        <5>2. h[n] = g[n]
          BY <5>1, <4>2, Zenon
        <5> QED
          BY <5>2, <1>1
    <3> QED
      BY <3>1, <3>2
  <2> HIDE DEF S
  <2>3. 0 .. N \subseteq S
    BY <1>1, <2>1, <2>2, BoundedInduction
  <2> QED
    BY <2>3 DEF S
<1>10. FlattenSeq(seqs) = g[N]
  <2>1. N = 0 \/ (N # 0 /\ N \in 0 .. N)
    BY <1>1
  <2> QED
    BY <2>1, <1>z, <1>3, <1>9, <1>0
<1>11. g \in [0 .. N -> V]
  BY <1>5 DEF Iterates
<1> QED
  BY <1>0, <1>j, <1>10, <1>11 DEF V, none, N, Joins

(* Each of seqs is found behind the ones before it.                         *)
Places(f, seqs, T) ==
  /\ Len(seqs) \in Nat
  /\ \A n \in 0 .. Len(seqs) : f[n] \in Seq(T) /\ Len(f[n]) \in Nat
  /\ Len(f[0]) = 0
  /\ \A n \in 1 .. Len(seqs) :
        /\ seqs[n] \in Seq(T) /\ Len(seqs[n]) \in Nat
        /\ Len(f[n]) = Len(f[n - 1]) + Len(seqs[n])
        /\ Len(f[n]) <= Len(f[Len(seqs)])
        /\ \A j \in 1 .. Len(seqs[n]) : f[Len(seqs)][Len(f[n - 1]) + j] = seqs[n][j]

LEMMA FlattenPlaces ==
  ASSUME NEW T, NEW seqs \in Seq(Seq(T)), NEW f, Joins(f, seqs, T)
  PROVE  Places(f, seqs, T)
<1> DEFINE N == Len(seqs)
           len(n) == Len(f[n])
           add(n) == Len(seqs[n])
           byte(n, j) == f[n][j]
<1>1. /\ N \in Nat
      /\ \A n \in 0 .. N : f[n] \in Seq(T) /\ len(n) \in Nat
      /\ \A n \in 1 .. N : seqs[n] \in Seq(T) /\ add(n) \in Nat
      /\ len(0) = 0
  BY LenProperties, ElementOfSeq, EmptySeq DEF Joins
<1>2. ASSUME NEW n \in 1 .. N
      PROVE  /\ len(n) = len(n - 1) + add(n)
             /\ \A j \in 1 .. len(n - 1) : byte(n, j) = byte(n - 1, j)
             /\ \A j \in 1 .. add(n) : byte(n, len(n - 1) + j) = seqs[n][j]
  <2>1. n - 1 \in 0 .. N
    BY <1>1
  <2>2. f[n] = f[n - 1] \o seqs[n] /\ f[n - 1] \in Seq(T) /\ seqs[n] \in Seq(T)
    BY <1>1, <2>1 DEF Joins
  <2> DEFINE a == f[n - 1]
             b == seqs[n]
  <2>3. a \in Seq(T) /\ b \in Seq(T) /\ f[n] = a \o b
    BY <2>2
  <2> HIDE DEF a, b
  <2>4. /\ Len(a \o b) = Len(a) + Len(b)
        /\ \A i \in 1 .. Len(a) : (a \o b)[i] = a[i]
        /\ \A i \in 1 .. Len(b) : (a \o b)[Len(a) + i] = b[i]
    BY <2>3, ConcatAt
  <2> QED
    BY <2>3, <2>4, Zenon DEF a, b
<1> HIDE DEF N, len, add, byte
<1> DEFINE Starts(m, k) == /\ len(k) <= len(m)
                           /\ \A j \in 1 .. len(k) : byte(m, j) = byte(k, j)
           S == {m \in 0 .. N : \A k \in 0 .. m : Starts(m, k)}
<1>3. 0 .. N \subseteq S
  <2>1. 0 \in S
    BY <1>1
  <2>2. ASSUME NEW m \in 1 .. N, m - 1 \in S PROVE m \in S
    <3>1. ASSUME NEW k \in 0 .. m PROVE Starts(m, k)
      <4>1. CASE k = m
        BY <4>1, <1>1
      <4>2. CASE k # m
        <5>1. k \in 0 .. m - 1 /\ k \in 0 .. N /\ m - 1 \in 0 .. N
          BY <1>1, <4>2
        <5>2. Starts(m - 1, k)
          BY <2>2, <5>1
        <5>3. /\ len(k) \in Nat /\ len(m - 1) \in Nat /\ add(m) \in Nat
              /\ len(m) = len(m - 1) + add(m)
              /\ \A j \in 1 .. len(m - 1) : byte(m, j) = byte(m - 1, j)
          BY <1>1, <1>2, <5>1
        <5> QED
          BY <5>2, <5>3
      <4> QED
        BY <4>1, <4>2
    <3> QED
      BY <1>1, <3>1
  <2> HIDE DEF S
  <2> QED
    BY <1>1, <2>1, <2>2, BoundedInduction
<1>4. \A k \in 0 .. N : Starts(N, k)
  <2>1. N \in S
    BY <1>1, <1>3
  <2> QED
    BY <2>1
<1> HIDE DEF S
<1>5. ASSUME NEW n \in 1 .. N
      PROVE  /\ len(n) <= len(N)
             /\ \A j \in 1 .. add(n) : byte(N, len(n - 1) + j) = seqs[n][j]
  <2>1. n \in 0 .. N /\ n - 1 \in 0 .. N
    BY <1>1
  <2>2. Starts(N, n) /\ len(n - 1) \in Nat /\ add(n) \in Nat /\ len(n) = len(n - 1) + add(n)
    BY <1>1, <1>2, <1>4, <2>1
  <2>3. ASSUME NEW j \in 1 .. add(n) PROVE byte(N, len(n - 1) + j) = seqs[n][j]
    <3>1. len(n - 1) + j \in 1 .. len(n)
      BY <2>2
    <3>2. byte(n, len(n - 1) + j) = seqs[n][j]
      BY <1>2
    <3> QED
      BY <2>2, <3>1, <3>2
  <2> QED
    BY <2>2, <2>3
<1> QED
  BY <1>1, <1>2, <1>5, Zenon DEF Places, N, len, add, byte

(* What a test adds to the hashed bytes.                                    *)
Hashed(t) == t.name \o Sized(t.input) \o Sized(t.expected)

LEMMA LeBytesAre ==
  ASSUME NEW n \in Nat
  PROVE  /\ LeBytes(n) \in Seq(Nat) /\ Len(LeBytes(n)) = 8
         /\ \A j \in 5 .. 8 : LeBytes(n)[j] = 0
         /\ n = 0 => LeBytes(n)[1] = 0
<1> DEFINE u == n \div 256
           v == u \div 256
           w == v \div 256
           b1 == n % 256
           b2 == u % 256
           b3 == v % 256
           le == <<b1, b2, b3, w, 0, 0, 0, 0>>
<1>1. u \in Nat
  OBVIOUS
<1>2. v \in Nat
  BY <1>1
<1>3. w \in Nat /\ b1 \in Nat /\ b2 \in Nat /\ b3 \in Nat
  BY <1>1, <1>2
<1>4. n = 0 => b1 = 0
  OBVIOUS
<1>5. LeBytes(n) = le
  BY DEF LeBytes
<1> HIDE DEF u, v, w, b1, b2, b3
<1>6. /\ le \in Seq(Nat) /\ Len(le) = 8 /\ le[1] = b1
      /\ le[5] = 0 /\ le[6] = 0 /\ le[7] = 0 /\ le[8] = 0
  BY ONLY <1>3
<1> HIDE DEF le
<1>7. \A j \in 5 .. 8 : le[j] = 0
  BY <1>6
<1> QED
  BY <1>4, <1>5, <1>6, <1>7, Zenon

LEMMA LeBytesInjective ==
  ASSUME NEW n \in Nat, NEW k \in Nat, \A j \in 1 .. 8 : LeBytes(n)[j] = LeBytes(k)[j]
  PROVE  n = k
<1> DEFINE up(x) == x \div 256
<1>0. ASSUME NEW x \in Nat, NEW y \in Nat, x % 256 = y % 256, x \div 256 = y \div 256
      PROVE  x = y
  BY ONLY <1>0
<1>1. \A x \in Nat : up(x) \in Nat
  OBVIOUS
<1>2. /\ n % 256 = k % 256 /\ up(n) % 256 = up(k) % 256
      /\ up(up(n)) % 256 = up(up(k)) % 256 /\ up(up(up(n))) = up(up(up(k)))
  <2>1. \A x : /\ LeBytes(x)[1] = x % 256 /\ LeBytes(x)[2] = up(x) % 256
               /\ LeBytes(x)[3] = up(up(x)) % 256 /\ LeBytes(x)[4] = up(up(up(x)))
    BY DEF LeBytes
  <2>2. 1 \in 1 .. 8 /\ 2 \in 1 .. 8 /\ 3 \in 1 .. 8 /\ 4 \in 1 .. 8
    OBVIOUS
  <2> HIDE DEF up
  <2>3. /\ LeBytes(n)[1] = LeBytes(k)[1] /\ LeBytes(n)[2] = LeBytes(k)[2]
        /\ LeBytes(n)[3] = LeBytes(k)[3] /\ LeBytes(n)[4] = LeBytes(k)[4]
    BY <2>2, Zenon
  <2>4. /\ LeBytes(n)[1] = n % 256 /\ LeBytes(n)[2] = up(n) % 256
        /\ LeBytes(n)[3] = up(up(n)) % 256 /\ LeBytes(n)[4] = up(up(up(n)))
    BY <2>1, ZenonT(60)
  <2>5. /\ LeBytes(k)[1] = k % 256 /\ LeBytes(k)[2] = up(k) % 256
        /\ LeBytes(k)[3] = up(up(k)) % 256 /\ LeBytes(k)[4] = up(up(up(k)))
    BY <2>1, ZenonT(60)
  <2>6. n % 256 = k % 256 /\ up(n) % 256 = up(k) % 256
    BY ONLY <2>3, <2>4, <2>5, ZenonT(60)
  <2>7. up(up(n)) % 256 = up(up(k)) % 256 /\ up(up(up(n))) = up(up(up(k)))
    BY ONLY <2>3, <2>4, <2>5, ZenonT(60)
  <2> QED
    BY ONLY <2>6, <2>7
<1>3. ASSUME NEW x \in Nat, NEW y \in Nat, x % 256 = y % 256, up(x) = up(y)
      PROVE  x = y
  BY <1>0, <1>3
<1> HIDE DEF up
<1>4. up(n) \in Nat /\ up(k) \in Nat /\ up(up(n)) \in Nat /\ up(up(k)) \in Nat
  BY <1>1
<1>5. up(up(n)) = up(up(k))
  BY <1>2, <1>3, <1>4, Zenon
<1>6. up(n) = up(k)
  BY <1>2, <1>3, <1>4, <1>5, Zenon
<1> QED
  BY <1>2, <1>3, <1>6, Zenon

LEMMA SizedBytes ==
  ASSUME NEW data \in Text
  PROVE  /\ Sized(data) \in Seq(Nat) /\ Len(data) \in Nat
         /\ Len(Sized(data)) = 8 + Len(data)
         /\ \A j \in 1 .. 8 : Sized(data)[j] = LeBytes(Len(data))[j]
         /\ \A j \in 1 .. Len(data) : Sized(data)[8 + j] = data[j]
<1> DEFINE n == Len(data)
           le == LeBytes(n)
<1>1. n \in Nat /\ data \in Seq(Nat)
  <2>1. Byte \subseteq Nat
    BY DEF Byte
  <2> QED
    BY <2>1, LenProperties, SeqMonotonic DEF Text
<1> HIDE DEF n
<1>3. le \in Seq(Nat) /\ Len(le) = 8
  BY <1>1, LeBytesAre
<1> HIDE DEF le
<1>5. Sized(data) = le \o data
  BY DEF Sized, le, n
<1>6. /\ Sized(data) \in Seq(Nat) /\ Len(Sized(data)) = Len(le) + Len(data)
      /\ \A j \in 1 .. Len(le) : Sized(data)[j] = le[j]
      /\ \A j \in 1 .. Len(data) : Sized(data)[Len(le) + j] = data[j]
  <2>1. /\ le \o data \in Seq(Nat) /\ Len(le \o data) = Len(le) + Len(data)
        /\ \A j \in 1 .. Len(le) : (le \o data)[j] = le[j]
        /\ \A j \in 1 .. Len(data) : (le \o data)[Len(le) + j] = data[j]
    <3>1. le \in Seq(Nat) /\ data \in Seq(Nat)
      BY <1>1, <1>3
    <3> QED
      BY ONLY <3>1, ConcatAt
  <2> QED
    BY <2>1, <1>5, Zenon
<1> QED
  BY <1>1, <1>3, <1>6, Zenon DEF n, le

(* The parts of these bytes, by their places.                               *)
HashedTest == [name : Text, input : Text, expected : Text]

Laid(b, t, a, n, m) ==
  /\ a \in Nat /\ n \in Nat /\ m \in Nat
  /\ b \in Seq(Nat) /\ Len(b) = a + n + m + 16
  /\ \A j \in 1 .. a : b[j] = t.name[j]
  /\ \A j \in 1 .. 8 : b[a + j] = LeBytes(n)[j]
  /\ \A j \in 1 .. n : b[a + 8 + j] = t.input[j]
  /\ \A j \in 1 .. 8 : b[a + 8 + n + j] = LeBytes(m)[j]
  /\ \A j \in 1 .. m : b[a + 16 + n + j] = t.expected[j]

LEMMA HashedBytes ==
  ASSUME NEW t \in HashedTest
  PROVE  Laid(Hashed(t), t, Len(t.name), Len(t.input), Len(t.expected))
<1> DEFINE a == Len(t.name)
           n == Len(t.input)
           m == Len(t.expected)
<1> DEFINE x == t.name
           y == Sized(t.input)
           z == Sized(t.expected)
           w == x \o y
<1>1. /\ y \in Seq(Nat) /\ n \in Nat /\ Len(y) = 8 + n
      /\ \A j \in 1 .. 8 : y[j] = LeBytes(n)[j]
      /\ \A j \in 1 .. n : y[8 + j] = t.input[j]
  <2> DEFINE d == t.input
  <2>1. d \in Text
    BY DEF HashedTest
  <2> HIDE DEF d
  <2>2. /\ Sized(d) \in Seq(Nat) /\ Len(d) \in Nat
        /\ Len(Sized(d)) = 8 + Len(d)
        /\ \A j \in 1 .. 8 : Sized(d)[j] = LeBytes(Len(d))[j]
        /\ \A j \in 1 .. Len(d) : Sized(d)[8 + j] = d[j]
    BY ONLY <2>1, SizedBytes
  <2> QED
    BY <2>2 DEF d
<1>2. /\ z \in Seq(Nat) /\ m \in Nat /\ Len(z) = 8 + m
      /\ \A j \in 1 .. 8 : z[j] = LeBytes(m)[j]
      /\ \A j \in 1 .. m : z[8 + j] = t.expected[j]
  <2> DEFINE d == t.expected
  <2>1. d \in Text
    BY DEF HashedTest
  <2> HIDE DEF d
  <2>2. /\ Sized(d) \in Seq(Nat) /\ Len(d) \in Nat
        /\ Len(Sized(d)) = 8 + Len(d)
        /\ \A j \in 1 .. 8 : Sized(d)[j] = LeBytes(Len(d))[j]
        /\ \A j \in 1 .. Len(d) : Sized(d)[8 + j] = d[j]
    BY ONLY <2>1, SizedBytes
  <2> QED
    BY <2>2 DEF d
<1>3. x \in Seq(Nat) /\ Len(x) = a /\ a \in Nat
  <2>1. Byte \subseteq Nat
    BY DEF Byte
  <2> QED
    BY <2>1, LenProperties, SeqMonotonic DEF Text, HashedTest
<1> HIDE DEF a, n, m
<1>4. Hashed(t) = w \o z
  BY DEF Hashed
<1> HIDE DEF x, y, z
<1>5. /\ w \in Seq(Nat) /\ Len(w) = a + (8 + n)
      /\ \A j \in 1 .. a : w[j] = x[j]
      /\ \A j \in 1 .. 8 + n : w[a + j] = y[j]
  <2>1. /\ x \o y \in Seq(Nat) /\ Len(x \o y) = Len(x) + Len(y)
        /\ \A j \in 1 .. Len(x) : (x \o y)[j] = x[j]
        /\ \A j \in 1 .. Len(y) : (x \o y)[Len(x) + j] = y[j]
    <3>1. x \in Seq(Nat) /\ y \in Seq(Nat)
      BY <1>1, <1>3
    <3> QED
      BY ONLY <3>1, ConcatAt
  <2> QED
    BY <2>1, <1>1, <1>3, Zenon
<1> HIDE DEF w
<1>6. /\ Hashed(t) \in Seq(Nat) /\ Len(Hashed(t)) = (a + (8 + n)) + (8 + m)
      /\ \A j \in 1 .. a + (8 + n) : Hashed(t)[j] = w[j]
      /\ \A j \in 1 .. 8 + m : Hashed(t)[(a + (8 + n)) + j] = z[j]
  <2>1. /\ w \o z \in Seq(Nat) /\ Len(w \o z) = Len(w) + Len(z)
        /\ \A j \in 1 .. Len(w) : (w \o z)[j] = w[j]
        /\ \A j \in 1 .. Len(z) : (w \o z)[Len(w) + j] = z[j]
    <3>1. w \in Seq(Nat) /\ z \in Seq(Nat)
      BY <1>2, <1>5
    <3> QED
      BY ONLY <3>1, ConcatAt
  <2> QED
    <3>1. Len(w) = a + (8 + n) /\ Len(z) = 8 + m
      BY <1>2, <1>5
    <3> QED
      BY <2>1, <1>4, <3>1, Zenon
<1> DEFINE H == Hashed(t)
           in == t.input
           out == t.expected
<1> HIDE DEF H, in, out
<1>7. /\ \A j \in 1 .. a + (8 + n) : H[j] = w[j]
      /\ \A j \in 1 .. 8 + m : H[(a + (8 + n)) + j] = z[j]
      /\ \A j \in 1 .. a : w[j] = x[j]
      /\ \A j \in 1 .. 8 + n : w[a + j] = y[j]
      /\ \A j \in 1 .. 8 : y[j] = LeBytes(n)[j]
      /\ \A j \in 1 .. n : y[8 + j] = in[j]
      /\ \A j \in 1 .. 8 : z[j] = LeBytes(m)[j]
      /\ \A j \in 1 .. m : z[8 + j] = out[j]
      /\ a \in Nat /\ n \in Nat /\ m \in Nat
  BY <1>1, <1>2, <1>3, <1>5, <1>6 DEF H, in, out
<1>n. a \in Nat /\ n \in Nat /\ m \in Nat
  BY <1>7
<1>z. \A j \in 1 .. 8 + m : H[(a + (8 + n)) + j] = z[j]
  BY <1>7, Zenon
<1>y. /\ \A j \in 1 .. 8 : y[j] = LeBytes(n)[j]
      /\ \A j \in 1 .. 8 : z[j] = LeBytes(m)[j]
  BY <1>7, Zenon
<1>9. \A j \in 1 .. 8 + n : H[a + j] = y[j]
  <2> SUFFICES ASSUME NEW j \in 1 .. 8 + n PROVE H[a + j] = y[j]
    OBVIOUS
  <2>1. a + j \in 1 .. a + (8 + n)
    BY <1>n
  <2> QED
    BY <2>1, <1>7, Zenon
<1>10. \A j \in 1 .. a : H[j] = x[j]
  <2> SUFFICES ASSUME NEW j \in 1 .. a PROVE H[j] = x[j]
    OBVIOUS
  <2>1. j \in 1 .. a + (8 + n)
    BY <1>n
  <2> QED
    BY <2>1, <1>7, Zenon
<1>11. \A j \in 1 .. 8 : H[a + j] = LeBytes(n)[j]
  <2>1. \A j \in 1 .. 8 : j \in 1 .. 8 + n
    BY <1>n
  <2> QED
    BY <2>1, <1>y, <1>9, Zenon
<1>12. ASSUME NEW j \in 1 .. n PROVE H[a + 8 + j] = in[j]
  <2>1. 8 + j \in 1 .. 8 + n /\ a + (8 + j) = a + 8 + j
    BY <1>n
  <2>2. H[a + (8 + j)] = y[8 + j]
    BY <2>1, <1>9, Zenon
  <2> QED
    BY <2>1, <2>2, <1>7, Zenon
<1>13. ASSUME NEW j \in 1 .. 8 PROVE H[a + 8 + n + j] = LeBytes(m)[j]
  <2>1. j \in 1 .. 8 + m /\ (a + (8 + n)) + j = a + 8 + n + j
    BY <1>n
  <2>2. H[(a + (8 + n)) + j] = z[j]
    BY <2>1, <1>z, Zenon
  <2> QED
    BY <2>1, <2>2, <1>y, Zenon
<1>14. ASSUME NEW j \in 1 .. m PROVE H[a + 16 + n + j] = out[j]
  <2>1. 8 + j \in 1 .. 8 + m /\ (a + (8 + n)) + (8 + j) = a + 16 + n + j
    BY <1>n
  <2>2. H[(a + (8 + n)) + (8 + j)] = z[8 + j]
    BY <2>1, <1>7, Zenon
  <2> QED
    BY <2>1, <2>2, <1>7, Zenon
<1>15. (a + (8 + n)) + (8 + m) = a + n + m + 16
  BY <1>n
<1> QED
  BY <1>6, <1>7, <1>10, <1>11, <1>12, <1>13, <1>14, <1>15, Zenon
  DEF H, in, out, x, a, n, m, Laid

(* The bytes of a file behind place o, with the parts of test t.            *)
Reads(F, o, t, a, n, m) ==
  /\ a \in Nat /\ n \in Nat /\ m \in Nat
  /\ \A j \in 1 .. a : F[o + j] = t.name[j]
  /\ \A j \in 1 .. 8 : F[o + (a + j)] = LeBytes(n)[j]
  /\ \A j \in 1 .. n : F[o + (a + 8 + j)] = t.input[j]
  /\ \A j \in 1 .. 8 : F[o + (a + 8 + n + j)] = LeBytes(m)[j]
  /\ \A j \in 1 .. m : F[o + (a + 16 + n + j)] = t.expected[j]

LEMMA LaidReads ==
  ASSUME NEW F, NEW o, NEW b, NEW t, NEW a, NEW n, NEW m, Laid(b, t, a, n, m),
         \A j \in 1 .. Len(b) : F[o + j] = b[j]
  PROVE  Reads(F, o, t, a, n, m)
<1> DEFINE l == a + n + m + 16
<1>1. a \in Nat /\ n \in Nat /\ m \in Nat /\ Len(b) = l
  BY DEF Laid
<1>2. \A j \in 1 .. l : F[o + j] = b[j]
  BY <1>1
<1>3. /\ \A j \in 1 .. a : j \in 1 .. l
      /\ \A j \in 1 .. 8 : a + j \in 1 .. l
      /\ \A j \in 1 .. n : a + 8 + j \in 1 .. l
      /\ \A j \in 1 .. 8 : a + 8 + n + j \in 1 .. l
      /\ \A j \in 1 .. m : a + 16 + n + j \in 1 .. l
  BY ONLY <1>1
<1> HIDE DEF l
<1>4. /\ \A j \in 1 .. a : b[j] = t.name[j]
      /\ \A j \in 1 .. 8 : b[a + j] = LeBytes(n)[j]
      /\ \A j \in 1 .. n : b[a + 8 + j] = t.input[j]
      /\ \A j \in 1 .. 8 : b[a + 8 + n + j] = LeBytes(m)[j]
      /\ \A j \in 1 .. m : b[a + 16 + n + j] = t.expected[j]
  BY Zenon DEF Laid
<1>5. \A j \in 1 .. a : F[o + j] = t.name[j]
  BY <1>2, <1>3, <1>4, Zenon
<1>7. \A j \in 1 .. 8 : F[o + (a + j)] = LeBytes(n)[j]
  <2>1. \A j \in 1 .. 8 : a + j \in 1 .. l
    BY <1>3, Zenon
  <2>2. \A j \in 1 .. 8 : b[a + j] = LeBytes(n)[j]
    BY <1>4, Zenon
  <2> QED
    BY <2>1, <2>2, <1>2, Zenon
<1>8. \A j \in 1 .. n : F[o + (a + 8 + j)] = t.input[j]
  BY <1>2, <1>3, <1>4, Zenon
<1>9. \A j \in 1 .. 8 : F[o + (a + 8 + n + j)] = LeBytes(m)[j]
  <2>1. \A j \in 1 .. 8 : b[a + 8 + n + j] = LeBytes(m)[j]
    BY <1>4, Zenon
  <2>2. \A j \in 1 .. 8 : a + 8 + n + j \in 1 .. l
    BY <1>3, Zenon
  <2> QED
    BY <2>1, <2>2, <1>2, Zenon
<1>10. \A j \in 1 .. m : F[o + (a + 16 + n + j)] = t.expected[j]
  BY <1>2, <1>3, <1>4, Zenon
<1> QED
  BY <1>1, <1>5, <1>7, <1>8, <1>9, <1>10, Zenon DEF Reads

(* The version has no length in front of a name.  File names have no NUL;   *)
(* an input that starts with one can be mistaken for the end of a length.   *)
Unambiguous(t) ==
  /\ \A j \in 1 .. Len(t.name) : t.name[j] # 0
  /\ t.input # <<>> => t.input[1] # 0

(* Two names that start at the same place end at the same place.            *)
LEMMA NamesEnd ==
  ASSUME NEW F, NEW o, NEW t \in HashedTest, NEW u \in HashedTest,
         NEW a, NEW n, NEW m, NEW c, NEW k, NEW l,
         Reads(F, o, t, a, n, m), Reads(F, o, u, c, k, l),
         a = Len(t.name), n = Len(t.input), c = Len(u.name),
         Unambiguous(t), Unambiguous(u)
  PROVE  ~(a < c)
<1> SUFFICES ASSUME a < c PROVE FALSE
  OBVIOUS
<1>1. a \in Nat /\ n \in Nat /\ c \in Nat /\ k \in Nat
  BY DEF Reads
<1>2. \A j \in 1 .. c : F[o + j] # 0
  <2>1. \A j \in 1 .. c : F[o + j] = u.name[j]
    BY Zenon DEF Reads
  <2>2. \A j \in 1 .. c : u.name[j] # 0
    BY Zenon DEF Unambiguous
  <2> QED
    BY <2>1, <2>2, Zenon
<1>3. \A j \in 5 .. 8 : F[o + (a + j)] = 0 /\ F[o + (c + j)] = 0
  <2>1. \A j \in 5 .. 8 : LeBytes(n)[j] = 0 /\ LeBytes(k)[j] = 0
    BY <1>1, LeBytesAre
  <2>2. \A j \in 5 .. 8 : j \in 1 .. 8
    OBVIOUS
  <2>3. /\ \A j \in 1 .. 8 : F[o + (a + j)] = LeBytes(n)[j]
        /\ \A j \in 1 .. 8 : F[o + (c + j)] = LeBytes(k)[j]
    BY Zenon DEF Reads
  <2> QED
    BY <2>1, <2>2, <2>3, Zenon
<1>4. F[o + (a + 1)] = LeBytes(n)[1]
  <2>1. 1 \in 1 .. 8
    OBVIOUS
  <2> QED
    BY <2>1, Zenon DEF Reads
<1>5. n # 0
  <2> SUFFICES ASSUME n = 0 PROVE FALSE
    OBVIOUS
  <2>1. F[o + (a + 1)] = 0
    <3>1. LeBytes(n)[1] = 0
      BY <1>1, LeBytesAre
    <3> QED
      BY <3>1, <1>4, Zenon
  <2>2. a + 1 \in 1 .. c
    BY <1>1
  <2> QED
    BY <1>2, <2>1, <2>2
<1>6. F[o + (a + 9)] # 0
  <2>1. t.input # <<>>
    BY <1>5, EmptySeq DEF HashedTest, Text
  <2>2. t.input[1] # 0
    BY <2>1 DEF Unambiguous
  <2>3. 1 \in 1 .. n /\ a + 8 + 1 = a + 9
    BY <1>1, <1>5
  <2>4. F[o + (a + 8 + 1)] = t.input[1]
    BY <2>3, Zenon DEF Reads
  <2> QED
    BY <2>2, <2>3, <2>4, Zenon
<1>7. c <= a + 4
  <2> SUFFICES ASSUME c >= a + 5 PROVE FALSE
    BY <1>1
  <2>1. a + 5 \in 1 .. c /\ 5 \in 5 .. 8
    BY <1>1
  <2> QED
    BY <2>1, <1>2, <1>3, Zenon
<1>8. PICK j \in 5 .. 8 : c + j = a + 9
  <2>1. (a + 9) - c \in 5 .. 8 /\ c + ((a + 9) - c) = a + 9
    BY <1>1, <1>7, SMTT(60)
  <2> QED
    BY <2>1, Zenon
<1>9. F[o + (c + j)] = 0
  BY <1>3, <1>8, Zenon
<1> QED
  BY <1>6, <1>8, <1>9, Zenon

(* Two tests that are read at the same place are the same.                  *)
LEMMA SameTest ==
  ASSUME NEW F, NEW o, NEW t \in HashedTest, NEW u \in HashedTest,
         Reads(F, o, t, Len(t.name), Len(t.input), Len(t.expected)),
         Reads(F, o, u, Len(u.name), Len(u.input), Len(u.expected)),
         Unambiguous(t), Unambiguous(u)
  PROVE  t = u
<1> DEFINE a == Len(t.name)
           n == Len(t.input)
           m == Len(t.expected)
           c == Len(u.name)
           k == Len(u.input)
           l == Len(u.expected)
<1>0. /\ t.name \in Seq(Byte) /\ t.input \in Seq(Byte) /\ t.expected \in Seq(Byte)
      /\ u.name \in Seq(Byte) /\ u.input \in Seq(Byte) /\ u.expected \in Seq(Byte)
  BY DEF HashedTest, Text
<1>1. a \in Nat /\ n \in Nat /\ m \in Nat /\ c \in Nat /\ k \in Nat /\ l \in Nat
  BY DEF Reads
<1>2. a = c
  <2>1. ~(a < c) /\ ~(c < a)
    BY NamesEnd
  <2> HIDE DEF a, c
  <2> QED
    BY <2>1, <1>1
<1>3. t.name = u.name
  <2>1. \A j \in 1 .. a : t.name[j] = u.name[j]
    BY <1>2 DEF Reads
  <2> QED
    BY <2>1, <1>0, <1>2, SeqEqual
<1>4. n = k
  <2>1. /\ \A j \in 1 .. 8 : F[o + (a + j)] = LeBytes(n)[j]
        /\ \A j \in 1 .. 8 : F[o + (c + j)] = LeBytes(k)[j]
    BY Zenon DEF Reads
  <2> HIDE DEF a, n, c, k
  <2>2. \A j \in 1 .. 8 : LeBytes(n)[j] = LeBytes(k)[j]
    BY <2>1, <1>2, Zenon
  <2> QED
    BY ONLY <2>2, <1>1, LeBytesInjective
<1>5. t.input = u.input
  <2>1. \A j \in 1 .. n : t.input[j] = u.input[j]
    <3>1. \A j \in 1 .. n : F[o + (a + 8 + j)] = t.input[j]
      BY Zenon DEF Reads
    <3>2. \A j \in 1 .. k : F[o + (c + 8 + j)] = u.input[j]
      BY Zenon DEF Reads
    <3> HIDE DEF a, n, c, k
    <3> QED
      BY <3>1, <3>2, <1>2, <1>4, Zenon
  <2> QED
    BY <2>1, <1>0, <1>4, SeqEqual
<1>6. m = l
  <2>1. /\ \A j \in 1 .. 8 : F[o + (a + 8 + n + j)] = LeBytes(m)[j]
        /\ \A j \in 1 .. 8 : F[o + (c + 8 + k + j)] = LeBytes(l)[j]
    BY Zenon DEF Reads
  <2> HIDE DEF a, n, c, k, m, l
  <2>2. \A j \in 1 .. 8 : LeBytes(m)[j] = LeBytes(l)[j]
    BY <2>1, <1>2, <1>4, Zenon
  <2> QED
    BY ONLY <2>2, <1>1, LeBytesInjective
<1>7. t.expected = u.expected
  <2>1. \A j \in 1 .. m : t.expected[j] = u.expected[j]
    <3>1. \A j \in 1 .. m : F[o + (a + 16 + n + j)] = t.expected[j]
      BY Zenon DEF Reads
    <3>2. \A j \in 1 .. l : F[o + (c + 16 + k + j)] = u.expected[j]
      BY Zenon DEF Reads
    <3> HIDE DEF a, n, c, k, m, l
    <3> QED
      BY <3>1, <3>2, <1>2, <1>4, <1>6, Zenon
  <2> QED
    BY <2>1, <1>0, <1>6, SeqEqual
<1> QED
  BY <1>3, <1>5, <1>7 DEF HashedTest

HashedAll(ts) == [i \in DOMAIN ts |-> Hashed(ts[i])]

LEMMA HashedAllType ==
  ASSUME NEW ts \in Seq(HashedTest)
  PROVE  /\ Len(ts) \in Nat /\ DOMAIN ts = 1 .. Len(ts)
         /\ HashedAll(ts) \in Seq(Seq(Nat)) /\ Len(HashedAll(ts)) = Len(ts)
         /\ \A i \in 1 .. Len(ts) : /\ ts[i] \in HashedTest
                                     /\ HashedAll(ts)[i] = Hashed(ts[i])
                                     /\ Hashed(ts[i]) \in Seq(Nat)
                                     /\ Len(Hashed(ts[i])) \in Nat /\ Len(Hashed(ts[i])) > 0
<1> DEFINE N == Len(ts)
<1>1. N \in Nat /\ DOMAIN ts = 1 .. N /\ \A i \in 1 .. N : ts[i] \in HashedTest
  BY LenProperties, ElementOfSeq
<1>2. ASSUME NEW i \in 1 .. N
      PROVE  /\ Hashed(ts[i]) \in Seq(Nat)
             /\ Len(Hashed(ts[i])) \in Nat /\ Len(Hashed(ts[i])) > 0
  <2>1. Laid(Hashed(ts[i]), ts[i], Len(ts[i].name), Len(ts[i].input), Len(ts[i].expected))
    BY <1>1, HashedBytes
  <2> DEFINE a == Len(ts[i].name)
             n == Len(ts[i].input)
             m == Len(ts[i].expected)
             l == Len(Hashed(ts[i]))
  <2>2. a \in Nat /\ n \in Nat /\ m \in Nat /\ l = a + n + m + 16
    BY <2>1, Zenon DEF Laid
  <2>3. Hashed(ts[i]) \in Seq(Nat)
    BY <2>1, Zenon DEF Laid
  <2> HIDE DEF a, n, m, l
  <2>4. l \in Nat /\ l > 0
    BY ONLY <2>2
  <2> QED
    BY <2>3, <2>4 DEF l
<1>3. HashedAll(ts) = [i \in 1 .. N |-> Hashed(ts[i])]
  BY <1>1, Zenon DEF HashedAll
<1> HIDE DEF N
<1>4. HashedAll(ts) \in [1 .. N -> Seq(Nat)] /\ \A i \in 1 .. N : HashedAll(ts)[i] = Hashed(ts[i])
  BY <1>2, <1>3, Zenon
<1>5. HashedAll(ts) \in Seq(Seq(Nat)) /\ Len(HashedAll(ts)) = N
  <2> DEFINE X == Seq(Nat)
             h == HashedAll(ts)
  <2>1. h \in [1 .. N -> X]
    BY <1>4
  <2> HIDE DEF X, h
  <2>2. h \in Seq(X) /\ Len(h) = N
    BY <2>1, <1>1, SeqDef
  <2> QED
    BY <2>2 DEF X, h
<1> QED
  BY <1>1, <1>2, <1>4, <1>5, Zenon DEF N

(* Bytes that two lists of tests share are read as the same tests.          *)
LEMMA SamePrefixTests ==
  ASSUME NEW ts \in Seq(HashedTest), NEW us \in Seq(HashedTest),
         \A i \in DOMAIN ts : Unambiguous(ts[i]), \A i \in DOMAIN us : Unambiguous(us[i]),
         FlattenSeq(HashedAll(ts)) = FlattenSeq(HashedAll(us))
  PROVE  Len(ts) <= Len(us) /\ \A i \in 1 .. Len(ts) : ts[i] = us[i]
<1> DEFINE xs == HashedAll(ts)
           ys == HashedAll(us)
           N  == Len(ts)
           M  == Len(us)
<1>1. PICK f : Joins(f, xs, Nat) /\ FlattenSeq(xs) = f[Len(xs)]
  BY HashedAllType, FlattenSteps
<1>2. PICK g : Joins(g, ys, Nat) /\ FlattenSeq(ys) = g[Len(ys)]
  BY HashedAllType, FlattenSteps
<1>3. /\ N \in Nat /\ Len(xs) = N /\ xs \in Seq(Seq(Nat)) /\ DOMAIN ts = 1 .. N
      /\ M \in Nat /\ Len(ys) = M /\ ys \in Seq(Seq(Nat)) /\ DOMAIN us = 1 .. M
  BY HashedAllType
<1>4. /\ \A i \in 1 .. N : ts[i] \in HashedTest /\ xs[i] = Hashed(ts[i])
      /\ \A i \in 1 .. M : us[i] \in HashedTest /\ ys[i] = Hashed(us[i])
      /\ \A i \in 1 .. N : Len(xs[i]) > 0
  BY HashedAllType
<1> DEFINE F == f[N]
           fl(n) == Len(f[n])
           gl(n) == Len(g[n])
           xl(n) == Len(xs[n])
           yl(n) == Len(ys[n])
<1>5. F = g[M]
  BY <1>1, <1>2, <1>3
<1> HIDE DEF N, M, xs, ys
<1>6. /\ \A n \in 0 .. N : fl(n) \in Nat
      /\ fl(0) = 0
      /\ \A n \in 1 .. N :
            /\ xl(n) \in Nat
            /\ fl(n) = fl(n - 1) + xl(n)
            /\ fl(n) <= fl(N)
            /\ \A j \in 1 .. xl(n) : F[fl(n - 1) + j] = xs[n][j]
  <2>1. /\ \A n \in 0 .. Len(xs) : Len(f[n]) \in Nat
        /\ Len(f[0]) = 0
        /\ \A n \in 1 .. Len(xs) :
              /\ Len(xs[n]) \in Nat
              /\ Len(f[n]) = Len(f[n - 1]) + Len(xs[n])
              /\ Len(f[n]) <= Len(f[Len(xs)])
              /\ \A j \in 1 .. Len(xs[n]) : f[Len(xs)][Len(f[n - 1]) + j] = xs[n][j]
    <3>1. Places(f, xs, Nat)
      BY <1>1, <1>3, FlattenPlaces
    <3> QED
      BY ONLY <3>1, Zenon DEF Places
  <2> QED
    BY <2>1, <1>3, Zenon
<1>7. /\ \A n \in 0 .. M : gl(n) \in Nat
      /\ gl(0) = 0
      /\ \A n \in 1 .. M :
            /\ yl(n) \in Nat
            /\ gl(n) = gl(n - 1) + yl(n)
            /\ \A j \in 1 .. yl(n) : F[gl(n - 1) + j] = ys[n][j]
  <2>1. /\ \A n \in 0 .. Len(ys) : Len(g[n]) \in Nat
        /\ Len(g[0]) = 0
        /\ \A n \in 1 .. Len(ys) :
              /\ Len(ys[n]) \in Nat
              /\ Len(g[n]) = Len(g[n - 1]) + Len(ys[n])
              /\ \A j \in 1 .. Len(ys[n]) : g[Len(ys)][Len(g[n - 1]) + j] = ys[n][j]
    <3>1. Places(g, ys, Nat)
      BY <1>2, <1>3, FlattenPlaces
    <3> QED
      BY ONLY <3>1, Zenon DEF Places
  <2> HIDE DEF F
  <2> QED
    BY <2>1, <1>3, <1>5, Zenon
<1>8. fl(N) = gl(M)
  BY <1>5
<1> DEFINE S == {n \in 0 .. N : n <= M /\ fl(n) = gl(n) /\ \A i \in 1 .. n : ts[i] = us[i]}
<1>9. 0 \in S
  <2> HIDE DEF fl, gl
  <2> QED
    BY <1>3, <1>6, <1>7
<1>10. ASSUME NEW n \in 1 .. N, n - 1 \in S PROVE n \in S
  <2>1. n - 1 <= M /\ fl(n - 1) = gl(n - 1) /\ \A i \in 1 .. n - 1 : ts[i] = us[i]
    BY <1>10
  <2>2. xl(n) > 0
    BY <1>4
  <2>3. n <= M
    <3> HIDE DEF fl, gl, xl, yl
    <3> SUFFICES ASSUME n - 1 = M PROVE FALSE
      BY <1>3, <2>1
    <3>1. fl(n - 1) = fl(N)
      BY <2>1, <1>8
    <3>2. /\ fl(n - 1) \in Nat /\ fl(n) = fl(n - 1) + xl(n)
          /\ fl(n) <= fl(N) /\ xl(n) \in Nat
      <4>1. n - 1 \in 0 .. N
        BY <1>3
      <4> QED
        BY <1>6, <4>1
    <3> QED
      BY <2>2, <3>1, <3>2
  <2>4. n \in 1 .. M
    BY <1>3, <2>3
  <2> DEFINE o == fl(n - 1)
  <2>5. /\ \A j \in 1 .. Len(xs[n]) : F[o + j] = xs[n][j]
        /\ \A j \in 1 .. Len(ys[n]) : F[o + j] = ys[n][j]
    <3> HIDE DEF F
    <3>1. \A j \in 1 .. xl(n) : F[fl(n - 1) + j] = xs[n][j]
      BY <1>6, Zenon
    <3>2. \A j \in 1 .. yl(n) : F[gl(n - 1) + j] = ys[n][j]
      BY <1>7, <2>4, Zenon
    <3>3. gl(n - 1) = o
      BY <2>1
    <3> QED
      BY <3>1, <3>2, <3>3, Zenon
  <2> HIDE DEF o, F
  <2>6. ts[n] = us[n]
    <3> DEFINE t == ts[n]
               u == us[n]
    <3>1. t \in HashedTest /\ u \in HashedTest /\ xs[n] = Hashed(t) /\ ys[n] = Hashed(u)
      BY <1>4, <2>4
    <3>2. Unambiguous(t) /\ Unambiguous(u)
      BY <1>3, <2>4
    <3> HIDE DEF t, u
    <3>3. /\ Laid(Hashed(t), t, Len(t.name), Len(t.input), Len(t.expected))
          /\ Laid(Hashed(u), u, Len(u.name), Len(u.input), Len(u.expected))
      BY <3>1, HashedBytes
    <3>4. /\ \A j \in 1 .. Len(Hashed(t)) : F[o + j] = Hashed(t)[j]
          /\ \A j \in 1 .. Len(Hashed(u)) : F[o + j] = Hashed(u)[j]
      BY <2>5, <3>1, Zenon
    <3>5. /\ Reads(F, o, t, Len(t.name), Len(t.input), Len(t.expected))
          /\ Reads(F, o, u, Len(u.name), Len(u.input), Len(u.expected))
      BY <3>3, <3>4, LaidReads
    <3>6. t = u
      BY <3>1, <3>2, <3>5, SameTest
    <3> QED
      BY <3>6 DEF t, u
  <2>7. fl(n) = gl(n)
    <3>1. xl(n) = yl(n)
      BY <1>4, <2>4, <2>6
    <3> HIDE DEF fl, gl, xl, yl
    <3>2. fl(n) = fl(n - 1) + xl(n) /\ gl(n) = gl(n - 1) + yl(n)
      BY <1>6, <1>7, <2>4
    <3> QED
      BY <2>1, <3>1, <3>2
  <2>8. \A i \in 1 .. n : ts[i] = us[i]
    <3>1. \A i \in 1 .. n : i = n \/ i \in 1 .. n - 1
      BY <1>3
    <3> QED
      BY <2>1, <2>6, <3>1
  <2> HIDE DEF fl, gl
  <2> QED
    BY <1>3, <2>3, <2>7, <2>8
<1> HIDE DEF S
<1>11. 0 .. N \subseteq S
  BY <1>3, <1>9, <1>10, BoundedInduction
<1>12. N \in S
  BY <1>3, <1>11
<1>13. N <= M /\ \A i \in 1 .. N : ts[i] = us[i]
  BY <1>12 DEF S
<1> QED
  BY <1>13 DEF N, M

(* The hashed bytes tell all lists of tests apart.                          *)
LEMMA SameBytesSameTests ==
  ASSUME NEW ts \in Seq(HashedTest), NEW us \in Seq(HashedTest),
         \A i \in DOMAIN ts : Unambiguous(ts[i]), \A i \in DOMAIN us : Unambiguous(us[i]),
         FlattenSeq(HashedAll(ts)) = FlattenSeq(HashedAll(us))
  PROVE  ts = us
<1>1. Len(ts) <= Len(us) /\ \A i \in 1 .. Len(ts) : ts[i] = us[i]
  BY SamePrefixTests
<1>2. Len(us) <= Len(ts)
  BY SamePrefixTests
<1>3. Len(ts) \in Nat /\ Len(us) \in Nat
  BY LenProperties
<1>4. Len(ts) = Len(us)
  BY ONLY <1>1, <1>2, <1>3
<1> QED
  BY <1>1, <1>4, SeqEqual

(* Every test of a directory can be told from what follows its name.        *)
UnambiguousTests(dir) ==
  \A name \in DOMAIN dir.tests :
     /\ \A j \in 1 .. Len(name) : name[j] # 0
     /\ dir.tests[name].in # <<>> => dir.tests[name].in[1] # 0

(* Problems of the same version have the same tests, limits and comparer.   *)
LEMMA VersionIsInjective ==
  ASSUME NEW d, IsDirectory(d), Load(d) # NULL, UnambiguousTests(d),
         NEW e, IsDirectory(e), Load(e) # NULL, UnambiguousTests(e),
         Version(d) = Version(e)
  PROVE  TestCases(d) = TestCases(e) /\ d.limits = e.limits /\ d.comparer = e.comparer
<1>1. ASSUME NEW dir, IsDirectory(dir), Load(dir) # NULL, UnambiguousTests(dir)
      PROVE  /\ TestCases(dir) \in Seq(HashedTest)
             /\ \A i \in DOMAIN TestCases(dir) : Unambiguous(TestCases(dir)[i])
             /\ Version(dir) = << <<dir.limits, dir.comparer>>, FlattenSeq(HashedAll(TestCases(dir))) >>
  <2> DEFINE ts == TestCases(dir)
             C  == [name : DOMAIN dir.tests, input : Text, expected : Text]
             names == InOrder(DOMAIN dir.tests)
  <2>1. ts \in Seq(C)
    BY <1>1, LoadedProblem
  <2>2. C \subseteq HashedTest
    BY <1>1 DEF IsDirectory, HashedTest
  <2>3. ts \in Seq(HashedTest)
    BY <2>1, <2>2, SeqMonotonic
  <2>4. DOMAIN ts = 1 .. Len(ts) /\ \A i \in DOMAIN ts : ts[i] \in C
    BY <2>1, LenProperties, ElementOfSeq
  <2>5. \A i \in DOMAIN ts : ts[i].name \in DOMAIN dir.tests
    BY <2>4
  <2>6. \A i \in DOMAIN ts : ts[i].input = dir.tests[ts[i].name].in
    BY DEF TestCases
  <2>7. \A i \in DOMAIN ts : Unambiguous(ts[i])
    <3> HIDE DEF ts
    <3> QED
      BY <1>1, <2>5, <2>6 DEF UnambiguousTests, Unambiguous
  <2>8. Version(dir) = << <<dir.limits, dir.comparer>>, FlattenSeq(HashedAll(ts)) >>
    BY DEF Version, HashedAll, Hashed
  <2> QED
    BY <2>3, <2>7, <2>8
<1> DEFINE bd == FlattenSeq(HashedAll(TestCases(d)))
           be == FlattenSeq(HashedAll(TestCases(e)))
<1>2. bd = be /\ d.limits = e.limits /\ d.comparer = e.comparer
  <2>1. /\ Version(d) = << <<d.limits, d.comparer>>, bd >>
        /\ Version(e) = << <<e.limits, e.comparer>>, be >>
    BY <1>1
  <2> DEFINE dl == d.limits
             dc == d.comparer
             el == e.limits
             ec == e.comparer
  <2>2. << <<dl, dc>>, bd >> = << <<el, ec>>, be >>
    BY <2>1, Zenon
  <2> HIDE DEF bd, be, dl, dc, el, ec
  <2>3. dl = el /\ dc = ec /\ bd = be
    BY ONLY <2>2
  <2> QED
    BY <2>3 DEF dl, dc, el, ec
<1>3. TestCases(d) = TestCases(e)
  <2>1. /\ TestCases(d) \in Seq(HashedTest)
        /\ \A i \in DOMAIN TestCases(d) : Unambiguous(TestCases(d)[i])
    BY <1>1
  <2>2. /\ TestCases(e) \in Seq(HashedTest)
        /\ \A i \in DOMAIN TestCases(e) : Unambiguous(TestCases(e)[i])
    BY <1>1
  <2> QED
    BY <2>1, <2>2, <1>2, SameBytesSameTests
<1> QED
  BY <1>2, <1>3
-----------------------------------------------------------------------------
LEMMA MinOfTwo ==
  ASSUME NEW a \in Int, NEW b \in Int
  PROVE  Min({a, b}) = IF a <= b THEN a ELSE b
<1>1. \E x \in {a, b} : \A y \in {a, b} : x <= y
  OBVIOUS
<1>2. Min({a, b}) \in {a, b} /\ \A y \in {a, b} : Min({a, b}) <= y
  BY <1>1 DEF Min
<1> QED
  BY <1>2

(* read_capped keeps all of an output that fits, and notices one that does   *)
(* not, however it was read.                                                 *)
LEMMA ReadCappedIs ==
  ASSUME NEW chunks \in Seq(Text), NEW cap \in Nat
  PROVE  LET whole == FlattenSeq(chunks)
             read  == ReadCapped(chunks, cap)
         IN  /\ whole \in Text /\ Len(whole) \in Nat
             /\ read.truncated <=> Len(whole) > cap
             /\ ~read.truncated => read.kept = whole
<1> DEFINE N     == Len(chunks)
           R     == [kept : Text, truncated : BOOLEAN]
           none  == [kept |-> <<>>, truncated |-> FALSE]
           room(r) == cap - Len(r.kept)
           add(n, r) ==
             [kept      |-> r.kept \o SubSeq(chunks[n], 1, Min({Len(chunks[n]), room(r)})),
              truncated |-> r.truncated \/ Overflows(chunks[n], room(r))]
           Q(g)  == g = [n \in 0 .. N |-> IF n = 0 THEN none ELSE add(n, g[n - 1])]
           h     == CHOOSE g : Q(g)
           step  == [p \in (1 .. N) \X R |-> add(p[1], p[2])]
<1>1. ReadCapped(chunks, cap) = h[N]
  BY Zenon DEF ReadCapped
<1>2. /\ N \in Nat /\ none \in R
      /\ \A n \in 1 .. N : chunks[n] \in Text /\ Len(chunks[n]) \in Nat
  BY LenProperties, ElementOfSeq, EmptySeq DEF Text
<1>3. ASSUME NEW n \in 1 .. N, NEW r \in R PROVE add(n, r) \in R
  <2> DEFINE c == chunks[n]
             k == room(r)
             m == Min({Len(c), k})
  <2>1. Len(r.kept) \in Nat /\ Len(c) \in Nat /\ c \in Seq(Byte) /\ r.kept \in Seq(Byte)
    BY <1>2, LenProperties DEF Text
  <2>2. m \in Int /\ m <= Len(c)
    <3>1. k \in Int
      BY <2>1
    <3>2. Len(c) \in Int
      BY <2>1
    <3> HIDE DEF k, c
    <3>3. \A i, j \in Int : Min({i, j}) = IF i <= j THEN i ELSE j
      BY MinOfTwo
    <3>4. m = IF Len(c) <= k THEN Len(c) ELSE k
      BY <3>1, <3>2, <3>3
    <3> HIDE DEF m
    <3> QED
      BY <3>1, <3>2, <3>4
  <2>3. SubSeq(c, 1, m) \in Seq(Byte)
    <3> HIDE DEF c, m
    <3>1. \A i \in 1 .. m : c[i] \in Byte
      BY <2>1, <2>2, ElementOfSeq
    <3> QED
      BY <3>1, <2>2, SubSeqProperties
  <2>4. r.kept \o SubSeq(c, 1, m) \in Text
    BY <2>1, <2>3, ConcatProperties DEF Text
  <2>5. Overflows(c, room(r)) \in BOOLEAN
    BY DEF Overflows
  <2> QED
    BY <2>4, <2>5
<1> HIDE DEF R, none, add
<1>4. step \in [(1 .. N) \X R -> R] /\ \A n \in 1 .. N, r \in R : step[<<n, r>>] = add(n, r)
  BY <1>3
<1> HIDE DEF step
<1>5. PICK g : Iterates(g, R, N, none, step)
  BY <1>2, <1>4, StepsDefine
<1>6. \A n \in 1 .. N : n - 1 \in 0 .. N /\ g[n - 1] \in R /\ g[n] = add(n, g[n - 1])
  <2>1. \A n \in 1 .. N : n - 1 \in 0 .. N
    BY <1>2
  <2> QED
    BY <2>1, <1>4, <1>5, Zenon DEF Iterates
<1>7. Q(g)
  BY <1>2, <1>5, <1>6 DEF Iterates
<1>8. Q(h)
  <2> HIDE DEF Q
  <2> QED
    BY <1>7
<1> HIDE DEF h
<1>9. h[0] = none /\ \A n \in 1 .. N : h[n] = add(n, h[n - 1])
  BY <1>2, <1>8
<1> HIDE DEF Q
<1>10. PICK f : Joins(f, chunks, Byte) /\ FlattenSeq(chunks) = f[N]
  BY FlattenSteps DEF Text
<1>11. /\ f[0] = <<>> /\ \A n \in 0 .. N : f[n] \in Seq(Byte) /\ Len(f[n]) \in Nat
       /\ \A n \in 1 .. N : f[n] = f[n - 1] \o chunks[n]
  BY <1>10, LenProperties DEF Joins
<1> DEFINE ReadsTo(n) == IF Len(f[n]) <= cap THEN h[n] = [kept |-> f[n], truncated |-> FALSE]
                         ELSE h[n].truncated
           S == {n \in 0 .. N : ReadsTo(n)}
<1>12. 0 \in S
  <2>1. f[0] = <<>> /\ Len(f[0]) = 0 /\ 0 <= cap
    BY <1>11, EmptySeq
  <2>2. h[0] = [kept |-> f[0], truncated |-> FALSE]
    BY <1>9, <2>1 DEF none
  <2>3. ReadsTo(0) /\ 0 \in 0 .. N
    BY <2>1, <2>2, <1>2
  <2> HIDE DEF ReadsTo
  <2> QED
    BY <2>3
<1>13. ASSUME NEW n \in 1 .. N, n - 1 \in S PROVE n \in S
  <2> DEFINE c == chunks[n]
             a == f[n - 1]
             r == h[n - 1]
             k == room(r)
             fits == [kept |-> a, truncated |-> FALSE]
  <2>0. n \in 0 .. N /\ n - 1 \in 0 .. N
    BY <1>2
  <2>1. /\ a \in Seq(Byte) /\ Len(a) \in Nat /\ c \in Seq(Byte) /\ Len(c) \in Nat
        /\ f[n] = a \o c
    BY <1>2, <1>11, <2>0 DEF Text
  <2> DEFINE t == r.truncated \/ Overflows(c, k)
  <2>h. h[n] = [kept |-> r.kept \o SubSeq(c, 1, Min({Len(c), k})), truncated |-> t]
    <3>1. h[n] = add(n, r)
      BY <1>9
    <3> HIDE DEF r
    <3> QED
      BY <3>1, Zenon DEF add
  <2>3. IF Len(a) <= cap THEN r = fits ELSE r.truncated
    BY <1>13
  <2>r. k = cap - Len(r.kept)
    OBVIOUS
  <2> HIDE DEF c, a, r, k, t
  <2>2. Len(a \o c) = Len(a) + Len(c)
    BY <2>1, ConcatProperties
  <2>4. CASE Len(a) + Len(c) <= cap
    <3>0. Len(a) <= cap
      BY <2>1, <2>4
    <3>1. r.kept = a /\ r.truncated = FALSE /\ k = cap - Len(a)
      BY <2>3, <2>r, <3>0
    <3>2. Len(c) <= k /\ k \in Int
      BY <2>1, <2>4, <3>1
    <3>3. Min({Len(c), k}) = Len(c) /\ ~Overflows(c, k)
      <4>1. Len(c) \in Int /\ ~(Len(c) > k)
        BY <2>1, <3>2
      <4>2. Min({Len(c), k}) = Len(c)
        BY <3>2, <4>1, MinOfTwo
      <4> QED
        BY <4>1, <4>2 DEF Overflows
    <3>4. SubSeq(c, 1, Len(c)) = c
      BY <2>1, SubSeqFull
    <3>5. t = FALSE
      BY <3>1, <3>3, Zenon DEF t
    <3>6. h[n] = [kept |-> f[n], truncated |-> FALSE]
      BY <2>h, <2>1, <3>1, <3>3, <3>4, <3>5, Zenon
    <3> QED
      BY <3>6, <2>0, <2>1, <2>2, <2>4
  <2>5. CASE ~(Len(a) + Len(c) <= cap)
    <3>1. r.truncated \/ Overflows(c, k)
      <4>1. CASE Len(a) <= cap
        <5>1. r.kept = a
          BY <2>3, <4>1
        <5>2. Len(c) > k
          BY <2>1, <2>5, <2>r, <5>1
        <5> QED
          BY <5>2 DEF Overflows
      <4> QED
        BY <2>3, <4>1
    <3>2. h[n].truncated
      <4>1. t = TRUE
        BY <3>1, Zenon DEF t
      <4> QED
        BY <2>h, <4>1
    <3> QED
      BY <3>2, <2>0, <2>1, <2>2, <2>5
  <2> QED
    BY <2>4, <2>5
<1> HIDE DEF S
<1>14. N \in S
  <2>1. 0 .. N \subseteq S
    BY <1>2, <1>12, <1>13, BoundedInduction
  <2> QED
    BY <2>1, <1>2
<1>15. ReadsTo(N) /\ f[N] \in Text /\ Len(f[N]) \in Nat
  BY <1>14, <1>11, <1>2 DEF S, Text
<1> HIDE DEF N, room
<1>16. CASE Len(f[N]) <= cap
  <2>1. h[N] = [kept |-> f[N], truncated |-> FALSE]
    BY <1>15, <1>16
  <2> QED
    BY <2>1, <1>1, <1>10, <1>15, <1>16
<1>17. CASE ~(Len(f[N]) <= cap)
  BY <1>17, <1>1, <1>10, <1>15
<1> QED
  BY <1>16, <1>17
-----------------------------------------------------------------------------
(* One element in front of a sequence.                                      *)
LEMMA ConsIs ==
  ASSUME NEW T, NEW x \in T, NEW s \in Seq(T)
  PROVE  /\ Cons(x, s) \in Seq(T) /\ Cons(x, s) # <<>>
         /\ Len(s) \in Nat /\ Len(Cons(x, s)) = Len(s) + 1 /\ Cons(x, s)[1] = x
         /\ \A i \in 1 .. Len(s) : Cons(x, s)[i + 1] = s[i]
         /\ Head(Cons(x, s)) = x /\ Tail(Cons(x, s)) = s
<1> DEFINE c == Cons(x, s)
<1>1. <<x>> \in Seq(T) /\ Len(<<x>>) = 1 /\ <<x>>[1] = x
  OBVIOUS
<1>2. /\ c \in Seq(T) /\ Len(s) \in Nat /\ Len(c) = 1 + Len(s)
      /\ c[1] = x /\ \A i \in 1 .. Len(s) : c[1 + i] = s[i]
  <2>1. c = <<x>> \o s
    BY DEF Cons
  <2>2. /\ <<x>> \o s \in Seq(T) /\ Len(s) \in Nat /\ Len(<<x>> \o s) = Len(<<x>>) + Len(s)
        /\ \A i \in 1 .. Len(<<x>>) : (<<x>> \o s)[i] = <<x>>[i]
        /\ \A i \in 1 .. Len(s) : (<<x>> \o s)[Len(<<x>>) + i] = s[i]
    BY <1>1, ConcatAt
  <2> HIDE DEF c
  <2>3. 1 \in 1 .. 1
    OBVIOUS
  <2> QED
    BY <1>1, <2>1, <2>2, <2>3, Zenon
<1> HIDE DEF c
<1>3. c # <<>>
  BY <1>2, EmptySeq
<1>4. Head(c) = x /\ Tail(c) \in Seq(T) /\ Len(Tail(c)) = Len(c) - 1
      /\ \A i \in 1 .. Len(Tail(c)) : Tail(c)[i] = c[i + 1]
  BY <1>2, <1>3, HeadTailProperties
<1>5. Tail(c) = s
  <2>1. Len(Tail(c)) = Len(s)
    BY <1>2, <1>4
  <2>2. \A i \in 1 .. Len(s) : Tail(c)[i] = s[i]
    BY <1>2, <1>4, <2>1
  <2> QED
    BY <1>4, <2>1, <2>2, SeqEqual
<1>6. Len(c) = Len(s) + 1 /\ \A i \in 1 .. Len(s) : c[i + 1] = s[i]
  BY <1>2
<1> QED
  BY <1>2, <1>3, <1>4, <1>5, <1>6 DEF c

(* The parts of it that are needed most.                                    *)
LEMMA ConsType ==
  ASSUME NEW T, NEW x \in T, NEW s \in Seq(T)
  PROVE  Cons(x, s) \in Seq(T)
BY ConsIs

LEMMA ConsNotEmpty ==
  ASSUME NEW T, NEW x \in T, NEW s \in Seq(T)
  PROVE  Cons(x, s) # <<>>
BY ConsIs

LEMMA ConsHead ==
  ASSUME NEW T, NEW x \in T, NEW s \in Seq(T)
  PROVE  Head(Cons(x, s)) = x
BY ConsIs

LEMMA ConsTail ==
  ASSUME NEW T, NEW x \in T, NEW s \in Seq(T)
  PROVE  Tail(Cons(x, s)) = s
BY ConsIs

LEMMA ConsIsInjective ==
  ASSUME NEW T, NEW x \in T, NEW y \in T, NEW s \in Seq(T), NEW t \in Seq(T)
  PROVE  Cons(x, s) = Cons(y, t) <=> x = y /\ s = t
<1>1. Head(Cons(x, s)) = x /\ Head(Cons(y, t)) = y
  BY ConsHead
<1>2. Tail(Cons(x, s)) = s /\ Tail(Cons(y, t)) = t
  BY ConsTail
<1> QED
  BY <1>1, <1>2

(* A sequence that looks like one.                                          *)
LEMMA ConsFound ==
  ASSUME NEW T, NEW h \in T, NEW t \in Seq(T), NEW s \in Seq(T),
         Len(s) = Len(t) + 1, s[1] = h, \A i \in 1 .. Len(t) : t[i] = s[i + 1]
  PROVE  s = Cons(h, t)
<1> DEFINE c == Cons(h, t)
<1>1. /\ c \in Seq(T) /\ Len(t) \in Nat /\ Len(c) = Len(t) + 1 /\ c[1] = h
      /\ \A i \in 1 .. Len(t) : c[i + 1] = t[i]
  BY ConsIs
<1> HIDE DEF c
<1>2. ASSUME NEW i \in 1 .. Len(c) PROVE c[i] = s[i]
  <2>1. CASE i = 1
    BY <2>1, <1>1
  <2>2. CASE i # 1
    <3> DEFINE j == i - 1
    <3>1. j \in 1 .. Len(t) /\ j + 1 = i
      BY <2>2, <1>1
    <3> HIDE DEF j
    <3> QED
      BY <3>1, <1>1
  <2> QED
    BY <2>1, <2>2
<1>3. Len(s) = Len(c)
  BY <1>1
<1> QED
  BY <1>1, <1>2, <1>3, SeqEqual DEF c

(* Every sequence but the empty one is made so.                              *)
LEMMA UnCons ==
  ASSUME NEW T, NEW s \in Seq(T), s # <<>>
  PROVE  Head(s) \in T /\ Tail(s) \in Seq(T) /\ s = Cons(Head(s), Tail(s))
<1>1. /\ Head(s) \in T /\ Tail(s) \in Seq(T) /\ Len(Tail(s)) = Len(s) - 1
      /\ \A i \in 1 .. Len(Tail(s)) : Tail(s)[i] = s[i + 1]
  BY HeadTailProperties
<1>2. Len(s) = Len(Tail(s)) + 1 /\ s[1] = Head(s)
  BY <1>1, LenProperties
<1>3. \A h \in T : \A t \in Seq(T) :
         Len(s) = Len(t) + 1 /\ s[1] = h /\ (\A i \in 1 .. Len(t) : t[i] = s[i + 1]) => s = Cons(h, t)
  BY ConsFound
<1> QED
  BY <1>1, <1>2, <1>3, Zenon

(* Split, byte by byte from the end: head[k] and tail[k] are the first of    *)
(* the parts of the last k bytes, and the others.                            *)
Splits(data, separators, head, tail) ==
  LET n == Len(data)
  IN  /\ n \in Nat
      /\ \A k \in 0 .. n : head[k] \in Text /\ tail[k] \in Seq(Text)
      /\ head[0] = <<>> /\ tail[0] = <<>>
      /\ \A k \in 1 .. n :
            IF data[n - k + 1] \in separators
            THEN head[k] = <<>> /\ tail[k] = Cons(head[k - 1], tail[k - 1])
            ELSE head[k] = Cons(data[n - k + 1], head[k - 1]) /\ tail[k] = tail[k - 1]

LEMMA SplitSteps ==
  ASSUME NEW data \in Text, NEW separators
  PROVE  \E head, tail : /\ Splits(data, separators, head, tail)
                         /\ Split(data, separators) = Cons(head[Len(data)], tail[Len(data)])
<1> DEFINE N     == Len(data)
           V     == Seq(Text) \ {<<>>}
           none  == << <<>> >>
           add(k, s) == IF data[N - k + 1] \in separators THEN Cons(<<>>, s)
                        ELSE Cons(Cons(data[N - k + 1], Head(s)), Tail(s))
           Q(g)  == g = [k \in 0 .. N |-> IF k = 0 THEN none ELSE add(k, g[k - 1])]
           h     == CHOOSE g : Q(g)
           step  == [p \in (1 .. N) \X V |-> add(p[1], p[2])]
<1>1. Split(data, separators) = h[N]
  BY Zenon DEF Split
<1>0. N \in Nat /\ \A i \in 1 .. N : data[i] \in Byte
  BY LenProperties, ElementOfSeq DEF Text
<1>2. <<>> \in Text /\ <<>> \in Seq(Text) /\ none = Cons(<<>>, <<>>) /\ none \in V
  <2>1. <<>> \in Text /\ <<>> \in Seq(Text)
    BY EmptySeq DEF Text
  <2>2. none \in Seq(Text) /\ none = none \o <<>>
    BY <2>1, ConcatEmptySeq
  <2>3. none = Cons(<<>>, <<>>)
    BY <2>2 DEF Cons
  <2>4. Cons(<<>>, <<>>) # <<>>
    BY <2>1, ConsNotEmpty
  <2> QED
    BY <2>1, <2>2, <2>3, <2>4
<1>b. \A k \in 1 .. N : N - k + 1 \in 1 .. N /\ data[N - k + 1] \in Byte
  BY <1>0
<1>3. ASSUME NEW k \in 1 .. N, NEW s \in V PROVE add(k, s) \in V
  <2>1. Head(s) \in Text /\ Tail(s) \in Seq(Text)
    BY HeadTailProperties
  <2>2. Cons(<<>>, s) \in V
    BY <1>2, ConsIs
  <2>3. Cons(data[N - k + 1], Head(s)) \in Text
    BY <1>b, <2>1, ConsIs DEF Text
  <2>4. Cons(Cons(data[N - k + 1], Head(s)), Tail(s)) \in V
    <3>1. Cons(Cons(data[N - k + 1], Head(s)), Tail(s)) \in Seq(Text)
      BY <2>1, <2>3, ConsType
    <3>2. Cons(Cons(data[N - k + 1], Head(s)), Tail(s)) # <<>>
      BY <2>1, <2>3, ConsNotEmpty
    <3> QED
      BY <3>1, <3>2
  <2> QED
    BY <2>2, <2>4
<1> HIDE DEF V, none, add
<1>4. step \in [(1 .. N) \X V -> V] /\ \A k \in 1 .. N, s \in V : step[<<k, s>>] = add(k, s)
  BY <1>3
<1> HIDE DEF step
<1>5. PICK g : Iterates(g, V, N, none, step)
  BY <1>0, <1>2, <1>4, StepsDefine
<1>6. \A k \in 1 .. N : k - 1 \in 0 .. N /\ g[k - 1] \in V /\ g[k] = add(k, g[k - 1])
  <2>1. \A k \in 1 .. N : k - 1 \in 0 .. N
    BY <1>0
  <2> QED
    BY <2>1, <1>4, <1>5, Zenon DEF Iterates
<1>7. Q(g)
  BY <1>0, <1>5, <1>6 DEF Iterates
<1>8. Q(h)
  <2> HIDE DEF Q
  <2> QED
    BY <1>7
<1> HIDE DEF h
<1>9. h[0] = none /\ \A k \in 1 .. N : h[k] = add(k, h[k - 1])
  BY <1>0, <1>8
<1> HIDE DEF Q
<1> DEFINE S == {k \in 0 .. N : h[k] \in V}
<1>10. 0 .. N \subseteq S
  <2>1. 0 \in S
    BY <1>0, <1>2, <1>9
  <2>2. \A k \in 1 .. N : k - 1 \in S => k \in S
    <3> SUFFICES ASSUME NEW k \in 1 .. N, k - 1 \in S PROVE k \in S
      OBVIOUS
    <3>1. k \in 0 .. N /\ h[k - 1] \in V /\ h[k] = add(k, h[k - 1])
      BY <1>0, <1>9
    <3> QED
      BY <3>1, <1>3
  <2> HIDE DEF S
  <2> QED
    BY <1>0, <2>1, <2>2, BoundedInduction
<1>11. \A k \in 0 .. N : h[k] \in Seq(Text) /\ h[k] # <<>>
  BY <1>10 DEF V
<1> DEFINE head == [k \in 0 .. N |-> Head(h[k])]
           tail == [k \in 0 .. N |-> Tail(h[k])]
<1>12. \A k \in 0 .. N : /\ head[k] \in Text /\ tail[k] \in Seq(Text)
                         /\ h[k] = Cons(head[k], tail[k])
                         /\ head[k] = Head(h[k]) /\ tail[k] = Tail(h[k])
  BY <1>11, UnCons
<1>13. head[0] = <<>> /\ tail[0] = <<>>
  <2>1. Head(Cons(<<>>, <<>>)) = <<>> /\ Tail(Cons(<<>>, <<>>)) = <<>>
    BY <1>2, ConsHead, ConsTail
  <2>2. 0 \in 0 .. N
    BY <1>0
  <2> QED
    BY <2>1, <2>2, <1>2, <1>9, <1>12
<1>14. ASSUME NEW k \in 1 .. N
       PROVE  IF data[N - k + 1] \in separators
              THEN head[k] = <<>> /\ tail[k] = Cons(head[k - 1], tail[k - 1])
              ELSE head[k] = Cons(data[N - k + 1], head[k - 1]) /\ tail[k] = tail[k - 1]
  <2>1. k \in 0 .. N /\ k - 1 \in 0 .. N
    BY <1>0
  <2> DEFINE b == data[N - k + 1]
             r == h[k - 1]
  <2>2. /\ h[k] = IF b \in separators THEN Cons(<<>>, r) ELSE Cons(Cons(b, Head(r)), Tail(r))
        /\ r = Cons(head[k - 1], tail[k - 1]) /\ head[k - 1] = Head(r) /\ tail[k - 1] = Tail(r)
        /\ head[k - 1] \in Text /\ tail[k - 1] \in Seq(Text) /\ r \in Seq(Text)
        /\ head[k] = Head(h[k]) /\ tail[k] = Tail(h[k]) /\ b \in Byte
    BY <2>1, <1>9, <1>11, <1>12, <1>b DEF add
  <2> HIDE DEF head, tail, r, b
  <2>3. Head(Cons(<<>>, r)) = <<>> /\ Tail(Cons(<<>>, r)) = r
    BY <2>2, <1>2, ConsHead, ConsTail
  <2>4. Cons(b, Head(r)) \in Text
    BY <2>2, ConsIs DEF Text
  <2>5. /\ Head(Cons(Cons(b, Head(r)), Tail(r))) = Cons(b, Head(r))
        /\ Tail(Cons(Cons(b, Head(r)), Tail(r))) = Tail(r)
    BY <2>2, <2>4, ConsHead, ConsTail
  <2>6. IF b \in separators THEN head[k] = <<>> /\ tail[k] = Cons(head[k - 1], tail[k - 1])
        ELSE head[k] = Cons(b, head[k - 1]) /\ tail[k] = tail[k - 1]
    BY <2>2, <2>3, <2>5
  <2> QED
    BY <2>6 DEF b
<1>15. N \in 0 .. N
  BY <1>0
<1>16. Split(data, separators) = Cons(head[N], tail[N])
  BY <1>1, <1>12, <1>15
<1> HIDE DEF head, tail
<1>17. \A k \in 0 .. N : head[k] \in Text /\ tail[k] \in Seq(Text)
  BY <1>12
<1>18. Splits(data, separators, head, tail)
  BY <1>0, <1>13, <1>14, <1>17 DEF Splits
<1> QED
  BY <1>16, <1>18

(* Subsequence, from the end: kept[k] is what is kept of the last k elements. *)
Keeps(s, places, kept, T) ==
  LET n == Len(s)
  IN  /\ n \in Nat
      /\ kept[0] = <<>> /\ \A k \in 0 .. n : kept[k] \in Seq(T)
      /\ \A k \in 1 .. n :
            kept[k] = IF n - k + 1 \in places THEN Cons(s[n - k + 1], kept[k - 1]) ELSE kept[k - 1]

LEMMA SubsequenceSteps ==
  ASSUME NEW T, NEW s \in Seq(T), NEW places
  PROVE  \E kept : Keeps(s, places, kept, T) /\ Subsequence(s, places) = kept[Len(s)]
<1> DEFINE N     == Len(s)
           V     == Seq(T)
           add(k, r) == IF N - k + 1 \in places THEN Cons(s[N - k + 1], r) ELSE r
           Q(g)  == g = [k \in 0 .. N |-> IF k = 0 THEN <<>> ELSE add(k, g[k - 1])]
           h     == CHOOSE g : Q(g)
           step  == [p \in (1 .. N) \X V |-> add(p[1], p[2])]
<1>1. Subsequence(s, places) = h[N]
  BY Zenon DEF Subsequence
<1>2. N \in Nat /\ <<>> \in V /\ \A k \in 1 .. N : s[N - k + 1] \in T
  <2>1. N \in Nat /\ \A i \in 1 .. N : s[i] \in T
    BY LenProperties, ElementOfSeq
  <2>2. \A k \in 1 .. N : N - k + 1 \in 1 .. N
    BY <2>1
  <2> QED
    BY <2>1, <2>2, EmptySeq
<1>3. ASSUME NEW k \in 1 .. N, NEW r \in V PROVE add(k, r) \in V
  BY <1>2, ConsType
<1> HIDE DEF V, add
<1>4. step \in [(1 .. N) \X V -> V] /\ \A k \in 1 .. N, r \in V : step[<<k, r>>] = add(k, r)
  BY <1>3
<1> HIDE DEF step
<1>5. PICK g : Iterates(g, V, N, <<>>, step)
  BY <1>2, <1>4, StepsDefine
<1>6. \A k \in 1 .. N : k - 1 \in 0 .. N /\ g[k - 1] \in V /\ g[k] = add(k, g[k - 1])
  <2>1. \A k \in 1 .. N : k - 1 \in 0 .. N
    BY <1>2
  <2> QED
    BY <2>1, <1>4, <1>5, Zenon DEF Iterates
<1>7. Q(g)
  BY <1>2, <1>5, <1>6 DEF Iterates
<1>8. Q(h)
  <2> HIDE DEF Q
  <2> QED
    BY <1>7
<1> HIDE DEF h
<1>9. h[0] = <<>> /\ \A k \in 1 .. N : h[k] = add(k, h[k - 1])
  BY <1>2, <1>8
<1> HIDE DEF Q
<1> DEFINE S == {k \in 0 .. N : h[k] \in V}
<1>10. 0 .. N \subseteq S
  <2>1. 0 \in S
    BY <1>2, <1>9
  <2>2. \A k \in 1 .. N : k - 1 \in S => k \in S
    <3> SUFFICES ASSUME NEW k \in 1 .. N, k - 1 \in S PROVE k \in S
      OBVIOUS
    <3>1. k \in 0 .. N /\ h[k - 1] \in V /\ h[k] = add(k, h[k - 1])
      BY <1>2, <1>9
    <3> QED
      BY <3>1, <1>3
  <2> HIDE DEF S
  <2> QED
    BY <1>2, <2>1, <2>2, BoundedInduction
<1>11. \A k \in 0 .. N : h[k] \in Seq(T)
  BY <1>10 DEF V
<1>12. \A k \in 1 .. N :
          h[k] = IF N - k + 1 \in places THEN Cons(s[N - k + 1], h[k - 1]) ELSE h[k - 1]
  BY <1>9, Zenon DEF add
<1>13. Keeps(s, places, h, T)
  BY <1>2, <1>9, <1>11, <1>12 DEF Keeps
<1> QED
  BY <1>1, <1>13

(* The nonempty elements.                                                   *)
NonEmpty(parts) == Subsequence(parts, {i \in DOMAIN parts : parts[i] # <<>>})

LEMMA NonEmptyOfNone == NonEmpty(<<>>) = <<>>
<1> DEFINE places == {i \in DOMAIN <<>> : <<>>[i] # <<>>}
<1>1. <<>> \in Seq({}) /\ Len(<<>>) = 0
  BY EmptySeq
<1>2. PICK kept : Keeps(<<>>, places, kept, {}) /\ Subsequence(<<>>, places) = kept[Len(<<>>)]
  BY <1>1, SubsequenceSteps
<1>3. Subsequence(<<>>, places) = kept[0] /\ kept[0] = <<>>
  BY <1>1, <1>2 DEF Keeps
<1> QED
  BY <1>3, Zenon DEF NonEmpty

LEMMA NonEmptyOfCons ==
  ASSUME NEW T, NEW x \in T, NEW s \in Seq(T)
  PROVE  /\ NonEmpty(s) \in Seq(T)
         /\ NonEmpty(Cons(x, s)) = IF x = <<>> THEN NonEmpty(s) ELSE Cons(x, NonEmpty(s))
<1> DEFINE c == Cons(x, s)
           n == Len(s)
           P(q) == {i \in DOMAIN q : q[i] # <<>>}
<1>1. /\ n \in Nat /\ DOMAIN s = 1 .. n
      /\ c \in Seq(T) /\ Len(c) = n + 1 /\ c[1] = x /\ \A i \in 1 .. n : c[i + 1] = s[i]
  BY ConsIs, LenProperties
<1>2. DOMAIN c = 1 .. n + 1
  <2> HIDE DEF c, n
  <2> QED
    BY <1>1, LenProperties
<1>3. PICK k1 : Keeps(s, P(s), k1, T) /\ Subsequence(s, P(s)) = k1[Len(s)]
  <2> HIDE DEF P
  <2> QED
    BY SubsequenceSteps
<1>4. PICK k2 : Keeps(c, P(c), k2, T) /\ Subsequence(c, P(c)) = k2[Len(c)]
  <2> HIDE DEF P, c
  <2> QED
    BY <1>1, SubsequenceSteps
<1>5. NonEmpty(s) = k1[n] /\ NonEmpty(c) = k2[n + 1]
  BY <1>1, <1>3, <1>4, Zenon DEF NonEmpty
<1>p. \A i \in 1 .. n : i \in P(s) <=> i + 1 \in P(c)
  <2> HIDE DEF c, n
  <2> QED
    BY <1>1, <1>2
<1>q. 1 \in P(c) <=> x # <<>>
  <2> HIDE DEF c, n
  <2> QED
    BY <1>1, <1>2
<1> HIDE DEF c, P
<1>6. /\ k1[0] = <<>> /\ k2[0] = <<>> /\ \A k \in 0 .. n : k1[k] \in Seq(T)
      /\ \A k \in 1 .. n : k1[k] = IF n - k + 1 \in P(s) THEN Cons(s[n - k + 1], k1[k - 1]) ELSE k1[k - 1]
      /\ \A k \in 1 .. n + 1 :
            k2[k] = IF n + 1 - k + 1 \in P(c) THEN Cons(c[n + 1 - k + 1], k2[k - 1]) ELSE k2[k - 1]
  BY <1>1, <1>3, <1>4 DEF Keeps
<1> HIDE DEF n
<1> DEFINE S == {k \in 0 .. n : k1[k] = k2[k]}
<1>7. 0 .. n \subseteq S
  <2>1. 0 \in S
    BY <1>1, <1>6
  <2>2. ASSUME NEW k \in 1 .. n, k - 1 \in S PROVE k \in S
    <3> DEFINE i == n - k + 1
    <3>1. i \in 1 .. n /\ n + 1 - k + 1 = i + 1 /\ k \in 1 .. n + 1 /\ k \in 0 .. n
      BY <1>1
    <3>2. k1[k] = IF i \in P(s) THEN Cons(s[i], k1[k - 1]) ELSE k1[k - 1]
      BY <1>6
    <3>3. k2[k] = IF i + 1 \in P(c) THEN Cons(c[i + 1], k2[k - 1]) ELSE k2[k - 1]
      BY <1>6, <3>1
    <3>4. k1[k - 1] = k2[k - 1]
      BY <2>2
    <3> HIDE DEF i
    <3>5. k1[k] = k2[k]
      BY <3>1, <3>2, <3>3, <3>4, <1>1, <1>p
    <3> QED
      BY <3>1, <3>5
  <2> HIDE DEF S
  <2> QED
    BY <1>1, <2>1, <2>2, BoundedInduction
<1>8. k1[n] = k2[n] /\ k1[n] \in Seq(T)
  BY <1>1, <1>6, <1>7
<1>9. k2[n + 1] = IF 1 \in P(c) THEN Cons(c[1], k2[n]) ELSE k2[n]
  <2>1. ASSUME NEW k \in 1 .. n + 1, k = n + 1
        PROVE  k2[k] = IF 1 \in P(c) THEN Cons(c[1], k2[n]) ELSE k2[n]
    <3>1. n + 1 - k + 1 = 1 /\ k - 1 = n
      BY <1>1, <2>1
    <3>2. k2[k] = IF n + 1 - k + 1 \in P(c) THEN Cons(c[n + 1 - k + 1], k2[k - 1]) ELSE k2[k - 1]
      BY <1>6
    <3> QED
      BY <3>1, <3>2
  <2> QED
    BY <1>1, <2>1
<1>10. k2[n + 1] = IF x = <<>> THEN k1[n] ELSE Cons(x, k1[n])
  BY <1>1, <1>8, <1>9, <1>q
<1> QED
  BY <1>5, <1>8, <1>10 DEF c

(* The last place whose element is no junk, 0 if there is none.              *)
LastKept(s, junk, m) ==
  /\ m \in 0 .. Len(s) /\ (m = 0 \/ s[m] \notin junk)
  /\ \A i \in m + 1 .. Len(s) : s[i] \in junk

LEMMA TrimEndIs ==
  ASSUME NEW T, NEW s \in Seq(T), NEW junk
  PROVE  \E m : LastKept(s, junk, m) /\ TrimEnd(s, junk) = SubSeq(s, 1, m)
<1> DEFINE N == Len(s)
           K == {0} \cup {i \in DOMAIN s : s[i] \notin junk}
           S == {k \in 0 .. N : \E m \in K : m <= k /\ \A i \in K : i <= k => i <= m}
<1>1. N \in Nat /\ DOMAIN s = 1 .. N
  BY LenProperties
<1>2. K \subseteq 0 .. N /\ 0 \in K
  BY <1>1
<1> HIDE DEF K, N
<1>3. 0 .. N \subseteq S
  <2>1. 0 \in S
    BY <1>1, <1>2
  <2>2. ASSUME NEW k \in 1 .. N, k - 1 \in S PROVE k \in S
    <3>1. PICK m \in K : m <= k - 1 /\ \A i \in K : i <= k - 1 => i <= m
      BY <2>2
    <3>2. CASE k \in K
      BY <1>1, <1>2, <3>2
    <3>3. CASE k \notin K
      BY <1>1, <1>2, <3>1, <3>3
    <3> QED
      BY <3>2, <3>3
  <2> HIDE DEF S
  <2> QED
    BY <1>1, <2>1, <2>2, BoundedInduction
<1>4. \E m \in K : \A i \in K : m >= i
  <2>1. N \in S
    BY <1>1, <1>3
  <2> QED
    BY <2>1, <1>1, <1>2
<1>5. Max(K) \in K /\ \A i \in K : Max(K) >= i
  BY <1>4 DEF Max
<1> DEFINE m == Max(K)
<1>6. TrimEnd(s, junk) = SubSeq(s, 1, m)
  BY DEF TrimEnd, K
<1>7. m \in K /\ \A i \in K : m >= i
  BY <1>5
<1> HIDE DEF m
<1>8. LastKept(s, junk, m)
  <2>1. m \in 0 .. N
    BY <1>2, <1>7
  <2>2. m = 0 \/ s[m] \notin junk
    BY <1>7 DEF K
  <2>3. ASSUME NEW i \in m + 1 .. N PROVE s[i] \in junk
    <3>1. i \notin K
      BY <1>1, <1>7, <2>1
    <3>2. i \in DOMAIN s
      BY <1>1, <2>1
    <3> QED
      BY <3>1, <3>2 DEF K
  <2> QED
    BY <2>1, <2>2, <2>3 DEF LastKept, N
<1> QED
  BY <1>6, <1>8

LEMMA LastKeptIsUnique ==
  ASSUME NEW T, NEW s \in Seq(T), NEW junk, NEW m, NEW k, LastKept(s, junk, m), LastKept(s, junk, k)
  PROVE  m = k
<1>1. Len(s) \in Nat
  BY LenProperties
<1> QED
  BY <1>1 DEF LastKept

LEMMA TrimEndType ==
  ASSUME NEW T, NEW s \in Seq(T), NEW junk
  PROVE  TrimEnd(s, junk) \in Seq(T)
<1>1. PICK m : LastKept(s, junk, m) /\ TrimEnd(s, junk) = SubSeq(s, 1, m)
  BY TrimEndIs
<1>2. m \in Int /\ \A i \in 1 .. m : s[i] \in T
  <2>1. m \in 0 .. Len(s) /\ Len(s) \in Nat
    BY <1>1, LenProperties DEF LastKept
  <2> QED
    BY <2>1, ElementOfSeq
<1> QED
  BY <1>1, <1>2, SubSeqProperties

LEMMA TrimEndOfNone ==
  ASSUME NEW junk
  PROVE  TrimEnd(<<>>, junk) = <<>>
<1>1. <<>> \in Seq({}) /\ Len(<<>>) = 0
  BY EmptySeq
<1>2. PICK m : LastKept(<<>>, junk, m) /\ TrimEnd(<<>>, junk) = SubSeq(<<>>, 1, m)
  BY <1>1, TrimEndIs
<1>3. m = 0
  BY <1>1, <1>2 DEF LastKept
<1> QED
  BY <1>2, <1>3, SubSeqEmpty

(* TrimEnd, from the end.                                                   *)
LEMMA TrimEndOfCons ==
  ASSUME NEW T, NEW x \in T, NEW s \in Seq(T), NEW junk
  PROVE  TrimEnd(Cons(x, s), junk) =
           IF x \in junk /\ TrimEnd(s, junk) = <<>> THEN <<>> ELSE Cons(x, TrimEnd(s, junk))
<1> DEFINE c == Cons(x, s)
           n == Len(s)
<1>1. /\ n \in Nat
      /\ c \in Seq(T) /\ Len(c) = n + 1 /\ c[1] = x /\ \A i \in 1 .. n : c[i + 1] = s[i]
  BY ConsIs
<1> HIDE DEF c
<1>2. PICK m : LastKept(s, junk, m) /\ TrimEnd(s, junk) = SubSeq(s, 1, m)
  BY TrimEndIs
<1>3. PICK k : LastKept(c, junk, k) /\ TrimEnd(c, junk) = SubSeq(c, 1, k)
  BY <1>1, TrimEndIs
<1>4. m \in 0 .. n /\ (m = 0 \/ s[m] \notin junk) /\ \A i \in m + 1 .. n : s[i] \in junk
  BY <1>2 DEF LastKept
<1> HIDE DEF n
<1>s. \A i \in 2 .. n + 1 : c[i] = s[i - 1]
  <2>1. \A i \in 2 .. n + 1 : i - 1 \in 1 .. n /\ (i - 1) + 1 = i
    BY <1>1
  <2>2. \A i \in 2 .. n + 1 : c[(i - 1) + 1] = s[i - 1]
    BY <2>1, <1>1
  <2> QED
    BY <2>1, <2>2, Zenon
<1>5. k = IF m = 0 /\ x \in junk THEN 0 ELSE m + 1
  <2> DEFINE j == IF m = 0 /\ x \in junk THEN 0 ELSE m + 1
  <2>1. j \in 0 .. n + 1
    BY <1>1, <1>4
  <2>2. j = 0 \/ c[j] \notin junk
    <3>1. CASE m = 0
      BY <3>1, <1>1
    <3>2. CASE m # 0
      BY <3>2, <1>1, <1>4
    <3> QED
      BY <3>1, <3>2
  <2>3. ASSUME NEW i \in j + 1 .. n + 1 PROVE c[i] \in junk
    <3>1. CASE i = 1
      BY <3>1, <1>1, <1>4
    <3>2. CASE i # 1
      <4>1. i \in 2 .. n + 1 /\ i - 1 \in m + 1 .. n
        BY <3>2, <1>1, <1>4
      <4> QED
        BY <4>1, <1>4, <1>s
    <3> QED
      BY <3>1, <3>2
  <2>4. LastKept(c, junk, j)
    <3> HIDE DEF j
    <3> QED
      BY <1>1, <2>1, <2>2, <2>3 DEF LastKept
  <2> HIDE DEF j
  <2>5. k = j
    BY <1>1, <1>3, <2>4, LastKeptIsUnique
  <2> QED
    BY <2>5 DEF j
<1> DEFINE p == SubSeq(s, 1, m)
<1>6. p \in Seq(T) /\ Len(p) = m /\ \A i \in 1 .. m : p[i] = s[i]
  <2>1. \A i \in 1 .. m : s[i] \in T
    BY <1>1, <1>4, ElementOfSeq DEF n
  <2>2. /\ p \in Seq(T) /\ Len(p) = IF 1 <= m THEN m - 1 + 1 ELSE 0
        /\ \A i \in 1 .. m - 1 + 1 : p[i] = s[1 + i - 1]
    BY <2>1, <1>4, SubSeqProperties
  <2> HIDE DEF p
  <2> QED
    BY <2>2, <1>4
<1>7. p = <<>> <=> m = 0
  <2> HIDE DEF p
  <2> QED
    BY <1>6, <1>4, EmptySeq
<1>8. CASE m = 0 /\ x \in junk
  <2>1. TrimEnd(c, junk) = <<>>
    BY <1>3, <1>5, <1>8, SubSeqEmpty
  <2> QED
    BY <2>1, <1>2, <1>7, <1>8 DEF c
<1>9. CASE ~(m = 0 /\ x \in junk)
  <2> DEFINE q == SubSeq(c, 1, m + 1)
  <2>1. TrimEnd(c, junk) = q
    BY <1>3, <1>5, <1>9
  <2>2. q \in Seq(T) /\ Len(q) = m + 1 /\ \A i \in 1 .. m + 1 : q[i] = c[i]
    <3>1. \A i \in 1 .. m + 1 : c[i] \in T
      BY <1>1, <1>4, ElementOfSeq
    <3>2. /\ q \in Seq(T) /\ Len(q) = IF 1 <= m + 1 THEN m + 1 - 1 + 1 ELSE 0
          /\ \A i \in 1 .. m + 1 - 1 + 1 : q[i] = c[1 + i - 1]
      BY <3>1, <1>4, SubSeqProperties
    <3> HIDE DEF q
    <3> QED
      BY <3>2, <1>4
  <2> HIDE DEF p, q
  <2>3. q[1] = x /\ \A i \in 1 .. Len(p) : p[i] = q[i + 1]
    <3>1. 1 \in 1 .. m + 1 /\ \A i \in 1 .. m : i + 1 \in 1 .. m + 1 /\ i \in 1 .. n
      BY <1>1, <1>4
    <3> QED
      BY <3>1, <2>2, <1>1, <1>6
  <2>4. q = Cons(x, p)
    BY <1>6, <2>2, <2>3, ConsFound
  <2> QED
    BY <2>1, <2>4, <1>2, <1>7, <1>9 DEF c, p
<1> QED
  BY <1>8, <1>9
-----------------------------------------------------------------------------
(* Two pairs of computations, step by step: each step changes nothing, or is *)
(* kept by both of its pair, and kept steps keep the pairs in agreement.     *)
Steps(n, kept, s, z) ==
  /\ n \in Nat
  /\ \A j \in 1 .. n : \/ s[j] = s[j - 1] /\ z[j] = z[j - 1]
                       \/ j \in kept /\ s[j] # s[0] /\ z[j] # z[0]

LEMMA StepsAgree ==
  ASSUME NEW n, NEW A, NEW s, NEW z, Steps(n, A, s, z),
         NEW m, NEW B, NEW t, NEW y, Steps(m, B, t, y),
         s[0] = t[0], z[0] = y[0],
         \A j \in A \cap (1 .. n), k \in B \cap (1 .. m) :
            (s[j - 1] = t[k - 1] <=> z[j - 1] = y[k - 1]) => (s[j] = t[k] <=> z[j] = y[k])
  PROVE  s[n] = t[m] <=> z[n] = y[m]
<1> DEFINE Agree(j, k) == s[j] = t[k] <=> z[j] = y[k]
           S == {q \in 0 .. n + m : \A j \in 0 .. n, k \in 0 .. m : j + k <= q => Agree(j, k)}
<1>1. n \in Nat /\ m \in Nat /\ n + m \in Nat
  BY DEF Steps
<1>2. Agree(0, 0)
  OBVIOUS
<1>3. ASSUME NEW q \in 1 .. n + m, q - 1 \in S PROVE q \in S
  <2> SUFFICES ASSUME NEW j \in 0 .. n, NEW k \in 0 .. m, j + k <= q PROVE Agree(j, k)
    BY <1>1
  <2>0. \A i \in 0 .. n, p \in 0 .. m : i + p <= q - 1 => Agree(i, p)
    BY <1>3
  <2>1. j # 0 => j \in 1 .. n /\ j - 1 \in 0 .. n
    BY <1>1
  <2>2. k # 0 => k \in 1 .. m /\ k - 1 \in 0 .. m
    BY <1>1
  <2>3. j # 0 => Agree(j - 1, k)
    <3>1. j # 0 => j - 1 \in 0 .. n /\ (j - 1) + k <= q - 1
      BY <1>1, <2>1
    <3> HIDE DEF Agree
    <3> QED
      BY <2>0, <3>1
  <2>4. k # 0 => Agree(j, k - 1)
    <3>1. k # 0 => k - 1 \in 0 .. m /\ j + (k - 1) <= q - 1
      BY <1>1, <2>2
    <3> HIDE DEF Agree
    <3> QED
      BY <2>0, <3>1
  <2>5. j # 0 /\ k # 0 => Agree(j - 1, k - 1)
    <3>1. j # 0 /\ k # 0 => j - 1 \in 0 .. n /\ k - 1 \in 0 .. m /\ (j - 1) + (k - 1) <= q - 1
      BY <1>1, <2>1, <2>2
    <3> HIDE DEF Agree
    <3> QED
      BY <2>0, <3>1
  <2>6. j # 0 => \/ s[j] = s[j - 1] /\ z[j] = z[j - 1]
                 \/ j \in A \cap (1 .. n) /\ s[j] # s[0] /\ z[j] # z[0]
    BY <2>1 DEF Steps
  <2>7. k # 0 => \/ t[k] = t[k - 1] /\ y[k] = y[k - 1]
                 \/ k \in B \cap (1 .. m) /\ t[k] # t[0] /\ y[k] # y[0]
    BY <2>2 DEF Steps
  <2>8. CASE j # 0 /\ s[j] = s[j - 1] /\ z[j] = z[j - 1]
    BY <2>3, <2>8
  <2>9. CASE k # 0 /\ t[k] = t[k - 1] /\ y[k] = y[k - 1]
    BY <2>4, <2>9
  <2>10. CASE j = 0 /\ k = 0
    BY <1>2, <2>10
  <2>11. CASE j = 0 /\ k # 0 /\ t[k] # t[0] /\ y[k] # y[0]
    BY <2>11
  <2>12. CASE j # 0 /\ k = 0 /\ s[j] # s[0] /\ z[j] # z[0]
    BY <2>12
  <2>13. CASE j # 0 /\ k # 0 /\ j \in A \cap (1 .. n) /\ k \in B \cap (1 .. m)
    BY <2>5, <2>13
  <2> QED
    BY <2>6, <2>7, <2>8, <2>9, <2>10, <2>11, <2>12, <2>13
<1>4. 0 \in S
  <2>1. \A j \in 0 .. n, k \in 0 .. m : j + k <= 0 => j = 0 /\ k = 0
    BY <1>1
  <2> HIDE DEF Agree
  <2> QED
    BY <1>1, <1>2, <2>1
<1>5. n + m \in S
  <2>1. 0 .. n + m \subseteq S
    <3> HIDE DEF S
    <3> QED
      BY <1>1, <1>3, <1>4, BoundedInduction
  <2> QED
    BY <1>1, <2>1
<1>6. n \in 0 .. n /\ m \in 0 .. m
  BY <1>1
<1> HIDE DEF Agree
<1>7. Agree(n, m)
  BY <1>1, <1>5, <1>6
<1> QED
  BY <1>7 DEF Agree

(* The lines without their trailing blanks.                                  *)
Trimmed(lines) == [i \in DOMAIN lines |-> TrimEnd(lines[i], Blank)]

(* ... from the end.                                                        *)
LEMMA TrimmedOfCons ==
  ASSUME NEW x \in Text, NEW s \in Seq(Text)
  PROVE  /\ Trimmed(<<>>) = <<>> /\ Trimmed(s) \in Seq(Text)
         /\ Trimmed(Cons(x, s)) = Cons(TrimEnd(x, Blank), Trimmed(s))
<1>0. \A t \in Text : TrimEnd(t, Blank) \in Text
  BY TrimEndType DEF Text
<1>1. ASSUME NEW t \in Seq(Text)
      PROVE  Trimmed(t) \in Seq(Text) /\ Len(Trimmed(t)) = Len(t)
             /\ \A i \in 1 .. Len(t) : Trimmed(t)[i] = TrimEnd(t[i], Blank)
  <2>1. Len(t) \in Nat /\ DOMAIN t = 1 .. Len(t) /\ \A i \in 1 .. Len(t) : t[i] \in Text
    BY LenProperties, ElementOfSeq
  <2> DEFINE n == Len(t)
             f == [i \in 1 .. n |-> TrimEnd(t[i], Blank)]
  <2>2. Trimmed(t) = f
    BY <2>1 DEF Trimmed
  <2>3. f \in [1 .. n -> Text]
    BY <2>1, <1>0
  <2>4. \A i \in 1 .. n : f[i] = TrimEnd(t[i], Blank)
    OBVIOUS
  <2> HIDE DEF f
  <2>5. f \in Seq(Text) /\ DOMAIN f = 1 .. n
    BY <2>1, <2>3
  <2>6. Len(f) = n
    BY <2>1, <2>5
  <2> QED
    BY <2>2, <2>4, <2>5, <2>6
<1> DEFINE c == Cons(x, s)
<1>2. /\ Len(s) \in Nat /\ c \in Seq(Text) /\ Len(c) = Len(s) + 1
      /\ c[1] = x /\ \A i \in 1 .. Len(s) : c[i + 1] = s[i]
  BY ConsIs
<1> HIDE DEF c
<1>3. <<>> \in Seq(Text) /\ Len(<<>>) = 0
  BY EmptySeq
<1>4. Trimmed(<<>>) = <<>>
  BY <1>1, <1>3, EmptySeq
<1>5. Trimmed(c) = Cons(TrimEnd(x, Blank), Trimmed(s))
  <2> DEFINE r == Trimmed(s)
             q == Trimmed(c)
             h == TrimEnd(x, Blank)
  <2>1. h \in Text /\ r \in Seq(Text) /\ q \in Seq(Text) /\ Len(q) = Len(r) + 1 /\ q[1] = h
    <3>1. 1 \in 1 .. Len(c)
      BY <1>2
    <3> QED
      BY <1>0, <1>1, <1>2, <3>1
  <2>2. \A i \in 1 .. Len(r) : r[i] = q[i + 1]
    <3> TAKE i \in 1 .. Len(r)
    <3>1. i \in 1 .. Len(s) /\ i + 1 \in 1 .. Len(c)
      BY <1>1, <1>2
    <3>2. r[i] = TrimEnd(s[i], Blank)
      BY <3>1, <1>1
    <3>3. q[i + 1] = TrimEnd(c[i + 1], Blank)
      BY <3>1, <1>1, <1>2
    <3> QED
      BY <3>1, <3>2, <3>3, <1>2
  <2> HIDE DEF r, q, h
  <2>3. q = Cons(h, r)
    BY <2>1, <2>2, ConsFound
  <2> QED
    BY <2>3 DEF r, q, h
<1> QED
  BY <1>1, <1>4, <1>5 DEF c

(* The normalized lines, from the end: the first one and the others; none    *)
(* if both are empty.                                                        *)
Row(l, M) == IF l = <<>> /\ M = <<>> THEN <<>> ELSE Cons(l, M)

Normalizes(data, l, M) ==
  LET n == Len(data)
  IN  /\ n \in Nat
      /\ \A k \in 0 .. n : l[k] \in Text /\ M[k] \in Seq(Text)
      /\ l[0] = <<>> /\ M[0] = <<>>
      /\ \A k \in 1 .. n :
            IF data[n - k + 1] = LF
            THEN l[k] = <<>> /\ M[k] = Row(l[k - 1], M[k - 1])
            ELSE /\ M[k] = M[k - 1]
                 /\ l[k] = IF data[n - k + 1] \in Blank /\ l[k - 1] = <<>> THEN <<>>
                           ELSE Cons(data[n - k + 1], l[k - 1])

LEMMA NormalizedSteps ==
  ASSUME NEW data \in Text
  PROVE  \E l, M : /\ Normalizes(data, l, M)
                   /\ NormalizedLines(data) = Row(l[Len(data)], M[Len(data)])
<1> DEFINE n == Len(data)
           norm(s) == TrimEnd(Trimmed(s), {<<>>})
           trim(x) == TrimEnd(x, Blank)
<1>1. PICK head, tail : /\ Splits(data, {LF}, head, tail)
                        /\ Split(data, {LF}) = Cons(head[n], tail[n])
  BY SplitSteps
<1>2. /\ n \in Nat /\ \A k \in 0 .. n : head[k] \in Text /\ tail[k] \in Seq(Text)
      /\ head[0] = <<>> /\ tail[0] = <<>>
      /\ \A k \in 1 .. n :
            IF data[n - k + 1] \in {LF}
            THEN head[k] = <<>> /\ tail[k] = Cons(head[k - 1], tail[k - 1])
            ELSE head[k] = Cons(data[n - k + 1], head[k - 1]) /\ tail[k] = tail[k - 1]
  BY <1>1 DEF Splits
<1>b. \A k \in 1 .. n : data[n - k + 1] \in Byte /\ k - 1 \in 0 .. n /\ k \in 0 .. n
  <2>1. \A i \in 1 .. n : data[i] \in Byte
    BY ElementOfSeq DEF Text
  <2>2. \A k \in 1 .. n : n - k + 1 \in 1 .. n
    BY <1>2
  <2> QED
    BY <2>1, <2>2, <1>2
<1> HIDE DEF n
<1>3. ASSUME NEW x \in Text, NEW s \in Seq(Text)
      PROVE  trim(x) \in Text /\ norm(s) \in Seq(Text) /\ norm(Cons(x, s)) = Row(trim(x), norm(s))
  <2>1. Trimmed(s) \in Seq(Text) /\ Trimmed(Cons(x, s)) = Cons(trim(x), Trimmed(s))
    BY TrimmedOfCons
  <2>2. trim(x) \in Text
    BY TrimEndType DEF Text
  <2>3. norm(s) \in Seq(Text)
    BY <2>1, TrimEndType
  <2>4. TrimEnd(Cons(trim(x), Trimmed(s)), {<<>>}) =
          IF trim(x) \in {<<>>} /\ norm(s) = <<>> THEN <<>> ELSE Cons(trim(x), norm(s))
    BY <2>1, <2>2, TrimEndOfCons
  <2> QED
    BY <2>1, <2>2, <2>3, <2>4 DEF Row
<1>4. ASSUME NEW b \in Byte, NEW x \in Text
      PROVE  trim(Cons(b, x)) = IF b \in Blank /\ trim(x) = <<>> THEN <<>> ELSE Cons(b, trim(x))
  BY TrimEndOfCons DEF Text
<1>5. trim(<<>>) = <<>> /\ norm(<<>>) = <<>>
  <2>1. <<>> \in Text /\ <<>> \in Seq(Text)
    BY EmptySeq DEF Text
  <2>2. Trimmed(<<>>) = <<>>
    BY <2>1, TrimmedOfCons
  <2> QED
    BY <2>2, TrimEndOfNone
<1>6. NormalizedLines(data) = norm(Split(data, {LF}))
  BY Zenon DEF NormalizedLines, Trimmed
<1> HIDE DEF norm, trim
<1> DEFINE l == [k \in 0 .. n |-> trim(head[k])]
           M == [k \in 0 .. n |-> norm(tail[k])]
<1>7. \A k \in 0 .. n : l[k] = trim(head[k]) /\ M[k] = norm(tail[k])
  OBVIOUS
<1> HIDE DEF l, M
<1>8. \A k \in 0 .. n : l[k] \in Text /\ M[k] \in Seq(Text)
  BY <1>2, <1>3, <1>7
<1>9. l[0] = <<>> /\ M[0] = <<>>
  <2>1. 0 \in 0 .. n
    BY <1>2
  <2> QED
    BY <2>1, <1>2, <1>5, <1>7
<1>10. ASSUME NEW k \in 1 .. n
       PROVE  IF data[n - k + 1] = LF
              THEN l[k] = <<>> /\ M[k] = Row(l[k - 1], M[k - 1])
              ELSE /\ M[k] = M[k - 1]
                   /\ l[k] = IF data[n - k + 1] \in Blank /\ l[k - 1] = <<>> THEN <<>>
                             ELSE Cons(data[n - k + 1], l[k - 1])
  <2> DEFINE b == data[n - k + 1]
             x == head[k - 1]
             s == tail[k - 1]
  <2>1. /\ b \in Byte /\ x \in Text /\ s \in Seq(Text)
        /\ l[k] = trim(head[k]) /\ M[k] = norm(tail[k])
        /\ l[k - 1] = trim(x) /\ M[k - 1] = norm(s)
    BY <1>2, <1>7, <1>b
  <2>2. IF b \in {LF} THEN head[k] = <<>> /\ tail[k] = Cons(x, s)
        ELSE head[k] = Cons(b, x) /\ tail[k] = s
    BY <1>2
  <2> HIDE DEF b, x, s
  <2>3. IF b = LF THEN l[k] = <<>> /\ M[k] = Row(l[k - 1], M[k - 1])
        ELSE /\ M[k] = M[k - 1]
             /\ l[k] = IF b \in Blank /\ l[k - 1] = <<>> THEN <<>> ELSE Cons(b, l[k - 1])
    <3>1. CASE b = LF
      BY <2>1, <2>2, <3>1, <1>3, <1>5
    <3>2. CASE b # LF
      <4>1. head[k] = Cons(b, x) /\ tail[k] = s
        BY <2>2, <3>2
      <4>2. trim(Cons(b, x)) = IF b \in Blank /\ trim(x) = <<>> THEN <<>> ELSE Cons(b, trim(x))
        BY <2>1, <1>4
      <4> QED
        BY <2>1, <3>2, <4>1, <4>2, Zenon
    <3> QED
      BY <3>1, <3>2
  <2> QED
    BY <2>3 DEF b
<1>11. Normalizes(data, l, M)
  BY <1>2, <1>8, <1>9, <1>10 DEF Normalizes, n
<1>12. NormalizedLines(data) = Row(l[n], M[n])
  <2>1. n \in 0 .. n
    BY <1>2
  <2> QED
    BY <2>1, <1>1, <1>2, <1>3, <1>6, <1>7
<1> QED
  BY <1>11, <1>12 DEF n

(* Ink follows byte i - 1: it is byte i, or follows it.                     *)
LEMMA InkAfterStep ==
  ASSUME NEW data \in Text, NEW i \in 1 .. Len(data), NEW stop
  PROVE  /\ InkAfter(data, i - 1, stop) <=> /\ data[i] \notin stop
                                            /\ data[i] \notin Blank \cup {LF} \/ InkAfter(data, i, stop)
         /\ ~InkAfter(data, Len(data), stop)
<1> DEFINE n == Len(data)
           ink == Blank \cup {LF}
<1>1. n \in Nat
  BY LenProperties DEF Text
<1> HIDE DEF n, ink
<1>2. \A p : InkAfter(data, p, stop) <=>
               \E j \in p + 1 .. n : data[j] \notin ink /\ \A k \in p + 1 .. j : data[k] \notin stop
  BY DEF InkAfter, n, ink
<1>3. i \in 1 .. n
  BY DEF n
<1>4. ~InkAfter(data, n, stop)
  BY <1>1, <1>2
<1>5. ASSUME InkAfter(data, i - 1, stop)
      PROVE  data[i] \notin stop /\ (data[i] \notin ink \/ InkAfter(data, i, stop))
  <2>1. PICK j \in i .. n : data[j] \notin ink /\ \A k \in i .. j : data[k] \notin stop
    <3>1. (i - 1) + 1 = i
      BY <1>3
    <3> QED
      BY <1>2, <1>5, <3>1
  <2>2. data[i] \notin stop
    BY <1>3, <2>1
  <2>3. CASE j = i
    BY <2>1, <2>2, <2>3
  <2>4. CASE j # i
    <3>1. j \in i + 1 .. n /\ \A k \in i + 1 .. j : data[k] \notin stop
      BY <1>3, <2>1, <2>4
    <3> QED
      BY <1>2, <2>1, <2>2, <3>1
  <2> QED
    BY <2>3, <2>4
<1>6. ASSUME data[i] \notin stop, data[i] \notin ink \/ InkAfter(data, i, stop)
      PROVE  InkAfter(data, i - 1, stop)
  <2> SUFFICES \E j \in i .. n : data[j] \notin ink /\ \A k \in i .. j : data[k] \notin stop
    <3>1. (i - 1) + 1 = i
      BY <1>3
    <3> QED
      BY <1>2, <3>1
  <2>1. CASE data[i] \notin ink
    <3>1. i \in i .. n /\ \A k \in i .. i : k = i
      BY <1>1, <1>3
    <3> QED
      BY <2>1, <3>1, <1>6
  <2>2. CASE InkAfter(data, i, stop)
    <3>1. PICK j \in i + 1 .. n : data[j] \notin ink /\ \A k \in i + 1 .. j : data[k] \notin stop
      BY <1>2, <2>2
    <3>2. j \in i .. n /\ \A k \in i .. j : k = i \/ k \in i + 1 .. j
      BY <1>1, <1>3, <3>1
    <3> QED
      BY <3>1, <3>2, <1>6
  <2> QED
    BY <2>1, <2>2, <1>6
<1> QED
  BY <1>4, <1>5, <1>6 DEF n, ink

(* After the last k bytes: the first line has ink left, or any has.          *)
LEMMA RowsHaveInk ==
  ASSUME NEW data \in Text, NEW l, NEW M, Normalizes(data, l, M)
  PROVE  \A k \in 0 .. Len(data) :
            /\ l[k] # <<>> <=> InkAfter(data, Len(data) - k, {LF})
            /\ l[k] # <<>> \/ M[k] # <<>> <=> InkAfter(data, Len(data) - k, {})
<1> DEFINE n == Len(data)
           Ink(k, stop) == InkAfter(data, n - k, stop)
           S == {k \in 0 .. n : /\ l[k] # <<>> <=> Ink(k, {LF})
                                /\ l[k] # <<>> \/ M[k] # <<>> <=> Ink(k, {})}
<1>1. /\ n \in Nat /\ \A k \in 0 .. n : l[k] \in Text /\ M[k] \in Seq(Text)
      /\ l[0] = <<>> /\ M[0] = <<>>
      /\ \A k \in 1 .. n :
            IF data[n - k + 1] = LF
            THEN l[k] = <<>> /\ M[k] = Row(l[k - 1], M[k - 1])
            ELSE /\ M[k] = M[k - 1]
                 /\ l[k] = IF data[n - k + 1] \in Blank /\ l[k - 1] = <<>> THEN <<>>
                           ELSE Cons(data[n - k + 1], l[k - 1])
  BY DEF Normalizes
<1>2. \A i \in 1 .. n : data[i] \in Byte
  BY ElementOfSeq DEF Text
<1>3. ~InkAfter(data, n, {LF}) /\ ~InkAfter(data, n, {})
  <2>1. CASE n = 0
    <3>1. \A stop : ~InkAfter(data, n, stop)
      BY <2>1 DEF InkAfter
    <3> QED
      BY <3>1
  <2>2. CASE n # 0
    <3>1. n \in 1 .. n
      BY <1>1, <2>2
    <3> QED
      BY <3>1, InkAfterStep
  <2> QED
    BY <2>1, <2>2
<1>4. ASSUME NEW k \in 1 .. n
      PROVE  \A stop : Ink(k, stop) <=> /\ data[n - k + 1] \notin stop
                                        /\ data[n - k + 1] \notin Blank \cup {LF} \/ Ink(k - 1, stop)
  <2> DEFINE i == n - k + 1
  <2>1. i \in 1 .. n /\ i - 1 = n - k /\ i = n - (k - 1)
    BY <1>1
  <2> HIDE DEF i
  <2>2. \A stop : InkAfter(data, i - 1, stop) <=> /\ data[i] \notin stop
                                                  /\ data[i] \notin Blank \cup {LF} \/ InkAfter(data, i, stop)
    BY <2>1, InkAfterStep
  <2>3. \A stop : /\ Ink(k, stop) <=> InkAfter(data, i - 1, stop)
                  /\ Ink(k - 1, stop) <=> InkAfter(data, i, stop)
    BY <2>1
  <2> HIDE DEF Ink
  <2> QED
    BY <2>2, <2>3 DEF i
<1>5. 0 \in S
  <2>1. n - 0 = n /\ 0 \in 0 .. n
    BY <1>1
  <2>2. Ink(0, {LF}) = FALSE /\ Ink(0, {}) = FALSE
    BY <1>3, <2>1
  <2> HIDE DEF Ink
  <2> QED
    BY <1>1, <2>1, <2>2
<1> HIDE DEF Ink
<1>6. ASSUME NEW k \in 1 .. n, k - 1 \in S PROVE k \in S
  <2> DEFINE b == data[n - k + 1]
  <2>1. /\ b \in Byte /\ k \in 0 .. n /\ k - 1 \in 0 .. n
        /\ l[k - 1] \in Text /\ M[k - 1] \in Seq(Text)
    <3>1. n - k + 1 \in 1 .. n /\ k \in 0 .. n /\ k - 1 \in 0 .. n
      BY <1>1
    <3> QED
      BY <1>1, <1>2, <3>1
  <2>2. IF b = LF THEN l[k] = <<>> /\ M[k] = Row(l[k - 1], M[k - 1])
        ELSE /\ M[k] = M[k - 1]
             /\ l[k] = IF b \in Blank /\ l[k - 1] = <<>> THEN <<>> ELSE Cons(b, l[k - 1])
    BY <1>1
  <2>3. /\ Ink(k, {LF}) <=> b # LF /\ (b \notin Blank \cup {LF} \/ Ink(k - 1, {LF}))
        /\ Ink(k, {}) <=> b \notin Blank \cup {LF} \/ Ink(k - 1, {})
    BY <1>4
  <2>4. /\ l[k - 1] # <<>> <=> Ink(k - 1, {LF})
        /\ l[k - 1] # <<>> \/ M[k - 1] # <<>> <=> Ink(k - 1, {})
    BY <1>6
  <2>5. Cons(b, l[k - 1]) # <<>> /\ Cons(l[k - 1], M[k - 1]) # <<>>
    BY <2>1, ConsNotEmpty DEF Text
  <2>6. LF \notin Blank
    BY DEF LF, Blank, SP, HT, CR
  <2> HIDE DEF b
  <2>7. /\ l[k] # <<>> <=> Ink(k, {LF})
        /\ l[k] # <<>> \/ M[k] # <<>> <=> Ink(k, {})
    <3>1. CASE b = LF
      <4>1. l[k] = <<>> /\ M[k] = Row(l[k - 1], M[k - 1])
        BY <2>2, <3>1
      <4>2. M[k] # <<>> <=> l[k - 1] # <<>> \/ M[k - 1] # <<>>
        BY <4>1, <2>5 DEF Row
      <4> QED
        BY <3>1, <4>1, <4>2, <2>3, <2>4
    <3>2. CASE b # LF /\ b \in Blank
      <4>1. M[k] = M[k - 1] /\ l[k] = IF l[k - 1] = <<>> THEN <<>> ELSE Cons(b, l[k - 1])
        BY <2>2, <3>2
      <4> QED
        BY <3>2, <4>1, <2>3, <2>4, <2>5
    <3>3. CASE b # LF /\ b \notin Blank
      <4>1. l[k] = Cons(b, l[k - 1])
        BY <2>2, <3>3
      <4> QED
        BY <3>3, <4>1, <2>3, <2>5
    <3> QED
      BY <3>1, <3>2, <3>3
  <2> QED
    BY <2>1, <2>7
<1>7. 0 .. n \subseteq S
  <2> HIDE DEF S
  <2> QED
    BY <1>1, <1>5, <1>6, BoundedInduction
<1> QED
  BY <1>7 DEF Ink

(* The normalized lines and the skeleton, from the end: a byte that is kept  *)
(* starts or ends the first line, and any other changes neither.             *)
KeepsLines(data, l, M, s, kept) ==
  LET n == Len(data)
  IN  /\ n \in Nat
      /\ \A k \in 0 .. n : l[k] \in Text /\ M[k] \in Seq(Text) /\ s[k] \in Text
      /\ l[0] = <<>> /\ M[0] = <<>> /\ s[0] = <<>>
      /\ \A k \in 1 .. n : data[n - k + 1] \in Byte
      /\ \A k \in 1 .. n :
            IF k \notin kept THEN s[k] = s[k - 1] /\ l[k] = l[k - 1] /\ M[k] = M[k - 1]
            ELSE /\ s[k] = Cons(data[n - k + 1], s[k - 1])
                 /\ IF data[n - k + 1] = LF
                    THEN l[k] = <<>> /\ M[k] = Cons(l[k - 1], M[k - 1])
                    ELSE l[k] = Cons(data[n - k + 1], l[k - 1]) /\ M[k] = M[k - 1]

LEMMA LinesSteps ==
  ASSUME NEW data \in Text
  PROVE  \E l, M, s, kept : /\ KeepsLines(data, l, M, s, kept)
                            /\ NormalizedLines(data) = Row(l[Len(data)], M[Len(data)])
                            /\ LinesSkeleton(data) = s[Len(data)]
<1> DEFINE n == Len(data)
           places == {i \in DOMAIN data : CASE data[i] \in Blank -> InkAfter(data, i, {LF})
                                            [] data[i] = LF      -> InkAfter(data, i, {})
                                            [] OTHER             -> TRUE}
           kept == {k \in 1 .. n : n - k + 1 \in places}
<1>1. PICK l, M : Normalizes(data, l, M) /\ NormalizedLines(data) = Row(l[n], M[n])
  BY NormalizedSteps
<1>2. PICK s : Keeps(data, places, s, Byte) /\ Subsequence(data, places) = s[n]
  <2> HIDE DEF places
  <2> QED
    BY SubsequenceSteps DEF Text
<1>3. LinesSkeleton(data) = s[n]
  BY <1>2, Zenon DEF LinesSkeleton
<1>4. \A k \in 0 .. n :
         /\ l[k] # <<>> <=> InkAfter(data, n - k, {LF})
         /\ l[k] # <<>> \/ M[k] # <<>> <=> InkAfter(data, n - k, {})
  BY <1>1, RowsHaveInk
<1>5. /\ n \in Nat /\ \A k \in 0 .. n : l[k] \in Text /\ M[k] \in Seq(Text)
      /\ l[0] = <<>> /\ M[0] = <<>>
      /\ \A k \in 1 .. n :
            IF data[n - k + 1] = LF
            THEN l[k] = <<>> /\ M[k] = Row(l[k - 1], M[k - 1])
            ELSE /\ M[k] = M[k - 1]
                 /\ l[k] = IF data[n - k + 1] \in Blank /\ l[k - 1] = <<>> THEN <<>>
                           ELSE Cons(data[n - k + 1], l[k - 1])
  BY <1>1 DEF Normalizes
<1>6. DOMAIN data = 1 .. n /\ \A i \in 1 .. n : data[i] \in Byte
  BY LenProperties, ElementOfSeq DEF Text
<1> HIDE DEF n
<1>7. \A i \in 1 .. n : i \in places <=> /\ data[i] \in Blank => InkAfter(data, i, {LF})
                                         /\ data[i] = LF => InkAfter(data, i, {})
  <2>1. LF \notin Blank
    BY DEF LF, Blank, SP, HT, CR
  <2> TAKE i \in 1 .. n
  <2> DEFINE p == InkAfter(data, i, {LF})
             q == InkAfter(data, i, {})
  <2>2. p \in BOOLEAN /\ q \in BOOLEAN
    BY DEF InkAfter
  <2>3. i \in places <=> CASE data[i] \in Blank -> p [] data[i] = LF -> q [] OTHER -> TRUE
    BY <1>6
  <2> HIDE DEF p, q, places
  <2>4. i \in places <=> (data[i] \in Blank => p) /\ (data[i] = LF => q)
    BY <2>1, <2>2, <2>3
  <2> QED
    BY <2>4 DEF p, q
<1> HIDE DEF places
<1>8. /\ s[0] = <<>> /\ \A k \in 0 .. n : s[k] \in Text
      /\ \A k \in 1 .. n : s[k] = IF n - k + 1 \in places THEN Cons(data[n - k + 1], s[k - 1]) ELSE s[k - 1]
  BY <1>2 DEF Keeps, Text, n
<1>9. \A k \in 1 .. n : n - k + 1 \in 1 .. n /\ k - 1 \in 0 .. n /\ n - (k - 1) = n - k + 1
  BY <1>5
<1>10. ASSUME NEW k \in 1 .. n
       PROVE  IF k \notin kept THEN s[k] = s[k - 1] /\ l[k] = l[k - 1] /\ M[k] = M[k - 1]
              ELSE /\ s[k] = Cons(data[n - k + 1], s[k - 1])
                   /\ IF data[n - k + 1] = LF
                      THEN l[k] = <<>> /\ M[k] = Cons(l[k - 1], M[k - 1])
                      ELSE l[k] = Cons(data[n - k + 1], l[k - 1]) /\ M[k] = M[k - 1]
  <2> DEFINE b == data[n - k + 1]
             keep == n - k + 1 \in places
  <2>1. k \in kept <=> keep
    OBVIOUS
  <2>2. s[k] = IF keep THEN Cons(b, s[k - 1]) ELSE s[k - 1]
    BY <1>8
  <2>3. keep <=> /\ b \in Blank => l[k - 1] # <<>>
                 /\ b = LF => l[k - 1] # <<>> \/ M[k - 1] # <<>>
    <3>1. /\ l[k - 1] # <<>> <=> InkAfter(data, n - (k - 1), {LF})
          /\ l[k - 1] # <<>> \/ M[k - 1] # <<>> <=> InkAfter(data, n - (k - 1), {})
      BY <1>4, <1>9
    <3>2. /\ l[k - 1] # <<>> <=> InkAfter(data, n - k + 1, {LF})
          /\ l[k - 1] # <<>> \/ M[k - 1] # <<>> <=> InkAfter(data, n - k + 1, {})
      BY <3>1, <1>9
    <3>3. keep <=> /\ b \in Blank => InkAfter(data, n - k + 1, {LF})
                   /\ b = LF => InkAfter(data, n - k + 1, {})
      BY <1>7, <1>9
    <3> HIDE DEF keep, b
    <3> QED
      BY <3>2, <3>3
  <2>4. IF b = LF THEN l[k] = <<>> /\ M[k] = Row(l[k - 1], M[k - 1])
        ELSE /\ M[k] = M[k - 1]
             /\ l[k] = IF b \in Blank /\ l[k - 1] = <<>> THEN <<>> ELSE Cons(b, l[k - 1])
    BY <1>5
  <2>5. LF \notin Blank
    BY DEF LF, Blank, SP, HT, CR
  <2> HIDE DEF b, keep, kept
  <2>6. CASE keep
    <3>1. s[k] = Cons(b, s[k - 1])
      BY <2>2, <2>6
    <3>2. b = LF => l[k] = <<>> /\ M[k] = Cons(l[k - 1], M[k - 1])
      BY <2>3, <2>4, <2>6 DEF Row
    <3>3. b # LF => l[k] = Cons(b, l[k - 1]) /\ M[k] = M[k - 1]
      BY <2>3, <2>4, <2>6
    <3> QED
      BY <2>1, <2>6, <3>1, <3>2, <3>3 DEF b
  <2>7. CASE ~keep
    <3>1. s[k] = s[k - 1]
      BY <2>2, <2>7
    <3>2. l[k] = l[k - 1] /\ M[k] = M[k - 1]
      BY <2>3, <2>4, <2>5, <2>7 DEF Row
    <3> QED
      BY <2>1, <2>7, <3>1, <3>2
  <2> QED
    BY <2>6, <2>7
<1> HIDE DEF kept
<1>11. KeepsLines(data, l, M, s, kept)
  <2>1. \A k \in 0 .. n : l[k] \in Text /\ M[k] \in Seq(Text) /\ s[k] \in Text
    BY <1>5, <1>8
  <2>2. \A k \in 1 .. n : data[n - k + 1] \in Byte
    BY <1>6, <1>9
  <2> QED
    BY <1>5, <1>8, <1>10, <2>1, <2>2, Zenon DEF KeepsLines, n
<1> QED
  BY <1>1, <1>3, <1>11, Zenon DEF n

(* "lines": the two outputs have the same lines exactly if they have the     *)
(* same bytes that matter.                                                   *)
LEMMA LinesRight ==
  ASSUME NEW expected \in Text, NEW actual \in Text
  PROVE  CompareLines(expected, actual) <=> LinesSkeleton(expected) = LinesSkeleton(actual)
<1> DEFINE n == Len(expected)
           m == Len(actual)
<1>1. PICK l, M, s, A : /\ KeepsLines(expected, l, M, s, A)
                        /\ NormalizedLines(expected) = Row(l[n], M[n])
                        /\ LinesSkeleton(expected) = s[n]
  BY LinesSteps
<1>2. PICK h, R, t, B : /\ KeepsLines(actual, h, R, t, B)
                        /\ NormalizedLines(actual) = Row(h[m], R[m])
                        /\ LinesSkeleton(actual) = t[m]
  BY LinesSteps
<1> DEFINE z == [k \in 0 .. n |-> <<l[k], M[k]>>]
           y == [k \in 0 .. m |-> <<h[k], R[k]>>]
           b(j) == expected[n - j + 1]
           d(k) == actual[m - k + 1]
<1>3. /\ n \in Nat
      /\ \A k \in 0 .. n : l[k] \in Text /\ M[k] \in Seq(Text) /\ s[k] \in Text
      /\ l[0] = <<>> /\ M[0] = <<>> /\ s[0] = <<>>
      /\ \A k \in 1 .. n : b(k) \in Byte
      /\ \A k \in 1 .. n :
            IF k \notin A THEN s[k] = s[k - 1] /\ l[k] = l[k - 1] /\ M[k] = M[k - 1]
            ELSE /\ s[k] = Cons(b(k), s[k - 1])
                 /\ IF b(k) = LF THEN l[k] = <<>> /\ M[k] = Cons(l[k - 1], M[k - 1])
                    ELSE l[k] = Cons(b(k), l[k - 1]) /\ M[k] = M[k - 1]
  BY <1>1, Zenon DEF KeepsLines
<1>4. /\ m \in Nat
      /\ \A k \in 0 .. m : h[k] \in Text /\ R[k] \in Seq(Text) /\ t[k] \in Text
      /\ h[0] = <<>> /\ R[0] = <<>> /\ t[0] = <<>>
      /\ \A k \in 1 .. m : d(k) \in Byte
      /\ \A k \in 1 .. m :
            IF k \notin B THEN t[k] = t[k - 1] /\ h[k] = h[k - 1] /\ R[k] = R[k - 1]
            ELSE /\ t[k] = Cons(d(k), t[k - 1])
                 /\ IF d(k) = LF THEN h[k] = <<>> /\ R[k] = Cons(h[k - 1], R[k - 1])
                    ELSE h[k] = Cons(d(k), h[k - 1]) /\ R[k] = R[k - 1]
  BY <1>2, Zenon DEF KeepsLines
<1> HIDE DEF n, m, b, d
<1>5. /\ \A k \in 0 .. n : z[k] = <<l[k], M[k]>>
      /\ \A k \in 0 .. m : y[k] = <<h[k], R[k]>>
  OBVIOUS
<1> HIDE DEF z, y
<1>6. /\ 0 \in 0 .. n /\ 0 \in 0 .. m /\ n \in 0 .. n /\ m \in 0 .. m
      /\ \A k \in 1 .. n : k \in 0 .. n /\ k - 1 \in 0 .. n
      /\ \A k \in 1 .. m : k \in 0 .. m /\ k - 1 \in 0 .. m
  BY <1>3, <1>4
<1>c. \A x \in Byte, v \in Text : Cons(x, v) # <<>>
  BY ConsNotEmpty DEF Text
<1>d. \A x \in Text, v \in Seq(Text) : Cons(x, v) # <<>>
  BY ConsNotEmpty
<1>i. \A x, w \in Byte, v, u \in Text : Cons(x, v) = Cons(w, u) <=> x = w /\ v = u
  BY ConsIsInjective DEF Text
<1>j. \A x, w \in Text, v, u \in Seq(Text) : Cons(x, v) = Cons(w, u) <=> x = w /\ v = u
  BY ConsIsInjective
<1>7. Steps(n, A, s, z)
  <2>1. ASSUME NEW j \in 1 .. n
        PROVE  \/ s[j] = s[j - 1] /\ z[j] = z[j - 1]
               \/ j \in A /\ s[j] # s[0] /\ z[j] # z[0]
    <3>0. j \in 0 .. n /\ j - 1 \in 0 .. n /\ 0 \in 0 .. n
      BY <1>6
    <3>1. CASE j \notin A
      BY <3>0, <3>1, <1>3, <1>5
    <3>2. CASE j \in A
      <4>1. s[j] # s[0]
        BY <3>0, <3>2, <1>3, <1>c
      <4>2. l[j] # <<>> \/ M[j] # <<>>
        BY <3>0, <3>2, <1>3, <1>c, <1>d
      <4>3. z[j] # z[0]
        BY <3>0, <4>2, <1>3, <1>5
      <4> QED
        BY <3>2, <4>1, <4>3
    <3> QED
      BY <3>1, <3>2
  <2> QED
    BY <1>3, <2>1 DEF Steps
<1>8. Steps(m, B, t, y)
  <2>1. ASSUME NEW j \in 1 .. m
        PROVE  \/ t[j] = t[j - 1] /\ y[j] = y[j - 1]
               \/ j \in B /\ t[j] # t[0] /\ y[j] # y[0]
    <3>0. j \in 0 .. m /\ j - 1 \in 0 .. m /\ 0 \in 0 .. m
      BY <1>6
    <3>1. CASE j \notin B
      BY <3>0, <3>1, <1>4, <1>5
    <3>2. CASE j \in B
      <4>1. t[j] # t[0]
        BY <3>0, <3>2, <1>4, <1>c
      <4>2. h[j] # <<>> \/ R[j] # <<>>
        BY <3>0, <3>2, <1>4, <1>c, <1>d
      <4>3. y[j] # y[0]
        BY <3>0, <4>2, <1>4, <1>5
      <4> QED
        BY <3>2, <4>1, <4>3
    <3> QED
      BY <3>1, <3>2
  <2> QED
    BY <1>4, <2>1 DEF Steps
<1>9. s[0] = t[0] /\ z[0] = y[0]
  BY <1>3, <1>4, <1>5, <1>6
<1>10. ASSUME NEW j \in A \cap (1 .. n), NEW k \in B \cap (1 .. m),
              s[j - 1] = t[k - 1] <=> z[j - 1] = y[k - 1]
       PROVE  s[j] = t[k] <=> z[j] = y[k]
  <2> DEFINE p == b(j)
             q == d(k)
             l0 == l[j - 1]
             M0 == M[j - 1]
             s0 == s[j - 1]
             h0 == h[k - 1]
             R0 == R[k - 1]
             t0 == t[k - 1]
  <2>1. /\ j \in 0 .. n /\ j - 1 \in 0 .. n /\ k \in 0 .. m /\ k - 1 \in 0 .. m
        /\ p \in Byte /\ q \in Byte
        /\ l0 \in Text /\ M0 \in Seq(Text) /\ s0 \in Text
        /\ h0 \in Text /\ R0 \in Seq(Text) /\ t0 \in Text
    BY <1>3, <1>4, <1>6
  <2>2. /\ s[j] = Cons(p, s0)
        /\ IF p = LF THEN l[j] = <<>> /\ M[j] = Cons(l0, M0) ELSE l[j] = Cons(p, l0) /\ M[j] = M0
    BY <1>3
  <2>3. /\ t[k] = Cons(q, t0)
        /\ IF q = LF THEN h[k] = <<>> /\ R[k] = Cons(h0, R0) ELSE h[k] = Cons(q, h0) /\ R[k] = R0
    BY <1>4
  <2>4. z[j] = y[k] <=> l[j] = h[k] /\ M[j] = R[k]
    <3>1. z[j] = <<l[j], M[j]>> /\ y[k] = <<h[k], R[k]>>
      BY <1>5, <2>1
    <3> QED
      BY <3>1
  <2>5. s0 = t0 <=> l0 = h0 /\ M0 = R0
    BY <1>5, <1>10, <2>1
  <2> HIDE DEF p, q, l0, M0, s0, h0, R0, t0
  <2>6. s[j] = t[k] <=> p = q /\ s0 = t0
    BY <2>1, <2>2, <2>3, <1>i
  <2>7. l[j] = h[k] /\ M[j] = R[k] <=> p = q /\ l0 = h0 /\ M0 = R0
    <3>1. CASE p = LF /\ q = LF
      BY <3>1, <2>1, <2>2, <2>3, <1>j
    <3>2. CASE p = LF /\ q # LF
      BY <3>2, <2>1, <2>2, <2>3, <1>c
    <3>3. CASE p # LF /\ q = LF
      BY <3>3, <2>1, <2>2, <2>3, <1>c
    <3>4. CASE p # LF /\ q # LF
      <4>1. Cons(p, l0) = Cons(q, h0) <=> p = q /\ l0 = h0
        BY <2>1, <1>i
      <4>2. l[j] = Cons(p, l0) /\ M[j] = M0 /\ h[k] = Cons(q, h0) /\ R[k] = R0
        BY <3>4, <2>2, <2>3
      <4> QED
        BY <4>1, <4>2
    <3> QED
      BY <3>1, <3>2, <3>3, <3>4
  <2> QED
    BY <2>4, <2>5, <2>6, <2>7
<1>11. s[n] = t[m] <=> z[n] = y[m]
  BY <1>7, <1>8, <1>9, <1>10, StepsAgree
<1>12. z[n] = y[m] <=> l[n] = h[m] /\ M[n] = R[m]
  BY <1>5, <1>6
<1>13. Row(l[n], M[n]) = Row(h[m], R[m]) <=> l[n] = h[m] /\ M[n] = R[m]
  <2>1. l[n] \in Text /\ M[n] \in Seq(Text) /\ h[m] \in Text /\ R[m] \in Seq(Text)
    BY <1>3, <1>4, <1>6
  <2> QED
    BY <2>1, <1>d, <1>j DEF Row
<1> QED
  BY <1>1, <1>2, <1>11, <1>12, <1>13 DEF CompareLines, n, m
-----------------------------------------------------------------------------
(* The tokens and the words, from the end: white space changes neither, any  *)
(* other byte is a new token if it ends a word, and else goes in front of    *)
(* the first token.                                                          *)
KeepsWords(data, z, w, kept, ends) ==
  LET n == Len(data)
      b(k) == data[n - k + 1]
  IN  /\ n \in Nat
      /\ \A k \in 0 .. n : z[k] \in Seq(Text) /\ w[k] \in Seq(Byte \X BOOLEAN)
      /\ z[0] = <<>> /\ w[0] = <<>>
      /\ \A k \in 1 .. n : b(k) \in Byte /\ ends[k] \in BOOLEAN
      /\ \A k \in 1 .. n :
            IF k \notin kept THEN w[k] = w[k - 1] /\ z[k] = z[k - 1]
            ELSE /\ w[k] = Cons(<<b(k), ends[k]>>, w[k - 1])
                 /\ IF ends[k] THEN z[k] = Cons(Cons(b(k), <<>>), z[k - 1])
                    ELSE \E x \in Text, s \in Seq(Text) :
                           x # <<>> /\ z[k - 1] = Cons(x, s) /\ z[k] = Cons(Cons(b(k), x), s)

LEMMA TokensSteps ==
  ASSUME NEW data \in Text
  PROVE  \E z, w, kept, ends : /\ KeepsWords(data, z, w, kept, ends)
                               /\ Tokens(data) = z[Len(data)]
                               /\ Words(data) = w[Len(data)]
<1> DEFINE n == Len(data)
           T == Byte \X BOOLEAN
           marked == [i \in DOMAIN data |-> <<data[i], i = Len(data) \/ data[i + 1] \in White>>]
           places == {i \in DOMAIN data : data[i] \notin White}
           kept == {k \in 1 .. n : data[n - k + 1] \notin White}
<1>1. PICK head, tail : /\ Splits(data, White, head, tail)
                        /\ Split(data, White) = Cons(head[n], tail[n])
  BY SplitSteps
<1>2. /\ n \in Nat /\ \A k \in 0 .. n : head[k] \in Text /\ tail[k] \in Seq(Text)
      /\ head[0] = <<>> /\ tail[0] = <<>>
      /\ \A k \in 1 .. n :
            IF data[n - k + 1] \in White
            THEN head[k] = <<>> /\ tail[k] = Cons(head[k - 1], tail[k - 1])
            ELSE head[k] = Cons(data[n - k + 1], head[k - 1]) /\ tail[k] = tail[k - 1]
  BY <1>1 DEF Splits
<1>3. DOMAIN data = 1 .. n /\ \A i \in 1 .. n : data[i] \in Byte
  BY LenProperties, ElementOfSeq DEF Text
<1>4. \A i \in 1 .. n : marked[i] = <<data[i], i = n \/ data[i + 1] \in White>>
  BY <1>3
<1>5. marked \in Seq(T) /\ Len(marked) = n
  <2>1. DOMAIN marked = 1 .. n
    BY <1>3
  <2>2. \A i \in 1 .. n : marked[i] \in T
    BY <1>3, <1>4
  <2>3. marked \in [1 .. n -> T]
    BY <2>1, <2>2
  <2> HIDE DEF marked, T, n
  <2>4. marked \in Seq(T) /\ DOMAIN marked = 1 .. n
    BY <1>2, <2>1, <2>3
  <2>5. Len(marked) = n
    BY <1>2, <2>4
  <2> QED
    BY <2>4, <2>5
<1> HIDE DEF marked
<1>6. PICK w : Keeps(marked, places, w, T) /\ Subsequence(marked, places) = w[n]
  <2> HIDE DEF places, T
  <2> QED
    BY <1>5, SubsequenceSteps
<1>7. Words(data) = w[n]
  BY <1>6, Zenon DEF Words, marked
<1> HIDE DEF T
<1>8. /\ w[0] = <<>> /\ \A k \in 0 .. n : w[k] \in Seq(T)
      /\ \A k \in 1 .. n :
            w[k] = IF n - k + 1 \in places THEN Cons(marked[n - k + 1], w[k - 1]) ELSE w[k - 1]
  BY <1>5, <1>6 DEF Keeps
<1> HIDE DEF n
<1> DEFINE full(x, t) == IF x = <<>> THEN NonEmpty(t) ELSE Cons(x, NonEmpty(t))
           z == [k \in 0 .. n |-> full(head[k], tail[k])]
           ends == [k \in 1 .. n |-> head[k - 1] = <<>>]
<1>9. /\ \A k \in 0 .. n : z[k] = full(head[k], tail[k])
      /\ \A k \in 1 .. n : ends[k] = (head[k - 1] = <<>>)
  OBVIOUS
<1> HIDE DEF z, ends
<1>10. \A k \in 1 .. n : /\ k \in 0 .. n /\ k - 1 \in 0 .. n
                         /\ n - k + 1 \in 1 .. n /\ data[n - k + 1] \in Byte
  <2>1. \A k \in 1 .. n : k \in 0 .. n /\ k - 1 \in 0 .. n /\ n - k + 1 \in 1 .. n
    BY <1>2
  <2> QED
    BY <2>1, <1>3
<1>11. ASSUME NEW x \in Text, NEW s \in Seq(Text)
       PROVE  /\ NonEmpty(Cons(x, s)) = full(x, s)
              /\ full(x, s) \in Seq(Text)
  <2>1. NonEmpty(s) \in Seq(Text) /\ NonEmpty(Cons(x, s)) = full(x, s)
    BY NonEmptyOfCons
  <2> QED
    BY <2>1, ConsType
<1>12. Tokens(data) = z[n]
  <2>1. n \in 0 .. n
    BY <1>2
  <2>2. Tokens(data) = NonEmpty(Cons(head[n], tail[n]))
    BY <1>1, Zenon DEF Tokens, NonEmpty, n
  <2> HIDE DEF full
  <2> QED
    BY <2>1, <2>2, <1>2, <1>9, <1>11
<1>13. ASSUME NEW k \in 1 .. n
       PROVE  marked[n - k + 1] = <<data[n - k + 1], ends[k]>> /\ ends[k] \in BOOLEAN
  <2> DEFINE i == n - k + 1
  <2>1. marked[i] = <<data[i], i = n \/ data[i + 1] \in White>>
    BY <1>4, <1>10
  <2>2. ends[k] = (head[k - 1] = <<>>)
    BY <1>9
  <2>3. i = n \/ data[i + 1] \in White <=> head[k - 1] = <<>>
    <3>1. CASE k = 1
      <4>1. i = n /\ k - 1 = 0
        BY <1>2, <3>1
      <4> HIDE DEF i
      <4> QED
        BY <4>1, <1>2
    <3>2. CASE k # 1
      <4> DEFINE p == k - 1
      <4>1. p \in 1 .. n /\ n - p + 1 = i + 1 /\ i # n
        BY <1>2, <3>2
      <4> HIDE DEF i, p
      <4>2. IF data[i + 1] \in White THEN head[p] = <<>>
            ELSE head[p] = Cons(data[i + 1], head[p - 1])
        BY <4>1, <1>2
      <4>3. Cons(data[i + 1], head[p - 1]) # <<>>
        <5>1. data[i + 1] \in Byte /\ head[p - 1] \in Text
          BY <4>1, <1>2, <1>10
        <5> QED
          BY <5>1, ConsNotEmpty DEF Text
      <4> QED
        BY <4>1, <4>2, <4>3 DEF p
    <3> QED
      BY <3>1, <3>2
  <2>4. ends[k] \in BOOLEAN /\ (i = n \/ data[i + 1] \in White) = ends[k]
    <3>1. ends[k] \in BOOLEAN
      BY <2>2
    <3>2. (i = n \/ data[i + 1] \in White) = (head[k - 1] = <<>>)
      BY <2>3
    <3> QED
      BY <3>1, <3>2, <2>2
  <2> HIDE DEF i
  <2>5. marked[i] = <<data[i], ends[k]>>
    BY <2>1, <2>4, Zenon
  <2> QED
    BY <2>4, <2>5 DEF i
<1>14. ASSUME NEW k \in 1 .. n
       PROVE  IF k \notin kept THEN w[k] = w[k - 1] /\ z[k] = z[k - 1]
              ELSE /\ w[k] = Cons(<<data[n - k + 1], ends[k]>>, w[k - 1])
                   /\ IF ends[k] THEN z[k] = Cons(Cons(data[n - k + 1], <<>>), z[k - 1])
                      ELSE \E x \in Text, s \in Seq(Text) :
                             x # <<>> /\ z[k - 1] = Cons(x, s) /\ z[k] = Cons(Cons(data[n - k + 1], x), s)
  <2> DEFINE b == data[n - k + 1]
             x == head[k - 1]
             t == tail[k - 1]
             white == b \in White
  <2>1. /\ b \in Byte /\ x \in Text /\ t \in Seq(Text) /\ head[k] \in Text /\ tail[k] \in Seq(Text)
        /\ z[k] = full(head[k], tail[k]) /\ z[k - 1] = full(x, t) /\ ends[k] = (x = <<>>)
    BY <1>2, <1>9, <1>10
  <2>2. IF white THEN head[k] = <<>> /\ tail[k] = Cons(x, t) ELSE head[k] = Cons(b, x) /\ tail[k] = t
    BY <1>2
  <2>3. w[k] = IF white THEN w[k - 1] ELSE Cons(<<b, ends[k]>>, w[k - 1])
    <3>1. n - k + 1 \in places <=> ~white
      BY <1>3, <1>10
    <3>2. w[k] = IF n - k + 1 \in places THEN Cons(marked[n - k + 1], w[k - 1]) ELSE w[k - 1]
      BY <1>8
    <3>3. marked[n - k + 1] = <<b, ends[k]>>
      BY <1>13
    <3> HIDE DEF white, b, places
    <3> QED
      BY <3>1, <3>2, <3>3
  <2>4. k \in kept <=> ~white
    OBVIOUS
  <2>5. NonEmpty(t) \in Seq(Text) /\ NonEmpty(Cons(x, t)) = full(x, t)
    BY <2>1, NonEmptyOfCons
  <2>6. Cons(b, x) # <<>>
    BY <2>1, ConsNotEmpty DEF Text
  <2> HIDE DEF b, x, t, white, kept
  <2>7. CASE white
    <3>1. z[k] = NonEmpty(Cons(x, t))
      BY <2>1, <2>2, <2>7
    <3>2. w[k] = w[k - 1]
      BY <2>3, <2>7
    <3> HIDE DEF full
    <3> QED
      BY <2>1, <2>4, <2>5, <2>7, <3>1, <3>2
  <2>8. CASE ~white
    <3>1. z[k] = Cons(Cons(b, x), NonEmpty(t))
      BY <2>1, <2>2, <2>6, <2>8
    <3>2. w[k] = Cons(<<b, ends[k]>>, w[k - 1])
      BY <2>3, <2>8
    <3>3. CASE x = <<>>
      <4>1. z[k - 1] = NonEmpty(t) /\ ends[k] = TRUE
        BY <2>1, <3>3
      <4>2. z[k] = Cons(Cons(b, <<>>), z[k - 1])
        BY <3>1, <3>3, <4>1
      <4> QED
        BY <2>4, <2>8, <3>2, <4>1, <4>2 DEF b
    <3>4. CASE x # <<>>
      <4>1. z[k - 1] = Cons(x, NonEmpty(t)) /\ ends[k] = FALSE
        BY <2>1, <3>4
      <4>2. \E u \in Text, s \in Seq(Text) :
               u # <<>> /\ z[k - 1] = Cons(u, s) /\ z[k] = Cons(Cons(b, u), s)
        BY <2>1, <2>5, <3>1, <3>4, <4>1
      <4> QED
        BY <2>4, <2>8, <3>2, <4>1, <4>2 DEF b
    <3> QED
      BY <3>3, <3>4
  <2> QED
    BY <2>7, <2>8
<1> HIDE DEF kept
<1>15. \A k \in 0 .. n : z[k] \in Seq(Text) /\ w[k] \in Seq(Byte \X BOOLEAN)
  <2> HIDE DEF full
  <2>1. \A k \in 0 .. n : z[k] \in Seq(Text)
    BY <1>2, <1>9, <1>11
  <2>2. \A k \in 0 .. n : w[k] \in Seq(Byte \X BOOLEAN)
    BY <1>8, Zenon DEF T
  <2> QED
    BY <2>1, <2>2
<1>16. z[0] = <<>> /\ w[0] = <<>>
  <2>1. 0 \in 0 .. n
    BY <1>2
  <2> QED
    BY <2>1, <1>2, <1>8, <1>9, NonEmptyOfNone
<1>17. \A k \in 1 .. n : data[n - k + 1] \in Byte /\ ends[k] \in BOOLEAN
  BY <1>10, <1>13
<1>18. KeepsWords(data, z, w, kept, ends)
  BY <1>2, <1>14, <1>15, <1>16, <1>17, Zenon DEF KeepsWords, n
<1> QED
  BY <1>7, <1>12, <1>18, Zenon DEF n

(* "tokens": the two outputs have the same tokens exactly if they have the   *)
(* same words.                                                               *)
LEMMA TokensRight ==
  ASSUME NEW expected \in Text, NEW actual \in Text
  PROVE  Tokens(expected) = Tokens(actual) <=> Words(expected) = Words(actual)
<1> DEFINE n == Len(expected)
           m == Len(actual)
           T == Byte \X BOOLEAN
           b(j) == expected[n - j + 1]
           d(k) == actual[m - k + 1]
<1>1. PICK z, w, A, f : /\ KeepsWords(expected, z, w, A, f)
                        /\ Tokens(expected) = z[n] /\ Words(expected) = w[n]
  BY TokensSteps
<1>2. PICK y, v, B, g : /\ KeepsWords(actual, y, v, B, g)
                        /\ Tokens(actual) = y[m] /\ Words(actual) = v[m]
  BY TokensSteps
<1>3. /\ n \in Nat
      /\ \A k \in 0 .. n : z[k] \in Seq(Text) /\ w[k] \in Seq(T)
      /\ z[0] = <<>> /\ w[0] = <<>>
      /\ \A k \in 1 .. n : b(k) \in Byte /\ f[k] \in BOOLEAN
      /\ \A k \in 1 .. n :
            IF k \notin A THEN w[k] = w[k - 1] /\ z[k] = z[k - 1]
            ELSE /\ w[k] = Cons(<<b(k), f[k]>>, w[k - 1])
                 /\ IF f[k] THEN z[k] = Cons(Cons(b(k), <<>>), z[k - 1])
                    ELSE \E x \in Text, s \in Seq(Text) :
                           x # <<>> /\ z[k - 1] = Cons(x, s) /\ z[k] = Cons(Cons(b(k), x), s)
  BY <1>1, Zenon DEF KeepsWords
<1>4. /\ m \in Nat
      /\ \A k \in 0 .. m : y[k] \in Seq(Text) /\ v[k] \in Seq(T)
      /\ y[0] = <<>> /\ v[0] = <<>>
      /\ \A k \in 1 .. m : d(k) \in Byte /\ g[k] \in BOOLEAN
      /\ \A k \in 1 .. m :
            IF k \notin B THEN v[k] = v[k - 1] /\ y[k] = y[k - 1]
            ELSE /\ v[k] = Cons(<<d(k), g[k]>>, v[k - 1])
                 /\ IF g[k] THEN y[k] = Cons(Cons(d(k), <<>>), y[k - 1])
                    ELSE \E x \in Text, s \in Seq(Text) :
                           x # <<>> /\ y[k - 1] = Cons(x, s) /\ y[k] = Cons(Cons(d(k), x), s)
  BY <1>2, Zenon DEF KeepsWords
<1> HIDE DEF n, m, b, d
<1>0. <<>> \in Text
  BY EmptySeq DEF Text
<1>c. \A x \in Byte, s \in Text : Cons(x, s) # <<>> /\ Cons(x, s) \in Text
  BY ConsNotEmpty, ConsType DEF Text
<1>d. \A x \in Text, s \in Seq(Text) : Cons(x, s) # <<>>
  BY ConsNotEmpty
<1>e. \A x \in T, s \in Seq(T) : Cons(x, s) # <<>>
  BY ConsNotEmpty
<1>i. \A x, w1 \in Byte, s, u \in Text : Cons(x, s) = Cons(w1, u) <=> x = w1 /\ s = u
  BY ConsIsInjective DEF Text
<1>j. \A x, w1 \in Text, s, u \in Seq(Text) : Cons(x, s) = Cons(w1, u) <=> x = w1 /\ s = u
  BY ConsIsInjective
<1>t. \A x \in Byte, e \in BOOLEAN : <<x, e>> \in T
  OBVIOUS
<1>p. \A x, u \in Byte, e, h \in BOOLEAN : <<x, e>> = <<u, h>> <=> x = u /\ e = h
  OBVIOUS
<1> HIDE DEF T
<1>k. \A x, w1 \in T, s, u \in Seq(T) : Cons(x, s) = Cons(w1, u) <=> x = w1 /\ s = u
  BY ConsIsInjective
<1>6. /\ 0 \in 0 .. n /\ 0 \in 0 .. m /\ n \in 0 .. n /\ m \in 0 .. m
      /\ \A k \in 1 .. n : k \in 0 .. n /\ k - 1 \in 0 .. n
      /\ \A k \in 1 .. m : k \in 0 .. m /\ k - 1 \in 0 .. m
  BY <1>3, <1>4
<1>7. Steps(n, A, w, z)
  <2>1. ASSUME NEW j \in 1 .. n
        PROVE  \/ w[j] = w[j - 1] /\ z[j] = z[j - 1]
               \/ j \in A /\ w[j] # w[0] /\ z[j] # z[0]
    <3>0. /\ b(j) \in Byte /\ f[j] \in BOOLEAN
          /\ z[j - 1] \in Seq(Text) /\ w[j - 1] \in Seq(T) /\ z[0] = <<>> /\ w[0] = <<>>
      BY <1>3, <1>6
    <3>1. CASE j \notin A
      BY <3>1, <1>3
    <3>2. CASE j \in A
      <4>1. w[j] # <<>>
        BY <3>0, <3>2, <1>3, <1>e, <1>t
      <4>2. z[j] # <<>>
        <5>1. CASE f[j]
          <6>1. z[j] = Cons(Cons(b(j), <<>>), z[j - 1])
            BY <3>2, <5>1, <1>3
          <6> QED
            BY <6>1, <3>0, <1>0, <1>c, <1>d
        <5>2. CASE ~f[j]
          <6>1. \E x \in Text, s \in Seq(Text) : z[j] = Cons(Cons(b(j), x), s)
            BY <3>2, <5>2, <1>3
          <6> QED
            BY <6>1, <3>0, <1>c, <1>d
        <5> QED
          BY <5>1, <5>2
      <4> QED
        BY <3>0, <3>2, <4>1, <4>2
    <3> QED
      BY <3>1, <3>2
  <2> QED
    BY <1>3, <2>1 DEF Steps
<1>8. Steps(m, B, v, y)
  <2>1. ASSUME NEW j \in 1 .. m
        PROVE  \/ v[j] = v[j - 1] /\ y[j] = y[j - 1]
               \/ j \in B /\ v[j] # v[0] /\ y[j] # y[0]
    <3>0. /\ d(j) \in Byte /\ g[j] \in BOOLEAN
          /\ y[j - 1] \in Seq(Text) /\ v[j - 1] \in Seq(T) /\ y[0] = <<>> /\ v[0] = <<>>
      BY <1>4, <1>6
    <3>1. CASE j \notin B
      BY <3>1, <1>4
    <3>2. CASE j \in B
      <4>1. v[j] # <<>>
        BY <3>0, <3>2, <1>4, <1>e, <1>t
      <4>2. y[j] # <<>>
        <5>1. CASE g[j]
          <6>1. y[j] = Cons(Cons(d(j), <<>>), y[j - 1])
            BY <3>2, <5>1, <1>4
          <6> QED
            BY <6>1, <3>0, <1>0, <1>c, <1>d
        <5>2. CASE ~g[j]
          <6>1. \E x \in Text, s \in Seq(Text) : y[j] = Cons(Cons(d(j), x), s)
            BY <3>2, <5>2, <1>4
          <6> QED
            BY <6>1, <3>0, <1>c, <1>d
        <5> QED
          BY <5>1, <5>2
      <4> QED
        BY <3>0, <3>2, <4>1, <4>2
    <3> QED
      BY <3>1, <3>2
  <2> QED
    BY <1>4, <2>1 DEF Steps
<1>9. w[0] = v[0] /\ z[0] = y[0]
  BY <1>3, <1>4
<1>10. ASSUME NEW j \in A \cap (1 .. n), NEW k \in B \cap (1 .. m),
              w[j - 1] = v[k - 1] <=> z[j - 1] = y[k - 1]
       PROVE  w[j] = v[k] <=> z[j] = y[k]
  <2> DEFINE p == b(j)
             q == d(k)
             e == f[j]
             h == g[k]
             z0 == z[j - 1]
             y0 == y[k - 1]
  <2>1. /\ p \in Byte /\ q \in Byte /\ e \in BOOLEAN /\ h \in BOOLEAN
        /\ z0 \in Seq(Text) /\ y0 \in Seq(Text) /\ w[j - 1] \in Seq(T) /\ v[k - 1] \in Seq(T)
    BY <1>3, <1>4, <1>6
  <2>2. /\ w[j] = Cons(<<p, e>>, w[j - 1])
        /\ IF e THEN z[j] = Cons(Cons(p, <<>>), z0)
           ELSE \E x \in Text, s \in Seq(Text) : x # <<>> /\ z0 = Cons(x, s) /\ z[j] = Cons(Cons(p, x), s)
    BY <1>3
  <2>3. /\ v[k] = Cons(<<q, h>>, v[k - 1])
        /\ IF h THEN y[k] = Cons(Cons(q, <<>>), y0)
           ELSE \E x \in Text, s \in Seq(Text) : x # <<>> /\ y0 = Cons(x, s) /\ y[k] = Cons(Cons(q, x), s)
    BY <1>4
  <2> HIDE DEF p, q, e, h
  <2>4. w[j] = v[k] <=> p = q /\ e = h /\ z0 = y0
    <3>1. <<p, e>> \in T /\ <<q, h>> \in T
      BY <2>1, <1>t
    <3>2. Cons(<<p, e>>, w[j - 1]) = Cons(<<q, h>>, v[k - 1])
            <=> <<p, e>> = <<q, h>> /\ w[j - 1] = v[k - 1]
      <4> DEFINE mark == <<p, e>>
                 other == <<q, h>>
                 w0 == w[j - 1]
                 v0 == v[k - 1]
      <4>1. mark \in T /\ other \in T /\ w0 \in Seq(T) /\ v0 \in Seq(T)
        BY <2>1, <3>1
      <4> HIDE DEF mark, other, w0, v0
      <4>2. Cons(mark, w0) = Cons(other, v0) <=> mark = other /\ w0 = v0
        BY <4>1, <1>k
      <4> QED
        BY <4>2 DEF mark, other, w0, v0
    <3>3. <<p, e>> = <<q, h>> <=> p = q /\ e = h
      BY <2>1, <1>p
    <3> QED
      BY <3>2, <3>3, <2>2, <2>3, <1>10
  <2> HIDE DEF z0, y0
  <2>n. Cons(p, <<>>) \in Text /\ Cons(q, <<>>) \in Text
    BY <2>1, <1>0, <1>c
  <2>5. CASE e /\ h
    <3>1. z[j] = Cons(Cons(p, <<>>), z0) /\ y[k] = Cons(Cons(q, <<>>), y0)
      BY <2>5, <2>2, <2>3
    <3>2. Cons(Cons(p, <<>>), z0) = Cons(Cons(q, <<>>), y0) <=> Cons(p, <<>>) = Cons(q, <<>>) /\ z0 = y0
      BY <2>1, <2>n, <1>j
    <3>3. Cons(p, <<>>) = Cons(q, <<>>) <=> p = q
      BY <2>1, <1>0, <1>i
    <3> QED
      BY <2>4, <2>5, <3>1, <3>2, <3>3
  <2>6. CASE e /\ ~h
    <3>1. z[j] = Cons(Cons(p, <<>>), z0)
      BY <2>6, <2>2
    <3>2. PICK x \in Text, s \in Seq(Text) : x # <<>> /\ y[k] = Cons(Cons(q, x), s)
      BY <2>6, <2>3
    <3>3. Cons(q, x) \in Text /\ Cons(p, <<>>) # Cons(q, x)
      BY <2>1, <3>2, <1>0, <1>c, <1>i
    <3>4. z[j] # y[k]
      BY <2>1, <2>n, <3>1, <3>2, <3>3, <1>j
    <3> QED
      BY <2>4, <2>6, <3>4
  <2>7. CASE ~e /\ h
    <3>1. y[k] = Cons(Cons(q, <<>>), y0)
      BY <2>7, <2>3
    <3>2. PICK x \in Text, s \in Seq(Text) : x # <<>> /\ z[j] = Cons(Cons(p, x), s)
      BY <2>7, <2>2
    <3>3. Cons(p, x) \in Text /\ Cons(p, x) # Cons(q, <<>>)
      BY <2>1, <3>2, <1>0, <1>c, <1>i
    <3>4. z[j] # y[k]
      BY <2>1, <2>n, <3>1, <3>2, <3>3, <1>j
    <3> QED
      BY <2>4, <2>7, <3>4
  <2>8. CASE ~e /\ ~h
    <3>1. PICK x \in Text, s \in Seq(Text) : z0 = Cons(x, s) /\ z[j] = Cons(Cons(p, x), s)
      BY <2>8, <2>2
    <3>2. PICK u \in Text, r \in Seq(Text) : y0 = Cons(u, r) /\ y[k] = Cons(Cons(q, u), r)
      BY <2>8, <2>3
    <3>3. Cons(p, x) \in Text /\ Cons(q, u) \in Text
      BY <2>1, <1>c
    <3>4. z[j] = y[k] <=> Cons(p, x) = Cons(q, u) /\ s = r
      BY <3>1, <3>2, <3>3, <1>j
    <3>5. Cons(p, x) = Cons(q, u) <=> p = q /\ x = u
      BY <2>1, <1>i
    <3>6. z0 = y0 <=> x = u /\ s = r
      BY <3>1, <3>2, <1>j
    <3> QED
      BY <2>1, <2>4, <2>8, <3>4, <3>5, <3>6
  <2> QED
    BY <2>1, <2>5, <2>6, <2>7, <2>8
<1>11. w[n] = v[m] <=> z[n] = y[m]
  BY <1>7, <1>8, <1>9, <1>10, StepsAgree
<1> QED
  BY <1>1, <1>2, <1>11 DEF n, m

LEMMA TokensType ==
  ASSUME NEW data \in Text
  PROVE  Tokens(data) \in Seq(Text)
<1>1. PICK z, w, A, f : KeepsWords(data, z, w, A, f) /\ Tokens(data) = z[Len(data)]
  BY TokensSteps
<1>2. /\ Len(data) \in Nat /\ \A k \in 0 .. Len(data) : z[k] \in Seq(Text)
  BY <1>1 DEF KeepsWords
<1> QED
  BY <1>1, <1>2

(* compare() judges as the comparers promise, for every two outputs.         *)
THEOREM ComparersJudgeRight ==
  ASSUME NEW comparer, comparer.kind \in {"lines", "tokens", "float"},
         NEW expected \in Text, NEW actual \in Text,
         NEW accepts \in BOOLEAN, accepts <=> Matches(comparer, expected, actual)
  PROVE  JudgesRight(comparer, expected, actual, accepts)
<1> DEFINE e == Tokens(expected)
           a == Tokens(actual)
           close(eps) == /\ Len(e) = Len(a)
                         /\ \A i \in DOMAIN e : e[i] = a[i] \/ (eps # None /\ FloatsMatch(e[i], a[i], eps))
           same == Words(expected) = Words(actual)
<1>1. e \in Seq(Text) /\ a \in Seq(Text) /\ (e = a <=> same)
  BY TokensType, TokensRight
<1>2. \A eps : CompareTokens(expected, actual, eps) = close(eps)
  BY DEF CompareTokens
<1>3. close(None) <=> same
  <2> HIDE DEF e, a, same
  <2>1. DOMAIN e = 1 .. Len(e)
    BY <1>1, LenProperties
  <2>2. close(None) <=> Len(e) = Len(a) /\ \A i \in 1 .. Len(e) : e[i] = a[i]
    BY <2>1
  <2>3. Len(e) = Len(a) /\ (\A i \in 1 .. Len(e) : e[i] = a[i]) => e = a
    BY <1>1, SeqEqual
  <2>4. e = a => Len(e) = Len(a) /\ \A i \in 1 .. Len(e) : e[i] = a[i]
    OBVIOUS
  <2> QED
    BY <1>1, <2>2, <2>3, <2>4
<1>4. \A eps : (same => close(eps)) /\ (close(eps) => Len(e) = Len(a))
  <2> HIDE DEF e, a, same
  <2> QED
    BY <1>1
<1>5. CASE comparer.kind = "lines"
  <2>1. Matches(comparer, expected, actual) = CompareLines(expected, actual)
    BY <1>5 DEF Matches
  <2>2. CompareLines(expected, actual) <=> LinesSkeleton(expected) = LinesSkeleton(actual)
    BY LinesRight
  <2> QED
    BY <1>5, <2>1, <2>2 DEF JudgesRight
<1>6. CASE comparer.kind = "tokens"
  <2>1. Matches(comparer, expected, actual) = close(None)
    BY <1>2, <1>6 DEF Matches
  <2> HIDE DEF close
  <2> QED
    BY <1>3, <1>6, <2>1 DEF JudgesRight
<1>7. CASE comparer.kind = "float"
  <2>1. Matches(comparer, expected, actual) = close(comparer.eps)
    BY <1>2, <1>7 DEF Matches
  <2>2. (same => close(comparer.eps)) /\ (close(comparer.eps) => Len(e) = Len(a))
    BY <1>4
  <2> HIDE DEF close
  <2> QED
    BY <1>7, <2>1, <2>2 DEF JudgesRight
<1> QED
  BY <1>5, <1>6, <1>7
=============================================================================
