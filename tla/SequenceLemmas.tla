--------------------------- MODULE SequenceLemmas ---------------------------
(* Facts the other proofs cite: what taking an element out of a sequence    *)
(* does to the others, and induction over the natural numbers, which is     *)
(* stated of sets.                                                          *)
EXTENDS Integers, Sequences, SequencesExt, SequenceTheorems, FiniteSetTheorems,
        WellFoundedInduction, TLAPS

\* the elements stay in the set they came from
LEMMA RemoveAtType ==
    ASSUME NEW S, NEW s \in Seq(S), NEW i \in 1 .. Len(s)
    PROVE  RemoveAt(s, i) \in Seq(S)
<1>1. SubSeq(s, 1, i - 1) \in Seq(S)
  BY SubSeqProperties
<1>2. SubSeq(s, i + 1, Len(s)) \in Seq(S)
  BY SubSeqProperties
<1> QED
  BY <1>1, <1>2, ConcatProperties DEF RemoveAt

\* those before the place stay, those after it move up by one
LEMMA RemoveAtElements ==
    ASSUME NEW S, NEW s \in Seq(S), NEW i \in 1 .. Len(s)
    PROVE  /\ Len(RemoveAt(s, i)) = Len(s) - 1
           /\ \A j \in 1 .. Len(s) - 1 :
                RemoveAt(s, i)[j] = IF j < i THEN s[j] ELSE s[j + 1]
<1> DEFINE a == SubSeq(s, 1, i - 1)
           b == SubSeq(s, i + 1, Len(s))
<1>1. Len(s) \in Nat /\ i \in Nat /\ i - 1 \in 0 .. Len(s) /\ i + 1 \in 1 .. Len(s) + 1
  OBVIOUS
<1>2. /\ a \in Seq(S) /\ Len(a) = i - 1
      /\ \A j \in 1 .. i - 1 : a[j] = s[j]
  BY <1>1, SubSeqProperties
<1>3. /\ b \in Seq(S) /\ Len(b) = Len(s) - i
      /\ \A j \in 1 .. Len(s) - i : b[j] = s[i + j]
  BY <1>1, SubSeqProperties
<1>4. RemoveAt(s, i) = a \o b
  BY DEF RemoveAt
<1> HIDE DEF a, b
<1>5. /\ Len(a \o b) = Len(a) + Len(b)
      /\ \A j \in 1 .. Len(a) + Len(b) :
           (a \o b)[j] = IF j <= Len(a) THEN a[j] ELSE b[j - Len(a)]
  BY <1>2, <1>3, ConcatProperties
<1>6. ASSUME NEW j \in 1 .. Len(s) - 1
      PROVE  (a \o b)[j] = IF j < i THEN s[j] ELSE s[j + 1]
  <2>1. CASE j < i
    BY <1>1, <1>2, <1>3, <1>5, <2>1
  <2>2. CASE ~(j < i)
    <3>1. (a \o b)[j] = b[j - (i - 1)]
      BY <1>1, <1>2, <1>3, <1>5, <2>2
    <3>2. j - (i - 1) \in 1 .. Len(s) - i /\ i + (j - (i - 1)) = j + 1
      BY <1>1, <2>2
    <3> QED
      BY <1>3, <2>2, <3>1, <3>2
  <2> QED
    BY <2>1, <2>2
<1> QED
  BY <1>1, <1>2, <1>3, <1>4, <1>5, <1>6

\* no element comes twice
Distinct(s) == \A i, j \in 1 .. Len(s) : s[i] = s[j] => i = j

\* in a sequence without repetitions the first e is the only one
LEMMA RemoveFirstIsRemoveAt ==
    ASSUME NEW S, NEW s \in Seq(S), NEW i \in 1 .. Len(s),
           Distinct(s)
    PROVE  RemoveFirst(s, s[i]) = RemoveAt(s, i)
<1> DEFINE I == {j \in 1 .. Len(s) : s[j] = s[i]}
<1>1. I = {i}
  BY DEF Distinct
<1>2. SelectInSeq(s, LAMBDA v : v = s[i]) = IF I # {} THEN Min(I) ELSE 0
  BY DEF SelectInSeq
<1>3. Min({i}) = i
  BY DEF Min
<1> QED
  BY <1>1, <1>2, <1>3 DEF RemoveFirst

\* s' is s without its element at i
TakenOut(s, i, r) ==
    /\ Len(r) = Len(s) - 1
    /\ \A j \in 1 .. Len(s) - 1 : r[j] = IF j < i THEN s[j] ELSE s[j + 1]

\* taking one out of distinct elements leaves the others, distinct
LEMMA DistinctWithout ==
    ASSUME NEW S, NEW s \in Seq(S), Distinct(s), NEW i \in 1 .. Len(s),
           NEW r, TakenOut(s, i, r)
    PROVE  /\ Distinct(r)
           /\ \A j \in 1 .. Len(r) : \E k \in 1 .. Len(s) : r[j] = s[k] /\ s[k] # s[i]
<1>a. Len(s) \in Nat
  OBVIOUS
<1>1. ASSUME NEW j \in 1 .. Len(r), NEW k \in 1 .. Len(r), r[j] = r[k]
      PROVE  j = k
  BY <1>a, <1>1 DEF TakenOut, Distinct
<1>2. ASSUME NEW j \in 1 .. Len(r)
      PROVE  \E k \in 1 .. Len(s) : r[j] = s[k] /\ s[k] # s[i]
  <2>1. CASE j < i
    BY <1>a, <2>1 DEF TakenOut, Distinct
  <2>2. CASE ~(j < i)
    <3>1. j + 1 \in 1 .. Len(s) /\ j + 1 # i /\ r[j] = s[j + 1]
      BY <1>a, <2>2 DEF TakenOut
    <3> QED
      BY <3>1 DEF Distinct
  <2> QED
    BY <2>1, <2>2
<1> QED
  BY <1>1, <1>2 DEF Distinct

\* the first element is taken out by Tail
LEMMA TailTakesOut ==
    ASSUME NEW S, NEW s \in Seq(S), s # <<>>
    PROVE  /\ 1 \in 1 .. Len(s) /\ s[1] = Head(s)
           /\ Tail(s) \in Seq(S) /\ TakenOut(s, 1, Tail(s))
  BY HeadTailProperties DEF TakenOut

LEMMA RemoveAtTakesOut ==
    ASSUME NEW S, NEW s \in Seq(S), NEW i \in 1 .. Len(s)
    PROVE  RemoveAt(s, i) \in Seq(S) /\ TakenOut(s, i, RemoveAt(s, i))
  BY RemoveAtType, RemoveAtElements DEF TakenOut

LEMMA ConcatElements ==
    ASSUME NEW S, NEW s \in Seq(S), NEW t \in Seq(S)
    PROVE  s \o t \in Seq(S) /\ ToSet(s \o t) = ToSet(s) \union ToSet(t)
<1>1. /\ s \o t \in Seq(S) /\ Len(s \o t) = Len(s) + Len(t)
      /\ \A i \in 1 .. Len(s) + Len(t) :
           (s \o t)[i] = IF i <= Len(s) THEN s[i] ELSE t[i - Len(s)]
  BY ConcatProperties
<1>2. /\ Len(s) \in Nat /\ Len(t) \in Nat /\ DOMAIN s = 1 .. Len(s) /\ DOMAIN t = 1 .. Len(t)
      /\ DOMAIN (s \o t) = 1 .. Len(s) + Len(t)
  BY <1>1
<1>3. ASSUME NEW x \in ToSet(s) PROVE x \in ToSet(s \o t)
  <2>1. PICK i \in 1 .. Len(s) : x = s[i]
    BY <1>2 DEF ToSet
  <2>2. i \in 1 .. Len(s) + Len(t) /\ i <= Len(s)
    BY <1>2
  <2> QED
    BY <1>1, <1>2, <2>1, <2>2 DEF ToSet
<1>4. ASSUME NEW x \in ToSet(t) PROVE x \in ToSet(s \o t)
  <2>1. PICK i \in 1 .. Len(t) : x = t[i]
    BY <1>2 DEF ToSet
  <2>2. i + Len(s) \in 1 .. Len(s) + Len(t) /\ ~(i + Len(s) <= Len(s)) /\ i + Len(s) - Len(s) = i
    BY <1>2
  <2> QED
    BY <1>1, <1>2, <2>1, <2>2 DEF ToSet
<1>5. ASSUME NEW x \in ToSet(s \o t) PROVE x \in ToSet(s) \union ToSet(t)
  <2>1. PICK i \in 1 .. Len(s) + Len(t) : x = (s \o t)[i]
    BY <1>2 DEF ToSet
  <2>2. i \in 1 .. Len(s) \/ (i - Len(s) \in 1 .. Len(t) /\ ~(i <= Len(s)))
    BY <1>2, <2>1
  <2> QED
    BY <1>1, <1>2, <2>1, <2>2 DEF ToSet
<1> QED
  BY <1>1, <1>3, <1>4, <1>5

\* distinct elements and one more
LEMMA DistinctAppend ==
    ASSUME NEW S, NEW s \in Seq(S), Distinct(s), NEW e \in S,
           \A i \in 1 .. Len(s) : s[i] # e
    PROVE  Distinct(Append(s, e))
<1>1. /\ Len(Append(s, e)) = Len(s) + 1 /\ Len(s) \in Nat
      /\ Append(s, e)[Len(s) + 1] = e
      /\ \A i \in 1 .. Len(s) : Append(s, e)[i] = s[i]
  BY AppendProperties
<1> QED
  BY <1>1 DEF Distinct

\* those before the place stay, those after it move down by one
LEMMA InsertAtElements ==
    ASSUME NEW S, NEW s \in Seq(S), NEW i \in 1 .. Len(s) + 1, NEW e \in S
    PROVE  /\ InsertAt(s, i, e) \in Seq(S)
           /\ Len(InsertAt(s, i, e)) = Len(s) + 1
           /\ \A j \in 1 .. Len(s) + 1 :
                InsertAt(s, i, e)[j] = IF j < i THEN s[j] ELSE IF j = i THEN e ELSE s[j - 1]
<1> DEFINE a == SubSeq(s, 1, i - 1)
           b == SubSeq(s, i, Len(s))
           m == a \o <<e>>
<1>1. Len(s) \in Nat /\ i \in Nat
  OBVIOUS
<1>2. /\ a \in Seq(S) /\ Len(a) = i - 1
      /\ \A j \in 1 .. i - 1 : a[j] = s[j]
  BY <1>1, SubSeqProperties
<1>3. /\ b \in Seq(S) /\ Len(b) = Len(s) - i + 1
      /\ \A j \in 1 .. Len(s) - i + 1 : b[j] = s[i + j - 1]
  BY <1>1, SubSeqProperties
<1>4. InsertAt(s, i, e) = m \o b
  BY DEF InsertAt
<1> HIDE DEF a, b
<1>5. /\ m \in Seq(S) /\ Len(m) = i /\ m[i] = e /\ \A j \in 1 .. i - 1 : m[j] = s[j]
  <2>1. <<e>> \in Seq(S) /\ Len(<<e>>) = 1 /\ <<e>>[1] = e
    OBVIOUS
  <2>2. /\ m \in Seq(S) /\ Len(m) = Len(a) + 1
        /\ \A j \in 1 .. Len(a) + 1 : m[j] = IF j <= Len(a) THEN a[j] ELSE <<e>>[j - Len(a)]
    BY <1>2, <2>1, ConcatProperties
  <2> HIDE DEF m
  <2>3. m[i] = e
    <3>1. i \in 1 .. Len(a) + 1 /\ ~(i <= Len(a)) /\ i - Len(a) = 1
      BY <1>1, <1>2
    <3> QED
      BY <2>1, <2>2, <3>1
  <2> QED
    BY <1>1, <1>2, <2>2, <2>3
<1> HIDE DEF m
<1>6. /\ m \o b \in Seq(S) /\ Len(m \o b) = Len(s) + 1
      /\ \A j \in 1 .. Len(s) + 1 : (m \o b)[j] = IF j <= i THEN m[j] ELSE b[j - i]
  <2>1. /\ m \o b \in Seq(S) /\ Len(m \o b) = Len(m) + Len(b)
        /\ \A j \in 1 .. Len(m) + Len(b) :
             (m \o b)[j] = IF j <= Len(m) THEN m[j] ELSE b[j - Len(m)]
    BY <1>3, <1>5, ConcatProperties
  <2>2. Len(m) + Len(b) = Len(s) + 1
    BY <1>1, <1>3, <1>5
  <2> QED
    BY <1>5, <2>1, <2>2
<1>7. ASSUME NEW j \in 1 .. Len(s) + 1
      PROVE  (m \o b)[j] = IF j < i THEN s[j] ELSE IF j = i THEN e ELSE s[j - 1]
  <2>1. CASE j <= i
    BY <1>1, <1>5, <1>6, <2>1
  <2>2. CASE ~(j <= i)
    <3>1. j - i \in 1 .. Len(s) - i + 1 /\ i + (j - i) - 1 = j - 1
      BY <1>1, <2>2
    <3>2. b[j - i] = s[j - 1]
      BY <1>3, <3>1
    <3> QED
      BY <1>1, <1>6, <2>2, <3>2
  <2> QED
    BY <2>1, <2>2
<1> QED
  BY <1>4, <1>6, <1>7

------------------------------------------------------------------------------
(* Induction and recursion over the natural numbers.                        *)

\* every set of natural numbers has a least one
LEMMA LeastNatural ==
    ASSUME NEW T \in SUBSET Nat, T # {}
    PROVE  \E n \in T : \A m \in T : n <= m
<1>1. IsWellFoundedOn(OpToRel(<, Nat), Nat)
  BY NatLessThanWellFounded, Zenon
<1>2. PICK n \in T : \A m \in T : <<m, n>> \notin OpToRel(<, Nat)
  BY <1>1, WFMin, Zenon
<1>3. \A m \in T : ~(m < n)
  BY <1>2 DEF OpToRel
<1> QED
  BY <1>3

\* a set with 0 and the successor of each number in it has them all
LEMMA NaturalsByStep ==
    ASSUME NEW T, 0 \in T, \A n \in Nat : n \in T => n + 1 \in T
    PROVE  Nat \subseteq T
<1> DEFINE U == Nat \ T
<1>1. SUFFICES ASSUME U # {} PROVE FALSE
  OBVIOUS
<1>2. PICK n \in U : \A m \in U : n <= m
  BY <1>1, LeastNatural
<1>3. n # 0 /\ n - 1 \in Nat /\ n - 1 \notin U
  BY <1>2
<1> QED
  BY <1>2, <1>3

\* f begins with x, and F[k] leads from f[k - 1] to f[k]
Iterates(F, x, n, f) == f[0] = x /\ \A k \in 1 .. n : f[k] = F[k][f[k - 1]]

LEMMA IterationExists ==
    ASSUME NEW S, NEW x \in S, NEW N \in Nat, NEW F \in [1 .. N -> [S -> S]]
    PROVE  \E f \in [0 .. N -> S] : Iterates(F, x, N, f)
<1> DEFINE P(n, f) == f \in [0 .. N -> S] /\ f[0] = x /\ \A k \in 1 .. n : f[k] = F[k][f[k - 1]]
           T == {n \in Nat : n <= N => \E f : P(n, f)}
<1>1. 0 \in T
  <2>1. P(0, [k \in 0 .. N |-> x])
    OBVIOUS
  <2> QED
    BY <2>1
<1>2. ASSUME NEW n \in Nat, n \in T PROVE n + 1 \in T
  <2>1. SUFFICES ASSUME n + 1 <= N PROVE \E f : P(n + 1, f)
    OBVIOUS
  <2>2. PICK f : P(n, f)
    BY <1>2, <2>1
  <2> DEFINE v == F[n + 1][f[n]]
             g == [f EXCEPT ![n + 1] = v]
  <2>3. f[n] \in S /\ n + 1 \in 1 .. N
    BY <2>1, <2>2
  <2>4. v \in S
    BY <2>3
  <2>5. g \in [0 .. N -> S] /\ g[0] = x
    BY <2>2, <2>3, <2>4
  <2>6. ASSUME NEW k \in 1 .. n + 1 PROVE g[k] = F[k][g[k - 1]]
    <3>1. CASE k = n + 1
      <4>1. g[k - 1] = f[n] /\ g[k] = v
        BY <2>2, <2>3, <3>1
      <4> QED
        BY <3>1, <4>1
    <3>2. CASE k # n + 1
      <4>1. k \in 1 .. n /\ g[k] = f[k] /\ g[k - 1] = f[k - 1]
        BY <2>1, <2>2, <3>2
      <4> QED
        BY <2>2, <4>1
    <3> QED
      BY <3>1, <3>2
  <2> QED
    BY <2>5, <2>6
<1>3. N \in T
  BY <1>1, <1>2, NaturalsByStep
<1> QED
  BY <1>3 DEF Iterates

LEMMA LeastOne ==
    ASSUME NEW K \in SUBSET Nat, K # {}
    PROVE  Min(K) \in K /\ \A k \in K : Min(K) <= k
<1>1. \E n \in K : \A k \in K : n <= k
  BY LeastNatural
<1> QED
  BY <1>1 DEF Min

LEMMA GreatestOne ==
    ASSUME NEW N \in Nat, NEW K \in SUBSET (1 .. N), K # {}
    PROVE  Max(K) \in K /\ \A k \in K : k <= Max(K)
<1> DEFINE T == {N - k : k \in K}
<1>1. T \in SUBSET Nat /\ T # {}
  <2>1. \A k \in K : N - k \in Nat
    OBVIOUS
  <2> QED
    BY <2>1
<1>2. PICK n \in T : \A m \in T : n <= m
  <2> HIDE DEF T
  <2> QED
    BY <1>1, LeastNatural
<1>3. PICK x \in K : n = N - x
  BY <1>2
<1>4. \A k \in K : x >= k
  <2>1. TAKE k \in K
  <2>2. N - x <= N - k
    BY <1>2, <1>3
  <2> QED
    BY <1>3, <2>2
<1>5. Max(K) \in K /\ \A k \in K : Max(K) >= k
  BY <1>3, <1>4 DEF Max
<1> QED
  BY <1>5

\* the elements of the sequences in ss, one sequence after the other
LEMMA Flattened ==
    ASSUME NEW S, NEW ss \in Seq(Seq(S))
    PROVE  /\ FlattenSeq(ss) \in Seq(S)
           /\ ToSet(FlattenSeq(ss)) = UNION {ToSet(ss[i]) : i \in DOMAIN ss}
<1> DEFINE N == Len(ss)
           flatten[i \in 1 .. N] == IF i = 1 THEN ss[i] ELSE flatten[i - 1] \o ss[i]
<1>1. FlattenSeq(ss) = IF N = 0 THEN ss ELSE flatten[N]
  BY DEF FlattenSeq
<1>2. N \in Nat /\ DOMAIN ss = 1 .. N /\ \A i \in 1 .. N : ss[i] \in Seq(S)
  OBVIOUS
<1> HIDE DEF N
<1>3. flatten = [i \in 1 .. N |-> IF i = 1 THEN ss[i] ELSE flatten[i - 1] \o ss[i]]
  <2> DEFINE F == [n \in 1 .. N |-> [s \in Seq(S) |-> s \o ss[n]]]
  <2>1. \A n \in 1 .. N, s \in Seq(S) : s \o ss[n] \in Seq(S)
    BY <1>2, ConcatProperties
  <2>2. F \in [1 .. N -> [Seq(S) -> Seq(S)]]
    BY <2>1
  <2>3. \A n \in 1 .. N : \A s \in Seq(S) : F[n][s] = s \o ss[n]
    OBVIOUS
  <2> HIDE DEF F
  <2>4. PICK f \in [0 .. N -> Seq(S)] : Iterates(F, <<>>, N, f)
    <3>1. <<>> \in Seq(S)
      OBVIOUS
    <3> QED
      BY <1>2, <2>2, <3>1, IterationExists
  <2>5. f[0] = <<>> /\ \A n \in 1 .. N : f[n] = f[n - 1] \o ss[n]
    <3>1. f[0] = <<>> /\ \A n \in 1 .. N : f[n] = F[n][f[n - 1]] /\ f[n - 1] \in Seq(S)
      BY <1>2, <2>4 DEF Iterates
    <3> QED
      BY <2>3, <3>1
  <2> DEFINE g == [i \in 1 .. N |-> f[i]]
  <2>6. \A i \in 1 .. N : g[i] = IF i = 1 THEN ss[i] ELSE g[i - 1] \o ss[i]
    <3>1. TAKE i \in 1 .. N
    <3>2. CASE i = 1
      <4>1. 1 \in 1 .. N /\ 1 - 1 = 0
        BY <3>1, <3>2
      <4>2. f[1] = <<>> \o ss[1] /\ ss[1] \in Seq(S)
        BY <1>2, <2>5, <4>1
      <4> QED
        BY <3>1, <3>2, <4>2
    <3>3. CASE i # 1
      <4>1. i - 1 \in 1 .. N
        BY <1>2, <3>1, <3>3
      <4> QED
        BY <2>5, <3>1, <3>3, <4>1
    <3> QED
      BY <3>2, <3>3
  <2>7. g = [i \in 1 .. N |-> IF i = 1 THEN ss[i] ELSE g[i - 1] \o ss[i]]
    BY <2>6
  <2> HIDE DEF g
  <2> QED
    BY <2>7
<1> HIDE DEF flatten
<1> DEFINE Upto(n) == UNION {ToSet(ss[i]) : i \in 1 .. n}
           T == {n \in Nat : n + 1 <= N => flatten[n + 1] \in Seq(S)
                                           /\ ToSet(flatten[n + 1]) = Upto(n + 1)}
<1>4. 0 \in T
  <2>1. SUFFICES ASSUME 1 <= N PROVE flatten[1] \in Seq(S) /\ ToSet(flatten[1]) = Upto(1)
    OBVIOUS
  <2>2. 1 \in 1 .. N /\ flatten[1] = ss[1] /\ 1 .. 1 = {1}
    BY <1>2, <1>3, <2>1
  <2> QED
    BY <1>2, <2>2
<1>5. ASSUME NEW n \in Nat, n \in T PROVE n + 1 \in T
  <2> DEFINE m == n + 1
  <2>1. SUFFICES ASSUME m + 1 <= N
                 PROVE  flatten[m + 1] \in Seq(S) /\ ToSet(flatten[m + 1]) = Upto(m + 1)
    OBVIOUS
  <2>2. /\ m + 1 \in 1 .. N /\ m + 1 # 1 /\ (m + 1) - 1 = m
        /\ 1 .. m + 1 = (1 .. m) \union {m + 1}
        /\ flatten[m] \in Seq(S) /\ ToSet(flatten[m]) = Upto(m)
    BY <1>2, <1>5, <2>1
  <2>3. flatten[m + 1] = flatten[m] \o ss[m + 1]
    BY <1>3, <2>2
  <2> HIDE DEF m
  <2>4. ss[m + 1] \in Seq(S)
    BY <1>2, <2>2
  <2>5. /\ flatten[m] \o ss[m + 1] \in Seq(S)
        /\ ToSet(flatten[m] \o ss[m + 1]) = ToSet(flatten[m]) \union ToSet(ss[m + 1])
    BY <2>2, <2>4, ConcatElements
  <2>6. Upto(m + 1) = Upto(m) \union ToSet(ss[m + 1])
    BY <2>2
  <2> QED
    BY <2>2, <2>3, <2>5, <2>6
<1>6. CASE N = 0
  <2>1. ss = <<>>
    BY <1>2, <1>6
  <2> QED
    BY <1>1, <1>6, <2>1 DEF ToSet
<1>7. CASE N # 0
  <2>1. N - 1 \in Nat /\ (N - 1) + 1 = N
    BY <1>2, <1>7
  <2> HIDE DEF T
  <2>2. N - 1 \in T
    BY <1>4, <1>5, <2>1, NaturalsByStep
  <2> QED
    BY <1>1, <1>2, <1>7, <2>1, <2>2 DEF T
<1> QED
  BY <1>6, <1>7
=============================================================================
