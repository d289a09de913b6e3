------------------------------ MODULE WalkProofs ------------------------------
(* Safety of a walk against any agent, and its completeness against a       *)
(* V2cResponder, for any OIDs, objects, batches and numbers of repetitions. *)
EXTENDS Walk, SequenceLemmas

(* First the order of OIDs, and what the methods of an object source do to *)
(* its sorted list.                                                         *)

Arcs == Seq(Nat)

------------------------------------------------------------------------------
(* Tuples of integers are totally ordered, and a subtree is an interval.    *)

\* s and t agree on their first k arcs, and there s comes before t
Parts(s, t, k) ==
    /\ k <= Len(s) /\ k < Len(t)
    /\ \A j \in 1 .. k : s[j] = t[j]
    /\ k = Len(s) \/ s[k + 1] < t[k + 1]

LEMMA PrefixElements ==
    ASSUME NEW s \in Arcs, NEW t \in Arcs
    PROVE  IsPrefixOf(s, t) <=> /\ Len(s) <= Len(t)
                                /\ \A j \in 1 .. Len(s) : s[j] = t[j]
<1>1. CASE Len(s) <= Len(t)
  <2>1. /\ SubSeq(t, 1, Len(s)) \in Seq(Nat) /\ Len(SubSeq(t, 1, Len(s))) = Len(s)
        /\ \A j \in 1 .. Len(s) : SubSeq(t, 1, Len(s))[j] = t[j]
    BY <1>1, SubSeqProperties DEF Arcs
  <2>2. (\A j \in 1 .. Len(s) : s[j] = t[j]) => SubSeq(t, 1, Len(s)) = s
    BY <2>1, SeqEqual DEF Arcs
  <2> QED
    BY <1>1, <2>1, <2>2 DEF IsPrefixOf
<1>2. CASE ~(Len(s) <= Len(t))
  BY <1>2 DEF IsPrefixOf
<1> QED
  BY <1>1, <1>2

LEMMA BeforeParts ==
    ASSUME NEW s \in Arcs, NEW t \in Arcs
    PROVE  Before(s, t) <=> \E k \in Nat : Parts(s, t, k)
<1>0. Len(s) \in Nat /\ Len(t) \in Nat
  BY DEF Arcs
<1>1. ASSUME IsPrefixOf(s, t), s # t PROVE Parts(s, t, Len(s))
  <2>1. Len(s) <= Len(t) /\ \A j \in 1 .. Len(s) : s[j] = t[j]
    BY <1>1, PrefixElements
  <2>2. Len(s) # Len(t)
    BY <1>1, <2>1, SeqEqual DEF Arcs
  <2> QED
    BY <1>0, <2>1, <2>2 DEF Parts
<1>2. ASSUME NEW i \in 1 .. Len(s), i <= Len(t), s[i] < t[i],
             \A j \in 1 .. i - 1 : s[j] = t[j]
      PROVE  i - 1 \in Nat /\ Parts(s, t, i - 1)
  BY <1>0, <1>2 DEF Parts
<1>3. ASSUME NEW k \in Nat, Parts(s, t, k) PROVE Before(s, t)
  <2>1. CASE k = Len(s)
    <3>1. IsPrefixOf(s, t) /\ s # t
      BY <1>0, <1>3, <2>1, PrefixElements DEF Parts
    <3> QED
      BY <3>1 DEF Before
  <2>2. CASE k # Len(s)
    <3>1. /\ k + 1 \in 1 .. Len(s) /\ k + 1 <= Len(t) /\ s[k + 1] < t[k + 1]
          /\ \A j \in 1 .. (k + 1) - 1 : s[j] = t[j]
      BY <1>0, <1>3, <2>2 DEF Parts
    <3> QED
      BY <3>1 DEF Before
  <2> QED
    BY <2>1, <2>2
<1>4. Before(s, t) => \E k \in Nat : Parts(s, t, k)
  BY <1>0, <1>1, <1>2 DEF Before
<1> QED
  BY <1>3, <1>4

LEMMA BeforeIrreflexive ==
    ASSUME NEW s \in Arcs
    PROVE  ~Before(s, s)
<1>1. ASSUME NEW k \in Nat PROVE ~Parts(s, s, k)
  <2>1. Len(s) \in Nat /\ \A i \in 1 .. Len(s) : s[i] \in Nat
    BY DEF Arcs
  <2> QED
    BY <2>1 DEF Parts
<1> QED
  BY <1>1, BeforeParts

LEMMA BeforeTransitive ==
    ASSUME NEW s \in Arcs, NEW t \in Arcs, NEW u \in Arcs, Before(s, t), Before(t, u)
    PROVE  Before(s, u)
<1>1. PICK k \in Nat : Parts(s, t, k)
  BY BeforeParts
<1>2. PICK l \in Nat : Parts(t, u, l)
  BY BeforeParts
<1>3. /\ Len(s) \in Nat /\ Len(t) \in Nat /\ Len(u) \in Nat
      /\ \A i \in 1 .. Len(s) : s[i] \in Nat
      /\ \A i \in 1 .. Len(t) : t[i] \in Nat
      /\ \A i \in 1 .. Len(u) : u[i] \in Nat
  BY DEF Arcs
<1>4. CASE k < l
  <2>1. Parts(s, u, k)
    BY <1>1, <1>2, <1>3, <1>4 DEF Parts
  <2> QED
    BY <2>1, BeforeParts
<1>5. CASE k = l
  <2>1. /\ k <= Len(s) /\ k < Len(u) /\ k < Len(t)
        /\ \A j \in 1 .. k : s[j] = u[j]
        /\ t[k + 1] < u[k + 1] /\ (k = Len(s) \/ s[k + 1] < t[k + 1])
    BY <1>1, <1>2, <1>3, <1>5 DEF Parts
  <2>2. k = Len(s) \/ s[k + 1] < u[k + 1]
    BY <1>3, <2>1
  <2>3. Parts(s, u, k)
    BY <2>1, <2>2 DEF Parts
  <2> QED
    BY <2>3, BeforeParts
<1>6. CASE l < k
  <2>1. l # Len(t) /\ t[l + 1] < u[l + 1] /\ l + 1 \in 1 .. k
    BY <1>1, <1>2, <1>3, <1>6 DEF Parts
  <2>2. Parts(s, u, l)
    BY <1>1, <1>2, <1>3, <1>6, <2>1 DEF Parts
  <2> QED
    BY <2>2, BeforeParts
<1> QED
  BY <1>4, <1>5, <1>6

LEMMA BeforeTotal ==
    ASSUME NEW s \in Arcs, NEW t \in Arcs
    PROVE  s = t \/ Before(s, t) \/ Before(t, s)
<1> DEFINE T == {k \in Nat : k = Len(s) \/ k = Len(t) \/ s[k + 1] # t[k + 1]}
<1>1. /\ Len(s) \in Nat /\ Len(t) \in Nat
      /\ \A i \in 1 .. Len(s) : s[i] \in Nat
      /\ \A i \in 1 .. Len(t) : t[i] \in Nat
  BY DEF Arcs
<1>2. PICK k \in T : \A m \in T : k <= m
  <2>1. T # {} /\ T \in SUBSET Nat
    BY <1>1
  <2> HIDE DEF T
  <2> QED
    BY <2>1, LeastNatural
<1>3. k \in Nat /\ k <= Len(s) /\ k <= Len(t)
  BY <1>1, <1>2
<1>4. ASSUME NEW j \in 1 .. k PROVE s[j] = t[j]
  <2>1. j - 1 \in Nat /\ j - 1 \notin T
    BY <1>2, <1>3
  <2>2. s[(j - 1) + 1] = t[(j - 1) + 1]
    BY <2>1
  <2> QED
    BY <2>2
<1>5. CASE k < Len(s) /\ k < Len(t)
  <2>1. s[k + 1] # t[k + 1] /\ s[k + 1] \in Nat /\ t[k + 1] \in Nat
    BY <1>1, <1>2, <1>3, <1>5
  <2>2. Parts(s, t, k) \/ Parts(t, s, k)
    BY <1>3, <1>4, <1>5, <2>1 DEF Parts
  <2> QED
    BY <1>3, <2>2, BeforeParts
<1>6. CASE k = Len(s) /\ k < Len(t)
  <2>1. Parts(s, t, k)
    BY <1>3, <1>4, <1>6 DEF Parts
  <2> QED
    BY <1>3, <2>1, BeforeParts
<1>7. CASE k < Len(s) /\ k = Len(t)
  <2>1. Parts(t, s, k)
    BY <1>3, <1>4, <1>7 DEF Parts
  <2> QED
    BY <1>3, <2>1, BeforeParts
<1>8. CASE k = Len(s) /\ k = Len(t)
  BY <1>4, <1>8, SeqEqual DEF Arcs
<1> QED
  BY <1>1, <1>3, <1>5, <1>6, <1>7, <1>8

\* what lies between the root of a subtree and an OID in it is in it
LEMMA SubtreeConvex ==
    ASSUME NEW r \in Arcs, NEW x \in Arcs, NEW o \in Arcs,
           WithinSubtree(r, o), AtMost(r, x), Before(x, o)
    PROVE  WithinSubtree(r, x)
<1>1. /\ Len(r) \in Nat /\ Len(x) \in Nat /\ Len(o) \in Nat
      /\ \A i \in 1 .. Len(r) : r[i] \in Nat
      /\ \A i \in 1 .. Len(x) : x[i] \in Nat
      /\ \A i \in 1 .. Len(o) : o[i] \in Nat
  BY DEF Arcs
<1>2. Len(r) <= Len(o) /\ \A j \in 1 .. Len(r) : r[j] = o[j]
  BY PrefixElements DEF WithinSubtree
<1>3. CASE r = x
  BY <1>1, <1>3, PrefixElements DEF WithinSubtree
<1>4. CASE Before(r, x)
  <2>1. PICK k \in Nat : Parts(r, x, k)
    BY <1>4, BeforeParts
  <2>2. PICK l \in Nat : Parts(x, o, l)
    BY BeforeParts
  <2>3. CASE k = Len(r)
    BY <1>1, <2>1, <2>3, PrefixElements DEF WithinSubtree, Parts
  <2>4. CASE k # Len(r)
    <3>1. k + 1 \in 1 .. Len(r) /\ k + 1 \in 1 .. Len(x) /\ r[k + 1] < x[k + 1] /\ r[k + 1] = o[k + 1]
          /\ \A j \in 1 .. k : r[j] = x[j]
      BY <1>1, <1>2, <2>1, <2>4 DEF Parts
    <3>2. CASE l > k
      BY <1>1, <2>2, <3>1, <3>2 DEF Parts
    <3>3. CASE l <= k
      <4>1. l # Len(x) /\ x[l + 1] < o[l + 1]
        BY <1>1, <2>2, <3>1, <3>3 DEF Parts
      <4>2. r[l + 1] = o[l + 1] /\ l + 1 \in 1 .. Len(r)
        BY <1>1, <1>2, <3>1, <3>3
      <4>3. CASE l = k
        BY <1>1, <1>2, <3>1, <4>1, <4>2, <4>3
      <4>4. CASE l < k
        BY <1>1, <3>1, <4>1, <4>2, <4>4
      <4> QED
        BY <3>3, <4>3, <4>4
    <3> QED
      BY <3>2, <3>3
  <2> QED
    BY <2>3, <2>4
<1> QED
  BY <1>3, <1>4 DEF AtMost

------------------------------------------------------------------------------
(* The sorted list.                                                         *)

Increasing(s) == \A i, j \in 1 .. Len(s) : i < j => Before(s[i], s[j])
Elements(s)   == {s[i] : i \in 1 .. Len(s)}

LEMMA OidsAreArcs == \A o \in Oid : o \in Arcs /\ o # <<>>
  BY SourceAssumption DEF Arcs

LEMMA IncreasingDistinct ==
    ASSUME NEW s \in Seq(Arcs), Increasing(s)
    PROVE  Distinct(s)
<1>1. ASSUME NEW i \in 1 .. Len(s), NEW j \in 1 .. Len(s), s[i] = s[j], i # j
      PROVE  FALSE
  <2>1. s[i] \in Arcs /\ (i < j \/ j < i)
    BY <1>1
  <2>2. Before(s[i], s[i])
    BY <1>1, <2>1 DEF Increasing
  <2> QED
    BY <2>1, <2>2, BeforeIrreflexive
<1> QED
  BY <1>1 DEF Distinct

\* bisect_right finds the place where the keys go past an OID
LEMMA BisectSplits ==
    ASSUME NEW s \in Seq(Arcs), Increasing(s), NEW oid \in Arcs
    PROVE  /\ Bisect(s, oid) \in 0 .. Len(s)
           /\ \A i \in 1 .. Bisect(s, oid) : AtMost(s[i], oid)
           /\ \A i \in Bisect(s, oid) + 1 .. Len(s) : Before(oid, s[i])
<1> DEFINE T == {k \in Nat : k = Len(s) \/ Before(oid, s[k + 1])}
<1>1. Len(s) \in Nat /\ \A i \in 1 .. Len(s) : s[i] \in Arcs
  OBVIOUS
<1>2. PICK k \in T : \A m \in T : k <= m
  <2>1. T # {} /\ T \in SUBSET Nat
    BY <1>1
  <2> HIDE DEF T
  <2> QED
    BY <2>1, LeastNatural
<1>3. k \in 0 .. Len(s)
  BY <1>1, <1>2
<1>4. ASSUME NEW i \in 1 .. k PROVE i \in 1 .. Len(s) /\ AtMost(s[i], oid)
  <2>1. i - 1 \in Nat /\ i - 1 \notin T /\ i \in 1 .. Len(s)
    BY <1>2, <1>3
  <2>2. ~Before(oid, s[(i - 1) + 1])
    BY <2>1
  <2>3. (i - 1) + 1 = i
    OBVIOUS
  <2> QED
    BY <1>1, <2>1, <2>2, <2>3, BeforeTotal DEF AtMost
<1>5. ASSUME NEW i \in k + 1 .. Len(s)
      PROVE  i \in 1 .. Len(s) /\ Before(oid, s[i]) /\ ~AtMost(s[i], oid)
  <2>1. i \in 1 .. Len(s) /\ k # Len(s) /\ k + 1 \in 1 .. Len(s)
    BY <1>1, <1>3
  <2>2. Before(oid, s[k + 1])
    BY <1>2, <2>1
  <2>3. Before(oid, s[i])
    <3>1. CASE i = k + 1
      BY <2>2, <3>1
    <3>2. CASE i # k + 1
      <4>1. Before(s[k + 1], s[i])
        BY <1>3, <2>1, <3>2 DEF Increasing
      <4> QED
        BY <1>1, <2>1, <2>2, <4>1, BeforeTransitive
    <3> QED
      BY <3>1, <3>2
  <2>4. ~AtMost(s[i], oid)
    <3>1. s[i] # oid
      BY <1>1, <2>1, <2>3, BeforeIrreflexive
    <3>2. ~Before(s[i], oid)
      BY <1>1, <2>1, <2>3, BeforeTransitive, BeforeIrreflexive
    <3> QED
      BY <3>1, <3>2 DEF AtMost
  <2> QED
    BY <2>1, <2>3, <2>4
<1>6. {i \in 1 .. Len(s) : AtMost(s[i], oid)} = 1 .. k
  BY <1>1, <1>3, <1>4, <1>5
<1>7. Bisect(s, oid) = k
  <2>1. Cardinality(1 .. k) = k
    BY <1>3, FS_Interval
  <2> QED
    BY <1>6, <2>1 DEF Bisect
<1> QED
  BY <1>3, <1>4, <1>5, <1>7

\* insort keeps the keys in order and adds one, once
LEMMA InsertKeyKeeps ==
    ASSUME NEW keys \in Seq(Oid), Increasing(keys), NEW oid \in Oid
    PROVE  /\ InsertKey(keys, oid) \in Seq(Oid)
           /\ Increasing(InsertKey(keys, oid))
           /\ Elements(InsertKey(keys, oid)) = Elements(keys) \union {oid}
<1>1. CASE Contains(keys, oid)
  BY <1>1 DEF InsertKey, Contains, Elements
<1>2. CASE ~Contains(keys, oid)
  <2> DEFINE b == Bisect(keys, oid)
             new == InsertAt(keys, b + 1, oid)
  <2>1. keys \in Seq(Arcs) /\ oid \in Arcs /\ Len(keys) \in Nat
        /\ \A i \in 1 .. Len(keys) : keys[i] \in Oid /\ keys[i] \in Arcs
    BY OidsAreArcs, SeqMonotonic
  <2>2. /\ b \in 0 .. Len(keys)
        /\ \A i \in 1 .. b : AtMost(keys[i], oid)
        /\ \A i \in b + 1 .. Len(keys) : Before(oid, keys[i])
    BY <2>1, BisectSplits
  <2> HIDE DEF b
  <2>3. /\ new \in Seq(Oid) /\ Len(new) = Len(keys) + 1
        /\ \A j \in 1 .. Len(keys) + 1 :
             new[j] = IF j < b + 1 THEN keys[j] ELSE IF j = b + 1 THEN oid ELSE keys[j - 1]
    BY <2>1, <2>2, InsertAtElements
  <2> HIDE DEF new
  <2>4. \A i \in 1 .. b : Before(keys[i], oid)
    BY <1>2, <2>1, <2>2 DEF Contains, AtMost
  <2>5. ASSUME NEW i \in 1 .. Len(new), NEW j \in 1 .. Len(new), i < j
        PROVE  Before(new[i], new[j])
    <3>1. CASE j < b + 1
      <4>1. new[i] = keys[i] /\ new[j] = keys[j] /\ i \in 1 .. Len(keys) /\ j \in 1 .. Len(keys)
        BY <2>1, <2>2, <2>3, <2>5, <3>1
      <4> QED
        BY <2>5, <4>1 DEF Increasing
    <3>2. CASE j = b + 1
      <4>1. new[i] = keys[i] /\ new[j] = oid /\ i \in 1 .. b
        BY <2>1, <2>2, <2>3, <2>5, <3>2
      <4> QED
        BY <2>4, <4>1
    <3>3. CASE j > b + 1 /\ i < b + 1
      <4>1. new[i] = keys[i] /\ new[j] = keys[j - 1] /\ i \in 1 .. Len(keys)
            /\ j - 1 \in 1 .. Len(keys) /\ i < j - 1
        BY <2>1, <2>2, <2>3, <2>5, <3>3
      <4> QED
        BY <4>1 DEF Increasing
    <3>4. CASE j > b + 1 /\ i = b + 1
      <4>1. new[i] = oid /\ new[j] = keys[j - 1] /\ j - 1 \in b + 1 .. Len(keys)
        BY <2>1, <2>2, <2>3, <2>5, <3>4
      <4> QED
        BY <2>2, <4>1
    <3>5. CASE j > b + 1 /\ i > b + 1
      <4>1. new[i] = keys[i - 1] /\ new[j] = keys[j - 1] /\ i - 1 \in 1 .. Len(keys)
            /\ j - 1 \in 1 .. Len(keys) /\ i - 1 < j - 1
        BY <2>1, <2>2, <2>3, <2>5, <3>5
      <4> QED
        BY <4>1 DEF Increasing
    <3> QED
      BY <2>1, <2>2, <2>3, <3>1, <3>2, <3>3, <3>4, <3>5
  <2>6. Elements(new) = Elements(keys) \union {oid}
    <3>1. ASSUME NEW j \in 1 .. Len(new)
          PROVE  new[j] = oid \/ \E i \in 1 .. Len(keys) : new[j] = keys[i]
      <4>1. CASE j < b + 1
        BY <2>1, <2>2, <2>3, <4>1
      <4>2. CASE j = b + 1
        BY <2>1, <2>2, <2>3, <4>2
      <4>3. CASE j > b + 1
        <5>1. j - 1 \in 1 .. Len(keys) /\ new[j] = keys[j - 1]
          BY <2>1, <2>2, <2>3, <4>3
        <5> QED
          BY <5>1
      <4> QED
        BY <2>1, <2>2, <2>3, <4>1, <4>2, <4>3
    <3>2. b + 1 \in 1 .. Len(new) /\ new[b + 1] = oid
      BY <2>1, <2>2, <2>3
    <3>3. ASSUME NEW i \in 1 .. Len(keys)
          PROVE  \E j \in 1 .. Len(new) : new[j] = keys[i]
      <4>1. CASE i <= b
        BY <2>1, <2>2, <2>3, <4>1
      <4>2. CASE i > b
        <5>1. i + 1 \in 1 .. Len(new) /\ new[i + 1] = keys[(i + 1) - 1] /\ (i + 1) - 1 = i
          BY <2>1, <2>2, <2>3, <4>2
        <5> QED
          BY <5>1
      <4> QED
        BY <2>1, <2>2, <4>1, <4>2
    <3>4. Elements(new) \subseteq Elements(keys) \union {oid}
      BY <3>1 DEF Elements
    <3>5. Elements(keys) \subseteq Elements(new)
      BY <3>3 DEF Elements
    <3>6. oid \in Elements(new)
      BY <3>2 DEF Elements
    <3> QED
      BY <3>4, <3>5, <3>6
  <2>7. InsertKey(keys, oid) = new
    BY <1>2 DEF InsertKey, new, b
  <2> QED
    BY <2>3, <2>5, <2>6, <2>7 DEF Increasing
<1> QED
  BY <1>1, <1>2

\* list.remove keeps them in order and takes one
LEMMA RemoveKeyKeeps ==
    ASSUME NEW keys \in Seq(Oid), Increasing(keys), NEW oid \in Elements(keys)
    PROVE  /\ RemoveFirst(keys, oid) \in Seq(Oid)
           /\ Increasing(RemoveFirst(keys, oid))
           /\ Elements(RemoveFirst(keys, oid)) = Elements(keys) \ {oid}
<1>1. keys \in Seq(Arcs) /\ Len(keys) \in Nat
  BY OidsAreArcs, SeqMonotonic
<1>2. Distinct(keys)
  BY <1>1, IncreasingDistinct
<1>3. PICK i \in 1 .. Len(keys) : keys[i] = oid
  BY DEF Elements
<1> DEFINE new == RemoveFirst(keys, oid)
<1>4. new = RemoveAt(keys, i)
  BY <1>2, <1>3, RemoveFirstIsRemoveAt
<1> HIDE DEF new
<1>5. new \in Seq(Oid) /\ TakenOut(keys, i, new)
  BY <1>4, RemoveAtTakesOut
<1>6. /\ Len(new) = Len(keys) - 1
      /\ \A j \in 1 .. Len(keys) - 1 : new[j] = IF j < i THEN keys[j] ELSE keys[j + 1]
  BY <1>5 DEF TakenOut
<1>7. ASSUME NEW j \in 1 .. Len(new), NEW k \in 1 .. Len(new), j < k
      PROVE  Before(new[j], new[k])
  <2>1. CASE k < i
    <3>1. new[j] = keys[j] /\ new[k] = keys[k] /\ j \in 1 .. Len(keys) /\ k \in 1 .. Len(keys)
      BY <1>1, <1>6, <1>7, <2>1
    <3> QED
      BY <1>7, <3>1 DEF Increasing
  <2>2. CASE j < i /\ ~(k < i)
    <3>1. new[j] = keys[j] /\ new[k] = keys[k + 1] /\ j \in 1 .. Len(keys)
          /\ k + 1 \in 1 .. Len(keys) /\ j < k + 1
      BY <1>1, <1>6, <1>7, <2>2
    <3> QED
      BY <3>1 DEF Increasing
  <2>3. CASE ~(j < i) /\ ~(k < i)
    <3>1. new[j] = keys[j + 1] /\ new[k] = keys[k + 1] /\ j + 1 \in 1 .. Len(keys)
          /\ k + 1 \in 1 .. Len(keys) /\ j + 1 < k + 1
      BY <1>1, <1>6, <1>7, <2>3
    <3> QED
      BY <3>1 DEF Increasing
  <2> QED
    BY <1>7, <2>1, <2>2, <2>3
<1>8. Elements(new) = Elements(keys) \ {oid}
  <2>1. \A j \in 1 .. Len(new) : \E k \in 1 .. Len(keys) : new[j] = keys[k] /\ keys[k] # keys[i]
    BY <1>2, <1>5, DistinctWithout
  <2>2. ASSUME NEW k \in 1 .. Len(keys), keys[k] # oid
        PROVE  \E j \in 1 .. Len(new) : new[j] = keys[k]
    <3>1. k # i
      BY <1>3, <2>2
    <3>2. CASE k < i
      BY <1>1, <1>6, <3>2
    <3>3. CASE k > i
      <4>1. k - 1 \in 1 .. Len(new) /\ new[k - 1] = keys[(k - 1) + 1] /\ (k - 1) + 1 = k
        BY <1>1, <1>6, <3>3
      <4> QED
        BY <4>1
    <3> QED
      BY <3>1, <3>2, <3>3
  <2>3. Elements(new) \subseteq Elements(keys) \ {oid}
    BY <1>3, <2>1 DEF Elements
  <2>4. Elements(keys) \ {oid} \subseteq Elements(new)
    BY <2>2 DEF Elements
  <2> QED
    BY <2>3, <2>4
<1> QED
  BY <1>5, <1>7, <1>8 DEF Increasing, new

------------------------------------------------------------------------------
(* The dict and the list.                                                   *)

\* the list is the dict's keys, in order
Holds(keys, dict) ==
    /\ keys \in Seq(Oid) /\ Increasing(keys)
    /\ dict \in [Elements(keys) -> Value]

SourceInv == Holds(sorted, values) /\ count \in Nat

LEMMA InitHolds ==
    ASSUME NEW oids \in SUBSET Oid, SourceInit(oids)
    PROVE  SourceInv
<1>1. PICK n \in 0 .. Cardinality(oids) : sorted \in [1 .. n -> oids]
  BY DEF SourceInit
<1>2. n \in Nat
  OBVIOUS
<1>3. sorted \in Seq(Oid) /\ DOMAIN sorted = 1 .. Len(sorted)
  BY <1>1, <1>2
<1>4. Increasing(sorted) /\ Elements(sorted) = {sorted[i] : i \in DOMAIN sorted}
  BY <1>3 DEF SourceInit, Increasing, Elements
<1> QED
  BY <1>3, <1>4 DEF SourceInv, Holds, SourceInit

\* the items set_objects gets to have OIDs of their own
LEMMA AppliedType ==
    ASSUME NEW items \in Seq((Oid \union {Unresolvable}) \X Value)
    PROVE  Applied(items) \in Seq(Oid \X Value)
<1> DEFINE I == {i \in 1 .. Len(items) : items[i][1] = Unresolvable}
           n == SelectInSeq(items, LAMBDA item : item[1] = Unresolvable)
<1>1. n = IF I # {} THEN Min(I) ELSE 0
  BY DEF SelectInSeq
<1>2. Len(items) \in Nat /\ \A i \in 1 .. Len(items) : i \notin I => items[i] \in Oid \X Value
  OBVIOUS
<1>3. CASE I = {}
  <2>1. n = 0
    BY <1>1, <1>3
  <2> HIDE DEF n
  <2>2. \A i \in 1 .. Len(items) : items[i] \in Oid \X Value
    BY <1>2, <1>3
  <2>3. items \in Seq(Oid \X Value)
    BY <2>2
  <2>4. Applied(items) = items
    BY <2>1 DEF Applied, n
  <2> QED
    BY <2>3, <2>4
<1>4. CASE I # {}
  <2>1. I \in SUBSET Nat
    OBVIOUS
  <2>2. PICK m \in I : \A k \in I : m <= k
    BY <1>4, <2>1, LeastNatural
  <2>3. Min(I) \in I /\ \A k \in I : Min(I) <= k
    BY <2>2 DEF Min
  <2>4. n \in I /\ \A k \in I : n <= k
    BY <1>1, <1>4, <2>3
  <2> HIDE DEF n
  <2>5. n \in 1 .. Len(items) /\ n # 0
    BY <2>4
  <2> HIDE DEF I
  <2>6. \A i \in 1 .. n - 1 : items[i] \in Oid \X Value
    BY <1>2, <2>1, <2>4, <2>5
  <2>7. Applied(items) = SubSeq(items, 1, n - 1)
    BY <2>5 DEF Applied, n
  <2> QED
    BY <2>5, <2>6, <2>7, SubSeqProperties
<1> QED
  BY <1>3, <1>4

\* set_object
LEMMA SetHolds ==
    ASSUME NEW keys, NEW dict, Holds(keys, dict), NEW oid \in Oid, NEW value \in Value
    PROVE  Holds(InsertKey(keys, oid), SetValue(dict, oid, value))
<1>1. /\ InsertKey(keys, oid) \in Seq(Oid)
      /\ Increasing(InsertKey(keys, oid))
      /\ Elements(InsertKey(keys, oid)) = Elements(keys) \union {oid}
  BY InsertKeyKeeps DEF Holds
<1>2. SetValue(dict, oid, value) \in [Elements(keys) \union {oid} -> Value]
  BY DEF SetValue, Holds
<1> QED
  BY <1>1, <1>2 DEF Holds

\* set_objects, item by item
LEMMA SetObjectsHolds ==
    ASSUME Holds(sorted, values), NEW items \in Seq((Oid \union {Unresolvable}) \X Value),
           SetObjects(items)
    PROVE  Holds(sorted', values')
<1> DEFINE done == Applied(items)
           N == Len(done)
           keys[n \in 0 .. N] == IF n = 0 THEN sorted ELSE InsertKey(keys[n - 1], done[n][1])
           dict[n \in 0 .. N] ==
             IF n = 0 THEN values ELSE SetValue(dict[n - 1], done[n][1], done[n][2])
<1>1. sorted' = keys[N] /\ values' = dict[N]
  BY DEF SetObjects
<1>2. done \in Seq(Oid \X Value)
  BY AppliedType
<1> HIDE DEF done
<1>3. N \in Nat /\ \A n \in 1 .. N : done[n][1] \in Oid /\ done[n][2] \in Value
  <2>1. \A n \in 1 .. N : done[n] \in Oid \X Value
    BY <1>2
  <2> QED
    BY <1>2, <2>1
<1> HIDE DEF N
<1>4. keys = [n \in 0 .. N |-> IF n = 0 THEN sorted ELSE InsertKey(keys[n - 1], done[n][1])]
  <2> DEFINE S == {k \in Seq(Oid) : Increasing(k)}
             F == [n \in 1 .. N |-> [k \in S |-> InsertKey(k, done[n][1])]]
  <2>1. \A k \in S, o \in Oid : InsertKey(k, o) \in S
    BY InsertKeyKeeps
  <2>2. sorted \in S
    BY DEF Holds
  <2> HIDE DEF S
  <2>3. F \in [1 .. N -> [S -> S]]
    BY <1>3, <2>1
  <2>4. \A n \in 1 .. N : \A k \in S : F[n][k] = InsertKey(k, done[n][1])
    OBVIOUS
  <2> HIDE DEF F
  <2>5. PICK f \in [0 .. N -> S] : Iterates(F, sorted, N, f)
    BY <1>3, <2>2, <2>3, IterationExists
  <2>6. f[0] = sorted /\ \A n \in 1 .. N : f[n] = F[n][f[n - 1]]
    BY <2>5 DEF Iterates
  <2>7. ASSUME NEW n \in 1 .. N PROVE f[n] = InsertKey(f[n - 1], done[n][1])
    <3>1. n - 1 \in 0 .. N
      BY <1>3
    <3> QED
      BY <2>4, <2>6, <3>1
  <2>8. f = [n \in 0 .. N |-> IF n = 0 THEN sorted ELSE InsertKey(f[n - 1], done[n][1])]
    BY <1>3, <2>6, <2>7
  <2> QED
    BY <2>8
<1>5. dict = [n \in 0 .. N |-> IF n = 0 THEN values
                              ELSE SetValue(dict[n - 1], done[n][1], done[n][2])]
  <2> DEFINE S == UNION {[D -> Value] : D \in SUBSET Oid}
             F == [n \in 1 .. N |-> [d \in S |-> SetValue(d, done[n][1], done[n][2])]]
  <2>1. \A d \in S, o \in Oid, v \in Value : SetValue(d, o, v) \in S
    <3>1. TAKE d \in S, o \in Oid, v \in Value
    <3>2. PICK D \in SUBSET Oid : d \in [D -> Value]
      OBVIOUS
    <3>3. SetValue(d, o, v) \in [D \union {o} -> Value]
      BY <3>2 DEF SetValue
    <3> QED
      BY <3>2, <3>3
  <2>2. values \in S
    <3>1. Elements(sorted) \in SUBSET Oid
      BY DEF Holds, Elements
    <3> QED
      BY <3>1 DEF Holds
  <2> HIDE DEF S
  <2>3. F \in [1 .. N -> [S -> S]]
    BY <1>3, <2>1
  <2>4. \A n \in 1 .. N : \A d \in S : F[n][d] = SetValue(d, done[n][1], done[n][2])
    OBVIOUS
  <2> HIDE DEF F
  <2>5. PICK f \in [0 .. N -> S] : Iterates(F, values, N, f)
    BY <1>3, <2>2, <2>3, IterationExists
  <2>6. f[0] = values /\ \A n \in 1 .. N : f[n] = F[n][f[n - 1]]
    BY <2>5 DEF Iterates
  <2>7. ASSUME NEW n \in 1 .. N PROVE f[n] = SetValue(f[n - 1], done[n][1], done[n][2])
    <3>1. n - 1 \in 0 .. N
      BY <1>3
    <3> QED
      BY <2>4, <2>6, <3>1
  <2>8. f = [n \in 0 .. N |-> IF n = 0 THEN values
                             ELSE SetValue(f[n - 1], done[n][1], done[n][2])]
    BY <1>3, <2>6, <2>7
  <2> QED
    BY <2>8
<1> HIDE DEF keys, dict
<1>6. /\ keys[0] = sorted /\ dict[0] = values
      /\ \A n \in 1 .. N : /\ keys[n] = InsertKey(keys[n - 1], done[n][1])
                           /\ dict[n] = SetValue(dict[n - 1], done[n][1], done[n][2])
  BY <1>3, <1>4, <1>5
<1> DEFINE T == {n \in Nat : n <= N => Holds(keys[n], dict[n])}
<1>7. 0 \in T
  BY <1>6
<1>8. ASSUME NEW n \in Nat, n \in T PROVE n + 1 \in T
  <2>1. SUFFICES ASSUME n + 1 <= N PROVE Holds(keys[n + 1], dict[n + 1])
    OBVIOUS
  <2>2. Holds(keys[n], dict[n]) /\ n + 1 \in 1 .. N /\ (n + 1) - 1 = n
    BY <1>3, <1>8, <2>1
  <2>3. Holds(InsertKey(keys[n], done[n + 1][1]), SetValue(dict[n], done[n + 1][1], done[n + 1][2]))
    BY <1>3, <2>2, SetHolds
  <2> QED
    BY <1>6, <2>2, <2>3
<1>9. N \in T
  BY <1>3, <1>7, <1>8, NaturalsByStep
<1> QED
  BY <1>1, <1>3, <1>9

\* no change of the owner parts the two
LEMMA DeleteHolds ==
    ASSUME Holds(sorted, values), NEW oid \in Oid, DeleteObject(oid)
    PROVE  Holds(sorted', values')
<1>1. oid \in Elements(sorted) /\ Stored = Elements(sorted)
  BY DEF DeleteObject, Holds, Stored
<1>2. /\ sorted' \in Seq(Oid) /\ Increasing(sorted')
      /\ Elements(sorted') = Elements(sorted) \ {oid}
  BY <1>1, RemoveKeyKeeps DEF DeleteObject, Holds
<1>3. values' \in [Elements(sorted) \ {oid} -> Value]
  BY <1>1 DEF DeleteObject, Holds
<1> QED
  BY <1>2, <1>3 DEF Holds

LEMMA ClearHolds ==
    ASSUME Clear
    PROVE  Holds(sorted', values')
<1>1. sorted' = <<>> /\ Elements(<<>>) = {}
  BY DEF Clear, Elements
<1>2. values' \in [{} -> Value]
  BY DEF Clear
<1> QED
  BY <1>1, <1>2 DEF Holds, Increasing

------------------------------------------------------------------------------
(* What a lookup finds.                                                     *)

Row == [oid : Oid, value : Value \union {"endOfMibView"}]

\* m is the next object after oid, or says that there is none
IsNext(m, oid) ==
    /\ m \in Row
    /\ m.value = "endOfMibView" => m.oid = oid /\ \A o \in Stored : ~Before(oid, o)
    /\ m.value # "endOfMibView" =>
         /\ m.oid \in Stored /\ m.value = values[m.oid] /\ Before(oid, m.oid)
         /\ \A o \in Stored : ~(Before(oid, o) /\ Before(o, m.oid))

LEMMA NextFinds ==
    ASSUME Holds(sorted, values), NEW oid \in Oid
    PROVE  IsNext(NextVarbind(oid), oid)
<1> DEFINE b == Bisect(sorted, oid)
           m == NextVarbind(oid)
<1>1. /\ sorted \in Seq(Arcs) /\ oid \in Arcs /\ Len(sorted) \in Nat
      /\ \A i \in 1 .. Len(sorted) : sorted[i] \in Oid /\ sorted[i] \in Arcs
      /\ Increasing(sorted) /\ values \in [Elements(sorted) -> Value]
  <2>1. sorted \in Seq(Oid) /\ Increasing(sorted) /\ values \in [Elements(sorted) -> Value]
    BY DEF Holds
  <2>2. sorted \in Seq(Arcs)
    BY <2>1, OidsAreArcs, SeqMonotonic
  <2> QED
    BY <2>1, <2>2, OidsAreArcs
<1>2. /\ b \in 0 .. Len(sorted)
      /\ \A i \in 1 .. b : AtMost(sorted[i], oid)
      /\ \A i \in b + 1 .. Len(sorted) : Before(oid, sorted[i])
  BY <1>1, BisectSplits
<1>3. \A i \in 1 .. b : ~Before(oid, sorted[i])
  <2>1. TAKE i \in 1 .. b
  <2>2. i \in 1 .. Len(sorted) /\ AtMost(sorted[i], oid)
    BY <1>1, <1>2
  <2> QED
    BY <1>1, <2>2, BeforeIrreflexive, BeforeTransitive DEF AtMost
<1>4. Stored = Elements(sorted)
  BY <1>1 DEF Stored
<1>5. CASE b + 1 > Len(sorted)
  <2>1. LookupNext(oid) = EndOfMibView
    BY <1>5 DEF LookupNext
  <2>2. m = [oid |-> oid, value |-> "endOfMibView"]
    BY <2>1 DEF NextVarbind
  <2>3. \A o \in Stored : ~Before(oid, o)
    BY <1>1, <1>2, <1>3, <1>4, <1>5 DEF Elements
  <2> HIDE DEF m
  <2>4. m \in Row /\ m.oid = oid /\ m.value = "endOfMibView"
    BY <2>2 DEF Row
  <2> QED
    BY <2>3, <2>4 DEF IsNext, m
<1>6. CASE b + 1 <= Len(sorted)
  <2> DEFINE x == sorted[b + 1]
  <2>1. b + 1 \in 1 .. Len(sorted) /\ x \in Oid /\ x \in Stored /\ Before(oid, x)
    BY <1>1, <1>2, <1>4, <1>6 DEF Elements
  <2>2. LookupNext(oid) = [oid |-> x, value |-> values[x]]
    BY <1>1, <1>2, <1>6 DEF LookupNext
  <2>3. values[x] \in Value /\ values[x] # "endOfMibView"
    BY <1>1, <1>4, <2>1, SourceAssumption
  <2>4. LookupNext(oid) # EndOfMibView
    BY <2>1, <2>2, SourceAssumption DEF EndOfMibView
  <2>5. m = [oid |-> x, value |-> values[x]]
    BY <2>2, <2>4 DEF NextVarbind
  <2>6. ASSUME NEW o \in Stored, Before(oid, o) PROVE ~Before(o, x)
    <3>1. PICK i \in 1 .. Len(sorted) : o = sorted[i]
      BY <1>4 DEF Elements
    <3>2. ~(i <= b)
      BY <1>2, <1>3, <2>6, <3>1
    <3>3. CASE i = b + 1
      BY <1>1, <3>1, <3>3, BeforeIrreflexive
    <3>4. CASE i > b + 1
      <4>1. Before(x, o) /\ x \in Arcs /\ o \in Arcs
        BY <1>1, <1>2, <2>1, <3>1, <3>4 DEF Increasing
      <4> QED
        BY <4>1, BeforeTransitive, BeforeIrreflexive
    <3> QED
      BY <1>2, <3>2, <3>3, <3>4
  <2> HIDE DEF m, x
  <2>7. m \in Row /\ m.oid = x /\ m.value = values[x]
    BY <2>1, <2>3, <2>5 DEF Row
  <2> QED
    BY <2>1, <2>3, <2>6, <2>7 DEF IsNext, m
<1> QED
  BY <1>1, <1>2, <1>5, <1>6

\* the OIDs a repeater goes through
LEMMA CursorSteps ==
    ASSUME Holds(sorted, values), NEW oid \in Oid, NEW rounds \in Nat
    PROVE  /\ Cursor(oid, rounds) \in [0 .. rounds -> Oid]
           /\ Cursor(oid, rounds)[0] = oid
           /\ \A k \in 1 .. rounds :
                Cursor(oid, rounds)[k] = NextVarbind(Cursor(oid, rounds)[k - 1]).oid
<1> DEFINE F == [k \in 1 .. rounds |-> [o \in Oid |-> NextVarbind(o).oid]]
           c == Cursor(oid, rounds)
<1>1. \A o \in Oid : NextVarbind(o).oid \in Oid
  BY NextFinds DEF IsNext, Row
<1>2. F \in [1 .. rounds -> [Oid -> Oid]]
  BY <1>1
<1>3. \A k \in 1 .. rounds : \A o \in Oid : F[k][o] = NextVarbind(o).oid
  OBVIOUS
<1> HIDE DEF F
<1>4. PICK f \in [0 .. rounds -> Oid] : Iterates(F, oid, rounds, f)
  BY <1>2, IterationExists
<1>5. f[0] = oid /\ \A k \in 1 .. rounds : f[k] = F[k][f[k - 1]]
  BY <1>4 DEF Iterates
<1>6. ASSUME NEW k \in 1 .. rounds PROVE f[k] = NextVarbind(f[k - 1]).oid
  <2>1. k - 1 \in 0 .. rounds
    OBVIOUS
  <2> QED
    BY <1>3, <1>5, <2>1
<1>7. f = [k \in 0 .. rounds |-> IF k = 0 THEN oid ELSE NextVarbind(f[k - 1]).oid]
  BY <1>5, <1>6
<1>8. c = [k \in 0 .. rounds |-> IF k = 0 THEN oid ELSE NextVarbind(c[k - 1]).oid]
  BY <1>7 DEF Cursor
<1> HIDE DEF c
<1>9. c[0] = oid /\ \A k \in 1 .. rounds : c[k] = NextVarbind(c[k - 1]).oid
  BY <1>8
<1> DEFINE T == {n \in Nat : n <= rounds => c[n] \in Oid}
<1>10. 0 \in T
  BY <1>9
<1>11. ASSUME NEW n \in Nat, n \in T PROVE n + 1 \in T
  <2>1. SUFFICES ASSUME n + 1 <= rounds PROVE c[n + 1] \in Oid
    OBVIOUS
  <2>2. c[n] \in Oid /\ n + 1 \in 1 .. rounds /\ (n + 1) - 1 = n
    BY <1>11, <2>1
  <2> QED
    BY <1>1, <1>9, <2>2
<1>12. ASSUME NEW k \in 0 .. rounds PROVE c[k] \in Oid
  <2>1. Nat \subseteq T
    BY <1>10, <1>11, NaturalsByStep
  <2>2. k \in T
    BY <2>1
  <2> QED
    BY <2>2
<1>13. c \in [0 .. rounds -> Oid]
  BY <1>8, <1>12
<1> QED
  BY <1>9, <1>13 DEF c

\* each row is the next object after the one before it
Follows(v, oid) ==
    /\ v \in Seq(Row)
    /\ \A i \in 1 .. Len(v) : IsNext(v[i], IF i = 1 THEN oid ELSE v[i - 1].oid)

\* the response to a GETNEXT of one OID
LEMMA GetNextFollows ==
    ASSUME Holds(sorted, values), NEW oid \in Oid, NEW n, NEW rounds
    PROVE  LET v == ResponsePdu("GET_NEXT", <<oid>>, n, rounds).varbinds
           IN  Follows(v, oid) /\ Len(v) = 1
<1> DEFINE v == ResponsePdu("GET_NEXT", <<oid>>, n, rounds).varbinds
<1>1. v = [i \in DOMAIN <<oid>> |-> NextVarbind(<<oid>>[i])]
  BY DEF ResponsePdu, Response
<1>2. DOMAIN <<oid>> = 1 .. 1 /\ <<oid>>[1] = oid
  OBVIOUS
<1>3. v = [i \in 1 .. 1 |-> NextVarbind(oid)]
  BY <1>1, <1>2
<1> HIDE DEF v
<1>4. IsNext(NextVarbind(oid), oid)
  BY NextFinds
<1>5. v \in Seq(Row) /\ Len(v) = 1 /\ v[1] = NextVarbind(oid)
  <2>1. NextVarbind(oid) \in Row
    BY <1>4 DEF IsNext
  <2> QED
    BY <1>3, <2>1
<1> QED
  BY <1>4, <1>5 DEF Follows, v

\* the response to a GETBULK of one OID
LEMMA GetBulkFollows ==
    ASSUME Holds(sorted, values), NEW oid \in Oid, NEW rounds \in Nat
    PROVE  LET v == ResponsePdu("GET_BULK", <<oid>>, 0, rounds).varbinds
           IN  Follows(v, oid) /\ Len(v) = rounds
<1> DEFINE v == ResponsePdu("GET_BULK", <<oid>>, 0, rounds).varbinds
           c == Cursor(oid, rounds)
<1>1. v = BulkVarbinds(<<oid>>, 0, rounds)
  BY DEF ResponsePdu, Response
<1>2. AtLeast0(rounds) = rounds /\ AtLeast0(0) = 0 /\ Len(<<oid>>) = 1 /\ <<oid>>[1] = oid
  BY DEF AtLeast0
<1>3. Min({AtLeast0(0), Len(<<oid>>)}) = 0
  <2>1. Min({0, 1}) = 0
    BY DEF Min
  <2> QED
    BY <1>2, <2>1
<1>4. v = [i \in 1 .. rounds |-> NextVarbind(c[i - 1])]
  <2> DEFINE split == Min({AtLeast0(0), Len(<<oid>>)})
             width == Len(<<oid>>) - split
             cursors == [j \in 1 .. width |-> Cursor(<<oid>>[split + j], AtLeast0(rounds))]
  <2>1. v = [i \in 1 .. split + AtLeast0(rounds) * width |->
              IF i <= split THEN NextVarbind(<<oid>>[i])
              ELSE NextVarbind(cursors[((i - split - 1) % width) + 1][(i - split - 1) \div width])]
    BY <1>1 DEF BulkVarbinds
  <2>2. split = 0
    BY <1>3
  <2>3. width = 1
    BY <1>2, <2>2
  <2> HIDE DEF split, width
  <2>4. cursors[1] = c
    <3>1. 1 \in 1 .. width /\ split + 1 = 1
      BY <2>2, <2>3
    <3> QED
      BY <1>2, <3>1
  <2> HIDE DEF cursors, c, v
  <2>5. ASSUME NEW i \in 1 .. rounds
        PROVE  /\ ~(i <= split) /\ ((i - split - 1) % width) + 1 = 1
               /\ (i - split - 1) \div width = i - 1
    BY <2>2, <2>3
  <2>6. split + AtLeast0(rounds) * width = rounds
    BY <1>2, <2>2, <2>3
  <2> QED
    BY <2>1, <2>4, <2>5, <2>6
<1>5. /\ c \in [0 .. rounds -> Oid] /\ c[0] = oid
      /\ \A k \in 1 .. rounds : c[k] = NextVarbind(c[k - 1]).oid
  BY CursorSteps
<1> HIDE DEF v, c
<1>6. ASSUME NEW i \in 1 .. rounds PROVE IsNext(v[i], c[i - 1]) /\ v[i].oid = c[i]
  <2>1. i - 1 \in 0 .. rounds
    OBVIOUS
  <2>2. c[i - 1] \in Oid /\ v[i] = NextVarbind(c[i - 1])
    BY <1>4, <1>5, <2>1
  <2> QED
    BY <1>5, <2>2, NextFinds
<1>7. v \in Seq(Row) /\ Len(v) = rounds
  <2>1. \A i \in 1 .. rounds : v[i] \in Row
    BY <1>6 DEF IsNext
  <2>2. v \in [1 .. rounds -> Row]
    BY <1>4, <2>1
  <2> QED
    BY <2>2
<1>8. ASSUME NEW i \in 1 .. Len(v)
      PROVE  IsNext(v[i], IF i = 1 THEN oid ELSE v[i - 1].oid)
  <2>1. CASE i = 1
    BY <1>5, <1>6, <1>7, <2>1
  <2>2. CASE i # 1
    <3>1. i - 1 \in 1 .. rounds
      BY <1>7, <2>2
    <3>2. v[i - 1].oid = c[i - 1]
      BY <1>6, <3>1
    <3> QED
      BY <1>6, <1>7, <2>2, <3>2
  <2> QED
    BY <2>1, <2>2
<1> QED
  BY <1>7, <1>8 DEF Follows, v

------------------------------------------------------------------------------
(* The rows of a GETBULK.                                                   *)

\* distinct keys are as many as their places
LEMMA SegmentCounts ==
    ASSUME NEW s \in Seq(Arcs), Increasing(s),
           NEW a \in 0 .. Len(s), NEW c \in a .. Len(s)
    PROVE  Cardinality({s[i] : i \in a + 1 .. c}) = c - a
<1> DEFINE P == a + 1 .. c
           S == {s[i] : i \in P}
           f == [i \in P |-> s[i]]
<1>1. Len(s) \in Nat /\ P \subseteq 1 .. Len(s)
  OBVIOUS
<1>2. \A i, j \in P : s[i] = s[j] => i = j
  BY <1>1, IncreasingDistinct DEF Distinct
<1>3. IsFiniteSet(P) /\ Cardinality(P) = c - a
  <2>1. a + 1 \in Int /\ c \in Int
    BY <1>1
  <2>2. IsFiniteSet(P) /\ Cardinality(P) = IF a + 1 > c THEN 0 ELSE c - (a + 1) + 1
    BY <2>1, FS_Interval
  <2> QED
    BY <1>1, <2>2
<1> HIDE DEF P
<1>4. f \in Bijection(P, S)
  BY <1>2 DEF Bijection, Injection, Surjection, IsInjective
<1>5. ExistsBijection(P, S)
  BY <1>4 DEF ExistsBijection
<1> HIDE DEF S
<1>6. Cardinality(S) = Cardinality(P)
  BY <1>3, <1>5, FS_Bijection
<1> QED
  BY <1>3, <1>6 DEF S, P

\* where a search for a key ends
LEMMA BisectAtKey ==
    ASSUME NEW s \in Seq(Arcs), Increasing(s), NEW i \in 1 .. Len(s)
    PROVE  Bisect(s, s[i]) = i
<1> DEFINE b == Bisect(s, s[i])
<1>1. Len(s) \in Nat /\ \A k \in 1 .. Len(s) : s[k] \in Arcs
  OBVIOUS
<1>2. /\ b \in 0 .. Len(s)
      /\ \A k \in 1 .. b : AtMost(s[k], s[i])
      /\ \A k \in b + 1 .. Len(s) : Before(s[i], s[k])
  BY <1>1, BisectSplits
<1>3. ~Before(s[i], s[i])
  BY <1>1, BeforeIrreflexive
<1> HIDE DEF b
<1>4. ~(b < i)
  BY <1>1, <1>2, <1>3
<1>5. ~(i < b)
  <2>1. SUFFICES ASSUME i < b PROVE FALSE
    OBVIOUS
  <2>2. b \in 1 .. Len(s) /\ AtMost(s[b], s[i]) /\ Before(s[i], s[b])
    BY <1>1, <1>2, <2>1 DEF Increasing
  <2> QED
    BY <1>1, <1>3, <2>2, BeforeTransitive DEF AtMost
<1> QED
  BY <1>1, <1>2, <1>4, <1>5 DEF b

\* what NextVarbind finds, by the place of the search
LEMMA NextByPlace ==
    ASSUME Holds(sorted, values), NEW oid \in Oid
    PROVE  LET b == Bisect(sorted, oid) IN
           /\ b \in 0 .. Len(sorted)
           /\ NextVarbind(oid) = IF b = Len(sorted)
                                 THEN [oid |-> oid, value |-> "endOfMibView"]
                                 ELSE [oid |-> sorted[b + 1], value |-> values[sorted[b + 1]]]
<1> DEFINE b == Bisect(sorted, oid)
<1>1. /\ sorted \in Seq(Arcs) /\ oid \in Arcs /\ Len(sorted) \in Nat
      /\ \A i \in 1 .. Len(sorted) : sorted[i] \in Oid /\ sorted[i] \in Stored
      /\ Increasing(sorted) /\ values \in [Stored -> Value]
  <2>1. sorted \in Seq(Oid) /\ Increasing(sorted) /\ values \in [Elements(sorted) -> Value]
    BY DEF Holds
  <2>2. sorted \in Seq(Arcs)
    BY <2>1, OidsAreArcs, SeqMonotonic
  <2> QED
    BY <2>1, <2>2, OidsAreArcs DEF Stored, Elements
<1>2. b \in 0 .. Len(sorted)
  BY <1>1, BisectSplits
<1>3. CASE b = Len(sorted)
  <2>1. LookupNext(oid) = EndOfMibView
    BY <1>1, <1>3 DEF LookupNext
  <2> QED
    BY <1>2, <1>3, <2>1 DEF NextVarbind
<1>4. CASE b # Len(sorted)
  <2>1. b + 1 \in 1 .. Len(sorted)
    BY <1>1, <1>2, <1>4
  <2>2. LookupNext(oid) = [oid |-> sorted[b + 1], value |-> values[sorted[b + 1]]]
    BY <1>1, <1>2, <1>4 DEF LookupNext
  <2>3. values[sorted[b + 1]] # "endOfMibView"
    BY <1>1, <2>1, SourceAssumption
  <2>4. LookupNext(oid) # EndOfMibView
    BY <2>2, <2>3 DEF EndOfMibView
  <2> QED
    BY <1>2, <1>4, <2>2, <2>4 DEF NextVarbind
<1> QED
  BY <1>3, <1>4

\* the k-th object after an OID is the k-th key after its place
LEMMA SuccessorByPlace ==
    ASSUME Holds(sorted, values), NEW oid \in Oid, NEW k \in Nat \ {0}
    PROVE  LET b == Bisect(sorted, oid) IN
           Successor(oid, k) =
             IF b + k <= Len(sorted)
             THEN [oid |-> sorted[b + k], value |-> values[sorted[b + k]]]
             ELSE [oid   |-> IF b = Len(sorted) THEN oid ELSE sorted[Len(sorted)],
                   value |-> "endOfMibView"]
<1> DEFINE b == Bisect(sorted, oid)
           L == Len(sorted)
           after == {o \in Stored : Before(oid, o)}
<1>1. /\ sorted \in Seq(Arcs) /\ oid \in Arcs /\ L \in Nat
      /\ \A i \in 1 .. L : sorted[i] \in Arcs
      /\ Increasing(sorted) /\ Stored = {sorted[i] : i \in 1 .. L}
  <2>1. sorted \in Seq(Oid) /\ Increasing(sorted) /\ values \in [Elements(sorted) -> Value]
    BY DEF Holds
  <2>2. sorted \in Seq(Arcs)
    BY <2>1, OidsAreArcs, SeqMonotonic
  <2> QED
    BY <2>1, <2>2, OidsAreArcs DEF Stored, Elements
<1>2. /\ b \in 0 .. L
      /\ \A i \in 1 .. b : AtMost(sorted[i], oid)
      /\ \A i \in b + 1 .. L : Before(oid, sorted[i])
  BY <1>1, BisectSplits
<1>3. \A i \in 1 .. b : ~Before(oid, sorted[i])
  <2>1. TAKE i \in 1 .. b
  <2>2. i \in 1 .. L /\ AtMost(sorted[i], oid)
    BY <1>1, <1>2
  <2> QED
    BY <1>1, <2>2, BeforeIrreflexive, BeforeTransitive DEF AtMost
<1> HIDE DEF b, L
<1>4. after = {sorted[i] : i \in b + 1 .. L}
  <2>1. ASSUME NEW i \in 1 .. L PROVE Before(oid, sorted[i]) <=> i \in b + 1 .. L
    BY <1>1, <1>2, <1>3, <2>1
  <2>2. b + 1 .. L \subseteq 1 .. L
    BY <1>1, <1>2
  <2> QED
    BY <1>1, <2>1, <2>2
<1>6. \A i, j \in 1 .. L : AtMost(sorted[i], sorted[j]) <=> i <= j
  <2>1. TAKE i, j \in 1 .. L
  <2>2. CASE i < j
    BY <1>1, <2>2 DEF AtMost, Increasing, L
  <2>3. CASE i = j
    BY <1>1, <2>3 DEF AtMost
  <2>4. CASE j < i
    <3>1. Before(sorted[j], sorted[i])
      BY <1>1, <2>4 DEF Increasing, L
    <3> QED
      BY <1>1, <2>4, <3>1, BeforeIrreflexive, BeforeTransitive DEF AtMost
  <2> QED
    BY <1>1, <2>2, <2>3, <2>4
<1> HIDE DEF after
<1>5. Cardinality(after) = L - b
  <2>1. L = Len(sorted) /\ L \in b .. L
    BY <1>1, <1>2 DEF L
  <2>2. Cardinality({sorted[i] : i \in b + 1 .. L}) = L - b
    BY <1>1, <1>2, <2>1, SegmentCounts
  <2> QED
    BY <1>4, <2>2
<1>7. CASE b + k <= L
  <2>1. ASSUME NEW m \in 1 .. L - b
        PROVE  Cardinality({y \in after : AtMost(y, sorted[b + m])}) = m
    <3>1. b + m \in b .. L /\ b + m \in 1 .. L
      BY <1>1, <1>2
    <3>2. {y \in after : AtMost(y, sorted[b + m])} = {sorted[i] : i \in b + 1 .. b + m}
      <4>1. ASSUME NEW i \in b + 1 .. L
            PROVE  AtMost(sorted[i], sorted[b + m]) <=> i \in b + 1 .. b + m
        BY <1>1, <1>2, <1>6, <3>1
      <4>2. b + 1 .. b + m \subseteq b + 1 .. L
        BY <1>1, <1>2, <3>1
      <4> QED
        BY <1>4, <4>1, <4>2
    <3>3. Cardinality({sorted[i] : i \in b + 1 .. b + m}) = (b + m) - b
      BY <1>1, <1>2, <3>1, SegmentCounts DEF L
    <3> QED
      <4>1. (b + m) - b = m
        BY <1>1, <1>2
      <4> QED
        BY <3>2, <3>3, <4>1
  <2> DEFINE x == CHOOSE x \in after : Cardinality({y \in after : AtMost(y, x)}) = k
             Fits(z) == Cardinality({y \in after : AtMost(y, z)}) = k
  <2>2. k \in 1 .. L - b /\ b + k \in b + 1 .. L
    BY <1>1, <1>2, <1>7
  <2>3. sorted[b + k] \in after /\ Fits(sorted[b + k])
    BY <1>4, <2>1, <2>2
  <2>4. ASSUME NEW z \in after, Fits(z) PROVE z = sorted[b + k]
    <3>1. PICK i \in b + 1 .. L : z = sorted[i]
      BY <1>4
    <3>2. i - b \in 1 .. L - b /\ b + (i - b) = i
      BY <1>1, <1>2
    <3>3. Fits(sorted[i]) /\ Cardinality({y \in after : AtMost(y, sorted[i])}) = i - b
      BY <2>1, <2>4, <3>1, <3>2
    <3>4. i = b + k
      BY <1>2, <3>2, <3>3
    <3> QED
      BY <3>1, <3>4
  <2> HIDE DEF Fits
  <2>5. (CHOOSE z \in after : Fits(z)) = sorted[b + k]
    BY <2>3, <2>4
  <2>6. x = sorted[b + k]
    BY <2>5 DEF Fits
  <2>7. k <= Cardinality(after)
    BY <1>1, <1>2, <1>5, <1>7
  <2> HIDE DEF x
  <2>8. Successor(oid, k) = [oid |-> x, value |-> values[x]]
    BY <2>7 DEF Successor, after, x
  <2> QED
    BY <1>7, <2>6, <2>8 DEF b, L
<1>8. CASE ~(b + k <= L)
  <2> DEFINE x == CHOOSE x \in after \union {oid} : \A y \in after : AtMost(y, x)
             Greatest(z) == \A y \in after : AtMost(y, z)
             end == IF b = L THEN oid ELSE sorted[L]
  <2>1. ~(k <= Cardinality(after))
    BY <1>1, <1>2, <1>5, <1>8
  <2>2. end \in after \union {oid} /\ Greatest(end)
    BY <1>1, <1>2, <1>4, <1>6
  <2>3. ASSUME NEW z \in after \union {oid}, Greatest(z) PROVE z = end
    <3>1. CASE b = L
      <4>1. after = {}
        BY <1>1, <1>4, <3>1
      <4> QED
        BY <3>1, <4>1
    <3>2. CASE b # L
      <4>1. L \in b + 1 .. L /\ L \in 1 .. L
        BY <1>1, <1>2, <3>2
      <4>2. AtMost(sorted[L], z)
        BY <1>4, <2>3, <4>1
      <4>3. CASE z = oid
        <5>1. Before(oid, sorted[L])
          BY <1>2, <4>1
        <5> QED
          BY <1>1, <4>1, <4>2, <4>3, <5>1, BeforeIrreflexive, BeforeTransitive DEF AtMost
      <4>4. CASE z \in after
        <5>1. PICK i \in b + 1 .. L : z = sorted[i]
          BY <1>4, <4>4
        <5>2. i \in 1 .. L /\ L <= i
          BY <1>1, <1>2, <1>6, <4>1, <4>2, <5>1
        <5> QED
          BY <1>1, <3>2, <5>1, <5>2
      <4> QED
        BY <4>3, <4>4
    <3> QED
      BY <3>1, <3>2
  <2> HIDE DEF Greatest, end
  <2>4. (CHOOSE z \in after \union {oid} : Greatest(z)) = end
    BY <2>2, <2>3
  <2>5. x = end
    BY <2>4 DEF Greatest
  <2> HIDE DEF x
  <2>6. Successor(oid, k) = [oid |-> x, value |-> "endOfMibView"]
    BY <2>1 DEF Successor, after, x
  <2> QED
    BY <1>8, <2>5, <2>6 DEF b, L, end
<1> QED
  BY <1>7, <1>8

\* the varbinds a repeater gives, one repetition after the other
LEMMA CursorFindsSuccessors ==
    ASSUME Holds(sorted, values), NEW oid \in Oid, NEW rounds \in Nat
    PROVE  /\ Cursor(oid, rounds)[0] = oid
           /\ \A k \in 1 .. rounds : NextVarbind(Cursor(oid, rounds)[k - 1]) = Successor(oid, k)
<1> DEFINE c == Cursor(oid, rounds)
           b == Bisect(sorted, oid)
           L == Len(sorted)
           Place(k) == IF b + k <= L THEN b + k ELSE L
           Key(k) == IF k = 0 \/ b = L THEN oid ELSE sorted[Place(k)]
<1>1. /\ sorted \in Seq(Arcs) /\ Increasing(sorted) /\ L \in Nat
      /\ \A i \in 1 .. L : sorted[i] \in Oid
  <2>1. sorted \in Seq(Oid) /\ Increasing(sorted)
    BY DEF Holds
  <2>2. sorted \in Seq(Arcs)
    BY <2>1, OidsAreArcs, SeqMonotonic
  <2> QED
    BY <2>1, <2>2
<1>2. b \in 0 .. L
  BY NextByPlace
<1>3. \A i \in 1 .. L : Bisect(sorted, sorted[i]) = i
  BY <1>1, BisectAtKey
<1>4. /\ c \in [0 .. rounds -> Oid] /\ c[0] = oid
      /\ \A k \in 1 .. rounds : c[k] = NextVarbind(c[k - 1]).oid
  BY CursorSteps
<1> HIDE DEF b, L, c
<1>5. ASSUME NEW k \in Nat
      PROVE  /\ Bisect(sorted, Key(k)) = Place(k) /\ Place(k) \in 0 .. L
             /\ Key(k) \in Oid
  <2>1. CASE k = 0 \/ b = L
    BY <1>1, <1>2, <2>1 DEF b
  <2>2. CASE ~(k = 0 \/ b = L)
    <3>1. Place(k) \in 1 .. L
      BY <1>1, <1>2, <2>2
    <3> HIDE DEF Place
    <3> QED
      BY <1>1, <1>3, <2>2, <3>1
  <2> QED
    BY <2>1, <2>2
<1>6. ASSUME NEW k \in Nat
      PROVE  NextVarbind(Key(k)) = IF Place(k) = L
                                   THEN [oid |-> Key(k), value |-> "endOfMibView"]
                                   ELSE [oid |-> sorted[Place(k) + 1],
                                         value |-> values[sorted[Place(k) + 1]]]
  <2>1. Key(k) \in Oid /\ Bisect(sorted, Key(k)) = Place(k)
    BY <1>5
  <2> HIDE DEF Key, Place
  <2> QED
    BY <2>1, NextByPlace DEF L
<1> HIDE DEF Key, Place
<1>7. ASSUME NEW k \in Nat PROVE NextVarbind(Key(k)).oid = Key(k + 1)
  <2>1. CASE Place(k) = L
    <3>1. NextVarbind(Key(k)).oid = Key(k)
      BY <1>6, <2>1
    <3>2. Key(k) = Key(k + 1)
      BY <1>1, <1>2, <2>1 DEF Key, Place
    <3> QED
      BY <3>1, <3>2
  <2>2. CASE Place(k) # L
    <3>1. NextVarbind(Key(k)).oid = sorted[Place(k) + 1]
      BY <1>6, <2>2
    <3>2. Place(k) + 1 = Place(k + 1) /\ b # L /\ k + 1 # 0
      BY <1>1, <1>2, <2>2 DEF Place
    <3> QED
      BY <3>1, <3>2 DEF Key
  <2> QED
    BY <2>1, <2>2
<1> DEFINE T == {n \in Nat : n <= rounds => c[n] = Key(n)}
<1>8. 0 \in T
  BY <1>4 DEF Key
<1>9. ASSUME NEW n \in Nat, n \in T PROVE n + 1 \in T
  <2>1. SUFFICES ASSUME n + 1 <= rounds PROVE c[n + 1] = Key(n + 1)
    OBVIOUS
  <2>2. c[n] = Key(n) /\ n + 1 \in 1 .. rounds /\ (n + 1) - 1 = n
    BY <1>9, <2>1
  <2> QED
    BY <1>4, <1>7, <2>2
<1>10. Nat \subseteq T
  <2> HIDE DEF T
  <2> QED
    BY <1>8, <1>9, NaturalsByStep
<1>11. ASSUME NEW k \in 1 .. rounds PROVE NextVarbind(c[k - 1]) = Successor(oid, k)
  <2>1. k - 1 \in Nat /\ c[k - 1] = Key(k - 1) /\ k \in Nat \ {0}
    BY <1>10
  <2>2. NextVarbind(c[k - 1]) = IF Place(k - 1) = L
                                THEN [oid |-> Key(k - 1), value |-> "endOfMibView"]
                                ELSE [oid |-> sorted[Place(k - 1) + 1],
                                      value |-> values[sorted[Place(k - 1) + 1]]]
    BY <1>6, <2>1
  <2>3. Successor(oid, k) = IF b + k <= L
                            THEN [oid |-> sorted[b + k], value |-> values[sorted[b + k]]]
                            ELSE [oid   |-> IF b = L THEN oid ELSE sorted[L],
                                  value |-> "endOfMibView"]
    BY <2>1, SuccessorByPlace DEF b, L
  <2>4. CASE b + k <= L
    <3>1. Place(k - 1) # L /\ Place(k - 1) + 1 = b + k
      BY <1>1, <1>2, <2>1, <2>4 DEF Place
    <3> QED
      BY <2>2, <2>3, <2>4, <3>1
  <2>5. CASE ~(b + k <= L)
    <3>1. Place(k - 1) = L
      BY <1>1, <1>2, <2>1, <2>5 DEF Place
    <3>2. Key(k - 1) = IF b = L THEN oid ELSE sorted[L]
      BY <1>1, <1>2, <2>1, <2>5, <3>1 DEF Key
    <3> QED
      BY <2>2, <2>3, <2>5, <3>1, <3>2
  <2> QED
    BY <2>4, <2>5
<1> QED
  BY <1>4, <1>11 DEF c

\* row and column of a place in a table of rows of w
LEMMA RowAndColumn ==
    ASSUME NEW w \in Nat \ {0}, NEW q \in Nat, NEW r \in 0 .. w - 1
    PROVE  (q * w + r) \div w = q /\ (q * w + r) % w = r
<1> DEFINE n == q * w + r
           d == n \div w
           m == n % w
<1>1. q * w \in Nat /\ n \in Nat
  OBVIOUS
<1> HIDE DEF n
<1>2. d \in Int /\ m \in 0 .. w - 1 /\ n = d * w + m
  BY <1>1
<1> HIDE DEF d, m
<1>3. d * w \in Int /\ d * w - q * w = r - m /\ q * w \in Nat
  BY <1>1, <1>2 DEF n
<1>4. ~(d >= q + 1)
  <2>1. SUFFICES ASSUME d >= q + 1 PROVE FALSE
    OBVIOUS
  <2>2. d * w >= q * w + w
    BY <1>2, <2>1
  <2> QED
    BY <1>2, <1>3, <2>2
<1>5. ~(d + 1 <= q)
  <2>1. SUFFICES ASSUME d + 1 <= q PROVE FALSE
    OBVIOUS
  <2>2. q * w >= d * w + w
    BY <1>2, <2>1
  <2> QED
    BY <1>2, <1>3, <2>2
<1>6. d = q
  BY <1>2, <1>4, <1>5
<1> QED
  BY <1>2, <1>3, <1>6 DEF n, d, m

\* a GETBULK of any OIDs with any counts: rows of successors
LEMMA BulkFindsSuccessors ==
    ASSUME Holds(sorted, values), NEW oids \in Seq(Oid), NEW n \in Int, NEW m \in Int
    PROVE  BulkRowsAreSuccessors(oids, n, m)
<1> DEFINE rounds  == AtLeast0(m)
           split == Min({AtLeast0(n), Len(oids)})
           width == Len(oids) - split
           got   == ResponsePdu("GET_BULK", oids, n, m).varbinds
           cursors == [j \in 1 .. width |-> Cursor(oids[split + j], rounds)]
<1>1. /\ rounds \in Nat /\ AtLeast0(n) \in Nat /\ Len(oids) \in Nat
      /\ \A k \in 1 .. m : k \in 1 .. rounds
  BY DEF AtLeast0
<1>2. split \in 0 .. Len(oids)
  <2> DEFINE K == {AtLeast0(n), Len(oids)}
  <2>1. K \in SUBSET Nat /\ K # {} /\ Len(oids) \in K
    BY <1>1
  <2> HIDE DEF K
  <2>2. Min(K) \in K /\ \A k \in K : Min(K) <= k
    BY <2>1, LeastOne
  <2> QED
    BY <1>1, <2>1, <2>2 DEF K
<1>3. got = [i \in 1 .. split + rounds * width |->
              IF i <= split THEN NextVarbind(oids[i])
              ELSE NextVarbind(cursors[((i - split - 1) % width) + 1][(i - split - 1) \div width])]
  BY DEF ResponsePdu, Response, BulkVarbinds
<1> HIDE DEF rounds, split, got
<1>4. width \in Nat /\ rounds * width \in Nat /\ \A i \in 1 .. Len(oids) : oids[i] \in Oid
  BY <1>1, <1>2
<1>5. Len(got) = split + width * rounds
  <2>1. rounds * width = width * rounds /\ split + rounds * width \in Nat
    BY <1>1, <1>2, <1>4
  <2> HIDE DEF width
  <2> QED
    BY <1>3, <2>1
<1>6. ASSUME NEW i \in 1 .. split PROVE got[i] = Successor(oids[i], 1)
  <2>1. i \in 1 .. split + rounds * width /\ i <= split /\ oids[i] \in Oid
    BY <1>1, <1>2, <1>4
  <2> HIDE DEF width, cursors
  <2>2. got[i] = NextVarbind(oids[i])
    BY <1>3, <2>1
  <2>3. /\ Cursor(oids[i], 1)[0] = oids[i]
        /\ \A k \in 1 .. 1 : NextVarbind(Cursor(oids[i], 1)[k - 1]) = Successor(oids[i], k)
    BY <2>1, CursorFindsSuccessors
  <2>4. 1 \in 1 .. 1 /\ 1 - 1 = 0
    OBVIOUS
  <2> QED
    BY <2>2, <2>3, <2>4
<1>7. ASSUME NEW k \in 1 .. rounds, NEW j \in 1 .. width
      PROVE  got[split + (k - 1) * width + j] = Successor(oids[split + j], k)
  <2> DEFINE q == k - 1
             i == split + q * width + j
  <2>1. /\ q \in Nat /\ j - 1 \in 0 .. width - 1 /\ width \in Nat \ {0}
        /\ split + j \in 1 .. Len(oids) /\ q + 1 <= rounds
    BY <1>1, <1>2, <1>4
  <2>2. q * width + width <= rounds * width /\ q * width \in Nat
    <3> HIDE DEF width, q
    <3>1. (q + 1) * width <= rounds * width
      BY <1>1, <2>1
    <3> QED
      BY <2>1, <3>1
  <2> HIDE DEF width, q, cursors
  <2>3. i \in 1 .. split + rounds * width /\ ~(i <= split) /\ i - split - 1 = q * width + (j - 1)
    BY <1>1, <1>2, <1>4, <2>1, <2>2
  <2>4. (i - split - 1) \div width = q /\ (i - split - 1) % width = j - 1
    BY <2>1, <2>3, RowAndColumn
  <2> HIDE DEF i
  <2>5. got[i] = NextVarbind(cursors[(j - 1) + 1][q])
    BY <1>3, <2>3, <2>4
  <2>6. (j - 1) + 1 = j
    BY <1>4
  <2>7. cursors[j] = Cursor(oids[split + j], rounds)
    BY DEF cursors
  <2>8. NextVarbind(Cursor(oids[split + j], rounds)[k - 1]) = Successor(oids[split + j], k)
    BY <1>1, <1>4, <2>1, CursorFindsSuccessors
  <2> QED
    BY <2>5, <2>6, <2>7, <2>8 DEF i, q
<1> QED
  BY <1>1, <1>5, <1>6, <1>7 DEF BulkRowsAreSuccessors, rounds, split, got

\* an object found by GETNEXT is what a GET of it returns
LEMMA GetAgreesWithGetNext ==
    ASSUME Holds(sorted, values), NEW oids \in Seq(Oid), NEW i \in DOMAIN oids,
           NextVarbind(oids[i]).value # "endOfMibView"
    PROVE  ExactVarbind(NextVarbind(oids[i]).oid) = NextVarbind(oids[i])
<1> DEFINE m == NextVarbind(oids[i])
<1>1. IsNext(m, oids[i])
  BY NextFinds
<1>2. m.oid \in Stored /\ m.value = values[m.oid]
  BY <1>1 DEF IsNext
<1>3. ExactVarbind(m.oid) = [oid |-> m.oid, value |-> m.value]
  BY <1>2 DEF ExactVarbind
<1>4. m \in Row
  BY <1>1 DEF IsNext
<1> HIDE DEF m
<1>5. m = [oid |-> m.oid, value |-> m.value]
  BY <1>4 DEF Row
<1> QED
  BY <1>3, <1>5 DEF m

------------------------------------------------------------------------------
(* What a CounterRule reads.                                                *)

LEMMA RulesGrow ==
    ASSUME NEW v, NEW i \in Nat \ {0}, NEW j \in Nat, i <= j
    PROVE  /\ RulesBefore(v, i) \in Nat /\ RulesBefore(v, j) \in Nat
           /\ RulesBefore(v, i) <= RulesBefore(v, j)
           /\ i < j /\ v[i].value = CounterRule => RulesBefore(v, i) < RulesBefore(v, j)
<1> DEFINE R(n) == {k \in 1 .. n - 1 : v[k].value = CounterRule}
<1>1. ASSUME NEW n \in Nat PROVE IsFiniteSet(R(n)) /\ Cardinality(R(n)) \in Nat
  <2>1. IsFiniteSet(1 .. n - 1)
    BY FS_Interval
  <2>2. R(n) \in SUBSET (1 .. n - 1)
    OBVIOUS
  <2> HIDE DEF R
  <2>3. IsFiniteSet(R(n))
    BY <2>1, <2>2, FS_Subset
  <2> QED
    BY <2>3, FS_CardinalityType
<1>2. R(i) \subseteq R(j)
  OBVIOUS
<1>3. Cardinality(R(i)) <= Cardinality(R(j))
  <2> HIDE DEF R
  <2> QED
    BY <1>1, <1>2, FS_Subset
<1>4. ASSUME i < j, v[i].value = CounterRule
      PROVE  Cardinality(R(i)) < Cardinality(R(j))
  <2>1. i \in R(j) /\ i \notin R(i)
    BY <1>4
  <2> HIDE DEF R
  <2>2. Cardinality(R(i) \union {i}) = Cardinality(R(i)) + 1
    BY <1>1, <2>1, FS_AddElement
  <2>3. Cardinality(R(i) \union {i}) <= Cardinality(R(j))
    BY <1>1, <1>2, <2>1, FS_Subset
  <2> QED
    BY <1>1, <2>2, <2>3
<1> QED
  BY <1>1, <1>3, <1>4 DEF RulesBefore

EvaluatedRow == [oid : Oid, value : Value \union {"endOfMibView"}, reading : Nat]

\* evaluating the rows of a response keeps their OIDs and values, and reads
\* the rule anew for each
LEMMA EvaluatedReads ==
    ASSUME NEW v \in Seq(Row), count \in Nat
    PROVE  LET e == Evaluated(v) IN
           /\ e \in Seq(EvaluatedRow) /\ Len(e) = Len(v)
           /\ \A i \in 1 .. Len(v) : e[i].oid = v[i].oid /\ e[i].value = v[i].value
           /\ Advanced(v) \in Nat /\ count <= Advanced(v)
           /\ \A i \in 1 .. Len(v) : e[i].reading \in 0 .. Advanced(v)
           /\ \A i \in 1 .. Len(v) : e[i].value = CounterRule =>
                count <= e[i].reading /\ e[i].reading < Advanced(v)
           /\ \A i, j \in 1 .. Len(v) :
                i < j /\ e[i].value = CounterRule /\ e[j].value = CounterRule =>
                    e[i].reading < e[j].reading
<1> DEFINE e == Evaluated(v)
           N == Len(v) + 1
           R(i) == RulesBefore(v, i)
<1>1. /\ Len(v) \in Nat /\ DOMAIN v = 1 .. Len(v) /\ \A i \in 1 .. Len(v) : v[i] \in Row
      /\ N \in Nat
  OBVIOUS
<1>2. ASSUME NEW i \in 1 .. Len(v)
      PROVE  /\ R(i) \in Nat /\ R(N) \in Nat /\ R(i) <= R(N)
             /\ v[i].value = CounterRule => R(i) < R(N)
  <2>1. i \in Nat \ {0} /\ i <= N /\ i < N
    BY <1>1
  <2> QED
    BY <1>1, <2>1, RulesGrow
<1>3. R(N) \in Nat
  <2>1. N \in Nat \ {0}
    BY <1>1
  <2> QED
    BY <2>1, RulesGrow
<1>4. Advanced(v) = count + R(N)
  BY DEF Advanced
<1>5. e = [i \in 1 .. Len(v) |->
             [oid |-> v[i].oid, value |-> v[i].value,
              reading |-> IF v[i].value = CounterRule THEN count + R(i) ELSE 0]]
  BY <1>1 DEF Evaluated
<1>6. ASSUME NEW i \in 1 .. Len(v), NEW j \in 1 .. Len(v), i < j, v[i].value = CounterRule
      PROVE  R(i) < R(j) /\ R(j) \in Nat
  <2>1. i \in Nat \ {0} /\ j \in Nat /\ i <= j
    BY <1>6
  <2> QED
    BY <1>6, <2>1, RulesGrow
<1> HIDE DEF e, R, N
<1>7. ASSUME NEW i \in 1 .. Len(v)
      PROVE  /\ e[i] \in EvaluatedRow /\ e[i].oid = v[i].oid /\ e[i].value = v[i].value
             /\ e[i].reading = IF v[i].value = CounterRule THEN count + R(i) ELSE 0
  <2>1. v[i].oid \in Oid /\ v[i].value \in Value \union {"endOfMibView"}
    BY <1>1 DEF Row
  <2>2. (IF v[i].value = CounterRule THEN count + R(i) ELSE 0) \in Nat
    BY <1>2
  <2> QED
    BY <1>5, <2>1, <2>2 DEF EvaluatedRow
<1>8. e \in Seq(EvaluatedRow) /\ Len(e) = Len(v)
  <2>1. e \in [1 .. Len(v) -> EvaluatedRow]
    BY <1>5, <1>7
  <2> QED
    BY <1>1, <2>1
<1>9. \A i \in 1 .. Len(v) : e[i].reading \in 0 .. Advanced(v)
  BY <1>2, <1>3, <1>4, <1>7
<1>10. ASSUME NEW i \in 1 .. Len(v), e[i].value = CounterRule
       PROVE  count <= e[i].reading /\ e[i].reading < Advanced(v)
  <2>1. R(i) \in Nat /\ R(N) \in Nat /\ R(i) < R(N) /\ e[i].reading = count + R(i)
    BY <1>2, <1>7, <1>10
  <2> QED
    BY <1>4, <2>1
<1>11. ASSUME NEW i \in 1 .. Len(v), NEW j \in 1 .. Len(v), i < j,
              e[i].value = CounterRule, e[j].value = CounterRule
       PROVE  e[i].reading < e[j].reading
  <2>1. v[i].value = CounterRule /\ v[j].value = CounterRule
    BY <1>7, <1>11
  <2>2. R(i) < R(j) /\ R(i) \in Nat /\ R(j) \in Nat
    BY <1>2, <1>6, <1>11, <2>1
  <2>3. e[i].reading = count + R(i) /\ e[j].reading = count + R(j)
    BY <1>7, <2>1
  <2> QED
    BY <2>2, <2>3
<1> QED
  BY <1>3, <1>4, <1>7, <1>8, <1>9, <1>10, <1>11 DEF e

------------------------------------------------------------------------------
(* The walk.                                                                *)

\* the types, and readings no higher than the rule's count
Rows == {r \in Seq(EvaluatedRow) : \A i \in 1 .. Len(r) : r[i].reading <= count}

WalkTypes ==
    /\ honest \in BOOLEAN /\ bulk \in BOOLEAN /\ reps \in 0 .. MaxRepetitions
    /\ pc \in {"idle", "asking", "done", "failed"}
    /\ current \in Oid /\ last \in Oid \union {<<>>}
    /\ results \in Rows /\ answers \subseteq Rows
    /\ changes \in 0 .. MaxChanges
    /\ held \subseteq Oid \X Value /\ stable \subseteq Oid

\* The next request is for the last row, or for the root before there is one.
Position ==
    /\ pc = "idle" => last = <<>>
    /\ pc # "asking" => answers = {}
    /\ pc \in {"idle", "asking"} =>
         /\ last = <<>> => current = Root /\ results = <<>>
         /\ last # <<>> => /\ current = last /\ results # <<>>
                           /\ results[Len(results)].oid = last

\* the OID the k-th row of r was looked up after
Asked(r, from, k) == IF k = 1 THEN from ELSE r[k - 1].oid

\* A row of an answer is an object held since the walk began, and no object
\* that has been there all along is left out before it.
RowOf(m, oid) ==
    /\ m.value = "endOfMibView" => m.oid = oid /\ \A o \in stable : ~Before(oid, o)
    /\ m.value # "endOfMibView" =>
         /\ Before(oid, m.oid) /\ <<m.oid, m.value>> \in held
         /\ \A o \in stable : ~(Before(oid, o) /\ Before(o, m.oid))

IsRule(r, i) == r[i].value = CounterRule

\* readings of the rule in r, in order, between those in s and the rule's own
ReadAfter(s, r) ==
    /\ \A i \in 1 .. Len(r) : IsRule(r, i) => r[i].reading < count
    /\ \A i, j \in 1 .. Len(r) :
         i < j /\ IsRule(r, i) /\ IsRule(r, j) => r[i].reading < r[j].reading
    /\ \A i \in 1 .. Len(s), j \in 1 .. Len(r) :
         IsRule(s, i) /\ IsRule(r, j) => s[i].reading < r[j].reading

AnswerOf(r) ==
    /\ Len(r) = IF bulk THEN reps ELSE 1
    /\ \A i \in 1 .. Len(r) : RowOf(r[i], Asked(r, current, i))

AnswersInv == honest /\ pc = "asking" => \A r \in answers : AnswerOf(r)

ReadingInv ==
    honest => /\ ReadAfter(<<>>, results)
              /\ \A r \in answers : ReadAfter(results, r)

\* While the walk is on, what is stored is held, and what is stable is stored.
HeldInv ==
    honest /\ pc = "asking" =>
        /\ \A o \in Stored : <<o, values[o]>> \in held
        /\ stable \subseteq Stored

\* No stable object up to the current OID is missing.
Found(o) == \E i \in 1 .. Len(results) : results[i].oid = o
SoFar ==
    honest /\ pc = "asking" =>
        \A o \in stable : WithinSubtree(Root, o) /\ o # Root /\ AtMost(o, current) => Found(o)

WalkInv ==
    /\ SourceInv /\ WalkTypes /\ Position /\ RowsIncrease
    /\ AnswersInv /\ ReadingInv /\ HeldInv /\ SoFar
    /\ RowsWereHeld /\ StableObjectsFound

------------------------------------------------------------------------------
(* The varbinds of one response.                                            *)

\* the loop stops at the first varbind it does not accept
LEMMA AcceptedSplits ==
    ASSUME NEW S, NEW r \in Seq(S)
    PROVE  /\ Accepted(r) \in 0 .. Len(r)
           /\ \A i \in 1 .. Accepted(r) : Acceptable(r, i)
           /\ Accepted(r) < Len(r) => ~Acceptable(r, Accepted(r) + 1)
<1> DEFINE T == {k \in Nat : k = Len(r) \/ ~Acceptable(r, k + 1)}
           K == {k \in 0 .. Len(r) : \A i \in 1 .. k : Acceptable(r, i)}
<1>1. Len(r) \in Nat
  OBVIOUS
<1>2. PICK m \in T : \A k \in T : m <= k
  <2>1. T # {} /\ T \in SUBSET Nat
    BY <1>1
  <2> HIDE DEF T
  <2> QED
    BY <2>1, LeastNatural
<1>3. m \in 0 .. Len(r) /\ (m < Len(r) => ~Acceptable(r, m + 1))
  BY <1>1, <1>2
<1>4. ASSUME NEW i \in 1 .. m PROVE Acceptable(r, i)
  <2>1. m \in Nat /\ i - 1 \in Nat /\ ~(m <= i - 1) /\ i - 1 # Len(r)
    BY <1>1, <1>3
  <2>2. i - 1 \notin T
    <3> HIDE DEF T
    <3> QED
      BY <1>2, <2>1
  <2> QED
    BY <2>1, <2>2
<1>5. m \in K /\ \A k \in K : k <= m
  BY <1>1, <1>3, <1>4
<1>6. Max(K) = m
  <2> HIDE DEF K
  <2>1. m \in Int /\ \A k \in K : k \in Int
    BY <1>1, <1>3 DEF K
  <2>2. m \in K /\ \A k \in K : m >= k
    BY <1>5, <2>1
  <2>3. Max(K) \in K /\ \A k \in K : Max(K) >= k
    BY <2>2 DEF Max
  <2>4. m <= Max(K) /\ Max(K) <= m /\ Max(K) \in Int
    BY <2>1, <2>2, <2>3
  <2> QED
    BY <2>1, <2>4
<1> QED
  BY <1>3, <1>4, <1>6 DEF Accepted

\* what lies in a subtree is not before its root
LEMMA NotBeforeRoot ==
    ASSUME NEW o \in Oid, WithinSubtree(Root, o)
    PROVE  AtMost(Root, o) /\ ~Before(o, Root)
<1>1. o \in Arcs /\ Root \in Arcs
  BY OidsAreArcs, WalkAssumption
<1>2. AtMost(Root, o)
  BY DEF WithinSubtree, AtMost, Before
<1> QED
  BY <1>1, <1>2, BeforeIrreflexive, BeforeTransitive DEF AtMost

\* rows each after the one before them are in order altogether
LEMMA ChainIncreases ==
    ASSUME NEW s \in Seq(EvaluatedRow),
           \A i \in 1 .. Len(s) - 1 : Before(s[i].oid, s[i + 1].oid)
    PROVE  \A i, j \in 1 .. Len(s) : i < j => Before(s[i].oid, s[j].oid)
<1> DEFINE T == {n \in Nat : \A i, j \in 1 .. Len(s) :
                               i < j /\ j <= n => Before(s[i].oid, s[j].oid)}
<1>1. Len(s) \in Nat /\ \A i \in 1 .. Len(s) : s[i].oid \in Arcs
  <2>1. Len(s) \in Nat /\ \A i \in 1 .. Len(s) : s[i] \in EvaluatedRow
    OBVIOUS
  <2>2. \A i \in 1 .. Len(s) : s[i].oid \in Oid
    BY <2>1 DEF EvaluatedRow
  <2> QED
    BY <2>1, <2>2, OidsAreArcs
<1>2. 0 \in T
  OBVIOUS
<1>3. ASSUME NEW n \in Nat, n \in T PROVE n + 1 \in T
  <2>1. ASSUME NEW i \in 1 .. Len(s), NEW j \in 1 .. Len(s), i < j, j <= n + 1
        PROVE  Before(s[i].oid, s[j].oid)
    <3>1. CASE j <= n
      BY <1>3, <2>1, <3>1
    <3>2. CASE i = j - 1
      BY <1>1, <2>1, <3>2
    <3>3. CASE i < j - 1 /\ j = n + 1
      <4>1. /\ j - 1 \in 1 .. Len(s) /\ j - 1 <= n /\ (j - 1) + 1 = j
            /\ j - 1 \in 1 .. Len(s) - 1
        BY <1>1, <2>1, <3>3
      <4>2. Before(s[i].oid, s[j - 1].oid)
        BY <1>3, <3>3, <4>1
      <4>3. Before(s[j - 1].oid, s[j].oid)
        BY <4>1
      <4> QED
        BY <1>1, <4>1, <4>2, <4>3, BeforeTransitive
    <3> QED
      BY <2>1, <3>1, <3>2, <3>3
  <2> QED
    BY <2>1
<1> HIDE DEF T
<1>4. Nat \subseteq T
  BY <1>2, <1>3, NaturalsByStep
<1>5. Len(s) \in T
  BY <1>1, <1>4
<1> QED
  BY <1>1, <1>5 DEF T

\* the rows collected once the first k of r are appended
LEMMA AppendedRows ==
    ASSUME NEW s \in Seq(EvaluatedRow), NEW r \in Seq(EvaluatedRow), NEW k \in 0 .. Len(r)
    PROVE  LET t == s \o SubSeq(r, 1, k) IN
           /\ t \in Seq(EvaluatedRow) /\ Len(t) = Len(s) + k
           /\ \A i \in 1 .. Len(s) : t[i] = s[i]
           /\ \A i \in 1 .. k : t[Len(s) + i] = r[i]
<1> DEFINE a == SubSeq(r, 1, k)
<1>1. a \in Seq(EvaluatedRow) /\ Len(a) = k /\ \A i \in 1 .. k : a[i] = r[i]
  BY SubSeqProperties
<1> HIDE DEF a
<1>2. /\ s \o a \in Seq(EvaluatedRow) /\ Len(s \o a) = Len(s) + Len(a)
      /\ \A i \in 1 .. Len(s) + Len(a) :
           (s \o a)[i] = IF i <= Len(s) THEN s[i] ELSE a[i - Len(s)]
  BY <1>1, ConcatProperties
<1>3. Len(s) \in Nat /\ k \in Nat
  OBVIOUS
<1>4. ASSUME NEW i \in 1 .. k PROVE (s \o a)[Len(s) + i] = r[i]
  <2>1. /\ Len(s) + i \in 1 .. Len(s) + Len(a) /\ ~(Len(s) + i <= Len(s))
        /\ (Len(s) + i) - Len(s) = i
    BY <1>1, <1>3
  <2> QED
    BY <1>1, <1>2, <2>1
<1> QED
  BY <1>1, <1>2, <1>3, <1>4 DEF a

------------------------------------------------------------------------------
(* Every step keeps the invariant.                                          *)

LEMMA InitKeeps == Init => WalkInv
<1> SUFFICES ASSUME Init PROVE WalkInv
  OBVIOUS
<1> USE DEF Init
<1>1. SourceInv
  <2>1. (IF honest THEN Oid ELSE {}) \in SUBSET Oid
    OBVIOUS
  <2> QED
    BY <2>1, InitHolds
<1>2. results = <<>> /\ Len(results) = 0 /\ DOMAIN results = {} /\ results \in Rows
  BY DEF Rows
<1>3. WalkTypes
  <2>1. 0 \in 0 .. MaxRepetitions /\ 0 \in 0 .. MaxChanges /\ Root \in Oid
    BY WalkAssumption
  <2> QED
    BY <1>2, <2>1 DEF WalkTypes
<1>4. Position /\ RowsIncrease /\ RowsWereHeld
  BY <1>2 DEF Position, RowsIncrease, RowsWereHeld
<1>5. AnswersInv /\ HeldInv /\ SoFar /\ StableObjectsFound
  BY DEF AnswersInv, HeldInv, SoFar, StableObjectsFound
<1>6. ReadingInv
  BY <1>2 DEF ReadingInv, ReadAfter
<1> QED
  BY <1>1, <1>3, <1>4, <1>5, <1>6 DEF WalkInv

LEMMA StartKeeps ==
    ASSUME WalkInv, NEW b \in BOOLEAN, NEW n \in 0 .. MaxRepetitions, Start(b, n)
    PROVE  WalkInv'
<1> USE DEF Start, sourceVars
<1>1. /\ answers = {} /\ last = <<>> /\ current = Root /\ results = <<>>
  BY DEF WalkInv, Position
<1>2. Holds(sorted, values) /\ count \in Nat
  BY DEF WalkInv, SourceInv
<1>3. SourceInv'
  BY <1>2 DEF SourceInv, Holds, Increasing, Elements
<1>4. Stored \subseteq Oid /\ \A o \in Stored : values[o] \in Value
  <2>1. /\ values \in [Elements(sorted) -> Value] /\ Stored = Elements(sorted)
        /\ sorted \in Seq(Oid)
    BY <1>2 DEF Holds, Stored
  <2> QED
    BY <2>1 DEF Elements
<1>5. WalkTypes'
  <2>1. reps' \in 0 .. MaxRepetitions /\ bulk' \in BOOLEAN
    BY WalkAssumption
  <2>2. held' \subseteq Oid \X Value /\ stable' \subseteq Oid
    BY <1>4
  <2> QED
    BY <1>1, <2>1, <2>2 DEF WalkInv, WalkTypes, Rows
<1>6. Position'
  BY <1>1 DEF Position
<1>7. RowsIncrease' /\ RowsWereHeld'
  BY <1>1 DEF RowsIncrease, RowsWereHeld
<1>8. AnswersInv' /\ ReadingInv'
  BY <1>1 DEF AnswersInv, ReadingInv, ReadAfter
<1>9. HeldInv'
  BY DEF HeldInv, Stored
<1>10. SoFar'
  <2>1. ASSUME NEW o \in stable', WithinSubtree(Root, o), o # Root, AtMost(o, Root)
        PROVE  FALSE
    BY <1>4, <2>1, NotBeforeRoot DEF AtMost
  <2> QED
    BY <1>1, <2>1 DEF SoFar
<1>11. StableObjectsFound'
  BY DEF StableObjectsFound
<1> QED
  BY <1>3, <1>5, <1>6, <1>7, <1>8, <1>9, <1>10, <1>11 DEF WalkInv

\* what a V2cResponder answers to the outstanding request
LEMMA HonestAnswer ==
    ASSUME WalkInv, honest, pc = "asking",
           NEW v, Follows(v, current), Len(v) = IF bulk THEN reps ELSE 1
    PROVE  LET e == Evaluated(v) IN
           /\ Advanced(v) \in Nat /\ count <= Advanced(v)
           /\ e \in Seq(EvaluatedRow) /\ AnswerOf(e)
           /\ \A i \in 1 .. Len(e) : e[i].reading <= Advanced(v)
           /\ \A i \in 1 .. Len(e) : IsRule(e, i) =>
                count <= e[i].reading /\ e[i].reading < Advanced(v)
           /\ \A i, j \in 1 .. Len(e) :
                i < j /\ IsRule(e, i) /\ IsRule(e, j) => e[i].reading < e[j].reading
<1> DEFINE e == Evaluated(v)
<1>1. v \in Seq(Row) /\ count \in Nat
  BY DEF Follows, WalkInv, SourceInv
<1>2. /\ e \in Seq(EvaluatedRow) /\ Len(e) = Len(v)
      /\ \A i \in 1 .. Len(v) : e[i].oid = v[i].oid /\ e[i].value = v[i].value
      /\ Advanced(v) \in Nat /\ count <= Advanced(v)
      /\ \A i \in 1 .. Len(v) : e[i].reading \in 0 .. Advanced(v)
      /\ \A i \in 1 .. Len(v) : e[i].value = CounterRule =>
           count <= e[i].reading /\ e[i].reading < Advanced(v)
      /\ \A i, j \in 1 .. Len(v) :
           i < j /\ e[i].value = CounterRule /\ e[j].value = CounterRule =>
               e[i].reading < e[j].reading
  BY <1>1, EvaluatedReads
<1> HIDE DEF e
<1>3. ASSUME NEW i \in 1 .. Len(e) PROVE RowOf(e[i], Asked(e, current, i))
  <2> DEFINE from == IF i = 1 THEN current ELSE v[i - 1].oid
  <2>1. i \in 1 .. Len(v) /\ Len(v) \in Nat
    BY <1>1, <1>2
  <2>2. IsNext(v[i], from)
    BY <2>1 DEF Follows
  <2>3. Asked(e, current, i) = from
    <3>1. i # 1 => i - 1 \in 1 .. Len(v)
      BY <2>1
    <3> QED
      BY <1>2, <3>1 DEF Asked
  <2>4. e[i].oid = v[i].oid /\ e[i].value = v[i].value
    BY <1>2, <2>1
  <2>5. (\A o \in Stored : <<o, values[o]>> \in held) /\ stable \subseteq Stored
    BY DEF WalkInv, HeldInv
  <2> HIDE DEF from
  <2> QED
    BY <2>2, <2>3, <2>4, <2>5 DEF IsNext, RowOf
<1>4. \A i \in 1 .. Len(e) : e[i].reading <= Advanced(v)
  <2>1. \A i \in 1 .. Len(e) : e[i].reading \in 0 .. Advanced(v)
    BY <1>2
  <2> QED
    BY <1>2, <2>1
<1> QED
  BY <1>2, <1>3, <1>4 DEF AnswerOf, IsRule, e

LEMMA RespondHonestKeeps ==
    ASSUME WalkInv, RespondHonest
    PROVE  WalkInv'
<1> DEFINE v == ResponsePdu(IF bulk THEN "GET_BULK" ELSE "GET_NEXT",
                            <<current>>, 0, reps).varbinds
<1>a. PICK e : e = Evaluated(v)
  OBVIOUS
<1>1. /\ honest /\ pc = "asking"
      /\ answers' = answers \union {e} /\ count' = Advanced(v)
      /\ UNCHANGED <<values, sorted, args, pc, current, last, results, changes, held, stable>>
  BY <1>a DEF RespondHonest
<1>2. /\ Holds(sorted, values) /\ count \in Nat /\ current \in Oid /\ reps \in Nat
      /\ bulk \in BOOLEAN
  <2>1. reps \in 0 .. MaxRepetitions
    BY DEF WalkInv, WalkTypes
  <2> QED
    BY <2>1 DEF WalkInv, SourceInv, WalkTypes
<1>3. Follows(v, current) /\ Len(v) = IF bulk THEN reps ELSE 1
  BY <1>2, GetNextFollows, GetBulkFollows
<1> HIDE DEF v
<1>4. /\ Advanced(v) \in Nat /\ count <= Advanced(v)
      /\ e \in Seq(EvaluatedRow) /\ AnswerOf(e)
      /\ \A i \in 1 .. Len(e) : e[i].reading <= Advanced(v)
      /\ \A i \in 1 .. Len(e) : IsRule(e, i) =>
           count <= e[i].reading /\ e[i].reading < Advanced(v)
      /\ \A i, j \in 1 .. Len(e) :
           i < j /\ IsRule(e, i) /\ IsRule(e, j) => e[i].reading < e[j].reading
  BY <1>a, <1>1, <1>3, HonestAnswer
<1>5. UNCHANGED <<values, sorted, honest, bulk, reps, pc, current, last, results, changes, held, stable>>
  BY <1>1 DEF args
<1>6. \A r \in Rows : r \in Rows'
  <2>1. ASSUME NEW r \in Rows, NEW i \in 1 .. Len(r) PROVE r[i].reading <= count'
    <3>1. r[i] \in EvaluatedRow /\ r[i].reading <= count
      BY <2>1 DEF Rows
    <3>2. r[i].reading \in Nat
      BY <3>1 DEF EvaluatedRow
    <3> QED
      BY <1>1, <1>2, <1>4, <3>1, <3>2
  <2> QED
    BY <2>1 DEF Rows
<1>7. e \in Rows'
  BY <1>1, <1>4 DEF Rows
<1>8. SourceInv'
  BY <1>1, <1>2, <1>4, <1>5 DEF SourceInv, Holds, Increasing, Elements
<1>9. WalkTypes'
  BY <1>1, <1>5, <1>6, <1>7 DEF WalkInv, WalkTypes
<1>10. Position' /\ RowsIncrease' /\ RowsWereHeld' /\ SoFar' /\ HeldInv' /\ StableObjectsFound'
  <2>1. Position' /\ HeldInv'
    BY <1>1, <1>5 DEF WalkInv, Position, HeldInv, Stored
  <2>2. RowsIncrease' /\ RowsWereHeld'
    BY <1>5 DEF WalkInv, RowsIncrease, RowsWereHeld
  <2>3. SoFar' /\ StableObjectsFound'
    BY <1>1, <1>5 DEF WalkInv, SoFar, Found, StableObjectsFound
  <2> QED
    BY <2>1, <2>2, <2>3
<1>11. AnswersInv'
  <2>1. \A r \in answers' : AnswerOf(r)
    BY <1>1, <1>4 DEF WalkInv, AnswersInv
  <2> QED
    BY <1>5, <2>1 DEF AnswersInv, AnswerOf, RowOf
<1>12. ReadingInv'
  <2>1. ReadAfter(<<>>, results) /\ \A r \in answers : ReadAfter(results, r)
    BY <1>1 DEF WalkInv, ReadingInv
  <2>2. results \in Rows /\ answers \subseteq Rows
    BY DEF WalkInv, WalkTypes
  <2>3. ASSUME NEW s, NEW r \in Rows, ReadAfter(s, r) PROVE ReadAfter(s, r)'
    <3>1. ASSUME NEW i \in 1 .. Len(r), IsRule(r, i) PROVE r[i].reading < count'
      <4>1. r[i] \in EvaluatedRow /\ r[i].reading < count
        BY <2>3, <3>1 DEF Rows, ReadAfter
      <4>2. r[i].reading \in Nat
        BY <4>1 DEF EvaluatedRow
      <4> QED
        BY <1>1, <1>2, <1>4, <4>1, <4>2
    <3> QED
      BY <2>3, <3>1 DEF ReadAfter, IsRule
  <2>4. ReadAfter(results, e)'
    <3>1. ASSUME NEW i \in 1 .. Len(results), NEW j \in 1 .. Len(e), IsRule(results, i), IsRule(e, j)
          PROVE  results[i].reading < e[j].reading
      <4>1. results[i].reading < count /\ count <= e[j].reading
        BY <1>4, <2>1, <3>1 DEF ReadAfter
      <4>2. results[i] \in EvaluatedRow /\ e[j] \in EvaluatedRow
        BY <1>4, <2>2, <3>1 DEF Rows
      <4>3. results[i].reading \in Nat /\ e[j].reading \in Nat
        BY <4>2 DEF EvaluatedRow
      <4> QED
        BY <1>2, <4>1, <4>3
    <3> QED
      BY <1>1, <1>4, <1>5, <3>1 DEF ReadAfter, IsRule
  <2>5. ReadAfter(<<>>, results)'
    BY <1>5, <2>1, <2>2, <2>3
  <2>6. \A r \in answers : ReadAfter(results, r)'
    BY <1>5, <2>1, <2>2, <2>3
  <2> QED
    BY <1>1, <1>5, <2>4, <2>5, <2>6 DEF ReadingInv
<1> QED
  BY <1>8, <1>9, <1>10, <1>11, <1>12 DEF WalkInv

LEMMA RespondAnyKeeps ==
    ASSUME WalkInv, RespondAny
    PROVE  WalkInv'
<1>1. /\ ~honest /\ pc = "asking"
      /\ UNCHANGED <<values, sorted, count, honest, bulk, reps, pc, current, last, results,
                     changes, held, stable>>
  BY DEF RespondAny, sourceVars, args
<1>2. answers' \subseteq Rows
  <2>1. PICK n \in 0 .. MaxVarbinds : \E r \in [1 .. n -> Varbind] : answers' = {r}
    BY DEF RespondAny
  <2>2. PICK r \in [1 .. n -> Varbind] : answers' = {r}
    BY <2>1
  <2>3. n \in Nat
    BY <2>1
  <2>4. \A i \in 1 .. n : r[i] \in EvaluatedRow /\ r[i].reading = 0
    BY <2>2 DEF Varbind, EvaluatedRow
  <2>5. r \in Seq(EvaluatedRow) /\ Len(r) = n
    BY <2>2, <2>3, <2>4
  <2>6. count \in Nat
    BY DEF WalkInv, SourceInv
  <2> QED
    BY <2>2, <2>4, <2>5, <2>6 DEF Rows
<1>3. SourceInv'
  BY <1>1 DEF WalkInv, SourceInv, Holds, Increasing, Elements
<1>4. WalkTypes'
  BY <1>1, <1>2 DEF WalkInv, WalkTypes, Rows
<1>5. Position' /\ RowsIncrease'
  BY <1>1 DEF WalkInv, Position, RowsIncrease
<1>6. AnswersInv' /\ ReadingInv' /\ HeldInv' /\ SoFar' /\ RowsWereHeld' /\ StableObjectsFound'
  BY <1>1 DEF AnswersInv, ReadingInv, HeldInv, SoFar, RowsWereHeld, StableObjectsFound
<1> QED
  BY <1>3, <1>4, <1>5, <1>6 DEF WalkInv

LEMMA FailKeeps ==
    ASSUME WalkInv, Fail
    PROVE  WalkInv'
<1>1. /\ pc' = "failed" /\ results' = <<>> /\ answers' = {}
      /\ UNCHANGED <<values, sorted, count, honest, bulk, reps, current, last, changes, held, stable>>
  BY DEF Fail, sourceVars, args
<1>2. SourceInv'
  BY <1>1 DEF WalkInv, SourceInv, Holds, Increasing, Elements
<1>3. WalkTypes'
  BY <1>1 DEF WalkInv, WalkTypes, Rows
<1>4. Position' /\ RowsIncrease' /\ RowsWereHeld'
  BY <1>1 DEF Position, RowsIncrease, RowsWereHeld
<1>5. AnswersInv' /\ ReadingInv' /\ HeldInv' /\ SoFar' /\ StableObjectsFound'
  BY <1>1 DEF AnswersInv, ReadingInv, ReadAfter, HeldInv, SoFar, StableObjectsFound
<1> QED
  BY <1>2, <1>3, <1>4, <1>5 DEF WalkInv

LEMMA StutterKeeps ==
    ASSUME WalkInv, UNCHANGED vars
    PROVE  WalkInv'
<1>1. UNCHANGED <<values, sorted, count, honest, bulk, reps, pc, current, last, results, answers,
                  changes, held, stable>>
  BY DEF vars, sourceVars, args, walkVars
<1>2. SourceInv' /\ WalkTypes' /\ Position' /\ RowsIncrease'
  BY <1>1 DEF WalkInv, SourceInv, Holds, Increasing, Elements, WalkTypes, Rows, Position,
              RowsIncrease
<1>3. AnswersInv' /\ ReadingInv'
  BY <1>1 DEF WalkInv, AnswersInv, AnswerOf, RowOf, ReadingInv, ReadAfter
<1>4. HeldInv' /\ SoFar' /\ RowsWereHeld' /\ StableObjectsFound'
  BY <1>1 DEF WalkInv, HeldInv, Stored, SoFar, Found, RowsWereHeld, StableObjectsFound
<1> QED
  BY <1>2, <1>3, <1>4 DEF WalkInv

LEMMA ChangeKeeps ==
    ASSUME WalkInv, Change
    PROVE  WalkInv'
<1>1. UNCHANGED <<count, honest, bulk, reps, pc, current, last, results, answers>>
  BY DEF Change, SetObjects, DeleteObject, Clear, args, walkVars
<1>2. Holds(sorted', values')
  <2>1. Holds(sorted, values)
    BY DEF WalkInv, SourceInv
  <2>2. ASSUME NEW items \in Batches, SetObjects(items) PROVE Holds(sorted', values')
    BY <2>1, <2>2, SetObjectsHolds, WalkAssumption
  <2>3. ASSUME NEW o \in Oid, DeleteObject(o) PROVE Holds(sorted', values')
    BY <2>1, <2>3, DeleteHolds
  <2>4. ASSUME Clear PROVE Holds(sorted', values')
    BY <2>4, ClearHolds
  <2> QED
    BY <2>2, <2>3, <2>4 DEF Change
<1>3. Stored' \subseteq Oid /\ \A o \in Stored' : values'[o] \in Value
  <2>1. /\ values' \in [Elements(sorted') -> Value] /\ Stored' = Elements(sorted')
        /\ sorted' \in Seq(Oid)
    BY <1>2 DEF Holds, Stored
  <2> QED
    BY <2>1 DEF Elements
<1>4. /\ held \subseteq held' /\ stable' \subseteq stable
      /\ pc # "asking" => held' = held /\ stable' = stable
      /\ pc = "asking" => /\ held' = held \union {<<o, values'[o]>> : o \in Stored'}
                          /\ stable' = stable \intersect Stored'
  BY DEF Change, Stored
<1>5. SourceInv'
  <2>1. Holds(sorted, values)'
    BY <1>2 DEF Holds, Increasing, Elements
  <2> QED
    BY <1>1, <2>1 DEF WalkInv, SourceInv
<1>6. WalkTypes'
  <2>1. held' \subseteq Oid \X Value /\ stable' \subseteq Oid
    BY <1>3, <1>4 DEF WalkInv, WalkTypes
  <2>2. changes' \in 0 .. MaxChanges
    BY WalkAssumption DEF WalkInv, WalkTypes, Change
  <2> QED
    BY <1>1, <2>1, <2>2 DEF WalkInv, WalkTypes, Rows
<1>7. Position' /\ RowsIncrease' /\ ReadingInv'
  BY <1>1 DEF WalkInv, Position, RowsIncrease, ReadingInv, ReadAfter
<1>8. AnswersInv'
  <2>1. ASSUME NEW m, NEW oid, RowOf(m, oid) PROVE RowOf(m, oid)'
    BY <1>4, <2>1 DEF RowOf
  <2>2. ASSUME NEW r, AnswerOf(r), pc = "asking" PROVE AnswerOf(r)'
    BY <1>1, <2>1, <2>2 DEF AnswerOf
  <2> QED
    BY <1>1, <2>2 DEF WalkInv, AnswersInv
<1>9. HeldInv'
  BY <1>1, <1>4 DEF HeldInv, Stored
<1>10. SoFar' /\ RowsWereHeld' /\ StableObjectsFound'
  BY <1>1, <1>4 DEF WalkInv, SoFar, Found, RowsWereHeld, StableObjectsFound
<1> QED
  BY <1>5, <1>6, <1>7, <1>8, <1>9, <1>10 DEF WalkInv

\* r is an answer the walk has just accepted the first k rows of
Takes(r, k) ==
    /\ r \in answers /\ k = Accepted(r)
    /\ results' = results \o SubSeq(r, 1, k)
    /\ last' = IF k = 0 THEN last ELSE r[k].oid
    /\ current' = IF k = 0 THEN current ELSE r[k].oid
    /\ pc' = IF Len(r) = 0 \/ k < Len(r) THEN "done" ELSE "asking"

\* what the other lemmas use of it
Taken(r, k) ==
    /\ r \in Seq(EvaluatedRow) /\ k \in 0 .. Len(r)
    /\ \A i \in 1 .. k : Acceptable(r, i)
    /\ k < Len(r) => ~Acceptable(r, k + 1)
    /\ results \in Seq(EvaluatedRow)
    /\ results' \in Seq(EvaluatedRow) /\ Len(results') = Len(results) + k
    /\ \A i \in 1 .. Len(results) : results'[i] = results[i]
    /\ \A i \in 1 .. k : results'[Len(results) + i] = r[i]

LEMMA TakesRows ==
    ASSUME WalkInv, NEW r, NEW k, Takes(r, k)
    PROVE  Taken(r, k)
<1>1. r \in Seq(EvaluatedRow) /\ results \in Seq(EvaluatedRow)
  BY DEF WalkInv, WalkTypes, Rows, Takes
<1>2. k \in 0 .. Len(r) /\ (\A i \in 1 .. k : Acceptable(r, i))
      /\ (k < Len(r) => ~Acceptable(r, k + 1))
  BY <1>1, AcceptedSplits DEF Takes
<1>3. PICK t : t = results \o SubSeq(r, 1, k)
  OBVIOUS
<1>4. /\ t \in Seq(EvaluatedRow) /\ Len(t) = Len(results) + k
      /\ \A i \in 1 .. Len(results) : t[i] = results[i]
      /\ \A i \in 1 .. k : t[Len(results) + i] = r[i]
  BY <1>1, <1>2, <1>3, AppendedRows
<1>5. results' = t
  BY <1>3 DEF Takes
<1> QED
  BY <1>1, <1>2, <1>4, <1>5 DEF Taken

\* an index into the rows collected so far is that of an old row or of a row of r
LEMMA TakenIndex ==
    ASSUME NEW r, NEW k, Taken(r, k), NEW i \in 1 .. Len(results')
    PROVE  \/ i \in 1 .. Len(results) /\ results'[i] = results[i]
           \/ i - Len(results) \in 1 .. k /\ results'[i] = r[i - Len(results)]
<1>1. Len(results) \in Nat /\ k \in Nat /\ Len(results') = Len(results) + k
  BY DEF Taken
<1>2. CASE i <= Len(results)
  BY <1>1, <1>2 DEF Taken
<1>3. CASE ~(i <= Len(results))
  <2>1. i - Len(results) \in 1 .. k /\ Len(results) + (i - Len(results)) = i
    BY <1>1, <1>3
  <2> QED
    BY <2>1 DEF Taken
<1> QED
  BY <1>2, <1>3

LEMMA TakesInOrder ==
    ASSUME WalkInv, pc = "asking", NEW r, NEW k, Takes(r, k), Taken(r, k)
    PROVE  RowsIncrease'
<1>1. /\ Len(results) \in Nat /\ k \in Nat /\ Len(results') = Len(results) + k
      /\ DOMAIN results = 1 .. Len(results) /\ DOMAIN results' = 1 .. Len(results')
      /\ results' \in Seq(EvaluatedRow)
  BY DEF Taken
<1>2. ASSUME NEW i \in 1 .. Len(results')
      PROVE  WithinSubtree(Root, results'[i].oid) /\ results'[i].value # "endOfMibView"
  <2>1. \A j \in 1 .. k : WithinSubtree(Root, r[j].oid) /\ r[j].value # "endOfMibView"
    BY DEF Taken, Acceptable
  <2>2. \A j \in 1 .. Len(results) :
          WithinSubtree(Root, results[j].oid) /\ results[j].value # "endOfMibView"
    BY <1>1 DEF WalkInv, RowsIncrease
  <2> QED
    BY <2>1, <2>2, TakenIndex
<1>3. ASSUME NEW i \in 1 .. Len(results') - 1
      PROVE  Before(results'[i].oid, results'[i + 1].oid)
  <2>1. CASE i < Len(results)
    <3>1. /\ i \in 1 .. Len(results) /\ i + 1 \in 1 .. Len(results) /\ i < i + 1
      BY <1>1, <2>1
    <3>2. results'[i] = results[i] /\ results'[i + 1] = results[i + 1]
      BY <3>1 DEF Taken
    <3> QED
      BY <1>1, <3>1, <3>2 DEF WalkInv, RowsIncrease
  <2>2. CASE i = Len(results)
    <3>1. /\ i \in 1 .. Len(results) /\ 1 \in 1 .. k
      BY <1>1, <2>2
    <3>2. results'[i] = results[Len(results)] /\ results'[i + 1] = r[1]
      BY <2>2, <3>1 DEF Taken
    <3>3. last # <<>> /\ results[Len(results)].oid = last
      BY <2>2, <3>1 DEF WalkInv, Position
    <3>4. Before(last, r[1].oid)
      BY <3>1, <3>3 DEF Taken, Acceptable
    <3> QED
      BY <3>2, <3>3, <3>4
  <2>3. CASE i > Len(results)
    <3> DEFINE j == i - Len(results)
    <3>1. /\ j \in 1 .. k /\ j + 1 \in 1 .. k /\ j + 1 # 1 /\ (j + 1) - 1 = j
          /\ Len(results) + j = i /\ Len(results) + (j + 1) = i + 1
      BY <1>1, <2>3
    <3>2. results'[i] = r[j] /\ results'[i + 1] = r[j + 1]
      BY <3>1 DEF Taken
    <3> HIDE DEF j
    <3>3. Acceptable(r, j + 1)
      BY <3>1 DEF Taken
    <3>4. r[j].oid # <<>>
      <4>1. j \in 1 .. Len(r)
        BY <3>1 DEF Taken
      <4>2. r[j] \in EvaluatedRow
        BY <4>1 DEF Taken
      <4>3. r[j].oid \in Oid
        BY <4>2 DEF EvaluatedRow
      <4> QED
        BY <4>3, OidsAreArcs
    <3> QED
      BY <3>1, <3>2, <3>3, <3>4 DEF Acceptable
  <2>4. i \in Int /\ Len(results) \in Int
    BY <1>1
  <2>5. i < Len(results) \/ i = Len(results) \/ i > Len(results)
    BY <2>4
  <2> QED
    BY <2>1, <2>2, <2>3, <2>5
<1>4. \A i, j \in 1 .. Len(results') : i < j => Before(results'[i].oid, results'[j].oid)
  BY <1>1, <1>3, ChainIncreases
<1> QED
  BY <1>1, <1>2, <1>4 DEF RowsIncrease

LEMMA TakesPosition ==
    ASSUME WalkInv, pc = "asking", NEW r, NEW k, Takes(r, k), Taken(r, k), answers' = {}
    PROVE  Position' /\ current' \in Oid /\ last' \in Oid \union {<<>>}
<1>1. k # 0 => k \in 1 .. Len(r) /\ k \in 1 .. k /\ Len(results') = Len(results) + k
      /\ Len(results) \in Nat /\ k \in Nat
  BY DEF Taken
<1>2. k # 0 => r[k].oid \in Oid /\ r[k].oid # <<>>
  <2>1. k # 0 => r[k] \in EvaluatedRow
    BY <1>1 DEF Taken
  <2> QED
    BY <2>1, OidsAreArcs DEF EvaluatedRow
<1>3. k # 0 => results'[Len(results')] = r[k] /\ results' # <<>>
  <2>1. k # 0 => results'[Len(results')] = r[k] /\ Len(results') # 0
    BY <1>1 DEF Taken
  <2> QED
    BY <2>1
<1>4. pc' \in {"done", "asking"} /\ (k = 0 => pc' = "done")
  BY DEF Takes, Taken
<1>5. current' \in Oid /\ last' \in Oid \union {<<>>}
  BY <1>2 DEF Takes, WalkInv, WalkTypes
<1>6. Position'
  <2>1. pc' = "asking" => /\ k # 0 /\ last' = r[k].oid /\ current' = r[k].oid
    BY <1>4 DEF Takes
  <2> QED
    BY <1>2, <1>3, <1>4, <2>1 DEF Position
<1> QED
  BY <1>5, <1>6

\* No stable object is left out up to the place the k-th row has reached.
LEMMA TakesFinds ==
    ASSUME WalkInv, pc = "asking", honest, NEW r, NEW k, Takes(r, k), Taken(r, k),
           NEW o \in stable, WithinSubtree(Root, o), o # Root,
           AtMost(o, IF k = 0 THEN current ELSE r[k].oid)
    PROVE  \E i \in 1 .. Len(results') : results'[i].oid = o
<1>1. AnswerOf(r) /\ o \in Arcs /\ current \in Arcs
  BY OidsAreArcs DEF WalkInv, AnswersInv, Takes, WalkTypes
<1>2. /\ Len(results) \in Nat /\ k \in Nat /\ Len(r) \in Nat /\ k <= Len(r)
      /\ Len(results') = Len(results) + k
  BY DEF Taken
<1>3. CASE AtMost(o, current)
  <2>1. PICK i \in 1 .. Len(results) : results[i].oid = o
    BY <1>3 DEF WalkInv, SoFar, Found
  <2>2. i \in 1 .. Len(results') /\ results'[i] = results[i]
    BY <1>2 DEF Taken
  <2> QED
    BY <2>1, <2>2
<1>4. CASE ~AtMost(o, current)
  <2> DEFINE T == {i \in Nat : i \in 1 .. k /\ AtMost(o, r[i].oid)}
  <2>1. PICK i \in T : \A j \in T : i <= j
    <3>1. k # 0
      BY <1>4
    <3>2. k \in T
      BY <1>2, <3>1
    <3>3. T # {} /\ T \in SUBSET Nat
      BY <3>2
    <3> HIDE DEF T
    <3> QED
      BY <3>3, LeastNatural
  <2>2. i \in 1 .. k /\ i \in 1 .. Len(r) /\ AtMost(o, r[i].oid)
    BY <1>2, <2>1
  <2>3. ~AtMost(o, Asked(r, current, i))
    <3>1. CASE i = 1
      BY <1>4, <3>1 DEF Asked
    <3>2. CASE i # 1
      <4>1. i - 1 \in Nat /\ i - 1 \in 1 .. k /\ ~(i <= i - 1)
        BY <1>2, <2>2, <3>2
      <4>2. i - 1 \notin T
        <5> HIDE DEF T
        <5> QED
          BY <2>1, <4>1
      <4> QED
        BY <3>2, <4>1, <4>2 DEF Asked
    <3> QED
      BY <3>1, <3>2
  <2>4. Asked(r, current, i) \in Arcs
    <3>1. CASE i = 1
      BY <1>1, <3>1 DEF Asked
    <3>2. CASE i # 1
      <4>1. i - 1 \in 1 .. Len(r)
        BY <1>2, <2>2, <3>2
      <4>2. r[i - 1] \in EvaluatedRow
        BY <4>1 DEF Taken
      <4> QED
        BY <3>2, <4>2, OidsAreArcs DEF Asked, EvaluatedRow
    <3> QED
      BY <3>1, <3>2
  <2>5. Before(Asked(r, current, i), o)
    BY <1>1, <2>3, <2>4, BeforeTotal DEF AtMost
  <2>6. RowOf(r[i], Asked(r, current, i)) /\ r[i].value # "endOfMibView"
    BY <1>1, <2>2 DEF AnswerOf, Taken, Acceptable
  <2>7. r[i].oid = o
    BY <2>2, <2>5, <2>6 DEF RowOf, AtMost
  <2>8. Len(results) + i \in 1 .. Len(results') /\ results'[Len(results) + i] = r[i]
    BY <1>2, <2>2 DEF Taken
  <2> QED
    BY <2>7, <2>8
<1> QED
  BY <1>3, <1>4

\* When the loop stops at a row of r, no stable object of the subtree lies
\* beyond the place it has reached.
LEMMA TakesToTheEnd ==
    ASSUME WalkInv, pc = "asking", honest, NEW r, NEW k, Takes(r, k), Taken(r, k), k < Len(r),
           NEW o \in stable, WithinSubtree(Root, o), o # Root
    PROVE  AtMost(o, IF k = 0 THEN current ELSE r[k].oid)
<1> DEFINE here == IF k = 0 THEN current ELSE r[k].oid
           m == r[k + 1]
<1>1. k \in Nat /\ k + 1 \in 1 .. Len(r) /\ (k # 0 => k \in 1 .. Len(r))
  BY DEF Taken
<1>2. m \in EvaluatedRow /\ (k # 0 => r[k] \in EvaluatedRow)
  BY <1>1 DEF Taken
<1>3. m.oid \in Oid /\ here \in Oid /\ o \in Oid /\ Root \in Oid
  BY <1>2, WalkAssumption DEF EvaluatedRow, WalkInv, WalkTypes
<1>4. RowOf(m, here)
  <2>1. Asked(r, current, k + 1) = here
    BY <1>1 DEF Asked
  <2> QED
    BY <1>1, <2>1 DEF WalkInv, AnswersInv, Takes, AnswerOf
<1>5. ~Acceptable(r, k + 1)
  BY DEF Taken
<1>6. WithinSubtree(Root, here) \/ here = Root
  <2>1. CASE k = 0
    <3>1. last = <<>> => current = Root
      BY DEF WalkInv, Position
    <3>2. last # <<>> => WithinSubtree(Root, current)
      <4>1. /\ last # <<>> => current = last /\ results # <<>> /\ results[Len(results)].oid = last
            /\ results \in Seq(EvaluatedRow)
        BY DEF WalkInv, Position, Taken
      <4>2. results # <<>> => Len(results) \in DOMAIN results
        BY <4>1
      <4> QED
        BY <4>1, <4>2 DEF WalkInv, RowsIncrease
    <3> QED
      BY <2>1, <3>1, <3>2
  <2>2. CASE k # 0
    <3>1. k \in 1 .. k
      BY <1>1, <2>2
    <3> QED
      BY <2>2, <3>1 DEF Taken, Acceptable
  <2> QED
    BY <2>1, <2>2
<1>7. AtMost(Root, here)
  BY <1>3, <1>6, NotBeforeRoot DEF AtMost
<1>8. /\ Acceptable(r, k + 1) <=>
            /\ m.value # "endOfMibView" /\ WithinSubtree(Root, m.oid)
            /\ LET before == IF k = 0 THEN last ELSE here
               IN  before # <<>> => Before(before, m.oid)
      /\ k = 0 /\ last # <<>> => here = last
  BY <1>1 DEF Acceptable, WalkInv, Position
<1> HIDE DEF here, m
<1>9. SUFFICES ASSUME ~AtMost(o, here) PROVE FALSE
  BY DEF here
<1>10. Before(here, o)
  BY <1>3, <1>9, BeforeTotal, OidsAreArcs DEF AtMost
<1>11. m.value # "endOfMibView" /\ Before(here, m.oid) /\ ~Before(o, m.oid)
  BY <1>4, <1>10 DEF RowOf
<1>12. ~WithinSubtree(Root, m.oid)
  BY <1>5, <1>8, <1>11
<1>13. Before(m.oid, o)
  BY <1>3, <1>11, <1>12, BeforeTotal, OidsAreArcs
<1>14. AtMost(Root, m.oid)
  BY <1>3, <1>7, <1>11, BeforeTransitive, OidsAreArcs DEF AtMost
<1> QED
  BY <1>3, <1>12, <1>13, <1>14, SubtreeConvex, OidsAreArcs

LEMMA ReceiveKeeps ==
    ASSUME WalkInv, Receive
    PROVE  WalkInv'
<1>1. /\ pc = "asking" /\ answers' = {}
      /\ UNCHANGED <<values, sorted, count, honest, bulk, reps, changes, held, stable>>
  BY DEF Receive, sourceVars, args
<1>2. PICK r : Takes(r, Accepted(r))
  BY DEF Receive, Takes
<1>3. PICK k : k = Accepted(r)
  OBVIOUS
<1>4. Takes(r, k) /\ Taken(r, k)
  BY <1>2, <1>3, TakesRows
<1>5. SourceInv'
  BY <1>1 DEF WalkInv, SourceInv, Holds, Increasing, Elements
<1>6. Position' /\ current' \in Oid /\ last' \in Oid \union {<<>>}
  BY <1>1, <1>4, TakesPosition
<1>7. RowsIncrease'
  BY <1>1, <1>4, TakesInOrder
<1>8. r \in Rows /\ results \in Rows
  BY <1>4 DEF WalkInv, WalkTypes, Takes
<1>9. k \in Nat /\ \A i \in 1 .. k : i \in 1 .. Len(r)
  BY <1>4 DEF Taken
<1>10. WalkTypes'
  <2>1. \A i \in 1 .. Len(results') : results'[i].reading <= count
    BY <1>4, <1>8, <1>9, TakenIndex DEF Rows
  <2>2. results' \in Rows'
    BY <1>1, <1>4, <2>1 DEF Rows, Taken
  <2>3. pc' \in {"idle", "asking", "done", "failed"}
    BY <1>4 DEF Takes
  <2> QED
    BY <1>1, <1>6, <2>2, <2>3 DEF WalkInv, WalkTypes
<1>11. AnswersInv'
  BY <1>1 DEF AnswersInv
<1>12. ReadingInv'
  <2>1. SUFFICES ASSUME honest PROVE ReadAfter(<<>>, results)'
    BY <1>1 DEF ReadingInv
  <2>2. ReadAfter(<<>>, results) /\ ReadAfter(results, r)
    BY <1>4, <2>1 DEF WalkInv, ReadingInv, Takes
  <2>3. ASSUME NEW i \in 1 .. Len(results'), results'[i].value = CounterRule
        PROVE  results'[i].reading < count
    BY <1>4, <1>9, <2>2, <2>3, TakenIndex DEF ReadAfter, IsRule
  <2>4. ASSUME NEW i \in 1 .. Len(results'), NEW j \in 1 .. Len(results'), i < j,
               results'[i].value = CounterRule, results'[j].value = CounterRule
        PROVE  results'[i].reading < results'[j].reading
    <3>1. Len(results) \in Nat
      BY <1>4 DEF Taken
    <3>2. \/ i \in 1 .. Len(results) /\ results'[i] = results[i]
          \/ i - Len(results) \in 1 .. k /\ results'[i] = r[i - Len(results)]
      BY <1>4, TakenIndex
    <3>3. \/ j \in 1 .. Len(results) /\ results'[j] = results[j]
          \/ j - Len(results) \in 1 .. k /\ results'[j] = r[j - Len(results)]
      BY <1>4, TakenIndex
    <3>4. CASE j \in 1 .. Len(results) /\ results'[j] = results[j]
      <4>1. i \in 1 .. Len(results) /\ results'[i] = results[i]
        BY <1>9, <2>4, <3>1, <3>2, <3>4
      <4> QED
        BY <2>2, <2>4, <3>4, <4>1 DEF ReadAfter, IsRule
    <3>5. CASE j - Len(results) \in 1 .. k /\ results'[j] = r[j - Len(results)]
      <4>1. CASE i \in 1 .. Len(results) /\ results'[i] = results[i]
        BY <1>9, <2>2, <2>4, <3>5, <4>1 DEF ReadAfter, IsRule
      <4>2. CASE i - Len(results) \in 1 .. k /\ results'[i] = r[i - Len(results)]
        <5>1. i - Len(results) < j - Len(results)
          BY <2>4, <3>1
        <5> QED
          BY <1>9, <2>2, <2>4, <3>5, <4>2, <5>1 DEF ReadAfter, IsRule
      <4> QED
        BY <3>2, <4>1, <4>2
    <3> QED
      BY <3>3, <3>4, <3>5
  <2> QED
    BY <1>1, <2>3, <2>4 DEF ReadAfter, IsRule
<1>13. HeldInv'
  BY <1>1 DEF WalkInv, HeldInv, Stored
<1>14. SoFar'
  <2>1. ASSUME honest, pc' = "asking", NEW o \in stable, WithinSubtree(Root, o), o # Root,
               AtMost(o, current')
        PROVE  \E i \in 1 .. Len(results') : results'[i].oid = o
    <3>1. current' = IF k = 0 THEN current ELSE r[k].oid
      BY <1>4 DEF Takes
    <3> QED
      BY <1>1, <1>4, <2>1, <3>1, TakesFinds
  <2> QED
    BY <1>1, <2>1 DEF SoFar, Found
<1>15. RowsWereHeld'
  <2>1. SUFFICES ASSUME honest PROVE \A i \in 1 .. Len(results') :
                                       <<results'[i].oid, results'[i].value>> \in held
    <3>1. DOMAIN results' = 1 .. Len(results')
      BY <1>4 DEF Taken
    <3> QED
      BY <1>1, <3>1 DEF RowsWereHeld
  <2>2. \A i \in 1 .. Len(results) : <<results[i].oid, results[i].value>> \in held
    BY <1>4, <2>1 DEF WalkInv, RowsWereHeld, Taken
  <2>3. AnswerOf(r)
    BY <1>1, <1>4, <2>1 DEF WalkInv, AnswersInv, Takes
  <2>4. \A i \in 1 .. k : <<r[i].oid, r[i].value>> \in held
    BY <1>4, <1>9, <2>3 DEF AnswerOf, RowOf, Taken, Acceptable
  <2> QED
    BY <1>4, <2>2, <2>4, TakenIndex
<1>16. StableObjectsFound'
  <2>1. ASSUME pc' = "done", honest, bulk => reps > 0, NEW o \in stable,
               WithinSubtree(Root, o), o # Root
        PROVE  \E i \in 1 .. Len(results') : results'[i].oid = o
    <3>1. AnswerOf(r)
      BY <1>1, <1>4, <2>1 DEF WalkInv, AnswersInv, Takes
    <3>2. Len(r) # 0
      BY <2>1, <3>1 DEF AnswerOf
    <3>3. k < Len(r)
      BY <1>4, <2>1, <3>2 DEF Takes
    <3>4. AtMost(o, IF k = 0 THEN current ELSE r[k].oid)
      BY <1>1, <1>4, <2>1, <3>3, TakesToTheEnd
    <3> QED
      BY <1>1, <1>4, <2>1, <3>4, TakesFinds
  <2>2. DOMAIN results' = 1 .. Len(results')
    BY <1>4 DEF Taken
  <2> QED
    BY <1>1, <2>1, <2>2 DEF StableObjectsFound
<1> QED
  BY <1>5, <1>6, <1>7, <1>10, <1>11, <1>12, <1>13, <1>14, <1>15, <1>16 DEF WalkInv

------------------------------------------------------------------------------
\* The invariant holds in every state of a walk, whatever the agent does.
THEOREM WalkInvariant == Spec => []WalkInv
<1>1. Init => WalkInv
  BY InitKeeps
<1>2. WalkInv /\ [Next]_vars => WalkInv'
  <2> SUFFICES ASSUME WalkInv, [Next]_vars PROVE WalkInv'
    OBVIOUS
  <2>1. ASSUME NEW b \in BOOLEAN, NEW n \in 0 .. MaxRepetitions, Start(b, n) PROVE WalkInv'
    BY <2>1, StartKeeps
  <2>2. CASE RespondHonest
    BY <2>2, RespondHonestKeeps
  <2>3. CASE RespondAny
    BY <2>3, RespondAnyKeeps
  <2>4. CASE Receive
    BY <2>4, ReceiveKeeps
  <2>5. CASE Fail
    BY <2>5, FailKeeps
  <2>6. CASE Change
    BY <2>6, ChangeKeeps
  <2>7. CASE Over \/ UNCHANGED vars
    BY <2>7, StutterKeeps DEF Over
  <2> QED
    BY <2>1, <2>2, <2>3, <2>4, <2>5, <2>6, <2>7 DEF Next
<1> QED
  BY <1>1, <1>2, PTL DEF Spec

\* The values the variables of the walk, the responder and its source take.
THEOREM WalkTypesHold == Spec => []TypeOK
<1>1. WalkInv => TypeOK
  <2> SUFFICES ASSUME WalkInv PROVE TypeOK
    OBVIOUS
  <2>1. Stored \subseteq Oid /\ (\A o \in Stored : values[o] \in Value) /\ count \in Nat
    <3>1. /\ values \in [Elements(sorted) -> Value] /\ Stored = Elements(sorted)
          /\ sorted \in Seq(Oid) /\ count \in Nat
      BY DEF WalkInv, SourceInv, Holds, Stored
    <3> QED
      BY <3>1 DEF Elements
  <2>2. ASSUME NEW r \in Rows, NEW i \in DOMAIN r
        PROVE  /\ r[i].oid \in Oid /\ r[i].value \in Value \union {"endOfMibView"}
               /\ r[i].reading \in 0 .. count
    <3>1. i \in 1 .. Len(r) /\ r[i] \in EvaluatedRow /\ r[i].reading <= count
      BY <2>2 DEF Rows
    <3>2. r[i].oid \in Oid /\ r[i].value \in Value \union {"endOfMibView"} /\ r[i].reading \in Nat
      BY <3>1 DEF EvaluatedRow
    <3> QED
      BY <2>1, <3>1, <3>2
  <2>3. WalkTypes
    BY DEF WalkInv
  <2> QED
    BY <2>1, <2>2, <2>3 DEF WalkTypes, TypeOK
<1> QED
  BY <1>1, WalkInvariant, PTL

\* The sorted list stays the keys of the dict, in order, whatever batches the
\* owner sets and however early one of them fails.
THEOREM SourceStays == Spec => []SourceConsistent
<1>1. WalkInv => SourceConsistent
  <2> SUFFICES ASSUME WalkInv PROVE SourceConsistent
    OBVIOUS
  <2>1. /\ sorted \in Seq(Oid) /\ Increasing(sorted) /\ Stored = Elements(sorted)
    BY DEF WalkInv, SourceInv, Holds, Stored
  <2>2. \A o \in Oid : o \in Stored <=> \E i \in 1 .. Len(sorted) : sorted[i] = o
    BY <2>1 DEF Elements
  <2>3. ASSUME NEW i \in 1 .. Len(sorted) - 1 PROVE Before(sorted[i], sorted[i + 1])
    <3>1. i \in 1 .. Len(sorted) /\ i + 1 \in 1 .. Len(sorted) /\ i < i + 1
      BY <2>1
    <3> QED
      BY <2>1, <3>1 DEF Increasing
  <2> QED
    BY <2>2, <2>3 DEF SourceConsistent
<1> QED
  BY <1>1, WalkInvariant, PTL

\* The rows of a walk lie in its subtree and increase, whatever any device
\* answers.
THEOREM WalkIsInOrder == Spec => []RowsIncrease
<1>1. WalkInv => RowsIncrease
  BY DEF WalkInv
<1> QED
  BY <1>1, WalkInvariant, PTL

\* A finished walk of a V2cResponder has missed no object that was there all
\* along.
THEOREM WalkIsComplete == Spec => []StableObjectsFound
<1>1. WalkInv => StableObjectsFound
  BY DEF WalkInv
<1> QED
  BY <1>1, WalkInvariant, PTL

\* No row is made up: each was held, with its value, during the walk.
THEOREM WalkIsTrue == Spec => []RowsWereHeld
<1>1. WalkInv => RowsWereHeld
  BY DEF WalkInv
<1> QED
  BY <1>1, WalkInvariant, PTL

\* The counter a CounterRule keeps is seen to increase along a walk.
THEOREM CounterIncreases == Spec => []ReadingsIncrease
<1>1. WalkInv => ReadingsIncrease
  <2> SUFFICES ASSUME WalkInv PROVE ReadingsIncrease
    OBVIOUS
  <2>1. results \in Seq(EvaluatedRow)
    BY DEF WalkInv, WalkTypes, Rows
  <2>2. DOMAIN results = 1 .. Len(results)
    BY <2>1
  <2> QED
    BY <2>2 DEF WalkInv, ReadingInv, ReadAfter, IsRule, ReadingsIncrease
<1> QED
  BY <1>1, WalkInvariant, PTL

\* At any time, a GETBULK of any OIDs with any counts, in range or not, is
\* answered with the rows of successors of the objects held at that time
\* (responder/server.py: _build_bulk_varbinds).
THEOREM BulkAtAnyTime ==
    Spec => [](\A oids \in Seq(Oid), n, m \in Int : BulkRowsAreSuccessors(oids, n, m))
<1>1. WalkInv => \A oids \in Seq(Oid), n, m \in Int : BulkRowsAreSuccessors(oids, n, m)
  BY BulkFindsSuccessors DEF WalkInv, SourceInv
<1> QED
  BY <1>1, WalkInvariant, PTL

\* A GETBULK for any pair of targets agrees with the objects held, and a GET
\* of what GETNEXT found returns the same varbind.
THEOREM BulkIsWhole == Spec => []BulkCoversTable
<1>1. WalkInv => BulkCoversTable
  <2> SUFFICES ASSUME WalkInv, NEW s \in Oid, NEW t \in Oid
               PROVE  /\ \A n \in -1 .. 3, m \in -1 .. 2 : BulkRowsAreSuccessors(<<s, t>>, n, m)
                      /\ LET found == ResponsePdu("GET_NEXT", <<s, t>>, 0, 0).varbinds
                             again == ResponsePdu("GET", [i \in 1 .. 2 |-> found[i].oid], 0, 0).varbinds
                         IN  \A i \in 1 .. 2 :
                                 found[i].value # "endOfMibView" => again[i] = found[i]
    BY DEF BulkCoversTable
  <2> DEFINE oids  == <<s, t>>
             found == ResponsePdu("GET_NEXT", oids, 0, 0).varbinds
             next  == [i \in 1 .. 2 |-> found[i].oid]
             again == ResponsePdu("GET", next, 0, 0).varbinds
  <2>1. Holds(sorted, values) /\ oids \in Seq(Oid) /\ DOMAIN oids = 1 .. 2
    BY DEF WalkInv, SourceInv
  <2>2. \A n \in -1 .. 3, m \in -1 .. 2 : BulkRowsAreSuccessors(oids, n, m)
    <3> HIDE DEF oids
    <3> QED
      BY <2>1, BulkFindsSuccessors
  <2>3. found = [i \in 1 .. 2 |-> NextVarbind(oids[i])]
    BY <2>1 DEF ResponsePdu, Response
  <2>4. again = [i \in 1 .. 2 |-> ExactVarbind(next[i])]
    BY DEF ResponsePdu, Response
  <2> HIDE DEF oids, found, again
  <2>5. ASSUME NEW i \in 1 .. 2, found[i].value # "endOfMibView" PROVE again[i] = found[i]
    <3>1. found[i] = NextVarbind(oids[i]) /\ again[i] = ExactVarbind(found[i].oid)
      BY <2>3, <2>4
    <3> QED
      BY <2>1, <2>5, <3>1, GetAgreesWithGetNext
  <2> QED
    BY <2>2, <2>5 DEF oids, found, again
<1> QED
  BY <1>1, WalkInvariant, PTL
=============================================================================
