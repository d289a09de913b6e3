---------------------------- MODULE RegistryProofs ----------------------------
(* Loading, translation and labels for any directories of any files, any    *)
(* sidecars, and any OIDs asked for.                                        *)
EXTENDS Registry, SequenceLemmas

------------------------------------------------------------------------------
(* The operators of Bundle.                                                 *)

LEMMA FirstErrorIs ==
    ASSUME NEW E, NoError \in E, NEW errors \in Seq(E)
    PROVE  /\ FirstError(errors) \in E
           /\ FirstError(errors) = NoError => \A i \in DOMAIN errors : errors[i] = NoError
<1> DEFINE I == {i \in 1 .. Len(errors) : errors[i] # NoError}
           k == SelectInSeq(errors, LAMBDA e : e # NoError)
<1>1. k = IF I # {} THEN Min(I) ELSE 0
  BY DEF SelectInSeq
<1>2. DOMAIN errors = 1 .. Len(errors) /\ Len(errors) \in Nat
  OBVIOUS
<1>3. FirstError(errors) = IF k = 0 THEN NoError ELSE errors[k]
  BY DEF FirstError
<1>4. CASE I = {}
  BY <1>1, <1>2, <1>3, <1>4
<1>5. CASE I # {}
  <2>1. I \in SUBSET Nat
    BY <1>2
  <2> HIDE DEF I
  <2>2. Min(I) \in I
    BY <1>5, <2>1, LeastOne
  <2> USE DEF I
  <2>3. k \in 1 .. Len(errors) /\ errors[k] # NoError /\ k # 0
    BY <1>1, <1>2, <1>5, <2>2
  <2> HIDE DEF k, I
  <2> QED
    BY <1>3, <2>3
<1> QED
  BY <1>4, <1>5

LEMMA NoRepeats ==
    ASSUME NEW S, NEW entries \in Seq(S)
    PROVE  /\ WithoutRepeats(entries) \in Seq(S)
           /\ ToSet(WithoutRepeats(entries)) = ToSet(entries)
<1> DEFINE N == Len(entries)
           seen[n \in 0 .. N] == IF n = 0 THEN <<>> ELSE AddNew(seen[n - 1], entries[n])
<1>1. WithoutRepeats(entries) = seen[N]
  BY DEF WithoutRepeats
<1>2. /\ N \in Nat /\ DOMAIN entries = 1 .. N
      /\ \A n \in 1 .. N : entries[n] \in S
  OBVIOUS
<1>3. \A s \in Seq(S), e \in S : /\ AddNew(s, e) \in Seq(S)
                                 /\ ToSet(AddNew(s, e)) = ToSet(s) \union {e}
  <2>1. TAKE s \in Seq(S), e \in S
  <2>2. DOMAIN s = 1 .. Len(s) /\ Len(s) \in Nat
    OBVIOUS
  <2>3. CASE Contains(s, e)
    BY <2>2, <2>3 DEF AddNew, Contains, ToSet
  <2>4. CASE ~Contains(s, e)
    <3>1. /\ Append(s, e) \in Seq(S) /\ DOMAIN Append(s, e) = 1 .. Len(s) + 1
          /\ Append(s, e)[Len(s) + 1] = e
          /\ \A i \in 1 .. Len(s) : Append(s, e)[i] = s[i]
      BY AppendProperties
    <3>2. \A i \in 1 .. Len(s) + 1 : i = Len(s) + 1 \/ i \in 1 .. Len(s)
      BY <2>2
    <3>3. Len(s) + 1 \in 1 .. Len(s) + 1 /\ \A i \in 1 .. Len(s) : i \in 1 .. Len(s) + 1
      BY <2>2
    <3>4. ToSet(Append(s, e)) = ToSet(s) \union {e}
      BY <2>2, <3>1, <3>2, <3>3 DEF ToSet
    <3> QED
      BY <2>4, <3>1, <3>4 DEF AddNew
  <2> QED
    BY <2>3, <2>4
<1> HIDE DEF N
<1>4. seen = [n \in 0 .. N |-> IF n = 0 THEN <<>> ELSE AddNew(seen[n - 1], entries[n])]
  <2> DEFINE F == [n \in 1 .. N |-> [s \in Seq(S) |-> AddNew(s, entries[n])]]
  <2>1. F \in [1 .. N -> [Seq(S) -> Seq(S)]]
    BY <1>2, <1>3
  <2>2. \A n \in 1 .. N : \A s \in Seq(S) : F[n][s] = AddNew(s, entries[n])
    OBVIOUS
  <2> HIDE DEF F
  <2>3. PICK f \in [0 .. N -> Seq(S)] : Iterates(F, <<>>, N, f)
    <3>1. <<>> \in Seq(S)
      OBVIOUS
    <3> QED
      BY <1>2, <2>1, <3>1, IterationExists
  <2>4. f[0] = <<>> /\ \A n \in 1 .. N : f[n] = AddNew(f[n - 1], entries[n])
    <3>1. f[0] = <<>> /\ \A n \in 1 .. N : f[n] = F[n][f[n - 1]] /\ f[n - 1] \in Seq(S)
      BY <1>2, <2>3 DEF Iterates
    <3> QED
      BY <2>2, <3>1
  <2>5. f = [n \in 0 .. N |-> IF n = 0 THEN <<>> ELSE AddNew(f[n - 1], entries[n])]
    BY <1>2, <2>4
  <2> QED
    BY <2>5
<1> HIDE DEF seen
<1> DEFINE Upto(n) == {entries[i] : i \in 1 .. n}
           T == {n \in Nat : n <= N => seen[n] \in Seq(S) /\ ToSet(seen[n]) = Upto(n)}
<1>5. 0 \in T
  <2>1. seen[0] = <<>> /\ Upto(0) = {}
    BY <1>2, <1>4
  <2>2. <<>> \in Seq(S) /\ ToSet(<<>>) = {}
    BY DEF ToSet
  <2> HIDE DEF Upto
  <2> QED
    BY <2>1, <2>2
<1>6. ASSUME NEW n \in Nat, n \in T PROVE n + 1 \in T
  <2>1. SUFFICES ASSUME n + 1 <= N
                 PROVE  seen[n + 1] \in Seq(S) /\ ToSet(seen[n + 1]) = Upto(n + 1)
    OBVIOUS
  <2>2. /\ n + 1 \in 1 .. N /\ (n + 1) - 1 = n
        /\ 1 .. n + 1 = (1 .. n) \union {n + 1}
        /\ seen[n] \in Seq(S) /\ ToSet(seen[n]) = Upto(n)
    BY <1>2, <1>6, <2>1
  <2>3. seen[n + 1] = AddNew(seen[n], entries[n + 1])
    BY <1>2, <1>4, <2>2
  <2>4. entries[n + 1] \in S
    BY <1>2, <2>2
  <2>5. Upto(n + 1) = Upto(n) \union {entries[n + 1]}
    BY <2>2
  <2> HIDE DEF Upto
  <2>6. /\ AddNew(seen[n], entries[n + 1]) \in Seq(S)
        /\ ToSet(AddNew(seen[n], entries[n + 1])) = ToSet(seen[n]) \union {entries[n + 1]}
    BY <1>3, <2>2, <2>4
  <2> QED
    BY <2>2, <2>3, <2>5, <2>6
<1>7. N \in T
  <2> HIDE DEF T
  <2> QED
    BY <1>2, <1>5, <1>6, NaturalsByStep
<1>8. ToSet(entries) = Upto(N)
  BY <1>2 DEF ToSet
<1> QED
  BY <1>1, <1>2, <1>7, <1>8

\* a finite set of naturals can be listed in order
LEMMA FilesSorted ==
    ASSUME NEW files \in SUBSET Nat, IsFiniteSet(files)
    PROVE  /\ SortedFiles(files) \in [1 .. Cardinality(files) -> files]
           /\ Lists(SortedFiles(files), files)
           /\ Cardinality(files) \in Nat
<1> DEFINE Listed(D) == \E s \in [1 .. Cardinality(D) -> D] : Lists(s, D)
           T == {n \in Nat : \A D \in SUBSET Nat :
                    IsFiniteSet(D) /\ Cardinality(D) = n => Listed(D)}
<1>1. 0 \in T
  <2>1. SUFFICES ASSUME NEW D \in SUBSET Nat, IsFiniteSet(D), Cardinality(D) = 0
                 PROVE  Listed(D)
    OBVIOUS
  <2>2. D = {}
    BY <2>1, FS_EmptySet
  <2>3. 1 .. 0 = {} /\ <<>> \in [1 .. 0 -> D] /\ DOMAIN <<>> = {}
    OBVIOUS
  <2>4. Lists(<<>>, D)
    BY <2>2, <2>3 DEF Lists, ToSet
  <2> QED
    BY <2>1, <2>3, <2>4
<1>2. ASSUME NEW n \in Nat, n \in T PROVE n + 1 \in T
  <2>1. SUFFICES ASSUME NEW D \in SUBSET Nat, IsFiniteSet(D), Cardinality(D) = n + 1
                 PROVE  Listed(D)
    OBVIOUS
  <2>2. D # {}
    BY <2>1, FS_EmptySet
  <2>3. PICK m \in D : \A k \in D : m <= k
    BY <2>2, LeastNatural
  <2> DEFINE R == D \ {m}
  <2>4. R \in SUBSET Nat /\ IsFiniteSet(R) /\ Cardinality(R) = n
    <3>1. IsFiniteSet(D \ {m}) /\ Cardinality(D \ {m}) = Cardinality(D) - 1
      BY <2>1, FS_RemoveElement
    <3>2. (n + 1) - 1 = n
      OBVIOUS
    <3> QED
      BY <2>1, <3>1, <3>2
  <2>5. PICK r \in [1 .. n -> R] : Lists(r, R)
    BY <1>2, <2>4
  <2> DEFINE s == [i \in 1 .. n + 1 |-> IF i = 1 THEN m ELSE r[i - 1]]
  <2>6. \A i \in 2 .. n + 1 : i - 1 \in 1 .. n /\ s[i] = r[i - 1] /\ r[i - 1] \in R
    OBVIOUS
  <2>7. s[1] = m /\ \A i \in 1 .. n + 1 : i = 1 \/ i \in 2 .. n + 1
    OBVIOUS
  <2>8. \A x \in R : \E i \in 1 .. n : x = r[i]
    BY <2>5 DEF Lists, ToSet
  <2>9. DOMAIN s = 1 .. n + 1 /\ s \in [1 .. n + 1 -> D]
    BY <2>6, <2>7
  <2> HIDE DEF s
  <2>10. ToSet(s) = D
    <3>1. ASSUME NEW x \in D PROVE \E i \in 1 .. n + 1 : x = s[i]
      <4>1. CASE x = m
        <5>1. 1 \in 1 .. n + 1
          OBVIOUS
        <5> QED
          BY <2>7, <4>1, <5>1
      <4>2. CASE x # m
        <5>1. PICK i \in 1 .. n : x = r[i]
          BY <2>8, <4>2
        <5>2. i + 1 \in 2 .. n + 1 /\ i + 1 \in 1 .. n + 1 /\ (i + 1) - 1 = i
          OBVIOUS
        <5> QED
          BY <2>6, <5>1, <5>2
      <4> QED
        BY <4>1, <4>2
    <3> QED
      BY <2>9, <3>1 DEF ToSet
  <2>11. ASSUME NEW i \in 1 .. n + 1, NEW j \in 1 .. n + 1, i < j PROVE s[i] < s[j]
    <3>1. j \in 2 .. n + 1 /\ j - 1 \in 1 .. n /\ s[j] = r[j - 1] /\ r[j - 1] \in R
      <4>1. j \in 2 .. n + 1
        BY <2>11
      <4> QED
        BY <2>6, <4>1
    <3>2. CASE i = 1
      <4>1. s[j] \in D /\ s[j] # m /\ m \in Nat /\ s[j] \in Nat
        BY <3>1
      <4>2. m <= s[j]
        BY <2>3, <4>1
      <4> QED
        BY <2>7, <3>2, <4>1, <4>2
    <3>3. CASE i # 1
      <4>1. i \in 2 .. n + 1 /\ i - 1 \in 1 .. n /\ s[i] = r[i - 1] /\ i - 1 < j - 1
        BY <2>6, <2>7, <2>11, <3>3
      <4> QED
        BY <2>5, <3>1, <4>1 DEF Lists
    <3> QED
      BY <3>2, <3>3
  <2>12. Lists(s, D)
    BY <2>9, <2>10, <2>11 DEF Lists
  <2> QED
    BY <2>1, <2>9, <2>12
<1>3. Cardinality(files) \in Nat
  BY FS_CardinalityType
<1>4. Cardinality(files) \in T
  <2> HIDE DEF T
  <2> QED
    BY <1>1, <1>2, <1>3, NaturalsByStep
<1>5. Listed(files)
  BY <1>4
<1> QED
  BY <1>3, <1>5 DEF SortedFiles

OneEach(dict) == \A i, j \in DOMAIN dict : dict[i].module = dict[j].module => i = j
Names(dict)   == {dict[i].module : i \in DOMAIN dict}

LEMMA PutKeeps ==
    ASSUME NEW S, NEW dict \in Seq(S), NEW m \in S, OneEach(dict)
    PROVE  /\ Put(dict, m) \in Seq(S) /\ OneEach(Put(dict, m))
           /\ ToSet(Put(dict, m)) \subseteq ToSet(dict) \union {m}
           /\ Names(Put(dict, m)) = Names(dict) \union {m.module}
<1> DEFINE I == {i \in 1 .. Len(dict) : dict[i].module = m.module}
           k == SelectInSeq(dict, LAMBDA d : d.module = m.module)
           n == Len(dict)
<1>1. k = IF I # {} THEN Min(I) ELSE 0
  BY DEF SelectInSeq
<1>2. Put(dict, m) = IF k = 0 THEN Append(dict, m) ELSE [dict EXCEPT ![k] = m]
  BY DEF Put, ReplaceAt
<1>3. n \in Nat /\ DOMAIN dict = 1 .. n /\ \A i \in 1 .. n : dict[i] \in S
  OBVIOUS
<1>4. CASE I = {}
  <2> DEFINE new == Append(dict, m)
  <2>1. /\ new \in Seq(S) /\ DOMAIN new = 1 .. n + 1 /\ new[n + 1] = m
        /\ \A i \in 1 .. n : new[i] = dict[i]
    BY AppendProperties
  <2>2. /\ \A i \in 1 .. n + 1 : i = n + 1 \/ i \in 1 .. n
        /\ n + 1 \in 1 .. n + 1 /\ \A i \in 1 .. n : i \in 1 .. n + 1
    BY <1>3
  <2>3. \A i \in 1 .. n : dict[i].module # m.module
    BY <1>4
  <2>4. Put(dict, m) = new
    BY <1>1, <1>2, <1>4
  <2> HIDE DEF new, n, k, I
  <2>5. OneEach(new)
    BY <1>3, <2>1, <2>2, <2>3 DEF OneEach
  <2>6. ToSet(new) \subseteq ToSet(dict) \union {m}
    BY <1>3, <2>1, <2>2 DEF ToSet
  <2>7. Names(new) = Names(dict) \union {m.module}
    BY <1>3, <2>1, <2>2 DEF Names
  <2> QED
    BY <2>1, <2>4, <2>5, <2>6, <2>7
<1>5. CASE I # {}
  <2> DEFINE new == [dict EXCEPT ![k] = m]
  <2>1. I \in SUBSET Nat
    BY <1>3
  <2>2. k \in I
    <3> HIDE DEF k, I
    <3> QED
      BY <1>1, <1>5, <2>1, LeastOne
  <2>3. k \in 1 .. n /\ dict[k].module = m.module /\ k # 0
    BY <1>3, <2>2
  <2>4. Put(dict, m) = new
    BY <1>2, <2>3
  <2> HIDE DEF k, I
  <2>5. /\ new \in Seq(S) /\ DOMAIN new = 1 .. n
        /\ \A i \in 1 .. n : new[i] = IF i = k THEN m ELSE dict[i]
    BY <1>3, <2>3
  <2>6. \A i \in 1 .. n : new[i].module = dict[i].module
    BY <2>3, <2>5
  <2> HIDE DEF new, n
  <2>7. OneEach(new)
    BY <1>3, <2>5, <2>6 DEF OneEach
  <2>8. ToSet(new) \subseteq ToSet(dict) \union {m}
    BY <1>3, <2>5 DEF ToSet
  <2>9. Names(new) = Names(dict) \union {m.module}
    BY <1>3, <2>3, <2>5, <2>6 DEF Names
  <2> QED
    BY <2>4, <2>5, <2>7, <2>8, <2>9
<1> QED
  BY <1>4, <1>5

\* one record for each name, and none that was not there
LEMMA ByNameKeeps ==
    ASSUME NEW S, NEW records \in Seq(S)
    PROVE  /\ ByName(records) \in Seq(S) /\ OneEach(ByName(records))
           /\ ToSet(ByName(records)) \subseteq ToSet(records)
           /\ Names(ByName(records)) = Names(records)
<1> DEFINE N == Len(records)
           dict[n \in 0 .. N] == IF n = 0 THEN <<>> ELSE Put(dict[n - 1], records[n])
           S1 == {d \in Seq(S) : OneEach(d)}
<1>1. ByName(records) = dict[N]
  BY DEF ByName
<1>2. N \in Nat /\ DOMAIN records = 1 .. N /\ \A n \in 1 .. N : records[n] \in S
  OBVIOUS
<1>3. \A d \in S1, m \in S : /\ Put(d, m) \in S1
                             /\ ToSet(Put(d, m)) \subseteq ToSet(d) \union {m}
                             /\ Names(Put(d, m)) = Names(d) \union {m.module}
  BY PutKeeps
<1>4. <<>> \in S1 /\ ToSet(<<>>) = {} /\ Names(<<>>) = {}
  BY DEF OneEach, Names, ToSet
<1>5. \A d \in S1 : d \in Seq(S) /\ OneEach(d)
  OBVIOUS
<1> HIDE DEF N, S1
<1>6. dict = [n \in 0 .. N |-> IF n = 0 THEN <<>> ELSE Put(dict[n - 1], records[n])]
  <2> DEFINE F == [n \in 1 .. N |-> [d \in S1 |-> Put(d, records[n])]]
  <2>1. F \in [1 .. N -> [S1 -> S1]]
    BY <1>2, <1>3
  <2>2. \A n \in 1 .. N : \A d \in S1 : F[n][d] = Put(d, records[n])
    OBVIOUS
  <2> HIDE DEF F
  <2>3. PICK f \in [0 .. N -> S1] : Iterates(F, <<>>, N, f)
    BY <1>2, <1>4, <2>1, IterationExists
  <2>4. f[0] = <<>> /\ \A n \in 1 .. N : f[n] = Put(f[n - 1], records[n])
    <3>1. f[0] = <<>> /\ \A n \in 1 .. N : f[n] = F[n][f[n - 1]] /\ f[n - 1] \in S1
      BY <1>2, <2>3 DEF Iterates
    <3> QED
      BY <2>2, <3>1
  <2>5. f = [n \in 0 .. N |-> IF n = 0 THEN <<>> ELSE Put(f[n - 1], records[n])]
    BY <1>2, <2>4
  <2> QED
    BY <2>5
<1> HIDE DEF dict
<1> DEFINE Upto(n) == {records[i] : i \in 1 .. n}
           NamesUpto(n) == {records[i].module : i \in 1 .. n}
           Good(n) == /\ dict[n] \in S1 /\ ToSet(dict[n]) \subseteq Upto(n)
                      /\ Names(dict[n]) = NamesUpto(n)
           T == {n \in Nat : n <= N => Good(n)}
<1>7. 0 \in T
  <2>1. dict[0] = <<>> /\ NamesUpto(0) = {}
    BY <1>2, <1>6
  <2> HIDE DEF NamesUpto, Upto
  <2> QED
    BY <1>4, <2>1
<1>8. ASSUME NEW n \in Nat, n \in T PROVE n + 1 \in T
  <2>1. SUFFICES ASSUME n + 1 <= N PROVE Good(n + 1)
    OBVIOUS
  <2>2. /\ n + 1 \in 1 .. N /\ (n + 1) - 1 = n
        /\ 1 .. n + 1 = (1 .. n) \union {n + 1} /\ Good(n)
    BY <1>2, <1>8, <2>1
  <2>3. dict[n + 1] = Put(dict[n], records[n + 1])
    BY <1>2, <1>6, <2>2
  <2>4. records[n + 1] \in S
    BY <1>2, <2>2
  <2>5. /\ Upto(n + 1) = Upto(n) \union {records[n + 1]}
        /\ NamesUpto(n + 1) = NamesUpto(n) \union {records[n + 1].module}
    BY <2>2
  <2> HIDE DEF Upto, NamesUpto
  <2>6. /\ Put(dict[n], records[n + 1]) \in S1
        /\ ToSet(Put(dict[n], records[n + 1])) \subseteq ToSet(dict[n]) \union {records[n + 1]}
        /\ Names(Put(dict[n], records[n + 1])) = Names(dict[n]) \union {records[n + 1].module}
    BY <1>3, <2>2, <2>4
  <2> QED
    BY <2>2, <2>3, <2>5, <2>6
<1>9. N \in T
  <2> HIDE DEF T
  <2> QED
    BY <1>2, <1>7, <1>8, NaturalsByStep
<1>10. ToSet(records) = Upto(N) /\ Names(records) = NamesUpto(N)
  BY <1>2 DEF ToSet, Names
<1> QED
  BY <1>1, <1>2, <1>5, <1>9, <1>10

------------------------------------------------------------------------------
(* What passes the loader.                                                  *)

Errors == {NoError, Validation, InvalidOid, ReadError}

IsFile(json) == json \in {Malformed, Unreadable} \/ FileAssumption(json)

LEMMA NodeErrorIs ==
    ASSUME NEW raw
    PROVE  NodeError(raw) \in Errors /\ (NodeError(raw) = NoError => OidError(raw) = NoError)
<1>1. OidError(raw) \in Errors /\ FieldsError(raw) \in Errors
  BY DEF OidError, ParseError, FieldsError, Errors
<1>2. NoError \in Errors
  BY DEF Errors
<1> HIDE DEF Errors
<1> DEFINE errors == <<OidError(raw), FieldsError(raw)>>
<1>3. errors \in Seq(Errors) /\ 1 \in DOMAIN errors /\ errors[1] = OidError(raw)
  BY <1>1
<1> HIDE DEF errors
<1>4. /\ FirstError(errors) \in Errors
      /\ FirstError(errors) = NoError => errors[1] = NoError
  BY <1>2, <1>3, FirstErrorIs
<1> QED
  BY <1>3, <1>4 DEF NodeError, errors

LEMMA ModuleErrorIs ==
    ASSUME NEW json, IsFile(json)
    PROVE  /\ ModuleError(json) \in Errors
           /\ ModuleError(json) = NoError =>
                /\ json \notin {Malformed, Unreadable} /\ JsonAssumption(json)
                /\ json.module # Missing /\ json.imports # Malformed
                /\ \A r \in ToSet(RawNodes(json)) : OidError(r) = NoError
<1>0. /\ {Validation, ReadError, NoError} \subseteq Errors
      /\ Validation # NoError /\ ReadError # NoError
  BY DEF Errors, Validation, ReadError, NoError
<1>1. CASE json \in {Malformed, Unreadable} \/ Missing \in {json.module, json.generated_by}
  BY <1>0, <1>1 DEF ModuleError
<1>2. CASE ~(json \in {Malformed, Unreadable} \/ Missing \in {json.module, json.generated_by})
  <2> DEFINE e1 == <<ImportsError(json)>>
             e2 == SectionErrors(json.objects)
             e3 == SectionErrors(json.notifications)
             e4 == <<TypesError(json), ProducerError(json)>>
  <2>1. ModuleError(json) = FirstError(e1 \o e2 \o e3 \o e4)
    BY <1>2 DEF ModuleError
  <2>2. \A section \in {json.objects, json.notifications} :
           section = Malformed \/ section \in Seq(ToSet(section))
    BY <1>2 DEF IsFile, FileAssumption, IsArray
  <2>3. e1 \in Seq(Errors) /\ ImportsError(json) \in ToSet(e1)
    <3>1. ImportsError(json) \in Errors
      BY DEF ImportsError, Errors
    <3> QED
      BY <3>1 DEF ToSet
  <2>4. e2 \in Seq(Errors) /\ e3 \in Seq(Errors)
    BY <1>0, <2>2, NodeErrorIs DEF SectionErrors
  <2>5. e4 \in Seq(Errors)
    <3>1. TypesError(json) \in Errors /\ ProducerError(json) \in Errors
      BY DEF TypesError, ProducerError, Errors
    <3> QED
      BY <3>1
  <2>6. /\ IF json.objects = Malformed
           THEN Validation \in ToSet(e2)
           ELSE \A i \in DOMAIN json.objects : NodeError(json.objects[i]) \in ToSet(e2)
        /\ IF json.notifications = Malformed
           THEN Validation \in ToSet(e3)
           ELSE \A i \in DOMAIN json.notifications : NodeError(json.notifications[i]) \in ToSet(e3)
    BY DEF SectionErrors, ToSet
  <2> DEFINE e12    == e1 \o e2
             e123   == e12 \o e3
             errors == e123 \o e4
  <2>8. ModuleError(json) = FirstError(errors)
    BY <2>1
  <2> HIDE DEF e1, e2, e3, e4, Errors
  <2>9. e12 \in Seq(Errors) /\ ToSet(e12) = ToSet(e1) \union ToSet(e2)
    BY <2>3, <2>4, ConcatElements
  <2> HIDE DEF e12
  <2>10. e123 \in Seq(Errors) /\ ToSet(e123) = ToSet(e12) \union ToSet(e3)
    BY <2>4, <2>9, ConcatElements
  <2> HIDE DEF e123
  <2>11. errors \in Seq(Errors) /\ ToSet(errors) = ToSet(e123) \union ToSet(e4)
    BY <2>5, <2>10, ConcatElements
  <2> HIDE DEF errors
  <2>12. /\ ModuleError(json) \in Errors
         /\ ModuleError(json) = NoError => \A i \in DOMAIN errors : errors[i] = NoError
    BY <1>0, <2>8, <2>11, FirstErrorIs
  <2>13. ASSUME ModuleError(json) = NoError
         PROVE  /\ json.imports # Malformed /\ JsonAssumption(json)
                /\ \A r \in ToSet(RawNodes(json)) : OidError(r) = NoError
    <3>1. \A e \in ToSet(errors) : e = NoError
      BY <2>12, <2>13 DEF ToSet
    <3>2. \A e \in ToSet(e1) \union ToSet(e2) \union ToSet(e3) : e = NoError
      BY <2>9, <2>10, <2>11, <3>1
    <3>3. json.imports # Malformed
      BY <1>0, <2>3, <3>2 DEF ImportsError
    <3>7. Malformed \notin {json.objects, json.notifications}
      BY <1>0, <2>6, <3>2
    <3>8. JsonAssumption(json)
      BY <1>2, <3>7 DEF IsFile, FileAssumption
    <3>4. ToSet(RawNodes(json)) = ToSet(json.objects) \union ToSet(json.notifications)
      <4> DEFINE S == ToSet(json.objects) \union ToSet(json.notifications)
      <4>1. json.objects \in Seq(S) /\ json.notifications \in Seq(S)
        BY <2>2, <3>7
      <4> HIDE DEF S
      <4>2. ToSet(json.objects \o json.notifications)
              = ToSet(json.objects) \union ToSet(json.notifications)
        BY <4>1, ConcatElements
      <4> QED
        BY <4>2 DEF RawNodes
    <3>5. ASSUME NEW r \in ToSet(json.objects) PROVE OidError(r) = NoError
      <4>1. PICK i \in DOMAIN json.objects : r = json.objects[i]
        BY DEF ToSet
      <4>2. NodeError(r) = NoError
        BY <2>6, <3>2, <3>7, <4>1
      <4> QED
        BY <4>2, NodeErrorIs
    <3>6. ASSUME NEW r \in ToSet(json.notifications) PROVE OidError(r) = NoError
      <4>1. PICK i \in DOMAIN json.notifications : r = json.notifications[i]
        BY DEF ToSet
      <4>2. NodeError(r) = NoError
        BY <2>6, <3>2, <3>7, <4>1
      <4> QED
        BY <4>2, NodeErrorIs
    <3> QED
      BY <3>3, <3>4, <3>5, <3>6, <3>8
  <2> QED
    BY <1>2, <2>12, <2>13
<1> QED
  BY <1>1, <1>2

\* both forms of the OID of a node that passes are the OID it is loaded with
LEMMA NodeHasItsOid ==
    ASSUME NEW raw, {raw.oid, raw.oid_path} \subseteq RawOid, OidError(raw) = NoError, NEW module
    PROVE  /\ NodeOf(module, raw).oid \in Seq(Int)
           /\ \A form \in {raw.oid_path, raw.oid} \ {Missing} : form = NodeOf(module, raw).oid
<1>1. NodeOf(module, raw).oid = IF raw.oid_path # Missing THEN raw.oid_path ELSE raw.oid
  BY DEF NodeOf
<1>2. raw.oid_path # Malformed
  BY DEF OidError, Validation, NoError
<1>3. CASE raw.oid = Missing
  <2>1. raw.oid_path # Missing
    BY <1>3 DEF OidError, Validation, NoError
  <2> QED
    BY <1>1, <1>2, <1>3, <2>1 DEF RawOid
<1>4. CASE raw.oid # Missing
  <2>1. ParseError(raw.oid) = NoError
    BY <1>2, <1>4 DEF OidError
  <2>2. raw.oid # Malformed
    BY <2>1 DEF ParseError, InvalidOid, NoError
  <2>3. raw.oid_path \in {Missing, raw.oid}
    BY <1>2, <1>4, <2>1 DEF OidError, Validation, NoError
  <2> QED
    BY <1>1, <1>4, <2>2, <2>3 DEF RawOid
<1> QED
  BY <1>3, <1>4

Nodes(m) == m.objects \o m.notifications
NodesOf(json) == {NodeOf(json.module, r) : r \in ToSet(RawNodes(json))}

LEMMA NodesOfModule ==
    ASSUME NEW json, JsonAssumption(json)
    PROVE  /\ Nodes(ModuleOf(json)) \in Seq(NodesOf(json))
           /\ ToSet(Nodes(ModuleOf(json))) = NodesOf(json)
<1> DEFINE N(r) == NodeOf(json.module, r)
           objects == [i \in DOMAIN json.objects |-> N(json.objects[i])]
           notices == [i \in DOMAIN json.notifications |-> N(json.notifications[i])]
           S == ToSet(json.objects) \union ToSet(json.notifications)
<1>1. Nodes(ModuleOf(json)) = objects \o notices
  BY DEF Nodes, ModuleOf
<1>2. /\ json.objects \in Seq(ToSet(json.objects))
      /\ json.notifications \in Seq(ToSet(json.notifications))
  BY DEF JsonAssumption, IsArray
<1>3. ToSet(RawNodes(json)) = S
  <2>1. json.objects \in Seq(S) /\ json.notifications \in Seq(S)
    BY <1>2
  <2>2. ToSet(json.objects \o json.notifications)
          = ToSet(json.objects) \union ToSet(json.notifications)
    <3> HIDE DEF S
    <3> QED
      BY <2>1, ConcatElements
  <2> QED
    BY <2>2 DEF RawNodes
<1>4. NodesOf(json) = {N(r) : r \in S}
  BY <1>3 DEF NodesOf
<1>5. objects \in Seq(NodesOf(json)) /\ ToSet(objects) = {N(r) : r \in ToSet(json.objects)}
  <2>1. ToSet(objects) = {N(r) : r \in ToSet(json.objects)}
    <3> HIDE DEF N
    <3> QED
      BY DEF ToSet
  <2>2. \A i \in DOMAIN json.objects : N(json.objects[i]) \in NodesOf(json)
    <3> HIDE DEF N
    <3> QED
      BY <1>4 DEF ToSet
  <2> HIDE DEF N
  <2> QED
    BY <1>2, <2>1, <2>2
<1>6. /\ notices \in Seq(NodesOf(json))
      /\ ToSet(notices) = {N(r) : r \in ToSet(json.notifications)}
  <2>1. ToSet(notices) = {N(r) : r \in ToSet(json.notifications)}
    <3> HIDE DEF N
    <3> QED
      BY DEF ToSet
  <2>2. \A i \in DOMAIN json.notifications : N(json.notifications[i]) \in NodesOf(json)
    <3> HIDE DEF N
    <3> QED
      BY <1>4 DEF ToSet
  <2> HIDE DEF N
  <2> QED
    BY <1>2, <2>1, <2>2
<1> HIDE DEF objects, notices
<1>7. objects \o notices \in Seq(NodesOf(json))
      /\ ToSet(objects \o notices) = ToSet(objects) \union ToSet(notices)
  BY <1>5, <1>6, ConcatElements
<1> HIDE DEF N
<1> QED
  BY <1>1, <1>4, <1>5, <1>6, <1>7

------------------------------------------------------------------------------
(* What load_bundle makes of a directory or a file.                         *)

\* the files a bundle loaded from the path is made of
SourcesOf(d, path) ==
    IF path # Directory THEN {path}
    ELSE IF d.manifest = Missing THEN DOMAIN d.files
    ELSE ToSet(d.manifest)

LEMMA PathsAre ==
    ASSUME NEW d \in Disks, NEW path,
           path = Directory => DiscoverError(d) = NoError,
           path # Directory => path \in DOMAIN d.files
    PROVE  /\ Paths(d, path) \in Seq(DOMAIN d.files)
           /\ ToSet(Paths(d, path)) = SourcesOf(d, path)
<1>1. CASE path # Directory
  <2>1. Paths(d, path) = <<path>> /\ SourcesOf(d, path) = {path}
    BY <1>1 DEF Paths, SourcesOf
  <2>2. <<path>> \in Seq(DOMAIN d.files)
    <3> DEFINE S == DOMAIN d.files
    <3>1. path \in S
      BY <1>1
    <3> HIDE DEF S
    <3>2. <<path>> \in Seq(S)
      BY <3>1
    <3> QED
      BY <3>2 DEF S
  <2>3. ToSet(<<path>>) = {path}
    <3>1. DOMAIN <<path>> = {1} /\ <<path>>[1] = path
      OBVIOUS
    <3> QED
      BY <3>1 DEF ToSet
  <2> QED
    BY <2>1, <2>2, <2>3
<1>2. CASE path = Directory /\ d.manifest = Missing
  <2>1. Paths(d, path) = SortedFiles(DOMAIN d.files) /\ SourcesOf(d, path) = DOMAIN d.files
    BY <1>2 DEF Paths, ModulePaths, SourcesOf
  <2>2. IsFiniteSet(DOMAIN d.files) /\ DOMAIN d.files \in SUBSET Nat
    BY RegistryAssumption
  <2> DEFINE D == DOMAIN d.files
  <2> HIDE DEF D
  <2>3. /\ SortedFiles(D) \in [1 .. Cardinality(D) -> D] /\ Cardinality(D) \in Nat
        /\ Lists(SortedFiles(D), D)
    BY <2>2, FilesSorted DEF D
  <2>4. SortedFiles(D) \in Seq(D)
    BY <2>3
  <2> QED
    BY <2>1, <2>3, <2>4 DEF D, Lists
<1>3. CASE path = Directory /\ d.manifest # Missing
  <2>1. /\ Paths(d, path) = WithoutRepeats(d.manifest)
        /\ SourcesOf(d, path) = ToSet(d.manifest)
    BY <1>3 DEF Paths, ModulePaths, SourcesOf
  <2>2. ManifestError(d) = NoError
    BY <1>3 DEF DiscoverError
  <2>3. d.manifest \notin {Malformed, Unreadable} /\ \A i \in DOMAIN d.manifest : d.manifest[i] \in DOMAIN d.files
    BY <2>2 DEF ManifestError, Validation, ReadError, NoError
  <2>4. d.manifest \in Seq(ToSet(d.manifest))
    BY <1>3, <2>3, RegistryAssumption DEF IsArray
  <2>5. d.manifest \in Seq(DOMAIN d.files)
    BY <2>3, <2>4
  <2> QED
    BY <2>1, <2>5, NoRepeats
<1> QED
  BY <1>1, <1>2, <1>3

LEMMA LoadErrorIs ==
    ASSUME NEW d \in Disks, NEW path
    PROVE  /\ LoadError(d, path) \in Errors
           /\ LoadError(d, path) = NoError =>
                /\ Paths(d, path) \in Seq(DOMAIN d.files)
                /\ ToSet(Paths(d, path)) = SourcesOf(d, path)
                /\ \A f \in SourcesOf(d, path) :
                     f \in DOMAIN d.files /\ ModuleError(d.files[f]) = NoError
<1>0. /\ {Validation, InvalidOid, ReadError, NoError} \subseteq Errors
      /\ Validation # NoError /\ InvalidOid # NoError /\ ReadError # NoError
  BY DEF Errors, Validation, InvalidOid, ReadError, NoError
<1>1. DiscoverError(d) \in Errors
  BY <1>0 DEF DiscoverError, ManifestError, OidIndexError
<1>2. CASE path = Directory /\ DiscoverError(d) # NoError
  BY <1>1, <1>2 DEF LoadError
<1>3. CASE path # Directory /\ path \notin DOMAIN d.files
  BY <1>0, <1>3 DEF LoadError
<1>4. CASE ~(path = Directory /\ DiscoverError(d) # NoError)
           /\ ~(path # Directory /\ path \notin DOMAIN d.files)
  <2> DEFINE paths  == Paths(d, path)
             errors == [i \in DOMAIN paths |-> ModuleError(d.files[paths[i]])]
  <2>1. LoadError(d, path) = FirstError(errors)
    BY <1>4 DEF LoadError
  <2>2. paths \in Seq(DOMAIN d.files) /\ ToSet(paths) = SourcesOf(d, path)
    BY <1>4, PathsAre
  <2> HIDE DEF paths, Errors
  <2>3. \A i \in DOMAIN paths : paths[i] \in DOMAIN d.files
    BY <2>2
  <2>4. \A f \in DOMAIN d.files : ModuleError(d.files[f]) \in Errors
    BY RegistryAssumption, ModuleErrorIs DEF IsFile
  <2>5. errors \in Seq(Errors)
    BY <2>2, <2>3, <2>4
  <2>6. \A i \in DOMAIN paths : errors[i] = ModuleError(d.files[paths[i]])
    OBVIOUS
  <2>7. DOMAIN errors = DOMAIN paths
    OBVIOUS
  <2> HIDE DEF errors
  <2>8. /\ FirstError(errors) \in Errors
        /\ FirstError(errors) = NoError => \A i \in DOMAIN errors : errors[i] = NoError
    BY <1>0, <2>5, FirstErrorIs
  <2>9. ASSUME LoadError(d, path) = NoError, NEW f \in SourcesOf(d, path)
        PROVE  f \in DOMAIN d.files /\ ModuleError(d.files[f]) = NoError
    <3>1. PICK i \in DOMAIN paths : f = paths[i]
      BY <2>2 DEF ToSet
    <3> QED
      BY <2>1, <2>3, <2>6, <2>7, <2>8, <2>9, <3>1
  <2> QED
    BY <2>1, <2>2, <2>8, <2>9 DEF paths
<1> QED
  BY <1>2, <1>3, <1>4

\* the registry of the files in F: a record for each name among them, and all
\* nodes of these records
Registered(files, F, records, nodes) ==
    /\ records \in Seq({ModuleOf(files[f]) : f \in F}) /\ OneEach(records)
    /\ \A f \in F : \E i \in DOMAIN records : records[i].module = files[f].module
    /\ nodes \in Seq(ToSet(nodes))
    /\ ToSet(nodes) = UNION {ToSet(Nodes(records[i])) : i \in DOMAIN records}

LEMMA LoadedIsRegistered ==
    ASSUME NEW d \in Disks, NEW path, LoadError(d, path) = NoError
    PROVE  Registered(d.files, SourcesOf(d, path), LoadedModules(d, path),
                      Indexed(LoadedModules(d, path)))
<1> DEFINE F       == SourcesOf(d, path)
           paths   == Paths(d, path)
           S       == {ModuleOf(d.files[f]) : f \in F}
           read    == [i \in DOMAIN paths |-> ModuleOf(d.files[paths[i]])]
           records == ByName(read)
<1>1. LoadedModules(d, path) = records
  BY DEF LoadedModules
<1>2. /\ paths \in Seq(DOMAIN d.files) /\ ToSet(paths) = F
      /\ \A f \in F : f \in DOMAIN d.files /\ ModuleError(d.files[f]) = NoError
  BY LoadErrorIs
<1>3. read \in Seq(S) /\ \A f \in F : \E i \in DOMAIN read : read[i] = ModuleOf(d.files[f])
  <2> HIDE DEF F, paths
  <2>1. \A i \in DOMAIN paths : paths[i] \in F
    BY <1>2 DEF ToSet
  <2>2. \A f \in F : \E i \in DOMAIN paths : f = paths[i]
    BY <1>2 DEF ToSet
  <2> QED
    BY <1>2, <2>1, <2>2
<1>4. \A f \in F : ModuleOf(d.files[f]).module = d.files[f].module
  BY DEF ModuleOf
<1> HIDE DEF S, read, F
<1>5. records \in Seq(S) /\ OneEach(records) /\ Names(records) = Names(read)
  BY <1>3, ByNameKeeps
<1>6. ASSUME NEW f \in F PROVE \E i \in DOMAIN records : records[i].module = d.files[f].module
  <2>1. d.files[f].module \in Names(read)
    BY <1>3, <1>4 DEF Names
  <2> QED
    BY <1>5, <2>1 DEF Names
<1> DEFINE lists == [i \in DOMAIN records |-> records[i].objects \o records[i].notifications]
           all   == UNION {NodesOf(d.files[f]) : f \in F}
           nodes == FlattenSeq(lists)
<1>7. Indexed(records) = nodes
  BY DEF Indexed
<1>8. lists \in Seq(Seq(all)) /\ \A i \in DOMAIN records : lists[i] = Nodes(records[i])
  <2>1. ASSUME NEW i \in DOMAIN records PROVE Nodes(records[i]) \in Seq(all)
    <3>1. records[i] \in S
      BY <1>5
    <3>2. PICK f \in F : records[i] = ModuleOf(d.files[f])
      BY <3>1 DEF S
    <3>3. JsonAssumption(d.files[f])
      BY <1>2, RegistryAssumption, ModuleErrorIs DEF IsFile
    <3>4. Nodes(records[i]) \in Seq(NodesOf(d.files[f]))
      BY <3>2, <3>3, NodesOfModule
    <3>5. NodesOf(d.files[f]) \subseteq all
      OBVIOUS
    <3> HIDE DEF all
    <3> QED
      BY <3>4, <3>5
  <2>2. \A i \in DOMAIN records : lists[i] = Nodes(records[i])
    BY DEF Nodes
  <2>3. DOMAIN lists = DOMAIN records /\ DOMAIN records = 1 .. Len(records) /\ Len(records) \in Nat
    BY <1>5
  <2>4. \A i \in DOMAIN records : records[i].objects \o records[i].notifications \in Seq(all)
    BY <2>1 DEF Nodes
  <2>5. \A i \in DOMAIN records : lists[i] \in Seq(all)
    BY <2>4
  <2>6. lists = [i \in DOMAIN records |-> lists[i]]
    OBVIOUS
  <2> HIDE DEF records, all, lists
  <2> QED
    BY <2>2, <2>3, <2>5, <2>6
<1>9. DOMAIN lists = DOMAIN records
  OBVIOUS
<1> HIDE DEF lists, all, records
<1>10. nodes \in Seq(all) /\ ToSet(nodes) = UNION {ToSet(lists[i]) : i \in DOMAIN lists}
  BY <1>8, Flattened
<1> HIDE DEF nodes
<1>11. ToSet(nodes) = UNION {ToSet(Nodes(records[i])) : i \in DOMAIN records}
  BY <1>8, <1>9, <1>10
<1>12. nodes \in Seq(ToSet(nodes))
  <2>1. DOMAIN nodes = 1 .. Len(nodes) /\ Len(nodes) \in Nat
    BY <1>10
  <2>2. \A i \in 1 .. Len(nodes) : nodes[i] \in ToSet(nodes)
    BY <2>1 DEF ToSet
  <2>3. nodes = [i \in 1 .. Len(nodes) |-> nodes[i]]
    BY <1>10
  <2> QED
    BY <2>1, <2>2, <2>3
<1> QED
  BY <1>1, <1>5, <1>6, <1>7, <1>11, <1>12 DEF Registered, F, S

------------------------------------------------------------------------------
(* The indexes.                                                             *)

\* a symbol stands for one node, and every node is a node
Indexes(nodes) ==
    /\ nodes \in Seq(ToSet(nodes))
    /\ \A i, j \in DOMAIN nodes : SymbolOf(nodes[i]) = SymbolOf(nodes[j]) => nodes[i] = nodes[j]
    /\ \A i \in DOMAIN nodes : nodes[i] # NoNode /\ nodes[i].oid \in Seq(Int)
    /\ \A i \in DOMAIN nodes :
         nodes[i].kind = "OBJECT IDENTIFIER" =>
             nodes[i].enum = <<>> /\ nodes[i].syntax = NoSyntax

LEMMA RegisteredIsIndexed ==
    ASSUME NEW files, NEW F, NEW records, NEW nodes, Registered(files, F, records, nodes),
           \A f \in F : IsFile(files[f]) /\ ModuleError(files[f]) = NoError
    PROVE  /\ Indexes(nodes)
           /\ \A f \in F :
                (\A g \in F \ {f} : files[g].module # files[f].module)
                    => NodesOf(files[f]) \subseteq ToSet(nodes)
<1>1. ASSUME NEW i \in DOMAIN records
      PROVE  \E f \in F : /\ records[i] = ModuleOf(files[f])
                          /\ records[i].module = files[f].module
                          /\ ToSet(Nodes(records[i])) = NodesOf(files[f])
  <2>1. records[i] \in {ModuleOf(files[f]) : f \in F}
    BY DEF Registered
  <2>2. PICK f \in F : records[i] = ModuleOf(files[f])
    BY <2>1
  <2>3. JsonAssumption(files[f])
    BY ModuleErrorIs
  <2>4. ToSet(Nodes(ModuleOf(files[f]))) = NodesOf(files[f])
    BY <2>3, NodesOfModule
  <2>5. ModuleOf(files[f]).module = files[f].module
    BY DEF ModuleOf
  <2> QED
    BY <2>2, <2>4, <2>5
<1>2. ASSUME NEW i \in DOMAIN nodes
      PROVE  \E a \in DOMAIN records, f \in F :
               /\ records[a].module = files[f].module
               /\ ToSet(Nodes(records[a])) = NodesOf(files[f])
               /\ nodes[i] \in NodesOf(files[f])
  <2>1. nodes[i] \in ToSet(nodes)
    BY DEF ToSet
  <2>2. PICK a \in DOMAIN records : nodes[i] \in ToSet(Nodes(records[a]))
    BY <2>1 DEF Registered
  <2> QED
    BY <1>1, <2>2
<1>3. ASSUME NEW f \in F, NEW n \in NodesOf(files[f])
      PROVE  \E r \in ToSet(RawNodes(files[f])) :
               /\ n = NodeOf(files[f].module, r)
               /\ n.module = files[f].module /\ n.name = r.name
               /\ n.kind = r.kind /\ n.enum = r.enum /\ n.syntax = r.syntax
  BY DEF NodesOf, NodeOf
<1>4. ASSUME NEW f \in F, NEW r \in ToSet(RawNodes(files[f]))
      PROVE  /\ NodeOf(files[f].module, r).oid \in Seq(Int)
             /\ r.kind = "OBJECT IDENTIFIER" => r.enum = <<>> /\ r.syntax = NoSyntax
             /\ \A q \in ToSet(RawNodes(files[f])) : q.name = r.name => q = r
  <2>1. OidError(r) = NoError /\ JsonAssumption(files[f])
    BY ModuleErrorIs
  <2>2. /\ {r.oid, r.oid_path} \subseteq RawOid
        /\ r.kind = "OBJECT IDENTIFIER" => r.enum = <<>> /\ r.syntax = NoSyntax
        /\ \A q \in ToSet(RawNodes(files[f])) : q.name = r.name => q = r
    BY <2>1 DEF JsonAssumption, ToSet
  <2> QED
    BY <2>1, <2>2, NodeHasItsOid
<1>5. ASSUME NEW i \in DOMAIN nodes, NEW j \in DOMAIN nodes,
             SymbolOf(nodes[i]) = SymbolOf(nodes[j])
      PROVE  nodes[i] = nodes[j]
  <2>1. PICK a \in DOMAIN records, f \in F :
               /\ records[a].module = files[f].module
               /\ ToSet(Nodes(records[a])) = NodesOf(files[f])
               /\ nodes[i] \in NodesOf(files[f])
    BY <1>2
  <2>2. PICK b \in DOMAIN records, g \in F :
               /\ records[b].module = files[g].module
               /\ ToSet(Nodes(records[b])) = NodesOf(files[g])
               /\ nodes[j] \in NodesOf(files[g])
    BY <1>2
  <2>3. nodes[i].module = nodes[j].module /\ nodes[i].name = nodes[j].name
    BY <1>5 DEF SymbolOf
  <2>4. files[f].module = files[g].module
    BY <1>3, <2>1, <2>2, <2>3
  <2>5. a = b
    BY <2>1, <2>2, <2>4 DEF Registered, OneEach
  <2>6. nodes[j] \in NodesOf(files[f])
    BY <2>1, <2>2, <2>5
  <2>7. PICK r \in ToSet(RawNodes(files[f])) :
               nodes[i] = NodeOf(files[f].module, r) /\ nodes[i].name = r.name
    BY <1>3, <2>1
  <2>8. PICK q \in ToSet(RawNodes(files[f])) :
               nodes[j] = NodeOf(files[f].module, q) /\ nodes[j].name = q.name
    BY <1>3, <2>6
  <2> QED
    BY <1>4, <2>3, <2>7, <2>8
<1>6. ASSUME NEW i \in DOMAIN nodes
      PROVE  /\ nodes[i] # NoNode /\ nodes[i].oid \in Seq(Int)
             /\ nodes[i].kind = "OBJECT IDENTIFIER" =>
                    nodes[i].enum = <<>> /\ nodes[i].syntax = NoSyntax
  <2>1. PICK f \in F : nodes[i] \in NodesOf(files[f])
    BY <1>2
  <2>2. PICK r \in ToSet(RawNodes(files[f])) :
               /\ nodes[i] = NodeOf(files[f].module, r)
               /\ nodes[i].module = files[f].module
               /\ nodes[i].kind = r.kind /\ nodes[i].enum = r.enum /\ nodes[i].syntax = r.syntax
    BY <1>3, <2>1
  <2>3. files[f].module # Missing
    BY ModuleErrorIs
  <2>4. NoNode.module = Missing
    BY DEF NoNode
  <2> QED
    BY <1>4, <2>2, <2>3, <2>4
<1>7. ASSUME NEW f \in F, \A g \in F \ {f} : files[g].module # files[f].module
      PROVE  NodesOf(files[f]) \subseteq ToSet(nodes)
  <2>1. PICK i \in DOMAIN records : records[i].module = files[f].module
    BY DEF Registered
  <2>2. PICK g \in F : /\ records[i].module = files[g].module
                       /\ ToSet(Nodes(records[i])) = NodesOf(files[g])
    BY <1>1
  <2>3. g = f
    BY <1>7, <2>1, <2>2
  <2>4. ToSet(Nodes(records[i])) \subseteq ToSet(nodes)
    BY DEF Registered
  <2> QED
    BY <2>2, <2>3, <2>4
<1> QED
  BY <1>5, <1>6, <1>7 DEF Indexes, Registered

LEMMA ResolveNodeIs ==
    ASSUME Indexes(loaded)
    PROVE  /\ \A i \in DOMAIN loaded : ResolveNode(SymbolOf(loaded[i])) = loaded[i]
           /\ \A symbol : ResolveNode(symbol) = NoNode \/ ResolveNode(symbol) \in ToSet(loaded)
<1>1. DOMAIN loaded = 1 .. Len(loaded) /\ Len(loaded) \in Nat
  <2>1. loaded \in Seq(ToSet(loaded))
    BY DEF Indexes
  <2> QED
    BY <2>1
<1>2. ASSUME NEW symbol, NEW i \in DOMAIN loaded, SymbolOf(loaded[i]) = symbol
      PROVE  \E k \in DOMAIN loaded : /\ ResolveNode(symbol) = loaded[k]
                                      /\ SymbolOf(loaded[k]) = symbol
  <2> DEFINE same == {k \in DOMAIN loaded : SymbolOf(loaded[k]) = symbol}
  <2>1. same \in SUBSET (1 .. Len(loaded)) /\ same # {}
    BY <1>1, <1>2
  <2>2. ResolveNode(symbol) = loaded[Max(same)]
    BY <2>1 DEF ResolveNode
  <2>3. Max(same) \in same
    <3> HIDE DEF same
    <3> QED
      BY <1>1, <2>1, GreatestOne
  <2> QED
    BY <2>2, <2>3
<1>3. ASSUME NEW symbol, ~\E i \in DOMAIN loaded : SymbolOf(loaded[i]) = symbol
      PROVE  ResolveNode(symbol) = NoNode
  BY <1>3 DEF ResolveNode
<1>4. ASSUME NEW i \in DOMAIN loaded PROVE ResolveNode(SymbolOf(loaded[i])) = loaded[i]
  <2>1. PICK k \in DOMAIN loaded : /\ ResolveNode(SymbolOf(loaded[i])) = loaded[k]
                                   /\ SymbolOf(loaded[k]) = SymbolOf(loaded[i])
    BY <1>2
  <2> QED
    BY <2>1 DEF Indexes
<1> QED
  BY <1>2, <1>3, <1>4 DEF ToSet

LEMMA ExactNodeIs ==
    ASSUME Indexes(loaded), NEW oid
    PROVE  /\ ExactNode(oid) # NoNode => ExactNode(oid) \in ToSet(loaded) /\ ExactNode(oid).oid = oid
           /\ \A i \in DOMAIN loaded : loaded[i].oid = oid => ExactNode(oid) # NoNode
<1> DEFINE same == {i \in DOMAIN loaded : loaded[i].oid = oid}
<1>1. DOMAIN loaded = 1 .. Len(loaded) /\ Len(loaded) \in Nat
  <2>1. loaded \in Seq(ToSet(loaded))
    BY DEF Indexes
  <2> QED
    BY <2>1
<1>2. CASE same = {}
  BY <1>2 DEF ExactNode
<1>3. CASE same # {}
  <2>1. same \in SUBSET (1 .. Len(loaded))
    BY <1>1
  <2>2. ExactNode(oid) = loaded[Max(same)]
    BY <1>3 DEF ExactNode
  <2>3. Max(same) \in same
    <3> HIDE DEF same
    <3> QED
      BY <1>1, <1>3, <2>1, GreatestOne
  <2> QED
    BY <2>2, <2>3 DEF Indexes, ToSet
<1> QED
  BY <1>2, <1>3

LEMMA NodeAtIs ==
    ASSUME Indexes(loaded), SidecarAgrees, NEW oid
    PROVE  /\ NodeAt(oid) # NoNode => NodeAt(oid) \in ToSet(loaded) /\ NodeAt(oid).oid = oid
           /\ \A i \in DOMAIN loaded : loaded[i].oid = oid => NodeAt(oid) # NoNode
<1>1. Accelerated(oid) # NoNode => Accelerated(oid) \in ToSet(loaded) /\ Accelerated(oid).oid = oid
  <2>1. CASE oid \in DOMAIN sidecar
    BY <2>1, ResolveNodeIs DEF Accelerated, SidecarAgrees
  <2>2. CASE oid \notin DOMAIN sidecar
    BY <2>2 DEF Accelerated
  <2> QED
    BY <2>1, <2>2
<1> QED
  BY <1>1, ExactNodeIs DEF NodeAt

------------------------------------------------------------------------------
(* Lookup and display.                                                      *)

LEMMA LongestPrefix ==
    ASSUME NEW oid \in Seq(Int)
    PROVE  LET known == {k \in 1 .. Len(oid) : NodeAt(SubSeq(oid, 1, k)) # NoNode} IN
           /\ known = {} => LookupOid(oid) = NoMatch
           /\ known # {} => \E k \in known :
                /\ \A j \in known : j <= k
                /\ LookupOid(oid) # NoMatch
                /\ LookupOid(oid).node = NodeAt(SubSeq(oid, 1, k))
                /\ LookupOid(oid).suffix = SubSeq(oid, k + 1, Len(oid))
<1> DEFINE known == {k \in 1 .. Len(oid) : NodeAt(SubSeq(oid, 1, k)) # NoNode}
           m == Max(known)
<1>1. CASE known = {}
  BY <1>1 DEF LookupOid
<1>2. CASE known # {}
  <2>1. known \in SUBSET (1 .. Len(oid)) /\ Len(oid) \in Nat
    OBVIOUS
  <2>2. m \in known /\ \A j \in known : j <= m
    <3> HIDE DEF known
    <3> QED
      BY <1>2, <2>1, GreatestOne
  <2>3. LookupOid(oid)
          = [node |-> NodeAt(SubSeq(oid, 1, m)), suffix |-> SubSeq(oid, m + 1, Len(oid))]
    BY <1>2 DEF LookupOid
  <2>4. NodeAt(SubSeq(oid, 1, m)) # NoNode
    BY <2>2
  <2> HIDE DEF m
  <2>5. LookupOid(oid) # NoMatch
    BY <2>3, <2>4 DEF NoMatch
  <2>6. /\ LookupOid(oid).node = NodeAt(SubSeq(oid, 1, m))
        /\ LookupOid(oid).suffix = SubSeq(oid, m + 1, Len(oid))
    <3> DEFINE node   == NodeAt(SubSeq(oid, 1, m))
               suffix == SubSeq(oid, m + 1, Len(oid))
               match  == LookupOid(oid)
    <3>1. match = [node |-> node, suffix |-> suffix]
      BY <2>3
    <3> HIDE DEF node, suffix, match
    <3>2. match.node = node /\ match.suffix = suffix
      BY <3>1
    <3> QED
      BY <3>2 DEF node, suffix, match
  <2> QED
    BY <1>2, <2>2, <2>5, <2>6
<1> QED
  BY <1>1, <1>2

\* whatever the sidecar says, the node matched is one of the modules'
LEMMA MatchIsLoaded ==
    ASSUME Indexes(loaded), NEW oid \in Seq(Int), LookupOid(oid) # NoMatch
    PROVE  LookupOid(oid).node \in ToSet(loaded)
<1>1. \A o : NodeAt(o) = NoNode \/ NodeAt(o) \in ToSet(loaded)
  BY ResolveNodeIs, ExactNodeIs DEF NodeAt, Accelerated
<1> QED
  BY <1>1, LongestPrefix

Place(match, oid) == match.node \in ToSet(loaded) /\ match.node.oid \o match.suffix = oid

\* a sidecar that agrees with the modules: the node is at the OID or at a
\* prefix of it, and at none shorter than that of another node
LEMMA MatchIsClosest ==
    ASSUME Indexes(loaded), SidecarAgrees, NEW oid \in Seq(Int)
    PROVE  /\ LookupOid(oid) # NoMatch => Place(LookupOid(oid), oid)
           /\ \A i \in DOMAIN loaded :
                IsPrefixOf(loaded[i].oid, oid) /\ loaded[i].oid # <<>> =>
                    /\ LookupOid(oid) # NoMatch
                    /\ Len(loaded[i].oid) <= Len(LookupOid(oid).node.oid)
<1> DEFINE known == {k \in 1 .. Len(oid) : NodeAt(SubSeq(oid, 1, k)) # NoNode}
<1>1. Len(oid) \in Nat
  OBVIOUS
<1>2. ASSUME NEW k \in known
      PROVE  /\ NodeAt(SubSeq(oid, 1, k)) \in ToSet(loaded)
             /\ NodeAt(SubSeq(oid, 1, k)).oid = SubSeq(oid, 1, k)
             /\ SubSeq(oid, 1, k) \o SubSeq(oid, k + 1, Len(oid)) = oid
             /\ Len(SubSeq(oid, 1, k)) = k
  <2>1. k \in 1 .. Len(oid)
    OBVIOUS
  <2>2. SubSeq(oid, 1, k) \o SubSeq(oid, k + 1, Len(oid)) = oid /\ Len(SubSeq(oid, 1, k)) = k
    BY <2>1
  <2> QED
    BY <2>2, NodeAtIs
<1>3. LookupOid(oid) # NoMatch => Place(LookupOid(oid), oid)
  BY <1>2, LongestPrefix DEF Place
<1>4. ASSUME NEW i \in DOMAIN loaded, IsPrefixOf(loaded[i].oid, oid), loaded[i].oid # <<>>
      PROVE  /\ LookupOid(oid) # NoMatch
             /\ Len(loaded[i].oid) <= Len(LookupOid(oid).node.oid)
  <2> DEFINE o == loaded[i].oid
             n == Len(o)
  <2>1. o \in Seq(Int) /\ n \in Nat
    <3>1. o \in Seq(Int)
      BY DEF Indexes
    <3> HIDE DEF o
    <3> QED
      BY <3>1
  <2>2. n \in 1 .. Len(oid) /\ SubSeq(oid, 1, n) = o
    <3>1. o # <<>>
      BY <1>4
    <3>2. n # 0
      BY <2>1, <3>1
    <3> QED
      BY <1>1, <1>4, <2>1, <3>2 DEF IsPrefixOf
  <2>3. NodeAt(o) # NoNode
    BY NodeAtIs
  <2> HIDE DEF o
  <2>4. n \in known
    BY <2>2, <2>3
  <2> HIDE DEF n
  <2>5. PICK k \in known : /\ n <= k /\ LookupOid(oid) # NoMatch
                           /\ LookupOid(oid).node = NodeAt(SubSeq(oid, 1, k))
    BY <2>4, LongestPrefix
  <2>6. Len(LookupOid(oid).node.oid) = k
    BY <1>2, <2>5
  <2> QED
    BY <2>5, <2>6 DEF n, o
<1> QED
  BY <1>3, <1>4

LEMMA DisplayIsInPlace ==
    ASSUME Indexes(loaded), NEW oid \in Seq(Int), oid # <<>>, NEW match, Place(match, oid)
    PROVE  Place(DisplayMatch(oid, match), oid)
<1> DEFINE parent == ExactNode(Front(oid))
<1>1. CASE /\ match.suffix = <<>> /\ match.node.kind = "OBJECT IDENTIFIER"
           /\ Last(oid) = 0 /\ parent.kind = "scalar"
  <2>1. DisplayMatch(oid, match) = [node |-> parent, suffix |-> <<0>>]
    BY <1>1 DEF DisplayMatch
  <2>2. parent # NoNode
    <3>1. NoNode.kind = "none"
      BY DEF NoNode
    <3> QED
      BY <1>1, <3>1
  <2>3. parent \in ToSet(loaded) /\ parent.oid = Front(oid)
    BY <2>2, ExactNodeIs
  <2>4. Front(oid) \o <<0>> = oid
    <3>1. Front(oid) = SubSeq(oid, 1, Len(oid) - 1) /\ oid[Len(oid)] = 0
      BY <1>1 DEF Front, Last
    <3> QED
      BY <3>1
  <2> HIDE DEF parent
  <2> DEFINE view == [node |-> parent, suffix |-> <<0>>]
  <2>5. view.node = parent /\ view.suffix = <<0>>
    OBVIOUS
  <2>6. Place(view, oid)
    BY <2>3, <2>4, <2>5 DEF Place
  <2> QED
    BY <2>1, <2>6
<1>2. CASE ~(/\ match.suffix = <<>> /\ match.node.kind = "OBJECT IDENTIFIER"
             /\ Last(oid) = 0 /\ parent.kind = "scalar")
  BY <1>2 DEF DisplayMatch
<1> QED
  BY <1>1, <1>2

\* the symbol of a node resolves to that node
LEMMA SymbolResolves ==
    ASSUME Indexes(loaded), NEW oid, NEW match, Place(match, oid)
    PROVE  ResolveSymbolic(SymbolOf(match.node), match.suffix) = oid
<1>1. PICK i \in DOMAIN loaded : match.node = loaded[i]
  BY DEF Place, ToSet
<1>2. ResolveNode(SymbolOf(match.node)) = match.node /\ match.node # NoNode
  BY <1>1, ResolveNodeIs DEF Indexes
<1> QED
  BY <1>2 DEF ResolveSymbolic, Place

------------------------------------------------------------------------------
(* The invariant: what is loaded is what load_bundle makes of the files,    *)
(* and what was answered is what the registry answers.                      *)

AskedInv ==
    /\ asked = <<>> => Len(rendered) # 1
    /\ asked # <<>> =>
         /\ outcome = "loaded" /\ asked \in Oid
         /\ found = LookupOid(asked)
         /\ shown = IF found = NoMatch THEN NoMatch ELSE DisplayMatch(asked, found)
         /\ back = IF found = NoMatch THEN <<>>
                   ELSE ResolveSymbolic(SymbolOf(shown.node), shown.suffix)
         /\ Len(rendered) = 1 =>
              found # NoMatch /\ \E value \in Integer : rendered = LabelFor(found.node, value)

RegistryInv ==
    /\ disk \in Disks
    /\ outcome = "loaded" =>
         /\ LoadError(disk, source) = NoError
         /\ modules = LoadedModules(disk, source)
         /\ loaded = Indexed(modules)
    /\ AskedInv

LEMMA RegistryInit == Init => RegistryInv
  BY DEF Init, RegistryInv, AskedInv, Plain

LEMMA LoadKeeps ==
    ASSUME RegistryInv, NEW path, Load(path)
    PROVE  RegistryInv'
<1>1. asked = <<>> /\ disk' = disk /\ source' = path
  BY DEF Load, RegistryInv, AskedInv
<1>2. asked' = <<>> /\ AskedInv'
  BY <1>1 DEF Load, RegistryInv, AskedInv
<1>3. CASE LoadError(disk, path) = NoError
  BY <1>1, <1>2, <1>3 DEF Load, RegistryInv
<1>4. CASE LoadError(disk, path) # NoError
  <2>1. outcome' = LoadError(disk, path)
    BY <1>4 DEF Load
  <2>2. LoadError(disk, path) \in Errors
    BY LoadErrorIs DEF RegistryInv
  <2>3. outcome' # "loaded"
    BY <2>1, <2>2 DEF Errors, NoError, Validation, InvalidOid, ReadError
  <2> QED
    BY <1>1, <1>2, <2>3 DEF RegistryInv
<1> QED
  BY <1>3, <1>4

\* a call reads the registry and leaves it as it is
LEMMA SameAnswers ==
    ASSUME UNCHANGED bundle
    PROVE  /\ \A oid : LookupOid(oid)' = LookupOid(oid)
           /\ \A oid, match : DisplayMatch(oid, match)' = DisplayMatch(oid, match)
           /\ \A symbol, suffix : ResolveSymbolic(symbol, suffix)' = ResolveSymbolic(symbol, suffix)
           /\ \A node, value : LabelFor(node, value)' = LabelFor(node, value)
<1>1. modules' = modules /\ loaded' = loaded /\ sidecar' = sidecar
  BY DEF bundle
<1>2. \A symbol : ResolveNode(symbol)' = ResolveNode(symbol)
  BY <1>1 DEF ResolveNode
<1>3. \A oid : ExactNode(oid)' = ExactNode(oid)
  BY <1>1 DEF ExactNode
<1>4. \A oid : NodeAt(oid)' = NodeAt(oid)
  BY <1>1, <1>2, <1>3 DEF NodeAt, Accelerated
<1>5. \A oid : LookupOid(oid)' = LookupOid(oid)
  BY <1>4 DEF LookupOid
<1>6. \A oid, match : DisplayMatch(oid, match)' = DisplayMatch(oid, match)
  BY <1>3 DEF DisplayMatch
<1>7. \A symbol, suffix : ResolveSymbolic(symbol, suffix)' = ResolveSymbolic(symbol, suffix)
  BY <1>2 DEF ResolveSymbolic
<1>8. \A node, value : LabelFor(node, value)' = LabelFor(node, value)
  <2>1. \A module, name : TypesNamed(module, name)' = TypesNamed(module, name)
    BY <1>1 DEF TypesNamed
  <2>2. \A module, name : LabelsOfType(module, name)' = LabelsOfType(module, name)
    BY <1>1, <2>1 DEF LabelsOfType
  <2>3. \A module, name : ResolveType(module, name)' = ResolveType(module, name)
    <3>1. \A module : ImportsOf(module)' = ImportsOf(module)
      BY <1>1 DEF ImportsOf, SelectInSeq
    <3> QED
      BY <2>1, <2>2, <3>1 DEF ResolveType
  <2> QED
    BY <2>3 DEF LabelFor
<1> QED
  BY <1>5, <1>6, <1>7, <1>8

LEMMA LookKeeps ==
    ASSUME RegistryInv, NEW oid \in Oid, Look(oid),
           Len(rendered') = 1 =>
               found' # NoMatch /\ \E value \in Integer : rendered' = LabelFor(found'.node, value)
    PROVE  RegistryInv'
<1>1. UNCHANGED bundle /\ outcome = "loaded"
  BY DEF Look
<1>2. /\ disk' = disk /\ source' = source /\ outcome' = outcome
      /\ modules' = modules /\ loaded' = loaded
  BY <1>1 DEF bundle
<1>3. oid # <<>> /\ asked' = oid
  BY RegistryAssumption DEF Look
<1>4. found' = LookupOid(oid) /\ LookupOid(oid)' = LookupOid(oid)
  BY <1>1, SameAnswers DEF Look
<1>5. /\ shown' = IF found' = NoMatch THEN NoMatch ELSE DisplayMatch(oid, found')
      /\ back' = IF found' = NoMatch THEN <<>>
                 ELSE ResolveSymbolic(SymbolOf(shown'.node), shown'.suffix)
  BY DEF Look
<1>6. AskedInv'
  <2>1. found' = LookupOid(asked)'
    BY <1>1, <1>3, <1>4, SameAnswers
  <2>2. (shown = IF found = NoMatch THEN NoMatch ELSE DisplayMatch(asked, found))'
    BY <1>1, <1>3, <1>5, SameAnswers
  <2>3. (back = IF found = NoMatch THEN <<>>
                ELSE ResolveSymbolic(SymbolOf(shown.node), shown.suffix))'
    BY <1>1, <1>5, SameAnswers
  <2>4. (Len(rendered) = 1 =>
            found # NoMatch /\ \E value \in Integer : rendered = LabelFor(found.node, value))'
    BY <1>1, SameAnswers
  <2> QED
    BY <1>1, <1>2, <1>3, <2>1, <2>2, <2>3, <2>4 DEF AskedInv
<1> QED
  BY <1>2, <1>6 DEF RegistryInv

LEMMA RegistryStep == RegistryInv /\ [Next]_vars => RegistryInv'
<1> SUFFICES ASSUME RegistryInv, [Next]_vars PROVE RegistryInv'
  OBVIOUS
<1>1. CASE UNCHANGED vars
  <2>1. /\ UNCHANGED bundle /\ asked' = asked /\ found' = found /\ shown' = shown
        /\ back' = back /\ rendered' = rendered
    BY <1>1 DEF vars
  <2>2. /\ disk' = disk /\ source' = source /\ outcome' = outcome
        /\ modules' = modules /\ loaded' = loaded
    BY <2>1 DEF bundle
  <2>3. AskedInv
    BY DEF RegistryInv
  <2>4. AskedInv'
    <3>1. (asked = <<>> => Len(rendered) # 1)'
      BY <2>1, <2>3 DEF AskedInv
    <3>2. ASSUME asked' # <<>>
          PROVE  /\ LookupOid(asked)' = LookupOid(asked)
                 /\ DisplayMatch(asked, found)' = DisplayMatch(asked, found)
                 /\ ResolveSymbolic(SymbolOf(shown.node), shown.suffix)'
                      = ResolveSymbolic(SymbolOf(shown.node), shown.suffix)
      BY <2>1, SameAnswers
    <3>3. \A value : LabelFor(found.node, value)' = LabelFor(found.node, value)
      BY <2>1, SameAnswers
    <3> QED
      BY <2>1, <2>2, <2>3, <3>1, <3>2, <3>3 DEF AskedInv
  <2> QED
    BY <2>2, <2>4 DEF RegistryInv
<1>2. ASSUME NEW path \in {Directory} \union Files, Load(path) PROVE RegistryInv'
  BY <1>2, LoadKeeps
<1>3. ASSUME NEW oid \in Oid, Translate(oid) PROVE RegistryInv'
  BY <1>3, LookKeeps DEF Translate, Plain
<1>4. ASSUME NEW oid \in Oid, NEW value \in Integer, Enrich(oid, value) PROVE RegistryInv'
  <2>1. rendered' = IF found' = NoMatch THEN Plain ELSE LabelFor(found'.node, value)
    BY <1>4 DEF Enrich
  <2>2. Len(rendered') = 1 =>
          found' # NoMatch /\ \E v \in Integer : rendered' = LabelFor(found'.node, v)
    BY <2>1 DEF Plain
  <2> QED
    BY <1>4, <2>2, LookKeeps DEF Enrich
<1>5. ASSUME NEW oid \in Oid, NEW value \in Oid, EnrichOid(oid, value) PROVE RegistryInv'
  <2> DEFINE view == DisplayMatch(value, LookupOid(value))
  <2>1. rendered' \in {Plain, Append(SymbolOf(view.node), view.suffix)}
    BY <1>5 DEF EnrichOid
  <2> HIDE DEF view
  <2>2. Len(Append(SymbolOf(view.node), view.suffix)) = 3
    <3> DEFINE S == {view.node.module, view.node.name, view.suffix}
               s == SymbolOf(view.node)
    <3>1. s \in Seq(S) /\ Len(s) = 2 /\ view.suffix \in S
      BY DEF SymbolOf
    <3> HIDE DEF s, S
    <3>2. Len(Append(s, view.suffix)) = Len(s) + 1
      BY <3>1, AppendProperties
    <3> QED
      BY <3>1, <3>2 DEF s
  <2>3. Len(rendered') # 1
    <3>1. Len(Plain) = 0
      BY DEF Plain
    <3> QED
      BY <2>1, <2>2, <3>1
  <2> QED
    BY <1>5, <2>3, LookKeeps DEF EnrichOid
<1> QED
  BY <1>1, <1>2, <1>3, <1>4, <1>5 DEF Next

LEMMA RegistryInvariant == Spec => []RegistryInv
  BY RegistryInit, RegistryStep, PTL DEF Spec

LEMMA LoadedFacts ==
    ASSUME RegistryInv, outcome = "loaded"
    PROVE  /\ Registered(disk.files, SourceFiles, modules, loaded) /\ Indexes(loaded)
           /\ \A f \in SourceFiles :
                /\ f \in DOMAIN disk.files
                /\ IsFile(disk.files[f]) /\ ModuleError(disk.files[f]) = NoError
                /\ (\A g \in SourceFiles \ {f} : disk.files[g].module # disk.files[f].module)
                     => NodesOf(disk.files[f]) \subseteq ToSet(loaded)
<1>1. SourceFiles = SourcesOf(disk, source)
  BY DEF SourceFiles, SourcesOf
<1>2. disk \in Disks /\ LoadError(disk, source) = NoError
  BY DEF RegistryInv
<1>3. Registered(disk.files, SourceFiles, modules, loaded)
  BY <1>1, <1>2, LoadedIsRegistered DEF RegistryInv
<1>4. \A f \in SourceFiles : f \in DOMAIN disk.files /\ ModuleError(disk.files[f]) = NoError
  BY <1>1, <1>2, LoadErrorIs
<1>5. \A f \in SourceFiles : IsFile(disk.files[f])
  BY <1>2, <1>4, RegistryAssumption DEF IsFile
<1> QED
  BY <1>3, <1>4, <1>5, RegisteredIsIndexed

\* The symbol shown for an OID resolves to that OID, whatever modules are
\* loaded in whatever order, as long as the sidecar agrees with them
\* (mib/registry.py: lookup_oid, _display_match, resolve_symbolic).
THEOREM TranslatesBack == Spec => []RoundTrip
<1>1. RegistryInv => RoundTrip
  <2> SUFFICES ASSUME RegistryInv, asked # <<>>, SidecarAgrees, found # NoMatch
               PROVE  back = asked
    BY DEF RoundTrip
  <2>1. /\ outcome = "loaded" /\ asked \in Seq(Int) /\ found = LookupOid(asked)
        /\ shown = DisplayMatch(asked, found)
        /\ back = ResolveSymbolic(SymbolOf(shown.node), shown.suffix)
    BY RegistryAssumption DEF RegistryInv, AskedInv
  <2>2. Indexes(loaded)
    BY <2>1, LoadedFacts
  <2>3. Place(found, asked)
    BY <2>1, <2>2, MatchIsClosest
  <2>4. Place(shown, asked)
    BY <2>1, <2>2, <2>3, DisplayIsInPlace
  <2> QED
    BY <2>1, <2>2, <2>4, SymbolResolves
<1> QED
  BY <1>1, RegistryInvariant, PTL

\* No node of the modules is nearer to an OID than its match, and an OID with
\* a node above it is known (mib/registry.py: lookup_oid).
THEOREM MatchIsNearest == Spec => []ClosestNode
<1>1. RegistryInv => ClosestNode
  <2> SUFFICES ASSUME RegistryInv, asked # <<>>, SidecarAgrees,
                      NEW i \in DOMAIN loaded, IsPrefixOf(loaded[i].oid, asked),
                      loaded[i].oid # <<>>
               PROVE  found # NoMatch /\ Len(loaded[i].oid) <= Len(found.node.oid)
    BY DEF ClosestNode
  <2>1. outcome = "loaded" /\ asked \in Seq(Int) /\ found = LookupOid(asked)
    BY RegistryAssumption DEF RegistryInv, AskedInv
  <2> QED
    BY <2>1, LoadedFacts, MatchIsClosest
<1> QED
  BY <1>1, RegistryInvariant, PTL

\* What load_bundle returns has every node of every file it was made of, under
\* its symbol and with the OID its file gives it in either form
\* (mib/loader.py: load_bundle; mib/registry.py: normalize_module_payload).
THEOREM AllOrNothing == Spec => []LoadedWhole
<1>1. RegistryInv => LoadedWhole
  <2> SUFFICES ASSUME RegistryInv, outcome = "loaded", NEW f \in SourceFiles
               PROVE  /\ f \in DOMAIN disk.files /\ disk.files[f] \notin {Malformed, Unreadable}
                      /\ LET json == disk.files[f]
                             raw  == RawNodes(json)
                         IN  \/ \E g \in SourceFiles \ {f} : disk.files[g].module = json.module
                             \/ \A i \in DOMAIN raw :
                                  \A form \in {raw[i].oid_path, raw[i].oid} \ {Missing} :
                                      ResolveSymbolic(<<json.module, raw[i].name>>, <<7>>)
                                          = form \o <<7>>
    BY DEF LoadedWhole
  <2> DEFINE json == disk.files[f]
             raw  == RawNodes(json)
  <2>1. /\ f \in DOMAIN disk.files /\ Indexes(loaded)
        /\ json \notin {Malformed, Unreadable} /\ JsonAssumption(json)
        /\ \A r \in ToSet(raw) : OidError(r) = NoError
    BY LoadedFacts, ModuleErrorIs
  <2>2. ASSUME ~\E g \in SourceFiles \ {f} : disk.files[g].module = json.module,
               NEW i \in DOMAIN raw, NEW form \in {raw[i].oid_path, raw[i].oid} \ {Missing}
        PROVE  ResolveSymbolic(<<json.module, raw[i].name>>, <<7>>) = form \o <<7>>
    <3> DEFINE n == NodeOf(json.module, raw[i])
    <3>1. raw[i] \in ToSet(raw) /\ {raw[i].oid, raw[i].oid_path} \subseteq RawOid
      BY <2>1 DEF ToSet, JsonAssumption
    <3>2. form = n.oid
      BY <2>1, <3>1, NodeHasItsOid
    <3>3. NodesOf(json) \subseteq ToSet(loaded)
      BY <2>2, LoadedFacts
    <3>4. n \in ToSet(loaded)
      BY <3>1, <3>3 DEF NodesOf
    <3>5. SymbolOf(n) = <<json.module, raw[i].name>>
      BY DEF NodeOf, SymbolOf
    <3> HIDE DEF n
    <3>6. ResolveNode(SymbolOf(n)) = n /\ n # NoNode
      <4>1. PICK k \in DOMAIN loaded : n = loaded[k]
        BY <3>4 DEF ToSet
      <4> QED
        BY <2>1, <4>1, ResolveNodeIs DEF Indexes
    <3> QED
      BY <3>2, <3>5, <3>6 DEF ResolveSymbolic
  <2> QED
    BY <2>1, <2>2
<1> QED
  BY <1>1, RegistryInvariant, PTL

\* a type that is resolved is one of the module's or of an import's
LEMMA TypeIsInScope ==
    ASSUME NEW S, modules \in Seq(S), \A i \in DOMAIN modules : IsArray(modules[i].imports),
           NEW module, NEW name, ResolveType(module, name) # NoLabels
    PROVE  \E i \in DOMAIN modules :
             /\ \/ modules[i].module = module
                \/ \E j \in DOMAIN modules :
                     /\ modules[j].module = module
                     /\ \E k \in DOMAIN modules[j].imports :
                          /\ modules[j].imports[k][1] = modules[i].module
                          /\ name \in modules[j].imports[k][2]
             /\ name \in DOMAIN modules[i].types
             /\ ResolveType(module, name) = modules[i].types[name]
<1>1. DOMAIN modules = 1 .. Len(modules) /\ Len(modules) \in Nat
  OBVIOUS
<1>2. ASSUME NEW m, LabelsOfType(m, name) # NoLabels
      PROVE  \E i \in DOMAIN modules : /\ modules[i].module = m /\ name \in DOMAIN modules[i].types
                                       /\ LabelsOfType(m, name) = modules[i].types[name]
  <2> DEFINE T == TypesNamed(m, name)
  <2>1. T # {} /\ LabelsOfType(m, name) = modules[Max(T)].types[name]
    BY <1>2 DEF LabelsOfType
  <2>2. T \in SUBSET (1 .. Len(modules))
    BY <1>1 DEF TypesNamed
  <2>3. Max(T) \in T
    <3> HIDE DEF T
    <3> QED
      BY <1>1, <2>1, <2>2, GreatestOne
  <2> QED
    BY <2>1, <2>3 DEF TypesNamed
<1>3. CASE TypesNamed(module, name) # {}
  <2>1. ResolveType(module, name) = LabelsOfType(module, name)
    BY <1>3 DEF ResolveType
  <2> QED
    BY <1>2, <2>1
<1>4. CASE TypesNamed(module, name) = {}
  <2> DEFINE imports == ImportsOf(module)
             first   == FirstListing(imports, name)
  <2>1. first # 0 /\ ResolveType(module, name) = LabelsOfType(imports[first][1], name)
    BY <1>4 DEF ResolveType
  <2>2. imports = <<>> \/ \E j \in DOMAIN modules : /\ modules[j].module = module
                                                    /\ imports = modules[j].imports
    <3> DEFINE I   == {i \in 1 .. Len(modules) : modules[i].module = module}
               own == SelectInSeq(modules, LAMBDA m : m.module = module)
    <3>1. own = IF I # {} THEN Min(I) ELSE 0
      BY DEF SelectInSeq
    <3>2. imports = IF own = 0 THEN <<>> ELSE modules[own].imports
      BY DEF ImportsOf
    <3>3. I # {} => Min(I) \in I
      <4>1. I \in SUBSET Nat
        BY <1>1
      <4> HIDE DEF I
      <4> QED
        BY <4>1, LeastOne
    <3> HIDE DEF own, imports
    <3> QED
      BY <1>1, <3>1, <3>2, <3>3
  <2> DEFINE K == {k \in 1 .. Len(imports) : name \in imports[k][2]}
  <2>3. first = IF K # {} THEN Min(K) ELSE 0
    BY DEF FirstListing, SelectInSeq
  <2>4. Len(imports) \in Nat /\ DOMAIN imports = 1 .. Len(imports)
    <3>1. imports \in Seq(ToSet(imports))
      <4>1. CASE imports = <<>>
        <5>1. <<>> \in Seq(ToSet(<<>>))
          OBVIOUS
        <5> QED
          BY <4>1, <5>1
      <4>2. CASE imports # <<>>
        BY <2>2, <4>2 DEF IsArray
      <4> QED
        BY <4>1, <4>2
    <3> HIDE DEF imports
    <3> QED
      BY <3>1
  <2> HIDE DEF imports
  <2>5. first \in K
    <3>1. K \in SUBSET Nat /\ K # {}
      BY <2>1, <2>3, <2>4
    <3> HIDE DEF K, first
    <3> QED
      BY <2>3, <3>1, LeastOne
  <2>6. first \in DOMAIN imports /\ name \in imports[first][2] /\ imports # <<>>
    BY <2>4, <2>5
  <2>7. PICK j \in DOMAIN modules : modules[j].module = module /\ imports = modules[j].imports
    BY <2>2, <2>6
  <2> HIDE DEF first
  <2>8. PICK i \in DOMAIN modules :
               /\ modules[i].module = imports[first][1] /\ name \in DOMAIN modules[i].types
               /\ LabelsOfType(imports[first][1], name) = modules[i].types[name]
    BY <1>2, <2>1
  <2> QED
    BY <2>1, <2>6, <2>7, <2>8
<1> QED
  BY <1>3, <1>4

\* The label shown for a value is one that the node shown, or a type in the
\* scope of its module, gives to it (mib/render.py: _resolve_enum_label).
THEOREM LabelsBelong == Spec => []LabelOfShownNode
<1>1. RegistryInv => LabelOfShownNode
  <2> SUFFICES ASSUME RegistryInv, Len(rendered) = 1 PROVE LabelOfShownNode
    BY DEF LabelOfShownNode
  <2> DEFINE n == found.node
  <2>1. /\ asked # <<>> /\ outcome = "loaded" /\ asked \in Seq(Int)
        /\ found = LookupOid(asked) /\ found # NoMatch
        /\ shown = DisplayMatch(asked, found)
    BY RegistryAssumption DEF RegistryInv, AskedInv
  <2>2. PICK value \in Integer : rendered = LabelFor(n, value)
    BY <2>1 DEF RegistryInv, AskedInv
  <2>3. Registered(disk.files, SourceFiles, modules, loaded) /\ Indexes(loaded)
    BY <2>1, LoadedFacts
  <2>4. n \in ToSet(loaded)
    BY <2>1, <2>3, MatchIsLoaded
  <2>5. n.kind = "OBJECT IDENTIFIER" => n.enum = <<>> /\ n.syntax = NoSyntax
    BY <2>3, <2>4 DEF Indexes, ToSet
  <2> DEFINE ofType == IF n.syntax = NoSyntax THEN NoLabels ELSE ResolveType(n.module, n.syntax)
  <2>6. rendered = IF value \in DOMAIN n.enum THEN <<n.enum[value]>>
                   ELSE IF value \in DOMAIN ofType THEN <<ofType[value]>> ELSE Plain
    BY <2>2 DEF LabelFor
  <2>7. \/ value \in DOMAIN n.enum /\ rendered[1] = n.enum[value]
        \/ value \in DOMAIN ofType /\ rendered[1] = ofType[value]
    BY <2>6 DEF Plain
  <2>8. DOMAIN NoLabels = {}
    BY DEF NoLabels
  <2>9. shown.node = n
    <3>1. CASE n.kind = "OBJECT IDENTIFIER"
      <4>1. DOMAIN n.enum = {} /\ ofType = NoLabels
        <5>1. n.enum = <<>> /\ n.syntax = NoSyntax
          BY <2>5, <3>1
        <5>2. DOMAIN <<>> = {}
          OBVIOUS
        <5> HIDE DEF n
        <5> QED
          BY <5>1, <5>2
      <4> QED
        BY <2>7, <2>8, <4>1
    <3>2. CASE n.kind # "OBJECT IDENTIFIER"
      BY <2>1, <3>2 DEF DisplayMatch
    <3> QED
      BY <3>1, <3>2
  <2>10. CASE value \in DOMAIN n.enum /\ rendered[1] = n.enum[value]
    BY <2>1, <2>9, <2>10 DEF LabelOfShownNode
  <2>11. CASE value \in DOMAIN ofType /\ rendered[1] = ofType[value]
    <3>1. ofType # NoLabels /\ ofType = ResolveType(n.module, n.syntax)
      BY <2>8, <2>11
    <3> DEFINE S == {ModuleOf(disk.files[f]) : f \in SourceFiles}
    <3>2. modules \in Seq(S)
      BY <2>3 DEF Registered
    <3>3. ASSUME NEW i \in DOMAIN modules PROVE IsArray(modules[i].imports)
      <4>1. modules[i] \in S
        BY <3>2
      <4>2. PICK f \in SourceFiles : modules[i] = ModuleOf(disk.files[f])
        BY <4>1
      <4>3. JsonAssumption(disk.files[f]) /\ disk.files[f].imports # Malformed
        BY <2>1, LoadedFacts, ModuleErrorIs
      <4>4. modules[i].imports = disk.files[f].imports
        BY <4>2 DEF ModuleOf
      <4> QED
        BY <4>3, <4>4 DEF JsonAssumption
    <3> HIDE DEF S, ofType
    <3>4. PICK i \in DOMAIN modules :
             /\ \/ modules[i].module = n.module
                \/ \E j \in DOMAIN modules :
                     /\ modules[j].module = n.module
                     /\ \E k \in DOMAIN modules[j].imports :
                          /\ modules[j].imports[k][1] = modules[i].module
                          /\ n.syntax \in modules[j].imports[k][2]
             /\ n.syntax \in DOMAIN modules[i].types
             /\ ResolveType(n.module, n.syntax) = modules[i].types[n.syntax]
      BY <3>1, <3>2, <3>3, TypeIsInScope
    <3>5. /\ value \in DOMAIN modules[i].types[n.syntax]
          /\ rendered[1] = modules[i].types[n.syntax][value]
      BY <2>11, <3>1, <3>4
    <3> HIDE DEF n
    <3> QED
      BY <2>9, <3>4, <3>5 DEF LabelOfShownNode, n
  <2> QED
    BY <2>7, <2>10, <2>11
<1> QED
  BY <1>1, RegistryInvariant, PTL
==============================================================================
