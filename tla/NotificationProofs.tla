-------------------------- MODULE NotificationProofs --------------------------
(* For any notifiers, listeners, engines, notifications and number of calls: *)
(* an inform returns a Response only when its listener has handed it to the  *)
(* application, an event tells what its sender was told to send, and partners*)
(* understand each other, although datagrams are repeated, reordered, lost   *)
(* and cut.  The way there is the codec's: what BER octets are read as, that *)
(* encoded TLVs are read back, alone, one after another and one inside       *)
(* another, that a part of a message is not read as a message, that OIDs,    *)
(* values and PDUs come back as they were, and so that what the notifier     *)
(* takes for the answer to an inform is one the listener has made, and what  *)
(* the listener takes for a notification is one the notifier has sent.       *)
EXTENDS Notification, SequenceLemmas

------------------------------------------------------------------------------
(* Numbers.                                                                 *)

\* dropping digits one at a time
LEMMA QuotientSteps ==
    ASSUME NEW n \in Int, NEW base \in Nat, base > 0
    PROVE  /\ Quotient(n, base, 0) = n
           /\ \A k \in Nat : /\ Quotient(n, base, k) \in Int
                             /\ Quotient(n, base, k + 1) = Quotient(n, base, k) \div base
<1> DEFINE rest(k) ==
             CHOOSE f : f = [j \in 0 .. k |-> IF j = 0 THEN n ELSE f[j - 1] \div base]
<1>1. ASSUME NEW k \in Nat
      PROVE  /\ Quotient(n, base, k) = rest(k)[k]
             /\ rest(k) = [j \in 0 .. k |-> IF j = 0 THEN n ELSE rest(k)[j - 1] \div base]
             /\ \A j \in 0 .. k : rest(k)[j] \in Int
  <2> DEFINE F == [j \in 1 .. k |-> [x \in Int |-> x \div base]]
  <2>1. F \in [1 .. k -> [Int -> Int]]
    OBVIOUS
  <2>2. \A j \in 1 .. k : \A x \in Int : F[j][x] = x \div base
    OBVIOUS
  <2> HIDE DEF F
  <2>3. PICK f \in [0 .. k -> Int] : Iterates(F, n, k, f)
    BY <2>1, IterationExists
  <2>4. f[0] = n /\ \A j \in 1 .. k : f[j] = F[j][f[j - 1]]
    BY <2>3 DEF Iterates
  <2>5. ASSUME NEW j \in 1 .. k PROVE f[j] = f[j - 1] \div base
    <3>1. j - 1 \in 0 .. k
      OBVIOUS
    <3> QED
      BY <2>2, <2>4, <3>1
  <2>6. f = [j \in 0 .. k |-> IF j = 0 THEN n ELSE f[j - 1] \div base]
    BY <2>4, <2>5
  <2>7. rest(k) = [j \in 0 .. k |-> IF j = 0 THEN n ELSE rest(k)[j - 1] \div base]
    BY <2>6
  <2>8. Quotient(n, base, k) = rest(k)[k]
    BY DEF Quotient
  <2> HIDE DEF rest
  <2> DEFINE T == {j \in Nat : j <= k => rest(k)[j] \in Int}
  <2>9. 0 \in T
    BY <2>7
  <2>10. ASSUME NEW j \in Nat, j \in T PROVE j + 1 \in T
    <3>1. SUFFICES ASSUME j + 1 <= k PROVE rest(k)[j + 1] \in Int
      OBVIOUS
    <3>2. rest(k)[j] \in Int /\ j + 1 \in 0 .. k /\ j + 1 # 0 /\ (j + 1) - 1 = j
      BY <2>10, <3>1
    <3>3. rest(k)[j + 1] = rest(k)[j] \div base
      BY <2>7, <3>2
    <3> QED
      BY <3>2, <3>3
  <2>11. Nat \subseteq T
    <3> HIDE DEF T
    <3> QED
      BY <2>9, <2>10, NaturalsByStep
  <2>12. \A j \in 0 .. k : rest(k)[j] \in Int
    BY <2>11
  <2> QED
    BY <2>7, <2>8, <2>12
<1> HIDE DEF rest
<1> DEFINE U == {j \in Nat : \A k \in Nat : j <= k => rest(k)[j] = rest(j)[j]}
<1>2. 0 \in U
  BY <1>1
<1>3. ASSUME NEW j \in Nat, j \in U PROVE j + 1 \in U
  <2>1. ASSUME NEW k \in Nat, j + 1 <= k
        PROVE  rest(k)[j + 1] = rest(j)[j] \div base
    <3>1. j + 1 \in 0 .. k /\ j + 1 # 0 /\ (j + 1) - 1 = j /\ j <= k
      BY <2>1
    <3> QED
      BY <1>1, <1>3, <3>1
  <2>2. rest(j + 1)[j + 1] = rest(j)[j] \div base
    BY <2>1
  <2> QED
    BY <2>1, <2>2
<1>4. Nat \subseteq U
  <2> HIDE DEF U
  <2> QED
    BY <1>2, <1>3, NaturalsByStep
<1>5. Quotient(n, base, 0) = n
  BY <1>1
<1>6. ASSUME NEW k \in Nat
      PROVE  /\ Quotient(n, base, k) \in Int
             /\ Quotient(n, base, k + 1) = Quotient(n, base, k) \div base
  <2>1. Quotient(n, base, k) = rest(k)[k] /\ rest(k)[k] \in Int
    BY <1>1
  <2>2. rest(k + 1)[k] = rest(k)[k]
    BY <1>4
  <2>3. k + 1 \in 0 .. k + 1 /\ k + 1 # 0 /\ (k + 1) - 1 = k /\ k + 1 \in Nat
    OBVIOUS
  <2>4. rest(k + 1)[k + 1] = rest(k + 1)[k] \div base
    BY <1>1, <2>3
  <2> QED
    BY <1>1, <2>1, <2>2, <2>3, <2>4
<1> QED
  BY <1>5, <1>6

\* the value of digits, one after the other
Accumulates(v, digits, base) ==
    /\ v \in [0 .. Len(digits) -> Int] /\ v[0] = 0
    /\ \A i \in 1 .. Len(digits) : v[i] = base * v[i - 1] + digits[i]

LEMMA NumberIs ==
    ASSUME NEW digits \in Seq(Int), NEW base \in Int
    PROVE  /\ \E v : Accumulates(v, digits, base)
           /\ \A v : Accumulates(v, digits, base) => Number(digits, base) = v[Len(digits)]
<1> DEFINE N == Len(digits)
           F == [i \in 1 .. N |-> [x \in Int |-> base * x + digits[i]]]
           value == CHOOSE f : f = [i \in 0 .. N |-> IF i = 0 THEN 0
                                                     ELSE base * f[i - 1] + digits[i]]
<1>1. N \in Nat /\ \A i \in 1 .. N : digits[i] \in Int
  OBVIOUS
<1> HIDE DEF N
<1>2. F \in [1 .. N -> [Int -> Int]]
  BY <1>1
<1>3. \A i \in 1 .. N : \A x \in Int : F[i][x] = base * x + digits[i]
  OBVIOUS
<1> HIDE DEF F
<1> HIDE DEF value
<1>4. PICK f \in [0 .. N -> Int] : Iterates(F, 0, N, f)
  <2>1. 0 \in Int
    OBVIOUS
  <2> QED
    BY <1>1, <1>2, <2>1, IterationExists
<1>5. f[0] = 0 /\ \A i \in 1 .. N : f[i] = F[i][f[i - 1]]
  BY <1>4 DEF Iterates
<1>6. ASSUME NEW i \in 1 .. N PROVE f[i] = base * f[i - 1] + digits[i]
  <2>1. i - 1 \in 0 .. N
    BY <1>1
  <2> QED
    BY <1>3, <1>5, <2>1
<1>7. Accumulates(f, digits, base)
  BY <1>4, <1>5, <1>6 DEF Accumulates, N
<1>8. f = [i \in 0 .. N |-> IF i = 0 THEN 0 ELSE base * f[i - 1] + digits[i]]
  BY <1>4, <1>5, <1>6
<1>9. value = [i \in 0 .. N |-> IF i = 0 THEN 0 ELSE base * value[i - 1] + digits[i]]
  BY <1>8 DEF value
<1>10. Number(digits, base) = value[N]
  BY DEF Number, N, value
<1>11. ASSUME NEW v, Accumulates(v, digits, base) PROVE value[N] = v[N]
  <2> DEFINE T == {i \in Nat : i <= N => value[i] = v[i]}
  <2>1. 0 \in T
    BY <1>1, <1>9, <1>11 DEF Accumulates
  <2>2. ASSUME NEW i \in Nat, i \in T PROVE i + 1 \in T
    <3>1. SUFFICES ASSUME i + 1 <= N PROVE value[i + 1] = v[i + 1]
      OBVIOUS
    <3>2. /\ value[i] = v[i] /\ i + 1 \in 1 .. N /\ i + 1 \in 0 .. N
          /\ i + 1 # 0 /\ (i + 1) - 1 = i
      BY <1>1, <2>2, <3>1
    <3>3. value[i + 1] = base * value[i] + digits[i + 1]
      BY <1>9, <3>2
    <3>4. v[i + 1] = base * v[i] + digits[i + 1]
      BY <1>11, <3>2 DEF Accumulates, N
    <3> QED
      BY <3>2, <3>3, <3>4
  <2>3. Nat \subseteq T
    <3> HIDE DEF T
    <3> QED
      BY <2>1, <2>2, NaturalsByStep
  <2> QED
    BY <1>1, <2>3
<1> QED
  BY <1>7, <1>10, <1>11 DEF N

LEMMA QuotientShrinks ==
    ASSUME NEW x \in Nat, NEW base \in Nat, base >= 2
    PROVE  x \div base \in Nat /\ (x > 0 => x \div base < x)
<1> DEFINE d == x \div base
           m == x % base
<1>1. base > 0
  OBVIOUS
<1>2. d \in Int /\ m \in 0 .. base - 1 /\ x = base * d + m
  BY <1>1
<1> HIDE DEF d, m
<1>3. d >= 0
  <2>1. SUFFICES ASSUME d <= -1 PROVE FALSE
    BY <1>2
  <2>2. base * d <= -base
    BY <1>2, <2>1
  <2> QED
    BY <1>2, <2>2
<1>4. ASSUME x > 0 PROVE d < x
  <2>1. base * d >= 2 * d
    BY <1>2, <1>3
  <2>2. base * d \in Int
    BY <1>2
  <2> QED
    BY <1>2, <1>3, <1>4, <2>1, <2>2
<1> QED
  BY <1>2, <1>3, <1>4 DEF d

LEMMA WidthIs ==
    ASSUME NEW n \in Nat, NEW base \in Nat, base >= 2
    PROVE  /\ Width(n, base) \in Nat \ {0}
           /\ Quotient(n, base, Width(n, base)) = 0
<1> DEFINE Q(k) == Quotient(n, base, k)
<1>1. Q(0) = n /\ \A k \in Nat : Q(k + 1) = Q(k) \div base
  BY QuotientSteps
<1> HIDE DEF Q
<1> DEFINE T == {k \in Nat : Q(k) \in Nat /\ (Q(k) = 0 \/ Q(k) + k <= n)}
<1>2. 0 \in T
  BY <1>1
<1>3. ASSUME NEW k \in Nat, k \in T PROVE k + 1 \in T
  <2>1. Q(k) \in Nat /\ Q(k + 1) = Q(k) \div base
    BY <1>1, <1>3
  <2>2. Q(k + 1) \in Nat /\ (Q(k) > 0 => Q(k + 1) < Q(k))
    BY <2>1, QuotientShrinks
  <2>3. Q(k) = 0 => Q(k + 1) = 0
    BY <2>1
  <2> QED
    BY <1>3, <2>1, <2>2, <2>3
<1>4. Nat \subseteq T
  <2> HIDE DEF T
  <2> QED
    BY <1>2, <1>3, NaturalsByStep
<1>5. Q(n + 1) = 0
  BY <1>4
<1> DEFINE K == {k \in 1 .. n + 1 : Q(k) = 0}
<1>6. PICK w \in K : \A k \in K : w <= k
  <2>1. K \in SUBSET Nat /\ n + 1 \in K
    BY <1>5
  <2> HIDE DEF K
  <2> QED
    BY <2>1, LeastNatural
<1>7. w \in 1 .. n + 1 /\ Q(w) = 0 /\ (w > 1 => Q(w - 1) # 0)
  <2>1. w \in 1 .. n + 1 /\ Q(w) = 0
    BY <1>6
  <2>2. w > 1 => w - 1 \in 1 .. n + 1 /\ ~(w <= w - 1)
    BY <2>1
  <2> QED
    BY <1>6, <2>1, <2>2
<1>8. Width(n, base) = CHOOSE k \in 1 .. n + 1 : Q(k) = 0 /\ (k > 1 => Q(k - 1) # 0)
  BY DEF Width, Q
<1>9. Width(n, base) \in 1 .. n + 1 /\ Q(Width(n, base)) = 0
  BY <1>7, <1>8
<1> QED
  BY <1>9 DEF Q

LEMMA DigitsType ==
    ASSUME NEW n \in Int, NEW base \in Nat, base > 0, NEW k \in Nat
    PROVE  /\ Digits(n, base, k) \in Seq(0 .. base - 1) /\ Len(Digits(n, base, k)) = k
           /\ \A i \in 1 .. k : Digits(n, base, k)[i] = Quotient(n, base, k - i) % base
<1>1. \A i \in 1 .. k : k - i \in Nat
  OBVIOUS
<1>2. \A i \in 1 .. k : Quotient(n, base, k - i) \in Int
  BY <1>1, QuotientSteps
<1>3. \A q \in Int : q % base \in 0 .. base - 1
  OBVIOUS
<1>4. Digits(n, base, k) \in [1 .. k -> 0 .. base - 1]
  BY <1>2, <1>3 DEF Digits
<1> QED
  BY <1>4 DEF Digits

\* what an octet holds
Byte == 0 .. 255

LEMMA BytesAreNumbers == Byte \subseteq Nat /\ Byte \subseteq Int
BY DEF Byte

LEMMA OctetsType ==
    ASSUME NEW n \in Int, NEW k \in Nat
    PROVE  /\ Digits(n, 256, k) \in Seq(Byte) /\ Len(Digits(n, 256, k)) = k
           /\ Digits(n, 256, k) \in [1 .. k -> Byte]
           /\ \A i \in 1 .. k : Digits(n, 256, k)[i] = Quotient(n, 256, k - i) % 256
<1>1. \A i \in 1 .. k : k - i \in Nat
  OBVIOUS
<1>2. \A i \in 1 .. k : Quotient(n, 256, k - i) \in Int
  <2>1. 256 \in Nat /\ 256 > 0
    OBVIOUS
  <2> QED
    BY <1>1, <2>1, QuotientSteps
<1>3. \A q \in Int : q % 256 \in Byte
  BY DEF Byte
<1>4. Digits(n, 256, k) \in [1 .. k -> Byte]
  BY <1>2, <1>3 DEF Digits
<1> QED
  BY <1>4 DEF Digits

LEMMA SignedType == ASSUME NEW x \in Byte PROVE Signed(x) \in Int
BY DEF Signed, Byte

\* decoding the digits of a natural number gives it back
LEMMA DigitsBack ==
    ASSUME NEW n \in Nat, NEW base \in Nat, base > 0, NEW k \in Nat
    PROVE  Quotient(n, base, k) = 0 => Number(Digits(n, base, k), base) = n
<1>0. SUFFICES ASSUME Quotient(n, base, k) = 0 PROVE Number(Digits(n, base, k), base) = n
  OBVIOUS
<1> DEFINE d == Digits(n, base, k)
           v == [i \in 0 .. k |-> Quotient(n, base, k - i)]
<1>1. d \in Seq(Int) /\ Len(d) = k /\ \A i \in 1 .. k : d[i] = Quotient(n, base, k - i) % base
  <2>1. d \in Seq(0 .. base - 1) /\ 0 .. base - 1 \subseteq Int
    BY DigitsType
  <2>2. d \in Seq(Int)
    BY <2>1, SeqMonotonic
  <2> QED
    BY <2>2, DigitsType
<1>2. ASSUME NEW i \in 0 .. k PROVE v[i] \in Int
  BY QuotientSteps
<1>3. ASSUME NEW i \in 1 .. k PROVE v[i] = base * v[i - 1] + d[i]
  <2> DEFINE q == Quotient(n, base, k - i)
  <2>1. k - i \in Nat /\ i - 1 \in 0 .. k /\ k - (i - 1) = (k - i) + 1
    OBVIOUS
  <2>2. q \in Int /\ Quotient(n, base, (k - i) + 1) = q \div base
    BY <2>1, QuotientSteps
  <2>3. v[i] = q /\ v[i - 1] = q \div base /\ d[i] = q % base
    BY <1>1, <2>1, <2>2
  <2> HIDE DEF q, v, d
  <2>4. q = base * (q \div base) + (q % base)
    BY <2>2
  <2> QED
    BY <2>3, <2>4
<1>4. v \in [0 .. k -> Int] /\ v[0] = 0 /\ v[k] = n
  BY <1>0, <1>2, QuotientSteps
<1> HIDE DEF v, d
<1>6. Accumulates(v, d, base)
  BY <1>1, <1>3, <1>4 DEF Accumulates
<1> QED
  BY <1>1, <1>4, <1>6, NumberIs DEF d

\* and decoding as many octets of two's complement as a number needs gives it
\* back with its sign
LEMMA SignedDigitsBack ==
    ASSUME NEW n \in Int, NEW k \in Nat, k > 0
    PROVE  Quotient(n, 256, k - 1) \in -128 .. 127 => SignedNumber(Digits(n, 256, k)) = n
<1>0. SUFFICES ASSUME Quotient(n, 256, k - 1) \in -128 .. 127
               PROVE  SignedNumber(Digits(n, 256, k)) = n
  OBVIOUS
<1> DEFINE s == Digits(n, 256, k)
           d == [s EXCEPT ![1] = Signed(@)]
           v == [i \in 0 .. k |-> IF i = 0 THEN 0 ELSE Quotient(n, 256, k - i)]
<1>q. /\ Quotient(n, 256, 0) = n
      /\ \A j \in Nat : /\ Quotient(n, 256, j) \in Int
                        /\ Quotient(n, 256, j + 1) = Quotient(n, 256, j) \div 256
  <2>1. 256 \in Nat /\ 256 > 0
    OBVIOUS
  <2> QED
    BY <2>1, QuotientSteps
<1>1. /\ s \in Seq(Byte) /\ Len(s) = k /\ s \in [1 .. k -> Byte]
      /\ \A i \in 1 .. k : s[i] = Quotient(n, 256, k - i) % 256
  BY OctetsType
<1>2. d \in Seq(Int) /\ Len(d) = k /\ d[1] = Signed(s[1]) /\ \A i \in 2 .. k : d[i] = s[i]
  <2> HIDE DEF s
  <2>0. \A i \in 1 .. k : s[i] \in Byte
    BY <1>1
  <2>1. 1 \in 1 .. Len(s) /\ s[1] \in Byte
    BY <1>1, <2>0
  <2>2. Signed(s[1]) \in Int
    BY <2>1, SignedType
  <2>3. s \in [1 .. k -> Int]
    BY <1>1, <2>0, BytesAreNumbers, ZenonT(30)
  <2>4. d \in [1 .. k -> Int]
    BY <1>1, <2>2, <2>3
  <2> QED
    BY <1>1, <2>1, <2>3, <2>4
<1>3. ASSUME NEW i \in 0 .. k PROVE v[i] \in Int
  <2>1. i = 0 \/ k - i \in Nat
    OBVIOUS
  <2> QED
    BY <1>q, <2>1
<1>4. ASSUME NEW i \in 1 .. k PROVE v[i] = 256 * v[i - 1] + d[i]
  <2> DEFINE q == Quotient(n, 256, k - i)
  <2>1. k - i \in Nat /\ i - 1 \in 0 .. k /\ k - (i - 1) = (k - i) + 1
    OBVIOUS
  <2>2. q \in Int /\ v[i] = q /\ s[i] = q % 256
    <3>1. q \in Int
      BY <1>q, <2>1
    <3>2. i \in 0 .. k /\ i # 0
      OBVIOUS
    <3>3. v[i] = q
      BY <3>2
    <3>4. s[i] = q % 256
      BY <1>1
    <3> QED
      BY <3>1, <3>3, <3>4
  <2>3. CASE i = 1
    <3>1. d[1] = Signed(q % 256) /\ q \in -128 .. 127 /\ v[0] = 0
      BY <1>0, <1>2, <2>2, <2>3
    <3> HIDE DEF q, v, d, s
    <3> QED
      BY <2>2, <2>3, <3>1 DEF Signed
  <2>4. CASE i # 1
    <3>1. d[i] = q % 256 /\ v[i - 1] = q \div 256
      BY <1>2, <1>q, <2>1, <2>2, <2>4
    <3> HIDE DEF q, v, d, s
    <3> QED
      BY <2>2, <3>1
  <2> QED
    BY <2>3, <2>4
<1>5. v \in [0 .. k -> Int] /\ v[0] = 0 /\ v[k] = n
  BY <1>3, <1>q
<1>6. SignedNumber(s) = Number(d, 256)
  BY DEF SignedNumber
<1> HIDE DEF v, d, s
<1>7. Accumulates(v, d, 256)
  BY <1>2, <1>4, <1>5 DEF Accumulates
<1> QED
  BY <1>2, <1>5, <1>6, <1>7, NumberIs DEF s

\* so many octets as the magnitude needs, and one more, are enough
LEMMA SignedFits ==
    ASSUME NEW n \in Int
    PROVE  LET w == Width(IF n < 0 THEN -n ELSE n, 256) IN
           w \in Nat \ {0} /\ Quotient(n, 256, w) \in {-1, 0}
<1>1. CASE n >= 0
  BY <1>1, WidthIs
<1>2. CASE n < 0
  <2> DEFINE m == -n
             T == {k \in Nat : /\ Quotient(m - 1, 256, k) \in Nat
                               /\ Quotient(n, 256, k) = -1 - Quotient(m - 1, 256, k)
                               /\ Quotient(m - 1, 256, k) <= Quotient(m, 256, k)}
  <2>1. m \in Nat /\ m - 1 \in Nat
    BY <1>2
  <2>q. ASSUME NEW x \in Int
        PROVE  /\ Quotient(x, 256, 0) = x
               /\ \A j \in Nat : /\ Quotient(x, 256, j) \in Int
                                 /\ Quotient(x, 256, j + 1) = Quotient(x, 256, j) \div 256
    <3>1. 256 \in Nat /\ 256 > 0
      OBVIOUS
    <3> QED
      BY <3>1, QuotientSteps
  <2>2. 0 \in T
    <3>1. Quotient(m - 1, 256, 0) = m - 1 /\ Quotient(n, 256, 0) = n /\ Quotient(m, 256, 0) = m
      BY <2>1, <2>q
    <3>2. m - 1 \in Nat /\ n = -1 - (m - 1) /\ m - 1 <= m
      BY <2>1
    <3> HIDE DEF m
    <3> QED
      BY <3>1, <3>2
  <2>3. ASSUME NEW k \in Nat, k \in T PROVE k + 1 \in T
    <3> DEFINE a == Quotient(m - 1, 256, k)
               b == Quotient(n, 256, k)
               c == Quotient(m, 256, k)
    <3>1. /\ a \in Nat /\ b \in Int /\ c \in Int /\ b = -1 - a /\ a <= c
          /\ Quotient(m - 1, 256, k + 1) = a \div 256
          /\ Quotient(n, 256, k + 1) = b \div 256
          /\ Quotient(m, 256, k + 1) = c \div 256
      BY <2>1, <2>3, <2>q
    <3> HIDE DEF a, b, c, m
    <3>2. a \div 256 \in Nat /\ b \div 256 = -1 - (a \div 256) /\ a \div 256 <= c \div 256
      BY <3>1
    <3> QED
      BY <3>1, <3>2
  <2>4. Nat \subseteq T
    <3> HIDE DEF T
    <3> QED
      BY <2>2, <2>3, NaturalsByStep
  <2> DEFINE w == Width(m, 256)
  <2>5. w \in Nat \ {0} /\ Quotient(m, 256, w) = 0
    BY <2>1, WidthIs
  <2> HIDE DEF m, w
  <2>6. w \in T
    BY <2>4, <2>5
  <2>7. Quotient(n, 256, w) = -1
    BY <2>5, <2>6
  <2> QED
    BY <1>2, <2>5, <2>7 DEF w, m
<1> QED
  BY <1>1, <1>2
LEMMA GreatestUpTo ==
    ASSUME NEW N \in Nat, NEW K \in SUBSET (0 .. N), K # {}
    PROVE  Max(K) \in K
<1> DEFINE T == {N - k : k \in K}
<1>1. T \in SUBSET Nat /\ T # {}
  <2>1. \A k \in K : N - k \in Nat
    OBVIOUS
  <2> QED
    BY <2>1
<1>2. PICK n \in T : \A m \in T : n <= m
  <2> HIDE DEF T
  <2> QED
    BY <1>1, LeastNatural
<1>3. PICK x \in K : n = N - x
  BY <1>2
<1>4. \A k \in K : x >= k
  <2>1. TAKE k \in K
  <2>2. N - x <= N - k
    BY <1>2, <1>3
  <2> QED
    BY <1>3, <2>2
<1> QED
  BY <1>3, <1>4 DEF Max

\* leaving out octets that only repeat the sign does not change the number
LEMMA ShortestBack ==
    ASSUME NEW s \in Seq(Byte), s # <<>>
    PROVE  /\ Shortest(s) \in Seq(Byte) /\ Shortest(s) # <<>>
           /\ SignedNumber(Shortest(s)) = SignedNumber(s)
<1> DEFINE N == Len(s)
           J == {j \in 0 .. N - 1 : \A i \in 1 .. j : Redundant(s, i)}
           m == Max(J)
           t == SubSeq(s, 1 + m, N)
           d == [s EXCEPT ![1] = Signed(@)]
           e == [t EXCEPT ![1] = Signed(@)]
<1>1. N \in Nat /\ N >= 1 /\ \A i \in 1 .. N : s[i] \in Byte
  OBVIOUS
<1>2. m \in 0 .. N - 1 /\ \A i \in 1 .. m : Redundant(s, i)
  <2>1. J \in SUBSET (0 .. N - 1) /\ 0 \in J /\ N - 1 \in Nat
    BY <1>1
  <2> HIDE DEF J
  <2>2. m \in J
    BY <2>1, GreatestUpTo
  <2> QED
    BY <2>2 DEF J
<1>3. Shortest(s) = t
  BY DEF Shortest
<1> HIDE DEF m, J
<1>4. /\ t \in Seq(Byte) /\ Len(t) = N - m
      /\ \A i \in 1 .. N - m : t[i] = s[m + i]
  <2>1. 1 + m \in 1 .. N + 1
    BY <1>1, <1>2
  <2>2. SubSeq(s, 1 + m, N) \in Seq(Byte)
    BY <1>1, <2>1, SubSeqProperties
  <2>3. Len(t) = N - m
    BY <1>1, <1>2, <2>1, SubSeqProperties
  <2>4. \A i \in 1 .. N - m : t[i] = s[m + i]
    BY <1>1, <1>2
  <2> QED
    BY <2>2, <2>3, <2>4
<1>5. ASSUME NEW q \in Seq(Byte), Len(q) >= 1
      PROVE  LET f == [q EXCEPT ![1] = Signed(@)] IN
             /\ f \in Seq(Int) /\ Len(f) = Len(q) /\ f[1] = Signed(q[1])
             /\ \A i \in 2 .. Len(q) : f[i] = q[i]
  <2> DEFINE k == Len(q)
             f == [q EXCEPT ![1] = Signed(@)]
  <2>1. k \in Nat /\ k >= 1 /\ q \in [1 .. k -> Byte] /\ 1 \in 1 .. k /\ q[1] \in Byte
    BY <1>5
  <2>2. Signed(q[1]) \in Int
    BY <2>1, SignedType
  <2>3. q \in [1 .. k -> Int]
    BY <2>1, BytesAreNumbers
  <2> HIDE DEF k
  <2>4. f \in [1 .. k -> Int]
    BY <2>2, <2>3
  <2> QED
    BY <2>1, <2>3, <2>4 DEF k
<1>6. /\ d \in Seq(Int) /\ Len(d) = N /\ d[1] = Signed(s[1])
      /\ \A i \in 2 .. N : d[i] = s[i]
  BY <1>1, <1>5
<1>7. /\ e \in Seq(Int) /\ Len(e) = N - m /\ e[1] = Signed(t[1])
      /\ \A i \in 2 .. N - m : e[i] = t[i]
  <2>1. Len(t) >= 1
    BY <1>1, <1>2, <1>4
  <2> HIDE DEF t
  <2> QED
    BY <1>4, <1>5, <2>1
<1>8. SignedNumber(s) = Number(d, 256) /\ SignedNumber(t) = Number(e, 256)
  BY DEF SignedNumber
<1> HIDE DEF N, t, d, e
<1>9. PICK v : Accumulates(v, d, 256)
  <2>1. 256 \in Int
    OBVIOUS
  <2> QED
    BY <1>6, <2>1, NumberIs
<1>10. /\ v \in [0 .. N -> Int] /\ v[0] = 0
       /\ \A i \in 1 .. N : v[i] = 256 * v[i - 1] + d[i]
  BY <1>6, <1>9 DEF Accumulates
<1> DEFINE T == {i \in Nat : i <= m => v[i + 1] = Signed(s[i + 1])}
<1>11. 0 \in T
  <2>1. 1 \in 1 .. N /\ 1 - 1 = 0 /\ d[1] \in Int
    BY <1>1, <1>6
  <2>2. v[1] = 256 * 0 + d[1]
    BY <1>10, <2>1
  <2> QED
    BY <1>6, <2>1, <2>2
<1>12. ASSUME NEW i \in Nat, i \in T PROVE i + 1 \in T
  <2>1. SUFFICES ASSUME i + 1 <= m PROVE v[(i + 1) + 1] = Signed(s[(i + 1) + 1])
    OBVIOUS
  <2> DEFINE a == s[i + 1]
             b == s[(i + 1) + 1]
  <2>2. /\ i + 1 \in 1 .. m /\ i + 1 \in 1 .. N /\ (i + 1) + 1 \in 2 .. N
        /\ (i + 1) + 1 \in 1 .. N /\ ((i + 1) + 1) - 1 = i + 1 /\ i <= m
    BY <1>1, <1>2, <2>1
  <2>3. a \in Byte /\ b \in Byte /\ v[i + 1] = Signed(a) /\ d[(i + 1) + 1] = b
    BY <1>1, <1>6, <1>12, <2>2
  <2>4. (a = 0 /\ b < 128) \/ (a = 255 /\ b >= 128)
    BY <1>2, <2>2 DEF Redundant
  <2>5. v[(i + 1) + 1] = 256 * Signed(a) + b
    BY <1>10, <2>2, <2>3
  <2> HIDE DEF a, b
  <2>6. 256 * Signed(a) + b = Signed(b)
    BY <2>3, <2>4 DEF Signed, Byte
  <2> QED
    BY <2>5, <2>6 DEF b
<1>13. v[m + 1] = Signed(s[m + 1])
  <2>1. Nat \subseteq T
    <3> HIDE DEF T
    <3> QED
      BY <1>11, <1>12, NaturalsByStep
  <2> QED
    BY <1>2, <2>1
<1> DEFINE w == [j \in 0 .. N - m |-> IF j = 0 THEN 0 ELSE v[m + j]]
<1>14. w \in [0 .. N - m -> Int] /\ w[0] = 0 /\ w[N - m] = v[N]
  <2>1. \A j \in 0 .. N - m : m + j \in 0 .. N
    BY <1>1, <1>2
  <2>2. N - m \in 0 .. N - m /\ N - m # 0 /\ m + (N - m) = N /\ 0 \in 0 .. N - m
    BY <1>1, <1>2
  <2> QED
    BY <1>10, <2>1, <2>2
<1>15. ASSUME NEW j \in 1 .. N - m PROVE w[j] = 256 * w[j - 1] + e[j]
  <2>1. /\ j \in 0 .. N - m /\ j - 1 \in 0 .. N - m /\ m + j \in 1 .. N /\ j # 0
        /\ (m + j) - 1 = m + (j - 1)
    BY <1>1, <1>2
  <2>2. CASE j = 1
    <3>1. w[j] = v[m + 1] /\ w[j - 1] = 0 /\ e[j] = Signed(t[1]) /\ t[1] = s[m + 1]
      BY <1>4, <1>7, <2>1, <2>2
    <3>2. e[j] \in Int
      BY <1>7
    <3> QED
      BY <1>13, <3>1, <3>2
  <2>3. CASE j # 1
    <3>1. w[j] = v[m + j] /\ w[j - 1] = v[m + (j - 1)]
      BY <2>1, <2>3
    <3>2. m + j \in 2 .. N /\ j \in 2 .. N - m
      BY <1>2, <2>1, <2>3
    <3>3. e[j] = s[m + j] /\ d[m + j] = s[m + j]
      BY <1>4, <1>6, <1>7, <2>1, <3>2
    <3>4. v[m + j] = 256 * v[m + (j - 1)] + d[m + j]
      BY <1>10, <2>1
    <3> QED
      BY <3>1, <3>3, <3>4
  <2> QED
    BY <2>2, <2>3
<1>16. Accumulates(w, e, 256)
  BY <1>7, <1>14, <1>15 DEF Accumulates
<1>17. Number(d, 256) = v[N] /\ Number(e, 256) = w[N - m]
  <2>1. 256 \in Int
    OBVIOUS
  <2> HIDE DEF w
  <2>2. Number(d, 256) = v[N]
    BY <1>6, <1>9, <2>1, NumberIs
  <2>3. Number(e, 256) = w[N - m]
    BY <1>7, <1>16, <2>1, NumberIs
  <2> QED
    BY <2>2, <2>3
<1>18. t # <<>>
  BY <1>1, <1>2, <1>4
<1> QED
  BY <1>3, <1>4, <1>8, <1>14, <1>17, <1>18

\* every number survives its encoding as an INTEGER
LEMMA SignedContentBack ==
    ASSUME NEW n \in Int
    PROVE  /\ SignedContent(n) \in Seq(Byte) /\ SignedContent(n) # <<>>
           /\ SignedNumber(SignedContent(n)) = n
<1> DEFINE w == Width(IF n < 0 THEN -n ELSE n, 256)
<1>1. w \in Nat /\ Quotient(n, 256, w) \in {-1, 0}
  BY SignedFits
<1>2. SignedContent(n) = Shortest(Digits(n, 256, 1 + w))
  BY DEF SignedContent
<1> HIDE DEF w
<1>3. PICK k \in Nat : k = 1 + w /\ k > 0 /\ k - 1 = w
  BY <1>1
<1> DEFINE s == Digits(n, 256, k)
<1>4. s \in Seq(Byte) /\ Len(s) = k
  BY OctetsType
<1>5. Quotient(n, 256, k - 1) \in -128 .. 127
  BY <1>1, <1>3
<1>6. SignedNumber(s) = n
  BY <1>3, <1>5, SignedDigitsBack, ZenonT(30)
<1>7. s # <<>>
  BY <1>3, <1>4
<1>8. SignedContent(n) = Shortest(s)
  BY <1>2, <1>3
<1> HIDE DEF s
<1> QED
  BY <1>4, <1>6, <1>7, <1>8, ShortestBack

------------------------------------------------------------------------------
(* Tag, length, content.                                                    *)

TlvRecord == [tag : Nat, content : Seq(Nat), next : Nat]

LEMMA BytesAreOctets == ASSUME NEW s \in Seq(Byte) PROVE s \in Seq(Nat) /\ s \in Seq(Int)
BY BytesAreNumbers, SeqMonotonic

LEMMA OctetsAreNumbers == ASSUME NEW s \in Seq(Nat) PROVE s \in Seq(Int)
<1>1. Nat \subseteq Int
  OBVIOUS
<1> QED
  BY <1>1, SeqMonotonic

\* digits that are natural numbers make a natural number
LEMMA NumberType ==
    ASSUME NEW s \in Seq(Nat), NEW base \in Nat
    PROVE  Number(s, base) \in Nat
<1>1. s \in Seq(Int) /\ base \in Int
  BY OctetsAreNumbers
<1>2. PICK v : Accumulates(v, s, base)
  BY <1>1, NumberIs
<1>3. Number(s, base) = v[Len(s)]
  BY <1>1, <1>2, NumberIs
<1> DEFINE N == Len(s)
           T == {i \in Nat : i <= N => v[i] \in Nat}
<1>4. 0 \in T
  BY <1>2 DEF Accumulates
<1>5. ASSUME NEW i \in Nat, i \in T PROVE i + 1 \in T
  <2>1. SUFFICES ASSUME i + 1 <= N PROVE v[i + 1] \in Nat
    OBVIOUS
  <2>2. i + 1 \in 1 .. Len(s) /\ (i + 1) - 1 = i /\ v[i] \in Nat
    BY <1>5, <2>1
  <2>3. v[i + 1] = base * v[i] + s[i + 1] /\ s[i + 1] \in Nat
    BY <1>2, <2>2 DEF Accumulates
  <2>4. base * v[i] \in Nat
    BY <2>2
  <2> QED
    BY <2>3, <2>4
<1>6. Nat \subseteq T
  <2> HIDE DEF T
  <2> QED
    BY <1>4, <1>5, NaturalsByStep
<1> QED
  BY <1>3, <1>6

LEMMA OneElement ==
    ASSUME NEW S, NEW x \in S
    PROVE  \E a \in Seq(S) : a = <<x>> /\ Len(a) = 1 /\ a[1] = x
<1>1. <<x>> \in Seq(S)
  OBVIOUS
<1> QED
  BY <1>1

\* a TLV lies within the octets it is read from and is not empty
LEMMA TlvAtType ==
    ASSUME NEW b \in Seq(Nat), NEW i \in 1 .. Len(b)
    PROVE  /\ TlvAt(b, i) \in TlvRecord
           /\ TlvAt(b, i) # NoTlv => TlvAt(b, i).next \in i + 1 .. Len(b) + 1
<1>1. NoTlv \in TlvRecord
  BY DEF NoTlv, TlvRecord
<1>2. ASSUME NEW j \in Nat, j > i, NEW n \in Nat
      PROVE  LET t == ContentAt(b, b[i], j, n) IN
             t \in TlvRecord /\ (t # NoTlv => t.next \in i + 1 .. Len(b) + 1)
  <2>1. CASE j + n - 1 > Len(b)
    BY <1>1, <2>1 DEF ContentAt
  <2>2. CASE ~(j + n - 1 > Len(b))
    <3>1. \A k \in j .. j + n - 1 : b[k] \in Nat
      BY <1>2, <2>2
    <3>2. SubSeq(b, j, j + n - 1) \in Seq(Nat)
      BY <1>2, <3>1, SubSeqProperties
    <3>3. b[i] \in Nat /\ j + n \in Nat /\ j + n \in i + 1 .. Len(b) + 1
      BY <1>2, <2>2
    <3> QED
      BY <2>2, <3>2, <3>3 DEF ContentAt, TlvRecord
  <2> QED
    BY <2>1, <2>2
<1>3. CASE i + 1 > Len(b)
  BY <1>1, <1>3 DEF TlvAt
<1>4. CASE ~(i + 1 > Len(b))
  <2>1. i + 1 \in 1 .. Len(b) /\ b[i + 1] \in Nat
    BY <1>4
  <2>2. CASE b[i + 1] < 128
    <3>1. i + 2 \in Nat /\ i + 2 > i
      OBVIOUS
    <3>2. TlvAt(b, i) = ContentAt(b, b[i], i + 2, b[i + 1])
      BY <1>4, <2>2 DEF TlvAt
    <3> QED
      BY <1>2, <2>1, <3>1, <3>2
  <2>3. CASE ~(b[i + 1] < 128)
    <3> DEFINE count == b[i + 1] - 128
    <3>1. count \in Nat
      BY <2>1, <2>3
    <3>2. CASE count = 0 \/ i + 1 + count > Len(b)
      BY <1>1, <1>4, <2>3, <3>2 DEF TlvAt
    <3>3. CASE ~(count = 0 \/ i + 1 + count > Len(b))
      <4>1. ASSUME NEW k \in i + 2 .. i + 1 + count PROVE b[k] \in Nat
        <5>1. i + 1 + count <= Len(b) /\ count \in Nat
          BY <3>1, <3>3
        <5> HIDE DEF count
        <5>2. k \in 1 .. Len(b)
          BY <5>1
        <5> QED
          BY <5>2
      <4> DEFINE s == SubSeq(b, i + 2, i + 1 + count)
                 n == Number(s, 256)
      <4>2. s \in Seq(Nat)
        BY <3>1, <4>1, SubSeqProperties
      <4>3. n \in Nat
        <5>1. 256 \in Nat
          OBVIOUS
        <5> HIDE DEF s
        <5> QED
          BY <4>2, <5>1, NumberType
      <4>4. i + 2 + count \in Nat /\ i + 2 + count > i
        BY <3>1
      <4>5. TlvAt(b, i) = ContentAt(b, b[i], i + 2 + count, n)
        BY <1>4, <2>3, <3>3 DEF TlvAt
      <4> HIDE DEF n, count
      <4> QED
        BY <1>2, <4>3, <4>4, <4>5
    <3> QED
      BY <3>2, <3>3
  <2> QED
    BY <2>2, <2>3
<1> QED
  BY <1>3, <1>4

\* the TLVs read from each position of b
ReadsFrom(f, b) ==
    /\ f \in [1 .. Len(b) + 1 -> Seq(TlvRecord)]
    /\ f[Len(b) + 1] = <<>>
    /\ \A i \in 1 .. Len(b) :
        f[i] = <<TlvAt(b, i)>> \o (IF TlvAt(b, i) = NoTlv THEN <<>> ELSE f[TlvAt(b, i).next])

LEMMA TlvsRead ==
    ASSUME NEW b \in Seq(Nat)
    PROVE  \E f : ReadsFrom(f, b) /\ Tlvs(b) = f[1]
<1> DEFINE L == Len(b)
           t(i) == TlvAt(b, i)
           S == [1 .. L + 1 -> Seq(TlvRecord)]
           After(f, i) == <<t(i)>> \o (IF t(i) = NoTlv THEN <<>> ELSE f[t(i).next])
           Then(x, from) == <<x>> \o (IF x = NoTlv THEN <<>> ELSE from[x.next])
           from == CHOOSE f : f = [i \in 1 .. L + 1 |-> IF i > L THEN <<>> ELSE Then(t(i), f)]
           F == [k \in 1 .. L |-> [f \in S |-> [f EXCEPT ![L + 1 - k] = After(f, L + 1 - k)]]]
<1>1. L \in Nat
  OBVIOUS
<1>2. ASSUME NEW i \in 1 .. L
      PROVE  /\ t(i) \in TlvRecord
             /\ t(i) # NoTlv => t(i).next \in i + 1 .. L + 1
  BY TlvAtType
<1>3. Tlvs(b) = from[1]
  BY DEF Tlvs
<1> HIDE DEF L, t, from
<1>4. ASSUME NEW f \in S, NEW i \in 1 .. L PROVE After(f, i) \in Seq(TlvRecord)
  <2>1. <<t(i)>> \in Seq(TlvRecord) /\ <<>> \in Seq(TlvRecord)
    BY <1>2
  <2>2. t(i) # NoTlv => f[t(i).next] \in Seq(TlvRecord)
    <3>1. SUFFICES ASSUME t(i) # NoTlv PROVE t(i).next \in 1 .. L + 1
      OBVIOUS
    <3> QED
      BY <1>1, <1>2, <3>1
  <2> QED
    BY <2>1, <2>2, ConcatProperties
<1>5. F \in [1 .. L -> [S -> S]]
  <2>1. ASSUME NEW k \in 1 .. L, NEW f \in S
        PROVE  [f EXCEPT ![L + 1 - k] = After(f, L + 1 - k)] \in S
    <3>1. L + 1 - k \in 1 .. L
      BY <1>1
    <3>2. After(f, L + 1 - k) \in Seq(TlvRecord)
      BY <1>4, <3>1
    <3> HIDE DEF After
    <3> QED
      BY <3>1, <3>2
  <2> HIDE DEF S, After
  <2> QED
    BY <2>1
<1>6. \A k \in 1 .. L : \A f \in S : F[k][f] = [f EXCEPT ![L + 1 - k] = After(f, L + 1 - k)]
  OBVIOUS
<1> DEFINE start == [i \in 1 .. L + 1 |-> <<>>]
<1>7. start \in S
  OBVIOUS
<1> HIDE DEF F
<1>8. PICK h \in [0 .. L -> S] : Iterates(F, start, L, h)
  <2> HIDE DEF S, start
  <2> QED
    BY <1>1, <1>5, <1>7, IterationExists
<1>9. /\ h[0] = start
      /\ \A k \in 1 .. L : h[k] = [h[k - 1] EXCEPT ![L + 1 - k] = After(h[k - 1], L + 1 - k)]
  <2> HIDE DEF S, start, After
  <2>0. ASSUME NEW k \in 1 .. L PROVE k - 1 \in 0 .. L
    BY <1>1
  <2>1. h[0] = start /\ \A k \in 1 .. L : h[k] = F[k][h[k - 1]] /\ h[k - 1] \in S
    BY <1>8, <2>0 DEF Iterates
  <2> QED
    BY <1>6, <2>1
<1> DEFINE T == {k \in Nat : k <= L =>
                    /\ h[k][L + 1] = <<>>
                    /\ \A i \in L + 1 - k .. L : h[k][i] = After(h[k], i)}
<1>10. 0 \in T
  BY <1>1, <1>9, SMTT(30)
<1>11. ASSUME NEW k \in Nat, k \in T PROVE k + 1 \in T
  <2>1. SUFFICES ASSUME k + 1 <= L
                 PROVE  /\ h[k + 1][L + 1] = <<>>
                        /\ \A i \in L - k .. L : h[k + 1][i] = After(h[k + 1], i)
    <3>1. k + 1 \in Nat /\ L + 1 - (k + 1) = L - k
      BY <1>1
    <3> HIDE DEF After
    <3> QED
      BY <3>1
  <2>2. /\ k + 1 \in 1 .. L /\ (k + 1) - 1 = k /\ k \in 0 .. L /\ k + 1 \in 0 .. L
        /\ L + 1 - (k + 1) = L - k /\ L - k \in 1 .. L
    BY <1>1, <2>1
  <2>3. /\ h[k] \in S /\ h[k + 1] \in S
        /\ h[k + 1] = [h[k] EXCEPT ![L - k] = After(h[k], L - k)]
    BY <1>9, <2>2
  <2>4. /\ h[k][L + 1] = <<>>
        /\ \A i \in L + 1 - k .. L : h[k][i] = After(h[k], i)
    <3>1. k <= L
      BY <1>1, <2>1
    <3> HIDE DEF After
    <3> QED
      BY <1>11, <3>1
  <2> HIDE DEF After
  <2>5. /\ h[k + 1][L - k] = After(h[k], L - k)
        /\ \A i \in L + 1 - k .. L + 1 : h[k + 1][i] = h[k][i]
    BY <1>1, <2>2, <2>3
  <2>6. ASSUME NEW i \in L - k .. L PROVE After(h[k + 1], i) = After(h[k], i)
    <3>1. i \in 1 .. L
      BY <1>1, <2>2
    <3>2. t(i) # NoTlv => t(i).next \in L + 1 - k .. L + 1
      <4>1. SUFFICES ASSUME t(i) # NoTlv PROVE t(i).next \in L + 1 - k .. L + 1
        OBVIOUS
      <4>2. t(i).next \in i + 1 .. L + 1
        BY <1>2, <3>1, <4>1
      <4> QED
        BY <1>1, <2>2, <4>2
    <3>3. t(i) # NoTlv => h[k + 1][t(i).next] = h[k][t(i).next]
      BY <2>5, <3>2
    <3> QED
      BY <3>3 DEF After
  <2>7. ASSUME NEW i \in L - k .. L PROVE h[k + 1][i] = After(h[k + 1], i)
    <3>1. CASE i = L - k
      BY <2>5, <2>6, <3>1
    <3>2. CASE i # L - k
      <4>1. i \in L + 1 - k .. L /\ i \in L + 1 - k .. L + 1
        BY <1>1, <2>2, <3>2
      <4> QED
        BY <2>4, <2>5, <2>6, <4>1
    <3> QED
      BY <3>1, <3>2
  <2>8. L + 1 \in L + 1 - k .. L + 1
    BY <1>1
  <2> QED
    BY <2>4, <2>5, <2>7, <2>8
<1>12. L \in T
  <2> HIDE DEF T
  <2> QED
    BY <1>1, <1>10, <1>11, NaturalsByStep
<1> DEFINE g == h[L]
<1>13. /\ g \in S /\ g[L + 1] = <<>>
       /\ \A i \in 1 .. L : g[i] = After(g, i)
  <2>1. L \in 0 .. L /\ L + 1 - L = 1
    BY <1>1
  <2> QED
    BY <1>12, <2>1
<1> HIDE DEF g
<1>14. ASSUME NEW f, NEW i \in 1 .. L PROVE After(f, i) = Then(t(i), f)
  OBVIOUS
<1> HIDE DEF After, Then
<1>15. g = [i \in 1 .. L + 1 |-> IF i > L THEN <<>> ELSE Then(t(i), g)]
  <2>1. ASSUME NEW i \in 1 .. L + 1 PROVE g[i] = IF i > L THEN <<>> ELSE Then(t(i), g)
    <3>1. CASE i > L
      <4>1. i = L + 1
        BY <1>1, <3>1
      <4> QED
        BY <1>13, <3>1, <4>1
    <3>2. CASE ~(i > L)
      <4>1. i \in 1 .. L
        BY <1>1, <3>2
      <4> QED
        BY <1>13, <1>14, <3>2, <4>1
    <3> QED
      BY <3>1, <3>2
  <2> QED
    BY <1>13, <2>1
<1>16. from = [i \in 1 .. L + 1 |-> IF i > L THEN <<>> ELSE Then(t(i), from)]
  BY <1>15 DEF from
<1>17. \A i \in 1 .. L + 1 : from[i] = IF i > L THEN <<>> ELSE Then(t(i), from)
  BY <1>16
<1>18. from[L + 1] = <<>> /\ \A i \in 1 .. L : from[i] = After(from, i)
  <2>1. L + 1 \in 1 .. L + 1 /\ L + 1 > L
    BY <1>1
  <2>2. \A i \in 1 .. L : i \in 1 .. L + 1 /\ ~(i > L)
    BY <1>1
  <2> QED
    BY <1>14, <1>17, <2>1, <2>2
<1>19. ASSUME NEW i \in 1 .. L + 1 PROVE from[i] = g[i]
  <2> DEFINE U == {k \in Nat : k <= L => \A j \in L + 1 - k .. L + 1 : from[j] = g[j]}
  <2>1. 0 \in U
    <3>1. \A j \in L + 1 - 0 .. L + 1 : j = L + 1
      BY <1>1
    <3> QED
      BY <1>13, <1>18, <3>1
  <2>2. ASSUME NEW k \in Nat, k \in U PROVE k + 1 \in U
    <3>1. SUFFICES ASSUME k + 1 <= L, NEW j \in L + 1 - (k + 1) .. L + 1 PROVE from[j] = g[j]
      OBVIOUS
    <3>2. \A x \in L + 1 - k .. L + 1 : from[x] = g[x]
      BY <1>1, <2>2, <3>1
    <3>3. CASE j = L + 1 - (k + 1)
      <4>1. j \in 1 .. L /\ j + 1 = L + 1 - k
        BY <1>1, <3>1, <3>3
      <4>2. t(j) # NoTlv => from[t(j).next] = g[t(j).next]
        BY <1>2, <3>2, <4>1
      <4> QED
        BY <1>13, <1>18, <4>1, <4>2 DEF After
    <3>4. CASE j # L + 1 - (k + 1)
      <4>1. j \in L + 1 - k .. L + 1
        BY <1>1, <3>1, <3>4
      <4> QED
        BY <3>2, <4>1
    <3> QED
      BY <3>3, <3>4
  <2>3. L \in U
    <3> HIDE DEF U
    <3> QED
      BY <1>1, <2>1, <2>2, NaturalsByStep
  <2>4. i \in L + 1 - L .. L + 1
    BY <1>1
  <2> QED
    BY <1>1, <2>3, <2>4
<1>20. 1 \in 1 .. L + 1
  BY <1>1
<1>21. ReadsFrom(g, b)
  BY <1>13 DEF ReadsFrom, After, L, t
<1> QED
  BY <1>3, <1>19, <1>20, <1>21
\* b is nothing but the TLVs ts, one after the other
Consists(b, ts) ==
    /\ ts \in Seq(TlvRecord)
    /\ \E p \in [1 .. Len(ts) + 1 -> Nat] :
        /\ p[1] = 1 /\ p[Len(ts) + 1] = Len(b) + 1
        /\ \A i \in 1 .. Len(ts) :
            /\ p[i] \in 1 .. Len(b)
            /\ ts[i] = TlvAt(b, p[i]) /\ ts[i] # NoTlv /\ ts[i].next = p[i + 1]

LEMMA ConsistsTlvs ==
    ASSUME NEW b \in Seq(Nat), NEW ts, Consists(b, ts)
    PROVE  Tlvs(b) = ts
<1>1. ts \in Seq(TlvRecord)
  BY DEF Consists
<1> DEFINE n == Len(ts)
<1>2. PICK p \in [1 .. n + 1 -> Nat] :
        /\ p[1] = 1 /\ p[n + 1] = Len(b) + 1
        /\ \A i \in 1 .. n : /\ p[i] \in 1 .. Len(b)
                             /\ ts[i] = TlvAt(b, p[i]) /\ ts[i] # NoTlv /\ ts[i].next = p[i + 1]
  BY DEF Consists
<1>3. PICK f : ReadsFrom(f, b) /\ Tlvs(b) = f[1]
  BY TlvsRead
<1>4. /\ f \in [1 .. Len(b) + 1 -> Seq(TlvRecord)]
      /\ f[Len(b) + 1] = <<>>
      /\ \A i \in 1 .. Len(b) :
           TlvAt(b, i) # NoTlv => f[i] = <<TlvAt(b, i)>> \o f[TlvAt(b, i).next]
  BY <1>3 DEF ReadsFrom
<1>5. n \in Nat /\ \A i \in 1 .. n : ts[i] \in TlvRecord
  BY <1>1
<1> HIDE DEF n
<1> DEFINE rest(k) == f[p[n + 1 - k]]
           T == {k \in Nat : k <= n => /\ rest(k) \in Seq(TlvRecord) /\ Len(rest(k)) = k
                                       /\ \A j \in 1 .. k : rest(k)[j] = ts[n - k + j]}
<1>6. 0 \in T
  <2>1. rest(0) = <<>>
    BY <1>2, <1>4, <1>5
  <2>2. <<>> \in Seq(TlvRecord) /\ Len(<<>>) = 0
    BY EmptySeq
  <2>3. \A j \in 1 .. 0 : FALSE
    OBVIOUS
  <2> HIDE DEF rest
  <2> QED
    BY <2>1, <2>2, <2>3
<1>7. ASSUME NEW k \in Nat, k \in T PROVE k + 1 \in T
  <2>1. SUFFICES ASSUME k + 1 <= n
                 PROVE  /\ rest(k + 1) \in Seq(TlvRecord) /\ Len(rest(k + 1)) = k + 1
                        /\ \A j \in 1 .. k + 1 : rest(k + 1)[j] = ts[n - (k + 1) + j]
    <3> HIDE DEF rest
    <3> QED
      OBVIOUS
  <2>2. PICK i \in 1 .. n : i = n + 1 - (k + 1) /\ i + 1 = n + 1 - k /\ i = n - k
    BY <1>5, <2>1
  <2>3. rest(k + 1) = f[p[i]] /\ rest(k) = f[p[i + 1]]
    BY <2>2
  <2>4. f[p[i]] = <<ts[i]>> \o f[p[i + 1]]
    BY <1>2, <1>4, ZenonT(30)
  <2>5. /\ rest(k) \in Seq(TlvRecord) /\ Len(rest(k)) = k
        /\ \A j \in 1 .. k : rest(k)[j] = ts[n - k + j]
    <3>1. k <= n
      BY <1>5, <2>1
    <3> HIDE DEF rest
    <3> QED
      BY <1>7, <3>1
  <2>6. rest(k + 1) = <<ts[i]>> \o rest(k)
    BY <2>3, <2>4
  <2> HIDE DEF rest
  <2>7. PICK a \in Seq(TlvRecord) : a = <<ts[i]>> /\ Len(a) = 1 /\ a[1] = ts[i]
    BY <1>5, OneElement
  <2>8. PICK r \in Seq(TlvRecord) : r = rest(k) /\ Len(r) = k
    BY <2>5
  <2>9. /\ a \o r \in Seq(TlvRecord) /\ Len(a \o r) = Len(a) + Len(r)
        /\ \A j \in 1 .. Len(a) + Len(r) : (a \o r)[j] = IF j <= Len(a) THEN a[j] ELSE r[j - Len(a)]
    BY ConcatProperties
  <2>10. Len(a) + Len(r) = k + 1 /\ rest(k + 1) = a \o r
    BY <2>6, <2>7, <2>8
  <2>11. ASSUME NEW j \in 1 .. k + 1 PROVE rest(k + 1)[j] = ts[n - (k + 1) + j]
    <3>1. CASE j = 1
      <4>1. n - (k + 1) + j = i
        BY <1>5, <2>2, <3>1
      <4>2. (a \o r)[1] = a[1]
        BY <2>7, <2>9, <2>10
      <4> QED
        BY <2>7, <2>10, <3>1, <4>1, <4>2
    <3>2. CASE j # 1
      <4>1. j - 1 \in 1 .. k /\ ~(j <= 1) /\ n - (k + 1) + j = n - k + (j - 1)
        BY <1>5, <3>2
      <4>2. (a \o r)[j] = r[j - 1]
        BY <2>7, <2>9, <2>10, <4>1
      <4> QED
        BY <2>5, <2>8, <2>10, <4>1, <4>2
    <3> QED
      BY <3>1, <3>2
  <2> QED
    BY <2>9, <2>10, <2>11
<1>8. n \in T
  <2> HIDE DEF T
  <2> QED
    BY <1>5, <1>6, <1>7, NaturalsByStep
<1>9. rest(n) = f[1]
  <2>1. n + 1 - n = 1
    BY <1>5
  <2> QED
    BY <1>2, <2>1
<1> HIDE DEF rest
<1>10. /\ f[1] \in Seq(TlvRecord) /\ Len(f[1]) = Len(ts)
       /\ \A j \in 1 .. Len(f[1]) : f[1][j] = ts[j]
  <2>1. \A j \in 1 .. n : n - n + j = j
    BY <1>5
  <2> QED
    BY <1>5, <1>8, <1>9, <2>1 DEF n
<1>11. f[1] = ts
  BY <1>1, <1>10, SeqEqual
<1> QED
  BY <1>3, <1>11

LEMMA ConsistsNone == Consists(<<>>, <<>>)
<1> DEFINE p == [i \in 1 .. 0 + 1 |-> 1]
<1>1. p \in [1 .. 0 + 1 -> Nat] /\ p[1] = 1
  OBVIOUS
<1>2. <<>> \in Seq(TlvRecord) /\ Len(<<>>) = 0
  BY EmptySeq
<1> HIDE DEF p
<1> QED
  BY <1>1, <1>2 DEF Consists

\* s stands in b from position i on
Holds(b, i, s) ==
    /\ i \in 1 .. Len(b) + 1 /\ i + Len(s) - 1 <= Len(b)
    /\ \A k \in 1 .. Len(s) : b[i + k - 1] = s[k]

\* the octets of a length n, in the short form or a long one
LengthForm(l, n) ==
    \/ n < 128 /\ l = <<n>>
    \/ \E d \in Seq(Nat) : /\ Len(d) > 0 /\ Number(d, 256) = n
                           /\ l = <<128 + Len(d)>> \o d

\* s is a TLV with this tag and content
Encodes(s, tag, content) ==
    /\ tag \in Nat /\ content \in Seq(Nat)
    /\ \E l \in Seq(Nat) : LengthForm(l, Len(content)) /\ s = <<tag>> \o l \o content

LEMMA LengthIsRead ==
    ASSUME NEW n \in Nat
    PROVE  LengthOctets(n) \in Seq(Nat) /\ LengthForm(LengthOctets(n), n)
<1>1. CASE n < 128
  BY <1>1 DEF LengthOctets, LengthForm
<1>2. CASE ~(n < 128)
  <2>1. PICK w \in Nat : w = Width(n, 256) /\ w > 0 /\ Quotient(n, 256, w) = 0
    <3>1. 256 \in Nat /\ 256 >= 2
      OBVIOUS
    <3> QED
      BY <3>1, WidthIs
  <2> DEFINE d == Digits(n, 256, w)
  <2>2. d \in Seq(Byte) /\ Len(d) = w
    BY OctetsType
  <2>3. Number(d, 256) = n
    <3>1. 256 \in Nat /\ 256 > 0
      OBVIOUS
    <3> QED
      BY <2>1, <3>1, DigitsBack
  <2>4. LengthOctets(n) = <<128 + w>> \o d
    BY <1>2, <2>1 DEF LengthOctets
  <2> HIDE DEF d
  <2>5. d \in Seq(Nat)
    BY <2>2, BytesAreOctets
  <2>6. <<128 + w>> \in Seq(Nat)
    BY <2>1
  <2>7. LengthOctets(n) \in Seq(Nat)
    BY <2>4, <2>5, <2>6, ConcatProperties
  <2> QED
    BY <2>1, <2>2, <2>3, <2>4, <2>5, <2>7, ZenonT(30) DEF LengthForm
<1> QED
  BY <1>1, <1>2

LEMMA LongLengthIsRead ==
    ASSUME NEW n \in Nat
    PROVE  LongLength(n) \in Seq(Nat) /\ LengthForm(LongLength(n), n)
<1>0. 256 \in Nat /\ 256 >= 2 /\ 256 > 0 /\ 0 \in Nat /\ 1 \in Nat /\ n \in Int
  OBVIOUS
<1>1. PICK w \in Nat : /\ w = (IF n < 256 THEN 2 ELSE Width(n, 256)) /\ w > 0
                       /\ Quotient(n, 256, w) = 0
  <2>1. CASE n < 256
    <3>1. /\ Quotient(n, 256, 0) = n /\ Quotient(n, 256, 0 + 1) = Quotient(n, 256, 0) \div 256
          /\ Quotient(n, 256, 1 + 1) = Quotient(n, 256, 1) \div 256
      BY <1>0, QuotientSteps
    <3>2. n \div 256 = 0 /\ 0 \div 256 = 0
      BY <2>1
    <3>3. Quotient(n, 256, 2) = 0
      BY <3>1, <3>2
    <3> QED
      BY <2>1, <3>3
  <2>2. CASE ~(n < 256)
    BY <1>0, <2>2, WidthIs
  <2> QED
    BY <2>1, <2>2
<1>2. PICK d \in Seq(Byte) : d = Digits(n, 256, w) /\ Len(d) = w
  BY OctetsType
<1>3. d \in Seq(Nat)
  BY BytesAreOctets
<1>4. Number(d, 256) = n
  BY <1>0, <1>1, <1>2, DigitsBack
<1>5. LongLength(n) = <<128 + w>> \o d
  BY <1>1, <1>2 DEF LongLength
<1>6. LongLength(n) \in Seq(Nat)
  <2>1. <<128 + w>> \in Seq(Nat)
    BY <1>1
  <2> QED
    BY <1>3, <1>5, <2>1, ConcatProperties
<1>7. Len(d) > 0 /\ LongLength(n) = <<128 + Len(d)>> \o d
  BY <1>1, <1>2, <1>5
<1> QED
  BY <1>3, <1>4, <1>6, <1>7 DEF LengthForm

LEMMA EncodesTlv ==
    ASSUME NEW tag \in Nat, NEW c \in Seq(Nat)
    PROVE  Encodes(Tlv(tag, c), tag, c)
<1>1. LengthOctets(Len(c)) \in Seq(Nat) /\ LengthForm(LengthOctets(Len(c)), Len(c))
  BY LengthIsRead
<1> QED
  BY <1>1 DEF Encodes, Tlv

LEMMA EncodesType ==
    ASSUME NEW s, NEW tag, NEW c, Encodes(s, tag, c)
    PROVE  s \in Seq(Nat) /\ Len(s) >= 2 /\ s[1] = tag /\ Len(s) >= 2 + Len(c)
<1>1. PICK l \in Seq(Nat) : LengthForm(l, Len(c)) /\ s = <<tag>> \o l \o c
  BY DEF Encodes
<1>2. tag \in Nat /\ c \in Seq(Nat) /\ Len(c) \in Nat
  BY DEF Encodes
<1>3. l # <<>>
  <2>1. CASE l = <<Len(c)>>
    BY <2>1
  <2>2. ASSUME NEW d \in Seq(Nat), l = <<128 + Len(d)>> \o d PROVE l # <<>>
    BY <2>2
  <2> QED
    BY <1>1, <2>1, <2>2 DEF LengthForm
<1>4. Len(l) \in Nat /\ Len(l) >= 1
  BY <1>3
<1>5. /\ <<tag>> \o l \in Seq(Nat) /\ Len(<<tag>> \o l) = 1 + Len(l)
      /\ (<<tag>> \o l)[1] = tag
  BY <1>2, <1>4
<1>6. /\ (<<tag>> \o l) \o c \in Seq(Nat) /\ Len((<<tag>> \o l) \o c) = 1 + Len(l) + Len(c)
      /\ ((<<tag>> \o l) \o c)[1] = tag
  BY <1>2, <1>4, <1>5
<1> QED
  BY <1>1, <1>2, <1>4, <1>6

\* reading a part of b
LEMMA HoldsPart ==
    ASSUME NEW b \in Seq(Nat), NEW s \in Seq(Nat), NEW i \in Nat, Holds(b, i, s),
           NEW j \in Nat, NEW c \in Seq(Nat), Holds(s, j, c)
    PROVE  Holds(b, i + j - 1, c)
<1>1. /\ i >= 1 /\ i <= Len(b) + 1 /\ i + Len(s) - 1 <= Len(b)
      /\ \A k \in 1 .. Len(s) : b[i + k - 1] = s[k]
      /\ j >= 1 /\ j <= Len(s) + 1 /\ j + Len(c) - 1 <= Len(s)
      /\ \A k \in 1 .. Len(c) : s[j + k - 1] = c[k]
  BY DEF Holds
<1>2. Len(b) \in Nat /\ Len(s) \in Nat /\ Len(c) \in Nat
  OBVIOUS
<1>3. i + j - 1 \in 1 .. Len(b) + 1 /\ (i + j - 1) + Len(c) - 1 <= Len(b)
  BY <1>1, <1>2
<1>4. ASSUME NEW k \in 1 .. Len(c) PROVE b[(i + j - 1) + k - 1] = c[k]
  <2>1. j + k - 1 \in 1 .. Len(s) /\ i + (j + k - 1) - 1 = (i + j - 1) + k - 1
    BY <1>1, <1>2
  <2> QED
    BY <1>1, <2>1
<1> QED
  BY <1>3, <1>4 DEF Holds

LEMMA HoldsConcat ==
    ASSUME NEW a \in Seq(Nat), NEW s \in Seq(Nat)
    PROVE  Holds(a \o s, 1, a) /\ Holds(a \o s, Len(a) + 1, s)
<1>1. /\ a \o s \in Seq(Nat) /\ Len(a \o s) = Len(a) + Len(s)
      /\ \A i \in 1 .. Len(a) + Len(s) : (a \o s)[i] = IF i <= Len(a) THEN a[i] ELSE s[i - Len(a)]
  BY ConcatProperties
<1>2. Len(a) \in Nat /\ Len(s) \in Nat
  OBVIOUS
<1> DEFINE b == a \o s
<1> HIDE DEF b
<1>3. Holds(b, 1, a)
  <2>1. ASSUME NEW k \in 1 .. Len(a) PROVE b[1 + k - 1] = a[k]
    <3>1. 1 + k - 1 = k /\ k \in 1 .. Len(a) + Len(s) /\ k <= Len(a)
      BY <1>2
    <3> QED
      BY <1>1, <3>1 DEF b
  <2>2. 1 \in 1 .. Len(b) + 1 /\ 1 + Len(a) - 1 <= Len(b)
    BY <1>1, <1>2 DEF b
  <2> QED
    BY <2>1, <2>2 DEF Holds
<1>4. Holds(b, Len(a) + 1, s)
  <2>1. ASSUME NEW k \in 1 .. Len(s) PROVE b[(Len(a) + 1) + k - 1] = s[k]
    <3>1. /\ (Len(a) + 1) + k - 1 \in 1 .. Len(a) + Len(s)
          /\ ~((Len(a) + 1) + k - 1 <= Len(a)) /\ ((Len(a) + 1) + k - 1) - Len(a) = k
      BY <1>2
    <3> QED
      BY <1>1, <3>1 DEF b
  <2>2. Len(a) + 1 \in 1 .. Len(b) + 1 /\ (Len(a) + 1) + Len(s) - 1 <= Len(b)
    BY <1>1, <1>2 DEF b
  <2> QED
    BY <2>1, <2>2 DEF Holds
<1> QED
  BY <1>3, <1>4 DEF b

LEMMA HoldsSubSeq ==
    ASSUME NEW b \in Seq(Nat), NEW i \in Nat, NEW s \in Seq(Nat), Holds(b, i, s)
    PROVE  SubSeq(b, i, i + Len(s) - 1) = s
<1>1. /\ i >= 1 /\ i <= Len(b) + 1 /\ i + Len(s) - 1 <= Len(b)
      /\ \A k \in 1 .. Len(s) : b[i + k - 1] = s[k]
  BY DEF Holds
<1>2. Len(b) \in Nat /\ Len(s) \in Nat
  OBVIOUS
<1> DEFINE j == i + Len(s) - 1
           u == SubSeq(b, i, j)
<1>3. j \in Int /\ \A k \in i .. j : b[k] \in Nat
  BY <1>1, <1>2
<1>4. j - i + 1 = Len(s) /\ (IF i <= j THEN j - i + 1 ELSE 0) = Len(s)
  BY <1>1, <1>2
<1> HIDE DEF j
<1>5. /\ u \in Seq(Nat) /\ Len(u) = Len(s)
      /\ \A k \in 1 .. Len(s) : u[k] = b[i + k - 1]
  <2>1. i \in Int
    OBVIOUS
  <2> QED
    BY <1>3, <1>4, <2>1, SubSeqProperties
<1> HIDE DEF u
<1>6. u = s
  BY <1>1, <1>5, SeqEqual
<1> QED
  BY <1>6 DEF u, j

\* what is encoded is decoded, wherever it stands
LEMMA EncodedAt ==
    ASSUME NEW b \in Seq(Nat), NEW i \in Nat, NEW s, NEW tag, NEW c,
           Encodes(s, tag, c), Holds(b, i, s)
    PROVE  TlvAt(b, i) = [tag |-> tag, content |-> c, next |-> i + Len(s)]
<1>1. PICK l \in Seq(Nat) : LengthForm(l, Len(c)) /\ s = (<<tag>> \o l) \o c
  BY DEF Encodes
<1>2. tag \in Nat /\ c \in Seq(Nat) /\ s \in Seq(Nat)
  BY EncodesType DEF Encodes
<1>3. PICK o \in Seq(Nat) : o = <<tag>> /\ Len(o) = 1 /\ o[1] = tag
  BY <1>2, OneElement
<1>4. PICK g \in Seq(Nat) : g = o \o l
  BY ConcatProperties
<1>5. s = g \o c
  BY <1>1, <1>3, <1>4
<1>6. PICK n \in Nat : n = Len(c)
  BY <1>2
<1>7. PICK m \in Nat : m = Len(l)
  OBVIOUS
<1>8. Len(g) = 1 + m
  <2>1. Len(o \o l) = Len(o) + Len(l)
    BY ConcatProperties
  <2> QED
    BY <1>3, <1>4, <1>7, <2>1
<1>9. Len(s) = 1 + m + n
  <2>1. Len(g \o c) = Len(g) + Len(c)
    BY <1>2, ConcatProperties
  <2> QED
    BY <1>5, <1>6, <1>8, <2>1
<1>10. Holds(g, 1, o) /\ Holds(g, 2, l)
  <2>1. Holds(o \o l, 1, o) /\ Holds(o \o l, Len(o) + 1, l)
    BY HoldsConcat
  <2>2. Len(o) + 1 = 2
    BY <1>3
  <2> QED
    BY <1>4, <2>1, <2>2
<1>11. Holds(s, 1, g) /\ Holds(s, m + 2, c)
  <2>1. Holds(g \o c, 1, g) /\ Holds(g \o c, Len(g) + 1, c)
    BY <1>2, HoldsConcat
  <2>2. Len(g) + 1 = m + 2
    BY <1>8
  <2> QED
    BY <1>5, <2>1, <2>2
<1>12. Holds(b, i, g)
  <2>1. Holds(b, i + 1 - 1, g)
    BY <1>2, <1>11, HoldsPart
  <2>2. i + 1 - 1 = i
    OBVIOUS
  <2> QED
    BY <2>1, <2>2
<1>13. Holds(b, i, o)
  <2>1. Holds(b, i + 1 - 1, o)
    BY <1>10, <1>12, HoldsPart
  <2>2. i + 1 - 1 = i
    OBVIOUS
  <2> QED
    BY <2>1, <2>2
<1>14. Holds(b, i + 1, l)
  <2>1. 2 \in Nat /\ i + 2 - 1 = i + 1
    OBVIOUS
  <2>2. Holds(b, i + 2 - 1, l)
    BY <1>10, <1>12, <2>1, HoldsPart
  <2> QED
    BY <2>1, <2>2
<1>15. PICK j \in Nat : j = i + 1 + m
  OBVIOUS
<1>16. Holds(b, j, c)
  <2>1. m + 2 \in Nat /\ i + (m + 2) - 1 = j
    BY <1>15
  <2>2. Holds(b, i + (m + 2) - 1, c)
    BY <1>2, <1>11, <2>1, HoldsPart
  <2> QED
    BY <2>1, <2>2
<1>17. j + n - 1 <= Len(b) /\ Len(b) \in Nat
  <2>1. j + Len(c) - 1 <= Len(b)
    BY <1>16 DEF Holds
  <2> QED
    BY <1>6, <2>1
<1>18. b[i] = tag
  <2>1. \A k \in 1 .. Len(o) : b[i + k - 1] = o[k]
    BY <1>13 DEF Holds
  <2>2. 1 \in 1 .. Len(o) /\ i + 1 - 1 = i
    BY <1>3
  <2> QED
    BY <1>3, <2>1, <2>2
<1>19. SubSeq(b, j, j + n - 1) = c
  BY <1>2, <1>6, <1>16, HoldsSubSeq
<1>20. ContentAt(b, tag, j, n) = [tag |-> tag, content |-> c, next |-> i + Len(s)]
  <2>1. j + n = i + Len(s) /\ ~(j + n - 1 > Len(b))
    BY <1>9, <1>15, <1>17
  <2> QED
    BY <1>19, <2>1 DEF ContentAt
<1>21. CASE n < 128 /\ l = <<n>>
  <2>1. Len(l) = 1 /\ l[1] = n
    BY <1>21
  <2>2. b[i + 1] = n
    <3>1. \A k \in 1 .. Len(l) : b[(i + 1) + k - 1] = l[k]
      BY <1>14 DEF Holds
    <3>2. 1 \in 1 .. Len(l) /\ (i + 1) + 1 - 1 = i + 1
      BY <2>1
    <3> QED
      BY <2>1, <3>1, <3>2
  <2>3. ~(i + 1 > Len(b)) /\ j = i + 2
    BY <1>7, <1>15, <1>17, <2>1
  <2> QED
    BY <1>18, <1>20, <1>21, <2>2, <2>3 DEF TlvAt
<1>22. ASSUME NEW d \in Seq(Nat), Len(d) > 0, Number(d, 256) = n, l = <<128 + Len(d)>> \o d
       PROVE  TlvAt(b, i) = [tag |-> tag, content |-> c, next |-> i + Len(s)]
  <2>1. PICK k \in Nat : k = Len(d) /\ k > 0
    BY <1>22
  <2>2. 128 + k \in Nat
    OBVIOUS
  <2>3. PICK a \in Seq(Nat) : a = <<128 + k>> /\ Len(a) = 1 /\ a[1] = 128 + k
    BY <2>2, OneElement
  <2>4. l = a \o d
    BY <1>22, <2>1, <2>3
  <2>5. m = 1 + k
    <3>1. Len(a \o d) = Len(a) + Len(d)
      BY ConcatProperties
    <3> QED
      BY <1>7, <2>1, <2>3, <2>4, <3>1
  <2>6. Holds(l, 1, a) /\ Holds(l, 2, d)
    <3>1. Holds(a \o d, 1, a) /\ Holds(a \o d, Len(a) + 1, d)
      BY HoldsConcat
    <3>2. Len(a) + 1 = 2
      BY <2>3
    <3> QED
      BY <2>4, <3>1, <3>2
  <2>7. PICK i1 \in Nat : i1 = i + 1
    OBVIOUS
  <2>8. Holds(b, i1, a)
    <3>1. Holds(b, i1 + 1 - 1, a)
      BY <1>14, <2>6, <2>7, HoldsPart
    <3>2. i1 + 1 - 1 = i1
      OBVIOUS
    <3> QED
      BY <3>1, <3>2
  <2>9. Holds(b, i + 2, d)
    <3>1. 2 \in Nat /\ i1 + 2 - 1 = i + 2
      BY <2>7
    <3>2. Holds(b, i1 + 2 - 1, d)
      BY <1>14, <2>6, <2>7, <3>1, HoldsPart
    <3> QED
      BY <3>1, <3>2
  <2>10. b[i + 1] = 128 + k
    <3>1. \A x \in 1 .. Len(a) : b[i1 + x - 1] = a[x]
      BY <2>8 DEF Holds
    <3>2. 1 \in 1 .. Len(a) /\ i1 + 1 - 1 = i + 1
      BY <2>3, <2>7
    <3> QED
      BY <2>3, <3>1, <3>2
  <2>11. SubSeq(b, i + 2, i + 1 + k) = d
    <3>1. i + 2 \in Nat /\ i + 2 + k - 1 = i + 1 + k
      OBVIOUS
    <3>2. SubSeq(b, i + 2, i + 2 + Len(d) - 1) = d
      BY <2>9, <3>1, HoldsSubSeq
    <3> QED
      BY <2>1, <3>1, <3>2
  <2>12. /\ ~(i + 1 > Len(b)) /\ ~(128 + k < 128) /\ (128 + k) - 128 = k
         /\ ~(k = 0 \/ i + 1 + k > Len(b)) /\ j = i + 2 + k
    BY <1>15, <1>17, <2>1, <2>5, SMTT(30)
  <2>13. TlvAt(b, i) = ContentAt(b, b[i], i + 2 + k, Number(SubSeq(b, i + 2, i + 1 + k), 256))
    BY <2>10, <2>12 DEF TlvAt
  <2> QED
    BY <1>18, <1>20, <1>22, <2>11, <2>12, <2>13
<1> QED
  BY <1>1, <1>6, <1>21, <1>22 DEF LengthForm

------------------------------------------------------------------------------
(* TLVs one after another.                                                  *)

\* a TLV that is read from the start of b is read from all of it
LEMMA TlvAtPrefix ==
    ASSUME NEW b \in Seq(Nat), NEW s \in Seq(Nat), NEW i \in 1 .. Len(b), TlvAt(b, i) # NoTlv
    PROVE  TlvAt(b \o s, i) = TlvAt(b, i)
<1>1. PICK c \in Seq(Nat) : c = b \o s
  BY ConcatProperties
<1>2. Len(b) \in Nat /\ Len(c) \in Nat /\ Len(c) >= Len(b)
  <2>1. Len(b \o s) = Len(b) + Len(s)
    BY ConcatProperties
  <2>2. Len(b) \in Nat /\ Len(s) \in Nat
    OBVIOUS
  <2> QED
    BY <1>1, <2>1, <2>2
<1>3. ASSUME NEW k \in 1 .. Len(b) PROVE c[k] = b[k]
  <2>1. k \in 1 .. Len(b) + Len(s) /\ k <= Len(b)
    OBVIOUS
  <2>2. (b \o s)[k] = b[k]
    BY <2>1, ConcatProperties
  <2> QED
    BY <1>1, <2>2
<1>4. ASSUME NEW j \in Nat, NEW k \in Int, j >= 1, k <= Len(b)
      PROVE  SubSeq(c, j, k) = SubSeq(b, j, k)
  <2>1. \A x \in j .. k : c[x] = b[x] /\ b[x] \in Nat /\ c[x] \in Nat
    <3>1. \A x \in j .. k : x \in 1 .. Len(b)
      BY <1>2, <1>4
    <3> QED
      BY <1>3, <3>1
  <2>2. j \in Int
    OBVIOUS
  <2>3. /\ SubSeq(b, j, k) \in Seq(Nat) /\ Len(SubSeq(b, j, k)) = IF j <= k THEN k - j + 1 ELSE 0
        /\ \A x \in 1 .. k - j + 1 : SubSeq(b, j, k)[x] = b[j + x - 1]
    BY <2>1, <2>2, SubSeqProperties, SMTT(30)
  <2>4. /\ SubSeq(c, j, k) \in Seq(Nat) /\ Len(SubSeq(c, j, k)) = IF j <= k THEN k - j + 1 ELSE 0
        /\ \A x \in 1 .. k - j + 1 : SubSeq(c, j, k)[x] = c[j + x - 1]
    BY <2>1, <2>2, SubSeqProperties
  <2>5. ASSUME NEW x \in 1 .. (IF j <= k THEN k - j + 1 ELSE 0)
        PROVE  x \in 1 .. k - j + 1 /\ j + x - 1 \in j .. k
    OBVIOUS
  <2>6. PICK u \in Seq(Nat), v \in Seq(Nat) : u = SubSeq(c, j, k) /\ v = SubSeq(b, j, k)
    BY <2>3, <2>4
  <2>7. Len(u) = Len(v)
    BY <2>3, <2>4, <2>6
  <2>8. \A x \in 1 .. Len(u) : u[x] = v[x]
    BY <2>1, <2>3, <2>4, <2>5, <2>6
  <2>9. u = v
    BY <2>7, <2>8, SeqEqual
  <2> QED
    BY <2>6, <2>9
<1>5. ASSUME NEW tag, NEW j \in Nat, j >= 1, NEW n \in Nat, ContentAt(b, tag, j, n) # NoTlv
      PROVE  ContentAt(c, tag, j, n) = ContentAt(b, tag, j, n)
  <2>1. ~(j + n - 1 > Len(b))
    BY <1>5 DEF ContentAt
  <2>2. j + n - 1 \in Int /\ j + n - 1 <= Len(b) /\ ~(j + n - 1 > Len(c))
    BY <1>2, <2>1
  <2>3. SubSeq(c, j, j + n - 1) = SubSeq(b, j, j + n - 1)
    BY <1>4, <1>5, <2>2
  <2> QED
    BY <2>1, <2>2, <2>3 DEF ContentAt
<1>6. ~(i + 1 > Len(b)) /\ ~(i + 1 > Len(c)) /\ i + 1 \in 1 .. Len(b)
  <2>1. ~(i + 1 > Len(b))
    BY DEF TlvAt
  <2> QED
    BY <1>2, <2>1
<1>7. c[i] = b[i] /\ c[i + 1] = b[i + 1] /\ b[i + 1] \in Nat
  BY <1>3, <1>6
<1>8. CASE b[i + 1] < 128
  <2>1. TlvAt(b, i) = ContentAt(b, b[i], i + 2, b[i + 1])
    BY <1>6, <1>8 DEF TlvAt
  <2>2. TlvAt(c, i) = ContentAt(c, b[i], i + 2, b[i + 1])
    BY <1>6, <1>7, <1>8 DEF TlvAt
  <2>3. i + 2 \in Nat /\ i + 2 >= 1
    OBVIOUS
  <2> QED
    BY <1>1, <1>5, <1>7, <2>1, <2>2, <2>3
<1>9. CASE ~(b[i + 1] < 128)
  <2>1. PICK k \in Nat : k = b[i + 1] - 128
    BY <1>7, <1>9
  <2>2. ~(k = 0 \/ i + 1 + k > Len(b))
    BY <1>6, <1>9, <2>1 DEF TlvAt
  <2>3. ~(k = 0 \/ i + 1 + k > Len(c))
    BY <1>2, <2>2
  <2>4. SubSeq(c, i + 2, i + 1 + k) = SubSeq(b, i + 2, i + 1 + k)
    <3>1. i + 2 \in Nat /\ i + 1 + k \in Int /\ i + 2 >= 1 /\ i + 1 + k <= Len(b)
      BY <1>2, <2>2
    <3> QED
      BY <1>4, <3>1
  <2>5. PICK n : n = Number(SubSeq(b, i + 2, i + 1 + k), 256)
    OBVIOUS
  <2>6. TlvAt(b, i) = ContentAt(b, b[i], i + 2 + k, n)
    BY <1>6, <1>9, <2>1, <2>2, <2>5 DEF TlvAt
  <2>7. TlvAt(c, i) = ContentAt(c, b[i], i + 2 + k, n)
    BY <1>6, <1>7, <1>9, <2>1, <2>3, <2>4, <2>5, ZenonT(30) DEF TlvAt
  <2>8. n \in Nat
    <3>1. \A x \in i + 2 .. i + 1 + k : b[x] \in Nat
      <4>1. \A x \in i + 2 .. i + 1 + k : x \in 1 .. Len(b)
        BY <1>2, <2>2
      <4> QED
        BY <4>1
    <3>2. i + 2 \in Int /\ i + 1 + k \in Int
      OBVIOUS
    <3>3. PICK u \in Seq(Nat) : u = SubSeq(b, i + 2, i + 1 + k)
      BY <3>1, <3>2, SubSeqProperties
    <3>4. 256 \in Nat
      OBVIOUS
    <3>5. Number(u, 256) \in Nat
      BY <3>4, NumberType
    <3> QED
      BY <2>5, <3>3, <3>5
  <2>9. i + 2 + k \in Nat /\ i + 2 + k >= 1
    OBVIOUS
  <2> QED
    BY <1>1, <1>5, <2>6, <2>7, <2>8, <2>9
<1> QED
  BY <1>8, <1>9

\* one more TLV
LEMMA ConsistsMore ==
    ASSUME NEW b \in Seq(Nat), NEW ts, Consists(b, ts), NEW s, NEW tag, NEW c, Encodes(s, tag, c)
    PROVE  /\ b \o s \in Seq(Nat) /\ Len(b \o s) = Len(b) + Len(s)
           /\ Consists(b \o s, Append(ts, [tag |-> tag, content |-> c,
                                           next |-> Len(b) + Len(s) + 1]))
<1>1. s \in Seq(Nat) /\ Len(s) >= 2 /\ tag \in Nat /\ c \in Seq(Nat)
  BY EncodesType DEF Encodes
<1>2. PICK a \in Seq(Nat) : a = b \o s /\ Len(a) = Len(b) + Len(s)
  BY <1>1, ConcatProperties
<1>3. PICK m \in Nat : m = Len(b)
  OBVIOUS
<1>4. PICK k \in Nat : k = Len(s) /\ k >= 2
  BY <1>1
<1>5. Len(a) = m + k
  BY <1>2, <1>3, <1>4
<1> DEFINE t == [tag |-> tag, content |-> c, next |-> m + k + 1]
<1>6. TlvAt(a, m + 1) = t
  <2>1. Holds(b \o s, Len(b) + 1, s)
    BY <1>1, HoldsConcat
  <2>2. PICK j \in Nat : j = m + 1
    OBVIOUS
  <2>3. Holds(a, j, s)
    BY <1>2, <1>3, <2>1, <2>2
  <2>4. TlvAt(a, j) = [tag |-> tag, content |-> c, next |-> j + Len(s)]
    BY <2>3, EncodedAt
  <2>5. j + Len(s) = m + k + 1
    BY <1>4, <2>2
  <2> QED
    BY <2>2, <2>4, <2>5
<1>7. t \in TlvRecord /\ t # NoTlv /\ t.next = m + k + 1
  <2>1. m + k + 1 \in Nat /\ m + k + 1 # 0
    OBVIOUS
  <2>2. t.next # NoTlv.next
    BY <2>1 DEF NoTlv
  <2> QED
    BY <1>1, <2>1, <2>2 DEF TlvRecord
<1> HIDE DEF t
<1>8. ts \in Seq(TlvRecord)
  BY DEF Consists
<1>9. PICK n \in Nat : n = Len(ts)
  BY <1>8
<1>10. PICK p \in [1 .. n + 1 -> Nat] :
         /\ p[1] = 1 /\ p[n + 1] = m + 1
         /\ \A i \in 1 .. n : /\ p[i] \in 1 .. m
                              /\ ts[i] = TlvAt(b, p[i]) /\ ts[i] # NoTlv /\ ts[i].next = p[i + 1]
  BY <1>3, <1>9 DEF Consists
<1>11. PICK us \in Seq(TlvRecord) :
         /\ us = Append(ts, t) /\ Len(us) = n + 1
         /\ us[n + 1] = t /\ \A i \in 1 .. n : us[i] = ts[i]
  <2>1. PICK x \in TlvRecord : x = t
    BY <1>7
  <2>2. PICK us \in Seq(TlvRecord) : us = Append(ts, x)
    BY <1>8, AppendProperties
  <2>3. /\ Len(Append(ts, x)) = Len(ts) + 1
        /\ \A i \in 1 .. Len(ts) : Append(ts, x)[i] = ts[i]
        /\ Append(ts, x)[Len(ts) + 1] = x
    BY <1>8, AppendProperties
  <2> QED
    BY <1>9, <2>1, <2>2, <2>3
<1> DEFINE q == [i \in 1 .. n + 2 |-> IF i = n + 2 THEN m + k + 1 ELSE p[i]]
<1>12. q \in [1 .. n + 2 -> Nat] /\ q[1] = 1 /\ q[n + 2] = m + k + 1 /\ q[n + 1] = m + 1
       /\ \A i \in 1 .. n + 1 : q[i] = p[i]
  <2>1. \A i \in 1 .. n + 2 : i # n + 2 => i \in 1 .. n + 1
    OBVIOUS
  <2>2. 1 \in 1 .. n + 1 /\ n + 1 \in 1 .. n + 1 /\ n + 2 \in 1 .. n + 2
    OBVIOUS
  <2>3. \A i \in 1 .. n + 1 : i \in 1 .. n + 2 /\ i # n + 2
    OBVIOUS
  <2>4. \A i \in 1 .. n + 1 : q[i] = p[i]
    BY <2>3
  <2> QED
    BY <1>10, <2>1, <2>2, <2>4
<1> HIDE DEF q
<1>13. ASSUME NEW i \in 1 .. n + 1
       PROVE  /\ q[i] \in 1 .. m + k
              /\ us[i] = TlvAt(a, q[i]) /\ us[i] # NoTlv /\ us[i].next = q[i + 1]
  <2>1. CASE i = n + 1
    <3>1. m + 1 \in 1 .. m + k /\ i + 1 = n + 2
      BY <1>4, <2>1
    <3> QED
      BY <1>6, <1>7, <1>11, <1>12, <2>1, <3>1
  <2>2. CASE i # n + 1
    <3>1. i \in 1 .. n /\ i + 1 \in 1 .. n + 1
      BY <2>2
    <3>2. q[i] = p[i] /\ q[i + 1] = p[i + 1] /\ us[i] = ts[i]
      BY <1>11, <1>12, <3>1
    <3>3. p[i] \in 1 .. m /\ ts[i] = TlvAt(b, p[i]) /\ ts[i] # NoTlv /\ ts[i].next = p[i + 1]
      BY <1>10, <3>1
    <3>4. p[i] \in 1 .. Len(b)
      BY <1>3, <3>3
    <3>5. TlvAt(b \o s, p[i]) = TlvAt(b, p[i])
      BY <1>1, <3>3, <3>4, TlvAtPrefix
    <3>6. p[i] \in 1 .. m + k
      BY <3>3
    <3> QED
      BY <1>2, <3>2, <3>3, <3>5, <3>6
  <2> QED
    BY <2>1, <2>2
<1>14. Consists(a, us)
  <2>1. (n + 1) + 1 = n + 2 /\ Len(us) = n + 1 /\ Len(a) + 1 = m + k + 1
    BY <1>5, <1>11
  <2>2. /\ q \in [1 .. Len(us) + 1 -> Nat]
        /\ q[1] = 1 /\ q[Len(us) + 1] = Len(a) + 1
    BY <1>12, <2>1
  <2>3. \A i \in 1 .. Len(us) :
           /\ q[i] \in 1 .. Len(a)
           /\ us[i] = TlvAt(a, q[i]) /\ us[i] # NoTlv /\ us[i].next = q[i + 1]
    BY <1>5, <1>13, <2>1
  <2> QED
    BY <1>11, <2>2, <2>3 DEF Consists
<1> QED
  BY <1>2, <1>3, <1>4, <1>11, <1>14 DEF t

LEMMA TlvsType ==
    ASSUME NEW b \in Seq(Nat)
    PROVE  Tlvs(b) \in Seq(TlvRecord)
<1>1. PICK f : ReadsFrom(f, b) /\ Tlvs(b) = f[1]
  BY TlvsRead
<1>2. 1 \in 1 .. Len(b) + 1
  OBVIOUS
<1> QED
  BY <1>1, <1>2 DEF ReadsFrom

LEMMA NothingToRead == Tlvs(<<>>) = <<>>
<1>1. <<>> \in Seq(Nat)
  BY EmptySeq
<1> QED
  BY <1>1, ConsistsNone, ConsistsTlvs

LEMMA OnlyTlv ==
    ASSUME NEW b, NEW tag, NEW c, Encodes(b, tag, c)
    PROVE  /\ TlvAt(b, 1) = [tag |-> tag, content |-> c, next |-> Len(b) + 1]
           /\ Tlvs(b) = <<[tag |-> tag, content |-> c, next |-> Len(b) + 1]>>
<1>1. b \in Seq(Nat)
  BY EncodesType
<1>2. PICK e \in Seq(Nat) : e = <<>> /\ Len(e) = 0
  BY EmptySeq
<1>3. e \o b = b
  BY <1>1, <1>2, ConcatEmptySeq
<1>4. PICK n \in Nat : n = Len(b)
  BY <1>1
<1>5. 0 + n + 1 = n + 1
  OBVIOUS
<1>6. Consists(b, Append(<<>>, [tag |-> tag, content |-> c, next |-> Len(b) + 1]))
  <2>1. Consists(e \o b, Append(<<>>, [tag |-> tag, content |-> c, next |-> Len(e) + Len(b) + 1]))
    BY <1>2, ConsistsNone, ConsistsMore
  <2> QED
    BY <1>2, <1>3, <1>4, <1>5, <2>1
<1>7. Append(<<>>, [tag |-> tag, content |-> c, next |-> Len(b) + 1])
      = <<[tag |-> tag, content |-> c, next |-> Len(b) + 1]>>
  OBVIOUS
<1>8. Tlvs(b) = <<[tag |-> tag, content |-> c, next |-> Len(b) + 1]>>
  BY <1>1, <1>6, <1>7, ConsistsTlvs
<1>9. TlvAt(b, 1) = [tag |-> tag, content |-> c, next |-> Len(b) + 1]
  <2>1. Holds(b \o e, 1, b) /\ b \o e = b
    BY <1>1, <1>2, HoldsConcat, ConcatEmptySeq
  <2>2. 1 \in Nat
    OBVIOUS
  <2>3. TlvAt(b, 1) = [tag |-> tag, content |-> c, next |-> 1 + Len(b)]
    BY <1>1, <2>1, <2>2, EncodedAt
  <2> QED
    BY <1>4, <2>3
<1> QED
  BY <1>8, <1>9

\* what is inside a message, and that a part of it is none
LEMMA InsideEncoded ==
    ASSUME NEW b, NEW tag, NEW c, Encodes(b, tag, c)
    PROVE  Inside(b) = IF tag = SequenceTag THEN c ELSE <<>>
<1>1. TlvAt(b, 1) = [tag |-> tag, content |-> c, next |-> Len(b) + 1]
  BY OnlyTlv
<1> QED
  BY <1>1 DEF Inside

LEMMA InsideCut ==
    ASSUME NEW b, NEW tag, NEW c, Encodes(b, tag, c), NEW k \in Int, k < Len(b)
    PROVE  SubSeq(b, 1, k) \in Seq(Nat) /\ Inside(SubSeq(b, 1, k)) = <<>>
<1>1. b \in Seq(Nat)
  BY EncodesType
<1>2. PICK n \in Nat : n = Len(b)
  BY <1>1
<1>3. CASE k < 1
  <2>1. SubSeq(b, 1, k) = <<>>
    BY <1>3, SubSeqEmpty
  <2>2. <<>> \in Seq(Nat) /\ Len(<<>>) = 0
    BY EmptySeq
  <2>3. TlvAt(<<>>, 1) = NoTlv
    BY <2>2 DEF TlvAt
  <2>4. NoTlv.tag # SequenceTag
    BY DEF NoTlv, SequenceTag
  <2> QED
    BY <2>1, <2>2, <2>3, <2>4 DEF Inside
<1>4. CASE k >= 1
  <2>1. PICK a \in Seq(Nat), d \in Seq(Nat) :
          a = SubSeq(b, 1, k) /\ Len(a) = k /\ b = a \o d
    <3>1. \A x \in 1 .. k : b[x] \in Nat
      BY <1>1, <1>2
    <3>2. \A x \in k + 1 .. n : b[x] \in Nat
      BY <1>1, <1>2, <1>4
    <3>3. SubSeq(b, 1, k) \in Seq(Nat) /\ Len(SubSeq(b, 1, k)) = k
      BY <1>4, <3>1, SubSeqProperties
    <3>4. SubSeq(b, k + 1, n) \in Seq(Nat)
      BY <3>2, SubSeqProperties
    <3>5. SubSeq(b, 1, k) \o SubSeq(b, k + 1, n) = b
      <4>1. k \in 1 - 1 .. Len(b) /\ n \in k .. Len(b) /\ 1 \in 1 .. Len(b) + 1
        BY <1>2, <1>4
      <4>2. SubSeq(b, 1, k) \o SubSeq(b, k + 1, n) = SubSeq(b, 1, n)
        BY <1>1, <4>1, ConcatAdjacentSubSeq
      <4>3. SubSeq(b, 1, n) = b
        BY <1>1, <1>2, SubSeqFull
      <4> QED
        BY <4>2, <4>3
    <3> QED
      BY <3>3, <3>4, <3>5
  <2>2. 1 \in 1 .. Len(a) /\ 1 \in Nat
    BY <1>4, <2>1
  <2>3. CASE TlvAt(a, 1) = NoTlv
    <3>1. NoTlv.tag # SequenceTag
      BY DEF NoTlv, SequenceTag
    <3> QED
      BY <2>1, <2>3, <3>1 DEF Inside
  <2>4. CASE TlvAt(a, 1) # NoTlv
    <3>1. TlvAt(a \o d, 1) = TlvAt(a, 1)
      BY <2>2, <2>4, TlvAtPrefix
    <3>2. TlvAt(b, 1) = [tag |-> tag, content |-> c, next |-> Len(b) + 1]
      BY OnlyTlv
    <3>x. TlvAt(a, 1) = TlvAt(b, 1)
      BY <2>1, <3>1
    <3>y. TlvAt(b, 1).next = n + 1
      BY <1>2, <3>2
    <3>3. TlvAt(a, 1).next = n + 1
      BY <3>x, <3>y
    <3>4. TlvAt(a, 1).next \in 1 + 1 .. Len(a) + 1
      BY <2>2, <2>4, TlvAtType
    <3>5. FALSE
      BY <1>2, <2>1, <3>3, <3>4
    <3> QED
      BY <3>5
  <2> QED
    BY <2>3, <2>4
<1> QED
  BY <1>3, <1>4

------------------------------------------------------------------------------
(* Values.                                                                  *)

LEMMA Base128Type ==
    ASSUME NEW n \in Nat
    PROVE  Base128(n) \in Seq(Nat)
<1>1. PICK w \in Nat : w = Width(n, 128)
  <2>1. 128 \in Nat /\ 128 >= 2
    OBVIOUS
  <2> QED
    BY <2>1, WidthIs
<1>2. ASSUME NEW i \in 1 .. w PROVE Digits(n, 128, w)[i] \in Nat
  <2>1. 128 \in Nat /\ 128 > 0 /\ n \in Int
    OBVIOUS
  <2>2. Digits(n, 128, w)[i] = Quotient(n, 128, w - i) % 128
    BY <2>1, DigitsType
  <2>3. w - i \in Nat
    OBVIOUS
  <2>4. Quotient(n, 128, w - i) \in Int
    BY <2>1, <2>3, QuotientSteps
  <2> QED
    BY <2>2, <2>4
<1> DEFINE s == [i \in 1 .. w |-> Digits(n, 128, w)[i] + (IF i < w THEN 128 ELSE 0)]
<1>3. Base128(n) = s
  BY <1>1 DEF Base128, SevenBits
<1>4. \A i \in 1 .. w : Digits(n, 128, w)[i] + (IF i < w THEN 128 ELSE 0) \in Nat
  BY <1>2
<1>5. s \in [1 .. w -> Nat]
  BY <1>4
<1> HIDE DEF s
<1>6. s \in Seq(Nat)
  BY <1>5
<1> QED
  BY <1>3, <1>6

\* an OID whose encoding has octets
Arcs(o) ==
    /\ o \in Seq(Int) /\ Len(o) >= 2 /\ 40 * o[1] + o[2] \in Nat
    /\ \A i \in 3 .. Len(o) : o[i] \in Nat

LEMMA OidContentType ==
    ASSUME NEW o, Arcs(o)
    PROVE  OidContent(o) \in Seq(Nat)
<1>1. PICK n \in Nat : n = Len(o) /\ n >= 2
  BY DEF Arcs
<1> DEFINE ss == [i \in 1 .. n - 2 |-> Base128(o[i + 2])]
<1>2. ASSUME NEW i \in 1 .. n - 2 PROVE Base128(o[i + 2]) \in Seq(Nat)
  <2>1. i + 2 \in 3 .. Len(o)
    BY <1>1
  <2> QED
    BY <2>1, Base128Type DEF Arcs
<1>3. ss \in [1 .. n - 2 -> Seq(Nat)]
  BY <1>2
<1>4. OidContent(o) = <<40 * o[1] + o[2]>> \o FlattenSeq(ss)
  BY <1>1 DEF OidContent
<1> HIDE DEF ss
<1>5. ss \in Seq(Seq(Nat))
  <2>1. n - 2 \in Nat
    BY <1>1
  <2> QED
    BY <1>3, <2>1
<1>6. FlattenSeq(ss) \in Seq(Nat)
  BY <1>5, Flattened
<1>7. PICK x \in Nat : x = 40 * o[1] + o[2]
  BY DEF Arcs
<1>8. <<x>> \in Seq(Nat)
  BY OneElement
<1> QED
  BY <1>4, <1>6, <1>7, <1>8, ConcatProperties

LEMMA FirstArcsType ==
    ASSUME NEW x \in Nat
    PROVE  FirstArcs(x) \in Seq(Nat) /\ Len(FirstArcs(x)) = 2
<1>1. x < 40 \/ (x >= 40 /\ x < 80 /\ x - 40 \in Nat) \/ (x >= 80 /\ x - 80 \in Nat)
  OBVIOUS
<1>2. ASSUME NEW i \in Nat, NEW j \in Nat PROVE <<i, j>> \in Seq(Nat) /\ Len(<<i, j>>) = 2
  OBVIOUS
<1> QED
  BY <1>1, <1>2 DEF FirstArcs

LEMMA OidNumbersType ==
    ASSUME NEW s \in Seq(Nat), s # <<>>
    PROVE  Arcs(OidNumbers(s)) /\ OidNumbers(s) \in Seq(Nat)
<1>1. PICK N \in Nat : N = Len(s) - 1
  OBVIOUS
<1> DEFINE S == {r \in [arcs : Seq(Nat), value : Nat] : Len(r.arcs) >= 2}
           start == [arcs |-> FirstArcs(s[1]), value |-> 0]
           F == [k \in 1 .. N |-> [r \in S |-> ReadArc(r, s[k + 1])]]
           read == CHOOSE f : f = [n \in 0 .. N |-> IF n = 0 THEN start
                                                    ELSE ReadArc(f[n - 1], s[n + 1])]
<1>2. OidNumbers(s) = read[N].arcs
  BY <1>1 DEF OidNumbers
<1> HIDE DEF read
<1>3. start \in S
  <2>1. s[1] \in Nat
    OBVIOUS
  <2>2. PICK a \in Seq(Nat) : a = FirstArcs(s[1]) /\ Len(a) = 2
    BY <2>1, FirstArcsType
  <2>3. start = [arcs |-> a, value |-> 0]
    BY <2>2
  <2>4. PICK r : r = [arcs |-> a, value |-> 0]
    OBVIOUS
  <2>5. r \in [arcs : Seq(Nat), value : Nat] /\ r.arcs = a
    BY <2>4
  <2>6. r \in S
    <3> HIDE DEF F, start
    <3>1. Len(r.arcs) = 2
      BY <2>2, <2>5
    <3>2. Len(r.arcs) >= 2
      BY <3>1
    <3> QED
      BY <2>5, <3>2
  <2>7. start = r
    BY <2>3, <2>4
  <2> HIDE DEF S, start
  <2> QED
    BY <2>6, <2>7
<1> HIDE DEF start
<1>4. ASSUME NEW r \in S, NEW x \in Nat PROVE ReadArc(r, x) \in S
  <2>1. r.arcs \in Seq(Nat) /\ Len(r.arcs) >= 2 /\ r.value \in Nat
    OBVIOUS
  <2>2. CASE x < 128
    <3>1. PICK y \in Nat : y = 128 * r.value + x
      BY <2>1
    <3>2. Append(r.arcs, y) \in Seq(Nat) /\ Len(Append(r.arcs, y)) = Len(r.arcs) + 1
      BY <2>1, AppendProperties
    <3>3. Len(r.arcs) + 1 >= 2
      BY <2>1
    <3>4. ReadArc(r, x) = [arcs |-> Append(r.arcs, y), value |-> 0]
      BY <2>2, <3>1 DEF ReadArc
    <3> QED
      BY <3>2, <3>3, <3>4
  <2>3. CASE ~(x < 128)
    <3>1. 128 * r.value + x - 128 \in Nat
      BY <2>1, <2>3
    <3> QED
      BY <2>1, <2>3, <3>1 DEF ReadArc
  <2> QED
    BY <2>2, <2>3
<1>5. \A k \in 1 .. N : s[k + 1] \in Nat
  BY <1>1
<1>6. \A k \in 1 .. N : \A r \in S : F[k][r] = ReadArc(r, s[k + 1])
  OBVIOUS
<1> HIDE DEF S
<1>7. F \in [1 .. N -> [S -> S]]
  BY <1>4, <1>5
<1> HIDE DEF F
<1>8. PICK f \in [0 .. N -> S] : Iterates(F, start, N, f)
  BY <1>3, <1>7, IterationExists
<1>9. ASSUME NEW n \in 0 .. N
      PROVE  f[n] = IF n = 0 THEN start ELSE ReadArc(f[n - 1], s[n + 1])
  <2>1. CASE n = 0
    BY <1>8, <2>1 DEF Iterates
  <2>2. CASE n # 0
    <3>1. n \in 1 .. N /\ n - 1 \in 0 .. N
      BY <2>2
    <3>2. f[n] = F[n][f[n - 1]] /\ f[n - 1] \in S
      BY <1>8, <3>1 DEF Iterates
    <3> QED
      BY <1>6, <2>2, <3>1, <3>2
  <2> QED
    BY <2>1, <2>2
<1>10. f = [n \in 0 .. N |-> IF n = 0 THEN start ELSE ReadArc(f[n - 1], s[n + 1])]
  BY <1>9
<1>11. read = [n \in 0 .. N |-> IF n = 0 THEN start ELSE ReadArc(read[n - 1], s[n + 1])]
  BY <1>10 DEF read
<1>12. \A n \in 0 .. N : read[n] = IF n = 0 THEN start ELSE ReadArc(read[n - 1], s[n + 1])
  BY <1>11
<1> DEFINE T == {n \in Nat : n <= N => read[n] \in S}
<1>13. 0 \in T
  BY <1>3, <1>12
<1>14. ASSUME NEW n \in Nat, n \in T PROVE n + 1 \in T
  <2>1. SUFFICES ASSUME n + 1 <= N PROVE read[n + 1] \in S
    OBVIOUS
  <2>2. n + 1 \in 0 .. N /\ n + 1 # 0 /\ (n + 1) - 1 = n /\ n + 1 \in 1 .. N
    BY <2>1
  <2>3. read[n + 1] = ReadArc(read[n], s[(n + 1) + 1])
    BY <1>12, <2>2
  <2>4. read[n] \in S
    BY <1>14, <2>1
  <2> QED
    BY <1>4, <1>5, <2>2, <2>3, <2>4
<1>15. N \in T
  <2> HIDE DEF T
  <2> QED
    BY <1>13, <1>14, NaturalsByStep
<1>16. read[N] \in S
  BY <1>15
<1>17. PICK o \in Seq(Nat) : o = OidNumbers(s) /\ Len(o) >= 2
  BY <1>2, <1>16 DEF S
<1>18. o \in Seq(Int)
  BY OctetsAreNumbers
<1>19. o[1] \in Nat /\ o[2] \in Nat /\ \A i \in 3 .. Len(o) : o[i] \in Nat
  BY <1>17
<1>20. 40 * o[1] + o[2] \in Nat
  BY <1>19, SMTT(30)
<1> QED
  BY <1>17, <1>18, <1>19, <1>20 DEF Arcs

\* a value that can be encoded
Carries(type, v) ==
    /\ type = "Integer" => v[1] \in Int
    /\ type \in Unsigned => v[1] \in Nat
    /\ type = "ObjectIdentifier" => Arcs(v)
    /\ type \notin Unsigned \union {"Integer", "ObjectIdentifier"} => v \in Seq(Nat)

LEMMA TagType ==
    ASSUME NEW type \in DOMAIN Tag
    PROVE  Tag[type] \in Nat
BY DEF Tag

LEMMA UnsignedContentType ==
    ASSUME NEW n \in Nat
    PROVE  UnsignedContent(n) \in Seq(Byte)
<1>1. PICK w \in Nat : w = Width(n, 256)
  <2>1. 256 \in Nat /\ 256 >= 2
    OBVIOUS
  <2> QED
    BY <2>1, WidthIs
<1>2. PICK d \in Seq(Byte) : d = Digits(n, 256, w)
  BY OctetsType
<1>3. UnsignedContent(n) = IF d[1] >= 128 THEN <<0>> \o d ELSE d
  BY <1>1, <1>2 DEF UnsignedContent, Positive
<1>4. <<0>> \in Seq(Byte)
  <2>1. 0 \in Byte
    BY DEF Byte
  <2> QED
    BY <2>1, OneElement
<1>5. <<0>> \o d \in Seq(Byte)
  BY <1>4, ConcatProperties
<1> QED
  BY <1>3, <1>5

LEMMA ValueEncodes ==
    ASSUME NEW type \in DOMAIN Tag, NEW v, Carries(type, v)
    PROVE  /\ \E c \in Seq(Nat) : Encodes(EncodeValue(Val(type, v)), Tag[type], c)
           /\ type = "Integer" =>
                Encodes(EncodeValue(Val(type, v)), Tag.Integer, SignedContent(v[1]))
           /\ type = "OctetString" => Encodes(EncodeValue(Val(type, v)), Tag.OctetString, v)
<1> DEFINE c == CASE type = "Integer" -> SignedContent(v[1])
                  [] type \in Unsigned -> UnsignedContent(v[1])
                  [] type = "ObjectIdentifier" -> OidContent(v)
                  [] OTHER -> v
<1>1. EncodeValue(Val(type, v)) = Tlv(Tag[type], c)
  BY DEF EncodeValue, Val
<1>2. c \in Seq(Nat)
  <2>1. CASE type = "Integer"
    <3>1. v[1] \in Int
      BY <2>1 DEF Carries
    <3>2. SignedContent(v[1]) \in Seq(Nat)
      BY <3>1, SignedContentBack, BytesAreOctets
    <3>3. type \notin Unsigned /\ type # "ObjectIdentifier"
      BY <2>1 DEF Unsigned
    <3>4. c = SignedContent(v[1])
      BY ONLY <2>1, <3>3
    <3> QED
      BY <3>2, <3>4
  <2>2. CASE type \in Unsigned
    <3>1. v[1] \in Nat
      BY <2>2 DEF Carries
    <3>2. UnsignedContent(v[1]) \in Seq(Nat)
      BY <3>1, UnsignedContentType, BytesAreOctets
    <3>3. type # "Integer" /\ type # "ObjectIdentifier"
      BY <2>2 DEF Unsigned
    <3>4. c = UnsignedContent(v[1])
      BY ONLY <2>2, <3>3
    <3> QED
      BY <3>2, <3>4
  <2>3. CASE type = "ObjectIdentifier"
    <3>1. OidContent(v) \in Seq(Nat)
      BY <2>3, OidContentType DEF Carries
    <3>2. type # "Integer" /\ type \notin Unsigned
      BY <2>3 DEF Unsigned
    <3>3. c = OidContent(v)
      BY ONLY <2>3, <3>2
    <3> QED
      BY <3>1, <3>3
  <2>4. CASE type \notin Unsigned \union {"Integer", "ObjectIdentifier"}
    <3>1. v \in Seq(Nat)
      BY <2>4 DEF Carries
    <3>2. c = v
      BY ONLY <2>4
    <3> QED
      BY <3>1, <3>2
  <2> QED
    BY <2>1, <2>2, <2>3, <2>4
<1>3. type = "Integer" => c = SignedContent(v[1])
  <2>1. SUFFICES ASSUME type = "Integer" PROVE c = SignedContent(v[1])
    OBVIOUS
  <2>2. type \notin Unsigned /\ type # "ObjectIdentifier"
    BY <2>1 DEF Unsigned
  <2> QED
    BY ONLY <2>1, <2>2
<1>4. type = "OctetString" => c = v
  <2>1. SUFFICES ASSUME type = "OctetString" PROVE c = v
    OBVIOUS
  <2>2. type \notin Unsigned /\ type # "ObjectIdentifier" /\ type # "Integer"
    BY <2>1 DEF Unsigned
  <2> QED
    BY ONLY <2>2
<1>5. Tag[type] \in Nat
  BY TagType
<1> HIDE DEF c
<1>6. Encodes(EncodeValue(Val(type, v)), Tag[type], c)
  BY <1>1, <1>2, <1>5, EncodesTlv
<1>7. Tag["Integer"] = Tag.Integer /\ Tag["OctetString"] = Tag.OctetString
  OBVIOUS
<1> QED
  BY <1>2, <1>3, <1>4, <1>6, <1>7


LEMMA SignedNumberType ==
    ASSUME NEW s \in Seq(Nat), s # <<>>
    PROVE  SignedNumber(s) \in Int
<1>1. PICK n \in Nat : n = Len(s) /\ n >= 1
  OBVIOUS
<1>2. s \in [1 .. n -> Int] /\ s[1] \in Nat
  BY <1>1
<1>3. Signed(s[1]) \in Int
  BY <1>2 DEF Signed
<1> DEFINE e == [s EXCEPT ![1] = Signed(@)]
<1>4. e \in [1 .. n -> Int]
  BY <1>2, <1>3
<1>5. PICK d \in Seq(Int) : d = e
  <2> HIDE DEF e
  <2>1. e \in Seq(Int)
    BY <1>4
  <2> QED
    BY <2>1
<1>6. 256 \in Int
  OBVIOUS
<1>7. PICK v : Accumulates(v, d, 256)
  BY <1>6, NumberIs, ZenonT(30)
<1>8. Number(d, 256) = v[Len(d)]
  BY <1>6, <1>7, NumberIs
<1>9. Len(d) \in 0 .. Len(d)
  OBVIOUS
<1>10. v[Len(d)] \in Int
  BY <1>7, <1>9 DEF Accumulates
<1> QED
  BY <1>5, <1>8, <1>10 DEF SignedNumber

LEMMA DecodedType ==
    ASSUME NEW type \in DOMAIN Tag, NEW s \in Seq(Nat)
    PROVE  \/ Decoded(type, s) = Malformed
           \/ \E v : Decoded(type, s) = Val(type, v) /\ Carries(type, v)
<1> DEFINE first == type = "Integer" /\ s # <<>>
           second == type \in Unsigned /\ s # <<>>
           third == type = "ObjectIdentifier" /\ DecodableOid(s)
           others == type \notin Unsigned \union {"Integer", "ObjectIdentifier"}
<1>1. CASE first
  <2>1. type \notin Unsigned /\ type # "ObjectIdentifier" /\ type # "IpAddress"
        /\ type \notin {"OctetString", "Opaque"} /\ type \notin Empty
    BY <1>1 DEF Unsigned, Empty
  <2>2. Decoded(type, s) = Val(type, <<SignedNumber(s)>>)
    BY ONLY <1>1, <2>1 DEF Decoded
  <2>3. <<SignedNumber(s)>>[1] \in Int
    BY <1>1, SignedNumberType
  <2>4. Carries(type, <<SignedNumber(s)>>)
    BY ONLY <1>1, <2>1, <2>3 DEF Carries
  <2> QED
    BY <2>2, <2>4
<1>2. CASE second
  <2>1. type # "Integer" /\ type # "ObjectIdentifier" /\ type # "IpAddress"
        /\ type \notin {"OctetString", "Opaque"} /\ type \notin Empty
    BY <1>2 DEF Unsigned, Empty
  <2>2. Decoded(type, s) = Val(type, <<Number(s, 256)>>)
    BY ONLY <1>2, <2>1 DEF Decoded
  <2>3. Number(s, 256) \in Nat
    <3>1. 256 \in Nat
      OBVIOUS
    <3> QED
      BY <3>1, NumberType
  <2>4. <<Number(s, 256)>>[1] \in Nat
    BY <2>3
  <2>5. Carries(type, <<Number(s, 256)>>)
    BY ONLY <1>2, <2>1, <2>4 DEF Carries
  <2> QED
    BY <2>2, <2>5
<1>3. CASE third
  <2>1. type # "Integer" /\ type \notin Unsigned /\ type # "IpAddress"
        /\ type \notin {"OctetString", "Opaque"} /\ type \notin Empty
    BY <1>3 DEF Unsigned, Empty
  <2>2. Decoded(type, s) = Val(type, OidNumbers(s))
    BY ONLY <1>3, <2>1 DEF Decoded
  <2>3. Arcs(OidNumbers(s))
    BY <1>3, OidNumbersType DEF DecodableOid
  <2>4. Carries(type, OidNumbers(s))
    BY ONLY <1>3, <2>1, <2>3 DEF Carries
  <2> QED
    BY <2>2, <2>4
<1>4. CASE others
  <2>1. type # "Integer" /\ type \notin Unsigned /\ type # "ObjectIdentifier"
    BY <1>4
  <2>2. Decoded(type, s) = Val(type, s) \/ Decoded(type, s) = Malformed
    BY ONLY <2>1 DEF Decoded
  <2>3. Carries(type, s)
    BY ONLY <2>1, s \in Seq(Nat) DEF Carries
  <2> QED
    BY <2>2, <2>3
<1>5. CASE ~first /\ ~second /\ ~third /\ ~others
  <2>1. type # "IpAddress" /\ type \notin {"OctetString", "Opaque"} /\ type \notin Empty
    BY <1>5 DEF Unsigned, Empty
  <2>2. Decoded(type, s) = Malformed
    BY ONLY <1>5, <2>1 DEF Decoded
  <2> QED
    BY <2>2
<1> QED
  BY <1>1, <1>2, <1>3, <1>4, <1>5

------------------------------------------------------------------------------
(* Varbinds, and the TLVs of encoded octets.                                *)

\* a value, a varbind and a list of varbinds that can be encoded
Carried(x) == \E type \in DOMAIN Tag : \E v : x = Val(type, v) /\ Carries(type, v)

CarriedVarbind(vb) ==
    \E oid, value : vb = [oid |-> oid, value |-> value] /\ Arcs(oid) /\ Carried(value)

CarriedVarbinds(vbs) ==
    \E n \in Nat : /\ \E S : vbs \in [1 .. n -> S]
                   /\ \A i \in 1 .. n : CarriedVarbind(vbs[i])

LEMMA ValueOfType ==
    ASSUME NEW t \in TlvRecord
    PROVE  ValueOf(t) = Malformed \/ Carried(ValueOf(t))
<1>1. CASE \E type \in DOMAIN Tag : Tag[type] = t.tag
  <2> DEFINE type == CHOOSE ty \in DOMAIN Tag : Tag[ty] = t.tag
  <2>1. type \in DOMAIN Tag
    BY <1>1
  <2>2. ValueOf(t) = Decoded(type, t.content)
    BY <1>1 DEF ValueOf
  <2>3. t.content \in Seq(Nat)
    BY DEF TlvRecord
  <2> HIDE DEF type
  <2>4. \/ Decoded(type, t.content) = Malformed
        \/ \E v : Decoded(type, t.content) = Val(type, v) /\ Carries(type, v)
    BY <2>1, <2>3, DecodedType
  <2> QED
    BY <2>1, <2>2, <2>4 DEF Carried
<1>2. CASE ~ \E type \in DOMAIN Tag : Tag[type] = t.tag
  BY <1>2 DEF ValueOf
<1> QED
  BY <1>1, <1>2

LEMMA CarriedParts ==
    ASSUME NEW x, Carried(x)
    PROVE  /\ x.type \in DOMAIN Tag /\ x = Val(x.type, x.v) /\ Carries(x.type, x.v)
           /\ x # Malformed
<1>0. PICK type \in DOMAIN Tag : \E v : x = Val(type, v) /\ Carries(type, v)
  BY DEF Carried
<1>1. PICK v : x = Val(type, v) /\ Carries(type, v)
  BY <1>0
<1>2. x.type = type /\ x.v = v
  BY <1>1 DEF Val
<1>3. "malformed" \notin DOMAIN Tag
  BY DEF Tag
<1>4. Malformed.type = "malformed"
  BY DEF Malformed, Val
<1> QED
  BY <1>1, <1>2, <1>3, <1>4

\* an INTEGER from its octets
LEMMA IntegerOf ==
    ASSUME NEW t, t.tag = Tag.Integer, t.content # <<>>
    PROVE  ValueOf(t) = Val("Integer", <<SignedNumber(t.content)>>)
<1>1. "Integer" \in DOMAIN Tag
  BY DEF Tag
<1>2. \A type \in DOMAIN Tag : Tag[type] = Tag.Integer => type = "Integer"
  BY DEF Tag
<1>3. (CHOOSE type \in DOMAIN Tag : Tag[type] = t.tag) = "Integer"
  BY <1>1, <1>2
<1>4. ValueOf(t) = Decoded("Integer", t.content)
  BY <1>1, <1>3 DEF ValueOf
<1>5. "Integer" \notin Unsigned /\ "Integer" \notin Empty
      /\ "Integer" \notin {"OctetString", "Opaque"}
  BY DEF Unsigned, Empty
<1>6. Decoded("Integer", t.content) = Val("Integer", <<SignedNumber(t.content)>>)
  BY <1>5 DEF Decoded
<1> QED
  BY <1>4, <1>6

LEMMA EncodedValue ==
    ASSUME NEW x, Carried(x)
    PROVE  EncodeValue(x) \in Seq(Nat)
<1>0. PICK type \in DOMAIN Tag : \E v : x = Val(type, v) /\ Carries(type, v)
  BY DEF Carried
<1>1. PICK v : x = Val(type, v) /\ Carries(type, v)
  BY <1>0
<1>2. PICK c \in Seq(Nat) : Encodes(EncodeValue(Val(type, v)), Tag[type], c)
  BY <1>1, ValueEncodes
<1> QED
  BY <1>1, <1>2, EncodesType

LEMMA IntegerEncodes ==
    ASSUME NEW n \in Int
    PROVE  /\ Encodes(IntegerTlv(n), Tag.Integer, SignedContent(n))
           /\ SignedContent(n) # <<>> /\ SignedNumber(SignedContent(n)) = n
<1>1. "Integer" \in DOMAIN Tag
  BY DEF Tag
<1>2. "Integer" \notin Unsigned
  BY DEF Unsigned
<1>3. <<n>>[1] = n
  OBVIOUS
<1>4. Carries("Integer", <<n>>)
  BY <1>2, <1>3 DEF Carries
<1>5. Encodes(EncodeValue(Val("Integer", <<n>>)), Tag.Integer, SignedContent(<<n>>[1]))
  BY <1>1, <1>4, ValueEncodes
<1> QED
  BY <1>3, <1>5, SignedContentBack DEF IntegerTlv

LEMMA VarbindEncodes ==
    ASSUME NEW vb, CarriedVarbind(vb)
    PROVE  VarbindOctets(vb) \in Seq(Nat)
<1>1. PICK oid, value : vb = [oid |-> oid, value |-> value] /\ Arcs(oid) /\ Carried(value)
  BY DEF CarriedVarbind
<1>2. "ObjectIdentifier" \in DOMAIN Tag
  BY DEF Tag
<1>3. Carries("ObjectIdentifier", oid)
  BY <1>1 DEF Carries, Unsigned
<1>4. Carried(Val("ObjectIdentifier", oid))
  BY <1>2, <1>3 DEF Carried
<1>5. PICK a \in Seq(Nat) : a = EncodeValue(Val("ObjectIdentifier", oid))
  BY <1>4, EncodedValue
<1>6. PICK c \in Seq(Nat) : c = EncodeValue(value)
  BY <1>1, EncodedValue
<1>7. VarbindOctets(vb) = Tlv(SequenceTag, a \o c)
  BY <1>1, <1>5, <1>6 DEF VarbindOctets
<1>8. a \o c \in Seq(Nat)
  BY ConcatProperties
<1>9. SequenceTag \in Nat
  BY DEF SequenceTag
<1>10. Encodes(Tlv(SequenceTag, a \o c), SequenceTag, a \o c)
  BY <1>8, <1>9, EncodesTlv
<1> QED
  BY <1>7, <1>10, EncodesType

LEMMA VarbindsEncode ==
    ASSUME NEW vbs, CarriedVarbinds(vbs)
    PROVE  FlattenSeq([i \in DOMAIN vbs |-> VarbindOctets(vbs[i])]) \in Seq(Nat)
<1>1. PICK n \in Nat : DOMAIN vbs = 1 .. n /\ \A i \in 1 .. n : CarriedVarbind(vbs[i])
  BY DEF CarriedVarbinds
<1> DEFINE ss == [i \in 1 .. n |-> VarbindOctets(vbs[i])]
<1>2. ss \in [1 .. n -> Seq(Nat)]
  BY <1>1, VarbindEncodes
<1>3. [i \in DOMAIN vbs |-> VarbindOctets(vbs[i])] = ss
  BY <1>1
<1> HIDE DEF ss
<1>4. ss \in Seq(Seq(Nat))
  BY <1>2
<1> QED
  BY <1>3, <1>4, Flattened

LEMMA SelfContained ==
    ASSUME NEW b, NEW tag, NEW c, Encodes(b, tag, c)
    PROVE  /\ b \in Seq(Nat)
           /\ Consists(b, <<[tag |-> tag, content |-> c, next |-> Len(b) + 1]>>)
<1>1. b \in Seq(Nat) /\ <<>> \in Seq(Nat)
  BY EncodesType
<1>2. <<>> \o b = b /\ Len(<<>>) = 0
  BY <1>1, EmptySeq, ConcatProperties
<1>3. Consists(<<>>, <<>>)
  BY ConsistsNone
<1>4. Consists(<<>> \o b, Append(<<>>, [tag |-> tag, content |-> c,
                                        next |-> Len(<<>>) + Len(b) + 1]))
  BY <1>1, <1>3, ConsistsMore
<1>5. Len(<<>>) + Len(b) + 1 = Len(b) + 1
  BY <1>1, <1>2, LenProperties
<1>6. Append(<<>>, [tag |-> tag, content |-> c, next |-> Len(b) + 1])
        = <<[tag |-> tag, content |-> c, next |-> Len(b) + 1]>>
  OBVIOUS
<1> QED
  BY <1>1, <1>2, <1>4, <1>5, <1>6

\* a TLV of what is encoded
Read(tag, c, next) == [tag |-> tag, content |-> c, next |-> next]

\* reading on
Reads(b, ts) == b \in Seq(Nat) /\ Consists(b, ts)

LEMMA ReadsMore ==
    ASSUME NEW b, NEW ts, Reads(b, ts), NEW s, NEW tag, NEW c, Encodes(s, tag, c)
    PROVE  /\ Reads(b \o s, Append(ts, Read(tag, c, Len(b) + Len(s) + 1)))
           /\ Len(b \o s) = Len(b) + Len(s)
BY ConsistsMore DEF Reads, Read

LEMMA Append2 ==
    ASSUME NEW S, NEW a \in S, NEW b \in S
    PROVE  Append(<<a>>, b) = <<a, b>>
<1>1. PICK s \in Seq(S) : s = <<a>> /\ Len(s) = 1
                          /\ s[1] = a
  <2>1. <<a>> \in Seq(S)
    OBVIOUS
  <2> QED
    BY <2>1
<1>2. PICK t \in Seq(S) : t = <<a, b>> /\ Len(t) = 2
                          /\ t[1] = a /\ t[2] = b
  <2>1. <<a, b>> \in Seq(S)
    OBVIOUS
  <2> QED
    BY <2>1
<1>3. Append(s, b) = t
  <2>1. Append(s, b) \in Seq(S) /\ Len(Append(s, b)) = 2
    BY <1>1, AppendProperties
  <2>2. \A i \in 1 .. 2 : Append(s, b)[i] = t[i]
    BY <1>1, <1>2, AppendProperties
  <2> QED
    BY <1>2, <2>1, <2>2, SeqEqual
<1> QED
  BY <1>1, <1>2, <1>3

LEMMA Append3 ==
    ASSUME NEW S, NEW a \in S, NEW b \in S, NEW c \in S
    PROVE  Append(<<a, b>>, c) = <<a, b, c>>
<1>1. PICK s \in Seq(S) : s = <<a, b>> /\ Len(s) = 2
                          /\ s[1] = a /\ s[2] = b
  <2>1. <<a, b>> \in Seq(S)
    OBVIOUS
  <2> QED
    BY <2>1
<1>2. PICK t \in Seq(S) : t = <<a, b, c>> /\ Len(t) = 3
                          /\ t[1] = a /\ t[2] = b /\ t[3] = c
  <2>1. <<a, b, c>> \in Seq(S)
    OBVIOUS
  <2> QED
    BY <2>1
<1>3. Append(s, c) = t
  <2>1. Append(s, c) \in Seq(S) /\ Len(Append(s, c)) = 3
    BY <1>1, AppendProperties
  <2>2. \A i \in 1 .. 3 : Append(s, c)[i] = t[i]
    BY <1>1, <1>2, AppendProperties
  <2> QED
    BY <1>2, <2>1, <2>2, SeqEqual
<1> QED
  BY <1>1, <1>2, <1>3

LEMMA Append4 ==
    ASSUME NEW S, NEW a \in S, NEW b \in S, NEW c \in S, NEW d \in S
    PROVE  Append(<<a, b, c>>, d) = <<a, b, c, d>>
<1>1. PICK s \in Seq(S) : s = <<a, b, c>> /\ Len(s) = 3
                          /\ s[1] = a /\ s[2] = b /\ s[3] = c
  <2>1. <<a, b, c>> \in Seq(S)
    OBVIOUS
  <2> QED
    BY <2>1
<1>2. PICK t \in Seq(S) : t = <<a, b, c, d>> /\ Len(t) = 4
                          /\ t[1] = a /\ t[2] = b /\ t[3] = c /\ t[4] = d
  <2>1. <<a, b, c, d>> \in Seq(S)
    OBVIOUS
  <2> QED
    BY <2>1
<1>3. Append(s, d) = t
  <2>1. Append(s, d) \in Seq(S) /\ Len(Append(s, d)) = 4
    BY <1>1, AppendProperties
  <2>2. \A i \in 1 .. 4 : Append(s, d)[i] = t[i]
    BY <1>1, <1>2, AppendProperties
  <2> QED
    BY <1>2, <2>1, <2>2, SeqEqual
<1> QED
  BY <1>1, <1>2, <1>3

LEMMA Append5 ==
    ASSUME NEW S, NEW a \in S, NEW b \in S, NEW c \in S, NEW d \in S, NEW e \in S
    PROVE  Append(<<a, b, c, d>>, e) = <<a, b, c, d, e>>
<1>1. PICK s \in Seq(S) : s = <<a, b, c, d>> /\ Len(s) = 4
                          /\ s[1] = a /\ s[2] = b /\ s[3] = c /\ s[4] = d
  <2>1. <<a, b, c, d>> \in Seq(S)
    OBVIOUS
  <2> QED
    BY <2>1
<1>2. PICK t \in Seq(S) : t = <<a, b, c, d, e>> /\ Len(t) = 5
                          /\ t[1] = a /\ t[2] = b /\ t[3] = c /\ t[4] = d /\ t[5] = e
  <2>1. <<a, b, c, d, e>> \in Seq(S)
    OBVIOUS
  <2> QED
    BY <2>1
<1>3. Append(s, e) = t
  <2>1. Append(s, e) \in Seq(S) /\ Len(Append(s, e)) = 5
    BY <1>1, AppendProperties
  <2>2. \A i \in 1 .. 5 : Append(s, e)[i] = t[i]
    BY <1>1, <1>2, AppendProperties
  <2> QED
    BY <1>2, <2>1, <2>2, SeqEqual
<1> QED
  BY <1>1, <1>2, <1>3

LEMMA Append6 ==
    ASSUME NEW S, NEW a \in S, NEW b \in S, NEW c \in S, NEW d \in S, NEW e \in S, NEW f \in S
    PROVE  Append(<<a, b, c, d, e>>, f) = <<a, b, c, d, e, f>>
<1>1. PICK s \in Seq(S) : s = <<a, b, c, d, e>> /\ Len(s) = 5
                          /\ s[1] = a /\ s[2] = b /\ s[3] = c /\ s[4] = d /\ s[5] = e
  <2>1. <<a, b, c, d, e>> \in Seq(S)
    OBVIOUS
  <2> QED
    BY <2>1
<1>2. PICK t \in Seq(S) : t = <<a, b, c, d, e, f>> /\ Len(t) = 6
                          /\ t[1] = a /\ t[2] = b /\ t[3] = c /\ t[4] = d /\ t[5] = e /\ t[6] = f
  <2>1. <<a, b, c, d, e, f>> \in Seq(S)
    OBVIOUS
  <2> QED
    BY <2>1
<1>3. Append(s, f) = t
  <2>1. Append(s, f) \in Seq(S) /\ Len(Append(s, f)) = 6
    BY <1>1, AppendProperties
  <2>2. \A i \in 1 .. 6 : Append(s, f)[i] = t[i]
    BY <1>1, <1>2, AppendProperties
  <2> QED
    BY <1>2, <2>1, <2>2, SeqEqual
<1> QED
  BY <1>1, <1>2, <1>3

LEMMA ReadType ==
    ASSUME NEW s, NEW tag, NEW c, Encodes(s, tag, c), NEW next \in Nat
    PROVE  Read(tag, c, next) \in TlvRecord /\ Len(s) \in Nat
<1>1. tag \in Nat /\ c \in Seq(Nat) /\ s \in Seq(Nat)
  BY EncodesType DEF Encodes
<1> QED
  BY <1>1 DEF Read, TlvRecord

LEMMA ReadsOne ==
    ASSUME NEW s, NEW tag, NEW c, Encodes(s, tag, c)
    PROVE  Reads(s, <<Read(tag, c, Len(s) + 1)>>)
BY SelfContained DEF Reads, Read

LEMMA ReadsTwo ==
    ASSUME NEW s1, NEW t1, NEW c1, Encodes(s1, t1, c1),
           NEW s2, NEW t2, NEW c2, Encodes(s2, t2, c2)
    PROVE  /\ Reads(s1 \o s2,
                  <<Read(t1, c1, Len(s1) + 1),
                    Read(t2, c2, Len(s1) + Len(s2) + 1)>>)
           /\ Len(s1 \o s2) = Len(s1) + Len(s2)
<1> DEFINE b == s1
           r1 == Read(t1, c1, Len(s1) + 1)
           r2 == Read(t2, c2, Len(s1) + Len(s2) + 1)
<1>1. Reads(b, <<r1>>) /\ Len(b) = Len(s1)
  BY ReadsOne
<1>2. r1 \in TlvRecord /\ r2 \in TlvRecord
  <2>1. Len(s1) \in Nat
    BY ReadType
  <2>2. Len(s2) \in Nat
    BY ReadType
  <2>3. Len(s1) + 1 \in Nat
    BY <2>1
  <2>4. Len(s1) + Len(s2) + 1 \in Nat
    BY <2>1, <2>2
  <2> QED
    BY <2>3, <2>4, ReadType
<1>3. r2 = Read(t2, c2, Len(b) + Len(s2) + 1)
  BY <1>1
<1> HIDE DEF b, r1, r2
<1>4. Append(<<r1>>, r2) = <<r1, r2>>
  BY <1>2, Append2
<1>5. Reads(b \o s2, Append(<<r1>>, r2)) /\ Len(b \o s2) = Len(b) + Len(s2)
  BY <1>1, <1>3, ReadsMore
<1>6. Reads(b \o s2, <<r1, r2>>) /\ Len(b \o s2) = Len(b) + Len(s2)
  BY <1>4, <1>5
<1> QED
  BY <1>1, <1>6 DEF b, r1, r2

LEMMA ReadsThree ==
    ASSUME NEW s1, NEW t1, NEW c1, Encodes(s1, t1, c1),
           NEW s2, NEW t2, NEW c2, Encodes(s2, t2, c2),
           NEW s3, NEW t3, NEW c3, Encodes(s3, t3, c3)
    PROVE  /\ Reads(s1 \o s2 \o s3,
                  <<Read(t1, c1, Len(s1) + 1),
                    Read(t2, c2, Len(s1) + Len(s2) + 1),
                    Read(t3, c3, Len(s1) + Len(s2) + Len(s3) + 1)>>)
           /\ Len(s1 \o s2 \o s3) = Len(s1) + Len(s2) + Len(s3)
<1> DEFINE b == s1 \o s2
           r1 == Read(t1, c1, Len(s1) + 1)
           r2 == Read(t2, c2, Len(s1) + Len(s2) + 1)
           r3 == Read(t3, c3, Len(s1) + Len(s2) + Len(s3) + 1)
<1>1. Reads(b, <<r1, r2>>) /\ Len(b) = Len(s1) + Len(s2)
  BY ReadsTwo
<1>2. r1 \in TlvRecord /\ r2 \in TlvRecord /\ r3 \in TlvRecord
  <2>1. Len(s1) \in Nat
    BY ReadType
  <2>2. Len(s2) \in Nat
    BY ReadType
  <2>3. Len(s3) \in Nat
    BY ReadType
  <2>4. Len(s1) + 1 \in Nat
    BY <2>1
  <2>5. Len(s1) + Len(s2) + 1 \in Nat
    BY <2>1, <2>2
  <2>6. Len(s1) + Len(s2) + Len(s3) + 1 \in Nat
    BY <2>1, <2>2, <2>3
  <2> QED
    BY <2>4, <2>5, <2>6, ReadType
<1>3. r3 = Read(t3, c3, Len(b) + Len(s3) + 1)
  BY <1>1
<1> HIDE DEF b, r1, r2, r3
<1>4. Append(<<r1, r2>>, r3) = <<r1, r2, r3>>
  BY <1>2, Append3
<1>5. Reads(b \o s3, Append(<<r1, r2>>, r3)) /\ Len(b \o s3) = Len(b) + Len(s3)
  BY <1>1, <1>3, ReadsMore
<1>6. Reads(b \o s3, <<r1, r2, r3>>) /\ Len(b \o s3) = Len(b) + Len(s3)
  BY <1>4, <1>5
<1> QED
  BY <1>1, <1>6 DEF b, r1, r2, r3

LEMMA ReadsFour ==
    ASSUME NEW s1, NEW t1, NEW c1, Encodes(s1, t1, c1),
           NEW s2, NEW t2, NEW c2, Encodes(s2, t2, c2),
           NEW s3, NEW t3, NEW c3, Encodes(s3, t3, c3),
           NEW s4, NEW t4, NEW c4, Encodes(s4, t4, c4)
    PROVE  /\ Reads(s1 \o s2 \o s3 \o s4,
                  <<Read(t1, c1, Len(s1) + 1),
                    Read(t2, c2, Len(s1) + Len(s2) + 1),
                    Read(t3, c3, Len(s1) + Len(s2) + Len(s3) + 1),
                    Read(t4, c4, Len(s1) + Len(s2) + Len(s3) + Len(s4) + 1)>>)
           /\ Len(s1 \o s2 \o s3 \o s4) = Len(s1) + Len(s2) + Len(s3) + Len(s4)
<1> DEFINE b == s1 \o s2 \o s3
           r1 == Read(t1, c1, Len(s1) + 1)
           r2 == Read(t2, c2, Len(s1) + Len(s2) + 1)
           r3 == Read(t3, c3, Len(s1) + Len(s2) + Len(s3) + 1)
           r4 == Read(t4, c4, Len(s1) + Len(s2) + Len(s3) + Len(s4) + 1)
<1>1. Reads(b, <<r1, r2, r3>>) /\ Len(b) = Len(s1) + Len(s2) + Len(s3)
  BY ReadsThree
<1>2. r1 \in TlvRecord /\ r2 \in TlvRecord /\ r3 \in TlvRecord /\ r4 \in TlvRecord
  <2>1. Len(s1) \in Nat
    BY ReadType
  <2>2. Len(s2) \in Nat
    BY ReadType
  <2>3. Len(s3) \in Nat
    BY ReadType
  <2>4. Len(s4) \in Nat
    BY ReadType
  <2>5. Len(s1) + 1 \in Nat
    BY <2>1
  <2>6. Len(s1) + Len(s2) + 1 \in Nat
    BY <2>1, <2>2
  <2>7. Len(s1) + Len(s2) + Len(s3) + 1 \in Nat
    BY <2>1, <2>2, <2>3
  <2>8. Len(s1) + Len(s2) + Len(s3) + Len(s4) + 1 \in Nat
    BY <2>1, <2>2, <2>3, <2>4
  <2> QED
    BY <2>5, <2>6, <2>7, <2>8, ReadType
<1>3. r4 = Read(t4, c4, Len(b) + Len(s4) + 1)
  BY <1>1
<1> HIDE DEF b, r1, r2, r3, r4
<1>4. Append(<<r1, r2, r3>>, r4) = <<r1, r2, r3, r4>>
  BY <1>2, Append4
<1>5. Reads(b \o s4, Append(<<r1, r2, r3>>, r4)) /\ Len(b \o s4) = Len(b) + Len(s4)
  BY <1>1, <1>3, ReadsMore
<1>6. Reads(b \o s4, <<r1, r2, r3, r4>>) /\ Len(b \o s4) = Len(b) + Len(s4)
  BY <1>4, <1>5
<1> QED
  BY <1>1, <1>6 DEF b, r1, r2, r3, r4

LEMMA ReadsFive ==
    ASSUME NEW s1, NEW t1, NEW c1, Encodes(s1, t1, c1),
           NEW s2, NEW t2, NEW c2, Encodes(s2, t2, c2),
           NEW s3, NEW t3, NEW c3, Encodes(s3, t3, c3),
           NEW s4, NEW t4, NEW c4, Encodes(s4, t4, c4),
           NEW s5, NEW t5, NEW c5, Encodes(s5, t5, c5)
    PROVE  /\ Reads(s1 \o s2 \o s3 \o s4 \o s5,
                  <<Read(t1, c1, Len(s1) + 1),
                    Read(t2, c2, Len(s1) + Len(s2) + 1),
                    Read(t3, c3, Len(s1) + Len(s2) + Len(s3) + 1),
                    Read(t4, c4, Len(s1) + Len(s2) + Len(s3) + Len(s4) + 1),
                    Read(t5, c5, Len(s1) + Len(s2) + Len(s3) + Len(s4) + Len(s5) + 1)>>)
           /\ Len(s1 \o s2 \o s3 \o s4 \o s5) = Len(s1) + Len(s2) + Len(s3) + Len(s4) + Len(s5)
<1> DEFINE b == s1 \o s2 \o s3 \o s4
           r1 == Read(t1, c1, Len(s1) + 1)
           r2 == Read(t2, c2, Len(s1) + Len(s2) + 1)
           r3 == Read(t3, c3, Len(s1) + Len(s2) + Len(s3) + 1)
           r4 == Read(t4, c4, Len(s1) + Len(s2) + Len(s3) + Len(s4) + 1)
           r5 == Read(t5, c5, Len(s1) + Len(s2) + Len(s3) + Len(s4) + Len(s5) + 1)
<1>1. Reads(b, <<r1, r2, r3, r4>>) /\ Len(b) = Len(s1) + Len(s2) + Len(s3) + Len(s4)
  BY ReadsFour
<1>2. /\ r1 \in TlvRecord /\ r2 \in TlvRecord /\ r3 \in TlvRecord
      /\ r4 \in TlvRecord /\ r5 \in TlvRecord
  <2>1. Len(s1) \in Nat
    BY ReadType
  <2>2. Len(s2) \in Nat
    BY ReadType
  <2>3. Len(s3) \in Nat
    BY ReadType
  <2>4. Len(s4) \in Nat
    BY ReadType
  <2>5. Len(s5) \in Nat
    BY ReadType
  <2>6. Len(s1) + 1 \in Nat
    BY <2>1
  <2>7. Len(s1) + Len(s2) + 1 \in Nat
    BY <2>1, <2>2
  <2>8. Len(s1) + Len(s2) + Len(s3) + 1 \in Nat
    BY <2>1, <2>2, <2>3
  <2>9. Len(s1) + Len(s2) + Len(s3) + Len(s4) + 1 \in Nat
    BY <2>1, <2>2, <2>3, <2>4
  <2>10. Len(s1) + Len(s2) + Len(s3) + Len(s4) + Len(s5) + 1 \in Nat
    BY <2>1, <2>2, <2>3, <2>4, <2>5
  <2> QED
    BY <2>6, <2>7, <2>8, <2>9, <2>10, ReadType
<1>3. r5 = Read(t5, c5, Len(b) + Len(s5) + 1)
  BY <1>1
<1> HIDE DEF b, r1, r2, r3, r4, r5
<1>4. Append(<<r1, r2, r3, r4>>, r5) = <<r1, r2, r3, r4, r5>>
  BY <1>2, Append5
<1>5. Reads(b \o s5, Append(<<r1, r2, r3, r4>>, r5)) /\ Len(b \o s5) = Len(b) + Len(s5)
  BY <1>1, <1>3, ReadsMore
<1>6. Reads(b \o s5, <<r1, r2, r3, r4, r5>>) /\ Len(b \o s5) = Len(b) + Len(s5)
  BY <1>4, <1>5
<1> QED
  BY <1>1, <1>6 DEF b, r1, r2, r3, r4, r5

SixTlvs(s1, t1, c1, s2, t2, c2, s3, t3, c3, s4, t4, c4, s5, t5, c5, s6, t6, c6) ==
    /\ Encodes(s1, t1, c1) /\ Encodes(s2, t2, c2) /\ Encodes(s3, t3, c3)
    /\ Encodes(s4, t4, c4) /\ Encodes(s5, t5, c5) /\ Encodes(s6, t6, c6)

LEMMA ReadsSix ==
    ASSUME NEW s1, NEW t1, NEW c1,
           NEW s2, NEW t2, NEW c2,
           NEW s3, NEW t3, NEW c3,
           NEW s4, NEW t4, NEW c4,
           NEW s5, NEW t5, NEW c5,
           NEW s6, NEW t6, NEW c6,
           SixTlvs(s1, t1, c1, s2, t2, c2, s3, t3, c3, s4, t4, c4, s5, t5, c5, s6, t6, c6)
    PROVE  /\ Reads(s1 \o s2 \o s3 \o s4 \o s5 \o s6,
                  <<Read(t1, c1, Len(s1) + 1),
                    Read(t2, c2, Len(s1) + Len(s2) + 1),
                    Read(t3, c3, Len(s1) + Len(s2) + Len(s3) + 1),
                    Read(t4, c4, Len(s1) + Len(s2) + Len(s3) + Len(s4) + 1),
                    Read(t5, c5, Len(s1) + Len(s2) + Len(s3) + Len(s4) + Len(s5) + 1),
                    Read(t6, c6, Len(s1) + Len(s2) + Len(s3) + Len(s4) + Len(s5) + Len(s6) + 1)>>)
           /\ Len(s1 \o s2 \o s3 \o s4 \o s5 \o s6)
                = Len(s1) + Len(s2) + Len(s3) + Len(s4) + Len(s5) + Len(s6)
<1> DEFINE b == s1 \o s2 \o s3 \o s4 \o s5
           r1 == Read(t1, c1, Len(s1) + 1)
           r2 == Read(t2, c2, Len(s1) + Len(s2) + 1)
           r3 == Read(t3, c3, Len(s1) + Len(s2) + Len(s3) + 1)
           r4 == Read(t4, c4, Len(s1) + Len(s2) + Len(s3) + Len(s4) + 1)
           r5 == Read(t5, c5, Len(s1) + Len(s2) + Len(s3) + Len(s4) + Len(s5) + 1)
           r6 == Read(t6, c6, Len(s1) + Len(s2) + Len(s3) + Len(s4) + Len(s5) + Len(s6) + 1)
<1>0. /\ Encodes(s1, t1, c1) /\ Encodes(s2, t2, c2) /\ Encodes(s3, t3, c3)
      /\ Encodes(s4, t4, c4) /\ Encodes(s5, t5, c5) /\ Encodes(s6, t6, c6)
  BY DEF SixTlvs
<1> USE <1>0
<1>1. Reads(b, <<r1, r2, r3, r4, r5>>) /\ Len(b) = Len(s1) + Len(s2) + Len(s3) + Len(s4) + Len(s5)
  BY ReadsFive
<1>2. /\ r1 \in TlvRecord /\ r2 \in TlvRecord /\ r3 \in TlvRecord
      /\ r4 \in TlvRecord /\ r5 \in TlvRecord /\ r6 \in TlvRecord
  <2>1. Len(s1) \in Nat
    BY ReadType
  <2>2. Len(s2) \in Nat
    BY ReadType
  <2>3. Len(s3) \in Nat
    BY ReadType
  <2>4. Len(s4) \in Nat
    BY ReadType
  <2>5. Len(s5) \in Nat
    BY ReadType
  <2>6. Len(s6) \in Nat
    BY ReadType
  <2>7. Len(s1) + 1 \in Nat
    BY <2>1
  <2>8. Len(s1) + Len(s2) + 1 \in Nat
    BY <2>1, <2>2
  <2>9. Len(s1) + Len(s2) + Len(s3) + 1 \in Nat
    BY <2>1, <2>2, <2>3
  <2>10. Len(s1) + Len(s2) + Len(s3) + Len(s4) + 1 \in Nat
    BY <2>1, <2>2, <2>3, <2>4
  <2>11. Len(s1) + Len(s2) + Len(s3) + Len(s4) + Len(s5) + 1 \in Nat
    BY <2>1, <2>2, <2>3, <2>4, <2>5
  <2>12. Len(s1) + Len(s2) + Len(s3) + Len(s4) + Len(s5) + Len(s6) + 1 \in Nat
    BY <2>1, <2>2, <2>3, <2>4, <2>5, <2>6
  <2> QED
    BY <2>7, <2>8, <2>9, <2>10, <2>11, <2>12, ReadType
<1>3. r6 = Read(t6, c6, Len(b) + Len(s6) + 1)
  BY <1>1
<1> HIDE DEF b, r1, r2, r3, r4, r5, r6
<1>4. Append(<<r1, r2, r3, r4, r5>>, r6) = <<r1, r2, r3, r4, r5, r6>>
  BY <1>2, Append6
<1>5. Reads(b \o s6, Append(<<r1, r2, r3, r4, r5>>, r6)) /\ Len(b \o s6) = Len(b) + Len(s6)
  BY <1>1, <1>3, ReadsMore
<1>6. Reads(b \o s6, <<r1, r2, r3, r4, r5, r6>>) /\ Len(b \o s6) = Len(b) + Len(s6)
  BY <1>4, <1>5
<1> QED
  BY <1>1, <1>6 DEF b, r1, r2, r3, r4, r5, r6

LEMMA ReadsTlvs ==
    ASSUME NEW b, NEW ts, Reads(b, ts)
    PROVE  b \in Seq(Nat) /\ Tlvs(b) = ts /\ ts \in Seq(TlvRecord)
BY ConsistsTlvs DEF Reads, Consists

------------------------------------------------------------------------------
(* PDUs.                                                                    *)

LEMMA TwoSides ==
    ASSUME NEW a \in Seq(Nat), NEW b \in Seq(Nat)
    PROVE  a \o b \in Seq(Nat)
BY ConcatProperties

\* a PDU begins with its id
BeginsWith(b, tag, id) ==
    \E c \in Seq(Nat) : /\ b = Tlv(tag, c) /\ Encodes(b, tag, c)
                        /\ Len(Tlvs(c)) = 4 /\ Tlvs(c)[1].tag = Tag.Integer
                        /\ Tlvs(c)[1].content = SignedContent(id)

LEMMA PduEncodes ==
    ASSUME NEW tag \in Nat, NEW id \in Int, NEW status \in Int, NEW index \in Int,
           NEW vbs, CarriedVarbinds(vbs)
    PROVE  BeginsWith(PduOctets(tag, id, status, index, vbs), tag, id)
<1> DEFINE vs == FlattenSeq([i \in DOMAIN vbs |-> VarbindOctets(vbs[i])])
           s1 == IntegerTlv(id)
           s2 == IntegerTlv(status)
           s3 == IntegerTlv(index)
           s4 == Tlv(SequenceTag, vs)
           c == s1 \o s2 \o s3 \o s4
<1>1. PduOctets(tag, id, status, index, vbs) = Tlv(tag, c)
  BY DEF PduOctets
<1>2. vs \in Seq(Nat)
  BY VarbindsEncode
<1> HIDE DEF vs
<1>3. Encodes(s4, SequenceTag, vs)
  <2>1. SequenceTag \in Nat
    BY DEF SequenceTag
  <2> QED
    BY <1>2, <2>1, EncodesTlv
<1>4. /\ Encodes(s1, Tag.Integer, SignedContent(id))
      /\ Encodes(s2, Tag.Integer, SignedContent(status))
      /\ Encodes(s3, Tag.Integer, SignedContent(index))
  BY IntegerEncodes
<1> HIDE DEF s1, s2, s3, s4
<1> DEFINE r1 == Read(Tag.Integer, SignedContent(id), Len(s1) + 1)
           r2 == Read(Tag.Integer, SignedContent(status), Len(s1) + Len(s2) + 1)
           r3 == Read(Tag.Integer, SignedContent(index), Len(s1) + Len(s2) + Len(s3) + 1)
           r4 == Read(SequenceTag, vs, Len(s1) + Len(s2) + Len(s3) + Len(s4) + 1)
<1>5. Reads(c, <<r1, r2, r3, r4>>)
  BY <1>3, <1>4, ReadsFour
<1> HIDE DEF c
<1>6. c \in Seq(Nat) /\ Tlvs(c) = <<r1, r2, r3, r4>>
  BY <1>5, ReadsTlvs
<1>7. r1.tag = Tag.Integer /\ r1.content = SignedContent(id)
  BY DEF Read
<1> HIDE DEF r1, r2, r3, r4
<1>8. Len(Tlvs(c)) = 4 /\ Tlvs(c)[1] = r1
  BY <1>6
<1>9. Encodes(Tlv(tag, c), tag, c)
  BY <1>6, EncodesTlv
<1> QED
  BY <1>1, <1>6, <1>7, <1>8, <1>9 DEF BeginsWith

\* and what is read has that id
LEMMA PduBack ==
    ASSUME NEW b, NEW tag, NEW c, Encodes(b, tag, c), NEW tags,
           NEW id \in Int, Len(Tlvs(c)) = 4, Tlvs(c)[1].tag = Tag.Integer,
           Tlvs(c)[1].content = SignedContent(id)
    PROVE  \/ OnlyPdu(Tlvs(b), tags) = NoPdu
           \/ /\ tag \in tags /\ OnlyPdu(Tlvs(b), tags).tag = tag
              /\ OnlyPdu(Tlvs(b), tags).id = id
<1>1. PICK p \in Seq(TlvRecord) : p = Tlvs(c)
  <2>1. c \in Seq(Nat)
    BY DEF Encodes
  <2> QED
    BY <2>1, TlvsType
<1> DEFINE r == [tag |-> tag, content |-> c, next |-> Len(b) + 1]
<1>2. Tlvs(b) = <<r>>
  BY OnlyTlv
<1>3. r.tag = tag /\ r.content = c
  OBVIOUS
<1> HIDE DEF r
<1>4. <<r>>[1] = r /\ Len(<<r>>) = 1
  OBVIOUS
<1>5. OnlyPdu(Tlvs(b), tags) = IF tag \in tags THEN PduBody(tag, p) ELSE NoPdu
  BY <1>1, <1>2, <1>3, <1>4 DEF OnlyPdu
<1>6. PduBody(tag, p) = NoPdu
      \/ PduBody(tag, p) = PduWith(tag, Values(Front(p)), Varbinds(Tlvs(p[4].content)))
  BY DEF PduBody
<1>7. Len(p) = 4 /\ p[1].tag = Tag.Integer /\ p[1].content = SignedContent(id)
  BY <1>1
<1>8. Front(p) \in Seq(TlvRecord) /\ Len(Front(p)) = 3 /\ Front(p)[1] = p[1]
  <2>1. Front(p) = SubSeq(p, 1, 3)
    BY <1>7 DEF Front
  <2>2. ASSUME NEW i \in 1 .. 3 PROVE p[i] \in TlvRecord
    <3>1. i \in 1 .. Len(p)
      BY <1>7
    <3> QED
      BY <3>1, ElementOfSeq
  <2>3. /\ SubSeq(p, 1, 3) \in Seq(TlvRecord) /\ Len(SubSeq(p, 1, 3)) = 3
        /\ SubSeq(p, 1, 3)[1] = p[1]
    BY <2>2, SubSeqProperties
  <2> QED
    BY <2>1, <2>3
<1>9. ValueOf(p[1]).v[1] = id
  <2>1. SignedContent(id) # <<>> /\ SignedNumber(SignedContent(id)) = id
    BY SignedContentBack
  <2>2. ValueOf(p[1]) = Val("Integer", <<SignedNumber(SignedContent(id))>>)
    BY <1>7, <2>1, IntegerOf
  <2>3. Val("Integer", <<id>>).v = <<id>>
    BY DEF Val
  <2>4. <<id>>[1] = id
    OBVIOUS
  <2> QED
    BY <2>1, <2>2, <2>3, <2>4
<1>10. Values(Front(p))[1] = ValueOf(p[1])
  <2>1. 1 \in DOMAIN Front(p)
    BY <1>8
  <2> QED
    BY <1>8, <2>1 DEF Values
<1>11. ASSUME NEW vbs
       PROVE  PduWith(tag, Values(Front(p)), vbs) = NoPdu
              \/ /\ PduWith(tag, Values(Front(p)), vbs).tag = tag
                 /\ PduWith(tag, Values(Front(p)), vbs).id = id
  BY <1>9, <1>10 DEF PduWith
<1> QED
  BY <1>5, <1>6, <1>11

LEMMA VarbindFromType ==
    ASSUME NEW ts \in Seq(TlvRecord)
    PROVE  \/ VarbindFrom(Values(ts)) = NoVarbind
           \/ CarriedVarbind(VarbindFrom(Values(ts)))
<1>1. SUFFICES ASSUME /\ Len(Values(ts)) = 2
                      /\ Values(ts)[1].type = "ObjectIdentifier" /\ Values(ts)[2] # Malformed
               PROVE  CarriedVarbind([oid |-> Values(ts)[1].v, value |-> Values(ts)[2]])
  BY DEF VarbindFrom
<1>2. PICK n \in Nat : n = Len(ts) /\ DOMAIN ts = 1 .. n
  OBVIOUS
<1>3. Values(ts) = [i \in 1 .. n |-> ValueOf(ts[i])]
  BY <1>2 DEF Values
<1>4. Len([i \in 1 .. n |-> ValueOf(ts[i])]) = n
  OBVIOUS
<1>5. n = 2
  BY <1>1, <1>3, <1>4
<1>6. ts[1] \in TlvRecord /\ ts[2] \in TlvRecord
  <2>1. 1 \in 1 .. Len(ts) /\ 2 \in 1 .. Len(ts)
    BY <1>2, <1>5
  <2> QED
    BY <2>1, ElementOfSeq
<1>7. Values(ts)[1] = ValueOf(ts[1]) /\ Values(ts)[2] = ValueOf(ts[2])
  BY <1>3, <1>5
<1>8. ValueOf(ts[1]).type = "ObjectIdentifier"
  BY <1>1, <1>7
<1>9. ValueOf(ts[1]) # Malformed
  BY <1>8 DEF Malformed, Val
<1>10. Carries("ObjectIdentifier", ValueOf(ts[1]).v)
  <2>1. Carried(ValueOf(ts[1]))
    BY <1>6, <1>9, ValueOfType
  <2> QED
    BY <1>8, <2>1, CarriedParts
<1>11. Arcs(ValueOf(ts[1]).v)
  BY <1>10 DEF Carries
<1>12. Carried(ValueOf(ts[2]))
  BY <1>1, <1>6, <1>7, ValueOfType
<1> QED
  BY <1>7, <1>11, <1>12 DEF CarriedVarbind

LEMMA VarbindsType ==
    ASSUME NEW ts \in Seq(TlvRecord),
           \A i \in DOMAIN Varbinds(ts) : Varbinds(ts)[i] # NoVarbind
    PROVE  CarriedVarbinds(Varbinds(ts))
<1>1. PICK n \in Nat : n = Len(ts) /\ DOMAIN ts = 1 .. n
  OBVIOUS
<1> DEFINE V(i) == IF ts[i].tag = SequenceTag THEN VarbindFrom(Values(Tlvs(ts[i].content)))
                   ELSE NoVarbind
<1>2. Varbinds(ts) = [i \in 1 .. n |-> V(i)]
  BY <1>1 DEF Varbinds
<1>3. ASSUME NEW i \in 1 .. n PROVE CarriedVarbind(V(i))
  <2>1. V(i) # NoVarbind
    BY <1>2
  <2>2. ts[i] \in TlvRecord
    BY <1>1, ElementOfSeq
  <2>3. ts[i].content \in Seq(Nat)
    BY <2>2 DEF TlvRecord
  <2>4. Tlvs(ts[i].content) \in Seq(TlvRecord)
    BY <2>3, TlvsType
  <2>5. V(i) = VarbindFrom(Values(Tlvs(ts[i].content)))
    BY <2>1
  <2> HIDE DEF V
  <2> QED
    BY <2>1, <2>4, <2>5, VarbindFromType
<1> HIDE DEF V
<1>4. [i \in 1 .. n |-> V(i)] \in [1 .. n -> {V(i) : i \in 1 .. n}]
  OBVIOUS
<1>5. \A i \in 1 .. n : [j \in 1 .. n |-> V(j)][i] = V(i)
  OBVIOUS
<1> QED
  BY <1>2, <1>3, <1>4, <1>5 DEF CarriedVarbinds

\* what is decoded can be encoded again
LEMMA PduType ==
    ASSUME NEW b \in Seq(Nat), NEW tags
    PROVE  LET p == OnlyPdu(Tlvs(b), tags) IN
           p # NoPdu => p.tag \in tags /\ p.id \in Int /\ CarriedVarbinds(p.varbinds)
<1>1. SUFFICES ASSUME OnlyPdu(Tlvs(b), tags) # NoPdu
               PROVE  /\ OnlyPdu(Tlvs(b), tags).tag \in tags /\ OnlyPdu(Tlvs(b), tags).id \in Int
                      /\ CarriedVarbinds(OnlyPdu(Tlvs(b), tags).varbinds)
  OBVIOUS
<1>2. PICK ts \in Seq(TlvRecord) : ts = Tlvs(b)
  BY TlvsType
<1>3. /\ Len(ts) = 1 /\ ts[1].tag \in tags
      /\ OnlyPdu(Tlvs(b), tags) = PduBody(ts[1].tag, Tlvs(ts[1].content))
  BY <1>1, <1>2 DEF OnlyPdu
<1>4. ts[1].content \in Seq(Nat)
  <2>1. 1 \in 1 .. Len(ts)
    BY <1>3
  <2>2. ts[1] \in TlvRecord
    BY <2>1, ElementOfSeq
  <2> QED
    BY <2>2 DEF TlvRecord
<1>5. PICK p \in Seq(TlvRecord) : p = Tlvs(ts[1].content)
  BY <1>4, TlvsType
<1> DEFINE tag == ts[1].tag
           numbers == Values(Front(p))
           vbs == Varbinds(Tlvs(p[4].content))
<1> HIDE DEF tag
<1>6. /\ Len(p) = 4 /\ OnlyPdu(Tlvs(b), tags) = PduWith(tag, numbers, vbs)
  BY <1>1, <1>3, <1>5 DEF PduBody, tag
<1>7. /\ \A i \in DOMAIN numbers : numbers[i].type = "Integer"
      /\ \A i \in DOMAIN vbs : vbs[i] # NoVarbind
      /\ PduWith(tag, numbers, vbs).tag = tag
      /\ PduWith(tag, numbers, vbs).id = numbers[1].v[1]
      /\ PduWith(tag, numbers, vbs).varbinds = vbs
  <2> HIDE DEF numbers, vbs
  <2> QED
    BY <1>1, <1>6 DEF PduWith
<1>8. numbers[1] = ValueOf(p[1]) /\ 1 \in DOMAIN numbers
  <2>1. Front(p) = SubSeq(p, 1, 3)
    BY <1>6 DEF Front
  <2>2. ASSUME NEW i \in 1 .. 3 PROVE p[i] \in TlvRecord
    <3>1. i \in 1 .. Len(p)
      BY <1>6
    <3> QED
      BY <3>1, ElementOfSeq
  <2>3. PICK f \in Seq(TlvRecord) : f = Front(p) /\ Len(f) = 3 /\ f[1] = p[1]
    <3>1. /\ SubSeq(p, 1, 3) \in Seq(TlvRecord) /\ Len(SubSeq(p, 1, 3)) = 3
          /\ SubSeq(p, 1, 3)[1] = p[1]
      BY <2>2, SubSeqProperties
    <3> QED
      BY <2>1, <3>1
  <2>4. 1 \in DOMAIN f
    BY <2>3
  <2> QED
    BY <2>3, <2>4 DEF Values
<1>9. p[1] \in TlvRecord /\ p[4] \in TlvRecord
  <2>1. 1 \in 1 .. Len(p) /\ 4 \in 1 .. Len(p)
    BY <1>6
  <2> QED
    BY <2>1, ElementOfSeq
<1>10. numbers[1].v[1] \in Int
  <2>1. ValueOf(p[1]).type = "Integer"
    BY <1>7, <1>8
  <2>2. ValueOf(p[1]) # Malformed
    BY <2>1 DEF Malformed, Val
  <2>3. Carries("Integer", ValueOf(p[1]).v)
    BY <1>9, <2>1, <2>2, ValueOfType, CarriedParts
  <2>4. ValueOf(p[1]).v[1] \in Int
    BY <2>3 DEF Carries
  <2> QED
    BY <1>8, <2>4
<1>11. CarriedVarbinds(vbs)
  <2>1. p[4].content \in Seq(Nat)
    BY <1>9 DEF TlvRecord
  <2>2. Tlvs(p[4].content) \in Seq(TlvRecord)
    BY <2>1, TlvsType
  <2> QED
    BY <1>7, <2>2, VarbindsType
<1> HIDE DEF numbers, vbs
<1> QED
  BY <1>3, <1>6, <1>7, <1>10, <1>11 DEF tag

------------------------------------------------------------------------------
(* Octets put together.                                                     *)

LEMMA Joined ==
    ASSUME NEW s \in Seq(Nat), NEW t \in Seq(Nat)
    PROVE  \E u \in Seq(Nat) : u = s \o t /\ Len(u) = Len(s) + Len(t)
<1>1. s \o t \in Seq(Nat) /\ Len(s \o t) = Len(s) + Len(t)
  BY ConcatProperties
<1> QED
  BY <1>1

LEMMA Associate ==
    ASSUME NEW s \in Seq(Nat), NEW t \in Seq(Nat), NEW u \in Seq(Nat)
    PROVE  (s \o t) \o u = s \o (t \o u)
BY ConcatAssociative, SMTT(30)

LEMMA OctetEncodes ==
    ASSUME NEW s \in Seq(Nat)
    PROVE  Encodes(OctetTlv(s), Tag.OctetString, s)
<1>1. "OctetString" \in DOMAIN Tag
  BY DEF Tag
<1>2. Carries("OctetString", s)
  BY DEF Carries, Unsigned
<1> QED
  BY <1>1, <1>2, ValueEncodes DEF OctetTlv

LEMMA StructureEncodes ==
    ASSUME NEW c \in Seq(Nat), NEW long \in BOOLEAN
    PROVE  Encodes(Structure(c, long), SequenceTag, c) /\ Structure(c, long) \in Seq(Nat)
<1>1. SequenceTag \in Nat
  BY DEF SequenceTag
<1>2. CASE long = FALSE
  <2>1. Structure(c, long) = Tlv(SequenceTag, c)
    BY <1>2 DEF Structure
  <2> QED
    BY <1>1, <2>1, EncodesTlv, EncodesType
<1>3. CASE long = TRUE
  <2>1. Structure(c, long) = <<SequenceTag>> \o LongLength(Len(c)) \o c
    BY <1>3 DEF Structure
  <2>2. PICK l \in Seq(Nat) : l = LongLength(Len(c)) /\ LengthForm(l, Len(c))
    BY LongLengthIsRead
  <2>3. Encodes(Structure(c, long), SequenceTag, c)
    BY <1>1, <2>1, <2>2 DEF Encodes
  <2> QED
    BY <2>3, EncodesType
<1> QED
  BY <1>2, <1>3

------------------------------------------------------------------------------
(* The cipher.                                                              *)

LEMMA CipherBack ==
    ASSUME NEW s \in Seq(Nat)
    PROVE  Cipher(s) \in Seq(Nat) /\ Cipher(Cipher(s)) = s
<1>1. PICK n \in Nat : n = Len(s)
  OBVIOUS
<1>2. s \in [1 .. n -> Nat] /\ DOMAIN s = 1 .. n
  BY <1>1
<1> DEFINE flip(x) == IF x % 2 = 0 THEN x + 1 ELSE x - 1
<1>3. ASSUME NEW x \in Nat PROVE flip(x) \in Nat /\ flip(flip(x)) = x
  <2>1. x % 2 = 0 \/ (x % 2 = 1 /\ x > 0)
    OBVIOUS
  <2>2. x % 2 = 0 => (x + 1) % 2 = 1
    OBVIOUS
  <2>3. x % 2 = 1 => (x - 1) % 2 = 0
    OBVIOUS
  <2> QED
    BY <2>1, <2>2, <2>3
<1>4. Cipher(s) = [i \in 1 .. n |-> flip(s[i])]
  BY <1>2 DEF Cipher
<1>5. \A i \in 1 .. n : s[i] \in Nat
  BY <1>2
<1>6. [i \in 1 .. n |-> flip(s[i])] \in [1 .. n -> Nat]
  <2>1. \A i \in 1 .. n : flip(s[i]) \in Nat
    BY <1>3, <1>5
  <2> HIDE DEF flip
  <2> QED
    BY <2>1
<1> DEFINE c == [i \in 1 .. n |-> flip(s[i])]
<1>7. DOMAIN c = 1 .. n /\ \A i \in 1 .. n : c[i] = flip(s[i])
  <2> HIDE DEF flip
  <2> QED
    OBVIOUS
<1> HIDE DEF c
<1>8. Cipher(c) = [i \in 1 .. n |-> flip(c[i])]
  BY <1>7 DEF Cipher
<1>9. \A i \in 1 .. n : flip(c[i]) = s[i]
  <2>1. \A i \in 1 .. n : flip(flip(s[i])) = s[i]
    BY <1>3, <1>5
  <2> HIDE DEF flip
  <2> QED
    BY <1>7, <2>1
<1>10. [i \in 1 .. n |-> flip(c[i])] = s
  <2> HIDE DEF flip
  <2> QED
    BY <1>2, <1>9
<1>11. c \in Seq(Nat)
  BY <1>6 DEF c
<1> QED
  BY <1>4, <1>8, <1>10, <1>11 DEF c

------------------------------------------------------------------------------
(* Replacing octets.                                                        *)

Strings == Seq(Nat)
Join(s, t) == s \o t

LEMMA JoinType ==
    ASSUME NEW s \in Strings, NEW t \in Strings
    PROVE  Join(s, t) \in Strings /\ Len(Join(s, t)) = Len(s) + Len(t)
BY ConcatProperties DEF Strings, Join

LEMMA JoinAssociates ==
    ASSUME NEW s \in Strings, NEW t \in Strings, NEW u \in Strings
    PROVE  Join(Join(s, t), u) = Join(s, Join(t, u))
BY ConcatAssociative, SMTT(30) DEF Strings, Join

\* s between p and q
Between(p, s, q) == Join(Join(p, s), q)

\* b holds s after n octets, and c is b with t there instead
Framed(b, s, c, t, n) ==
    \E p, q \in Strings : b = Between(p, s, q) /\ c = Between(p, t, q) /\ Len(p) = n

LEMMA SpliceMiddle ==
    ASSUME NEW p \in Strings, NEW s \in Strings, NEW q \in Strings, NEW t \in Strings
    PROVE  Len(s) = Len(t) => Splice(Between(p, s, q), Len(p), t) = Between(p, t, q)
<1> USE DEF Strings
<1>0. SUFFICES ASSUME Len(s) = Len(t)
               PROVE  Splice(Between(p, s, q), Len(p), t) = Between(p, t, q)
  OBVIOUS
<1>1. PICK n \in Nat : n = Len(s) /\ n = Len(t)
  BY <1>0
<1>2. PICK l \in Nat, m \in Nat : l = Len(p) /\ m = Len(q)
  OBVIOUS
<1>3. PICK ps \in Seq(Nat) : ps = p \o s /\ Len(ps) = l + n
  <2>1. p \o s \in Seq(Nat) /\ Len(p \o s) = Len(p) + Len(s)
    BY ConcatProperties
  <2> QED
    BY <1>1, <1>2, <2>1
<1>4. PICK b \in Seq(Nat) : b = ps \o q /\ Len(b) = l + n + m
  <2>1. ps \o q \in Seq(Nat) /\ Len(ps \o q) = Len(ps) + Len(q)
    BY ConcatProperties
  <2> QED
    BY <1>2, <1>3, <2>1
<1>5. SubSeq(b, 1, l) = p
  <2>1. 1 \in Nat
    OBVIOUS
  <2>2. Holds(b, 1, ps) /\ Holds(ps, 1, p)
    BY <1>3, <1>4, HoldsConcat
  <2>3. Holds(b, 1 + 1 - 1, p)
    BY <2>1, <2>2, HoldsPart
  <2>4. SubSeq(b, 1, 1 + Len(p) - 1) = p
    BY <2>1, <2>3, HoldsSubSeq
  <2> QED
    BY <1>2, <2>4
<1>6. SubSeq(b, l + n + 1, l + n + m) = q
  <2>1. PICK i \in Nat : i = l + n + 1 /\ i + m - 1 = l + n + m
    OBVIOUS
  <2>2. Holds(b, i, q)
    BY <1>3, <1>4, <2>1, HoldsConcat
  <2>3. SubSeq(b, i, i + Len(q) - 1) = q
    BY <2>2, HoldsSubSeq
  <2> QED
    BY <1>2, <2>1, <2>3
<1> QED
  BY <1>1, <1>2, <1>3, <1>4, <1>5, <1>6 DEF Splice, Between, Join

LEMMA SpliceFramed ==
    ASSUME NEW b, NEW c, NEW s \in Strings, NEW t \in Strings, NEW n
    PROVE  Framed(b, s, c, t, n) /\ Len(s) = Len(t) => Splice(b, n, t) = c
<1>1. SUFFICES ASSUME NEW p \in Strings, NEW q \in Strings, Len(s) = Len(t),
                      b = Between(p, s, q), c = Between(p, t, q), Len(p) = n
               PROVE  Splice(b, n, t) = c
  BY DEF Framed
<1>3. Splice(Between(p, s, q), Len(p), t) = Between(p, t, q)
  BY <1>1, SpliceMiddle
<1> QED
  BY <1>1, <1>3

LEMMA FramedItself ==
    ASSUME NEW s \in Strings, NEW t \in Strings
    PROVE  Framed(s, s, t, t, 0)
<1>1. PICK e \in Strings : e = <<>> /\ Len(e) = 0
  BY EmptySeq DEF Strings
<1>2. ASSUME NEW u \in Strings PROVE Between(e, u, e) = u
  BY <1>1, ConcatEmptySeq DEF Strings, Between, Join
<1> QED
  BY <1>1, <1>2 DEF Framed

LEMMA FramedInside ==
    ASSUME NEW b, NEW c, NEW s \in Strings, NEW t \in Strings, NEW n,
           NEW x \in Strings, NEW y \in Strings
    PROVE  Framed(b, s, c, t, n) => Framed(Between(x, b, y), s, Between(x, c, y), t, Len(x) + n)
<1>1. SUFFICES ASSUME NEW p \in Strings, NEW q \in Strings,
                      b = Between(p, s, q), c = Between(p, t, q), Len(p) = n
               PROVE  Framed(Between(x, b, y), s, Between(x, c, y), t, Len(x) + n)
  BY DEF Framed
<1>2. Join(x, p) \in Strings /\ Len(Join(x, p)) = Len(x) + n /\ Join(q, y) \in Strings
  BY <1>1, JoinType
<1>3. ASSUME NEW u \in Strings
      PROVE  Between(x, Between(p, u, q), y) = Between(Join(x, p), u, Join(q, y))
  <2>1. Join(p, u) \in Strings
    BY JoinType
  <2>2. Join(x, Join(Join(p, u), q)) = Join(Join(x, Join(p, u)), q)
    BY <2>1, JoinAssociates
  <2>3. Join(x, Join(p, u)) = Join(Join(x, p), u)
    BY JoinAssociates
  <2>4. Join(Join(x, p), u) \in Strings
    BY <1>2, JoinType
  <2>5. Join(Join(Join(Join(x, p), u), q), y) = Join(Join(Join(x, p), u), Join(q, y))
    BY <2>4, JoinAssociates
  <2> QED
    BY <2>2, <2>3, <2>5 DEF Between
<1> QED
  BY <1>1, <1>2, <1>3 DEF Framed

\* octets that begin with some that depend on the length of the rest only
Begun(bb, b, cc, c) ==
    \E x \in Strings : bb = Join(x, b) /\ cc = Join(x, c)

\* s in bb, and t in cc, after as many more octets as those have
FramedFurther(bb, b, cc, c, s, t, n) ==
    /\ bb \in Strings /\ cc \in Strings /\ Len(bb) = Len(cc)
    /\ Len(bb) - Len(b) + n \in Nat
    /\ Framed(bb, s, cc, t, Len(bb) - Len(b) + n)

LEMMA FramedBehind ==
    ASSUME NEW b \in Strings, NEW c \in Strings, Len(b) = Len(c),
           NEW s \in Strings, NEW t \in Strings, NEW n \in Nat, Framed(b, s, c, t, n),
           NEW bb, NEW cc, Begun(bb, b, cc, c)
    PROVE  FramedFurther(bb, b, cc, c, s, t, n)
<1>2. PICK x \in Strings : bb = Join(x, b) /\ cc = Join(x, c)
  BY DEF Begun
<1>3. PICK l \in Nat, k \in Nat : l = Len(b) /\ l = Len(c) /\ k = Len(x)
  BY DEF Strings
<1>4. PICK e \in Strings : e = <<>>
  BY EmptySeq DEF Strings
<1>5. ASSUME NEW u \in Strings
      PROVE  Join(x, u) = Between(x, u, e) /\ Join(x, u) \in Strings
             /\ Len(Join(x, u)) = Len(x) + Len(u)
  <2>1. Join(x, u) \in Strings /\ Len(Join(x, u)) = Len(x) + Len(u)
    BY JoinType
  <2>2. Join(Join(x, u), e) = Join(x, u)
    BY <1>4, <2>1, ConcatEmptySeq DEF Strings, Join
  <2> QED
    BY <2>1, <2>2 DEF Between
<1>6. Framed(Between(x, b, e), s, Between(x, c, e), t, Len(x) + n)
  BY FramedInside
<1>7. /\ bb = Between(x, b, e) /\ Len(bb) = k + l /\ bb \in Strings
      /\ cc = Between(x, c, e) /\ Len(cc) = k + l /\ cc \in Strings
  BY <1>2, <1>3, <1>5
<1>8. (k + l) - l + n = k + n /\ k + n \in Nat
  OBVIOUS
<1>9. Len(bb) - Len(b) + n = Len(x) + n /\ Len(x) + n \in Nat
  BY <1>3, <1>7, <1>8
<1> QED
  BY <1>6, <1>7, <1>9 DEF FramedFurther

LEMMA TlvBegun ==
    ASSUME NEW tag \in Nat, NEW b \in Strings, NEW c \in Strings, Len(b) = Len(c)
    PROVE  Begun(Tlv(tag, b), b, Tlv(tag, c), c)
<1>1. PICK l \in Nat : l = Len(b) /\ l = Len(c)
  BY DEF Strings
<1>2. PICK h \in Seq(Nat) : h = <<tag>>
  BY OneElement
<1>3. PICK k \in Seq(Nat) : k = LengthOctets(l)
  BY LengthIsRead
<1>4. PICK x \in Strings : x = h \o k
  BY Joined DEF Strings
<1> QED
  BY <1>1, <1>2, <1>3, <1>4 DEF Begun, Tlv, Join

LEMMA StructureBegun ==
    ASSUME NEW long \in BOOLEAN, NEW b \in Strings, NEW c \in Strings, Len(b) = Len(c)
    PROVE  Begun(Structure(b, long), b, Structure(c, long), c)
<1>1. SequenceTag \in Nat
  BY DEF SequenceTag
<1>2. CASE long = FALSE
  <2>1. Structure(b, long) = Tlv(SequenceTag, b) /\ Structure(c, long) = Tlv(SequenceTag, c)
    BY <1>2 DEF Structure
  <2> QED
    BY <1>1, <2>1, TlvBegun
<1>3. CASE long = TRUE
  <2>1. PICK l \in Nat : l = Len(b) /\ l = Len(c)
    BY DEF Strings
  <2>2. PICK h \in Seq(Nat) : h = <<SequenceTag>>
    BY <1>1, OneElement
  <2>3. PICK k \in Seq(Nat) : k = LongLength(l)
    BY LongLengthIsRead
  <2>4. PICK x \in Strings : x = h \o k
    BY Joined DEF Strings
  <2> QED
    BY <1>3, <2>1, <2>2, <2>3, <2>4 DEF Begun, Structure, Join
<1> QED
  BY <1>2, <1>3

------------------------------------------------------------------------------
(* Messages.                                                                *)

\* what a message is made of
Message(m) ==
    /\ m.name \in Strings /\ m.context \in Strings /\ m.engine \in Strings /\ m.pdu \in Strings
    /\ m.level \in DOMAIN LevelFlags
    /\ m.reportable \in BOOLEAN /\ m.long \in BOOLEAN

LEMMA ParametersType ==
    /\ Zeros \in Strings /\ Digest \in Strings /\ PrivParams \in Strings /\ <<>> \in Strings
    /\ Len(Zeros) = Len(Digest) /\ Len(PrivParams) = 8
<1>1. 12 \in Nat /\ 8 \in Nat
  OBVIOUS
<1>2. Zeros \in [1 .. 12 -> Nat] /\ Digest \in [1 .. 12 -> Nat] /\ PrivParams \in [1 .. 8 -> Nat]
  BY DEF Zeros, Digest, PrivParams, AuthLength
<1>3. ASSUME NEW n \in Nat, NEW f \in [1 .. n -> Nat] PROVE f \in Seq(Nat) /\ Len(f) = n
  OBVIOUS
<1>4. /\ Zeros \in Seq(Nat) /\ Digest \in Seq(Nat) /\ PrivParams \in Seq(Nat)
      /\ Len(Zeros) = 12 /\ Len(Digest) = 12 /\ Len(PrivParams) = 8
  BY <1>1, <1>2, <1>3
<1> QED
  BY <1>4, EmptySeq DEF Strings

LEMMA FlagsType ==
    ASSUME NEW level \in DOMAIN LevelFlags, NEW reportable \in BOOLEAN
    PROVE  /\ Flags(level, reportable) \in Nat
           /\ IsPrivate(Flags(level, reportable)) <=> level = "authPriv"
           /\ Flags(level, reportable) % ReportableFlag = LevelFlags[level]
           /\ IsReportable(Flags(level, reportable)) <=> reportable
<1>1. /\ DOMAIN LevelFlags = {"noAuthNoPriv", "authNoPriv", "authPriv"}
      /\ LevelFlags["noAuthNoPriv"] = 0 /\ LevelFlags["authNoPriv"] = 1
      /\ LevelFlags["authPriv"] = 3
  BY DEF LevelFlags
<1>2. LevelFlags[level] \in {0, 1, 3} /\ (LevelFlags[level] = 3 <=> level = "authPriv")
  BY <1>1
<1>3. PICK f \in {0, 1, 3} : f = LevelFlags[level]
  BY <1>2
<1>4. Flags(level, reportable) = IF reportable THEN f + 4 ELSE f
  BY <1>3 DEF Flags, ReportableFlag
<1> DEFINE Means(n, r) == /\ n \in Nat /\ n % 4 = f
                          /\ (n \div 2) % 2 = 1 <=> f = 3
                          /\ (n \div 4) % 2 = 1 <=> r
<1>5. Means(f + 4, TRUE) /\ Means(f, FALSE)
  <2>1. CASE f = 0
    BY <2>1
  <2>2. CASE f = 1
    BY <2>2
  <2>3. CASE f = 3
    BY <2>3
  <2> QED
    BY <1>3, <2>1, <2>2, <2>3
<1>6. Means(Flags(level, reportable), reportable)
  <2>1. CASE reportable
    BY <1>4, <1>5, <2>1
  <2>2. CASE ~reportable
    BY <1>4, <1>5, <2>2
  <2> QED
    BY <2>1, <2>2
<1> QED
  BY <1>2, <1>3, <1>6 DEF IsPrivate, IsReportable, ReportableFlag

LEMMA OctetTlvIs ==
    ASSUME NEW s \in Strings
    PROVE  OctetTlv(s) = Tlv(Tag.OctetString, s) /\ Encodes(OctetTlv(s), Tag.OctetString, s)
<1>1. Encodes(OctetTlv(s), Tag.OctetString, s)
  BY OctetEncodes DEF Strings
<1>2. EncodeValue(Val("OctetString", s)) = Tlv(Tag["OctetString"], s)
  <2>1. "OctetString" \notin Unsigned
    BY DEF Unsigned
  <2>2. Val("OctetString", s).type = "OctetString" /\ Val("OctetString", s).v = s
    BY DEF Val
  <2> QED
    BY <2>1, <2>2 DEF EncodeValue
<1> QED
  BY <1>1, <1>2 DEF OctetTlv

LEMMA TagNumbers ==
    /\ Tag.Integer = 2 /\ Tag.OctetString = 4 /\ SequenceTag = 48
    /\ Tag.Integer \in Nat /\ Tag.OctetString \in Nat /\ SequenceTag \in Nat
BY DEF Tag, SequenceTag

\* a part with one of these tags that is no empty INTEGER
Is(t, tags) == t.tag \in tags /\ (t.tag = Tag.Integer => t.content # <<>>)

LEMMA IsInteger ==
    ASSUME NEW n \in Int, NEW next
    PROVE  /\ Is(Read(Tag.Integer, SignedContent(n), next), IntTag)
           /\ ValueOf(Read(Tag.Integer, SignedContent(n), next)).v = <<n>>
<1> DEFINE r == Read(Tag.Integer, SignedContent(n), next)
<1>1. r.tag = Tag.Integer /\ r.content = SignedContent(n)
  BY DEF Read
<1>2. SignedContent(n) # <<>> /\ SignedNumber(SignedContent(n)) = n
  BY SignedContentBack
<1> HIDE DEF r
<1>3. ValueOf(r) = Val("Integer", <<n>>)
  BY <1>1, <1>2, IntegerOf
<1>4. ValueOf(r).v = <<n>>
  BY <1>3 DEF Val
<1>5. Is(r, IntTag)
  BY <1>1, <1>2 DEF Is, IntTag
<1> QED
  BY <1>4, <1>5 DEF r

LEMMA IsOther ==
    ASSUME NEW tag, NEW c, NEW next, NEW tags, tag \in tags, tag # Tag.Integer
    PROVE  Is(Read(tag, c, next), tags)
BY DEF Is, Read

LEMMA AreFour ==
    ASSUME NEW S, NEW r1 \in S, NEW r2 \in S, NEW r3 \in S, NEW r4 \in S,
           NEW t1, NEW t2, NEW t3, NEW t4, Is(r1, t1), Is(r2, t2), Is(r3, t3), Is(r4, t4)
    PROVE  Are(<<r1, r2, r3, r4>>, <<t1, t2, t3, t4>>)
BY DEF Are, Is

LEMMA AreThree ==
    ASSUME NEW S, NEW r1 \in S, NEW r2 \in S, NEW r3 \in S,
           NEW t1, NEW t2, NEW t3, Is(r1, t1), Is(r2, t2), Is(r3, t3)
    PROVE  Are(<<r1, r2, r3>>, <<t1, t2, t3>>)
BY DEF Are, Is

LEMMA AreSix ==
    ASSUME NEW r1, NEW r2, NEW r3, NEW r4, NEW r5, NEW r6,
           NEW t1, NEW t2, NEW t3, NEW t4, NEW t5, NEW t6,
           Is(r1, t1), Is(r2, t2), Is(r3, t3), Is(r4, t4), Is(r5, t5), Is(r6, t6)
    PROVE  Are(<<r1, r2, r3, r4, r5, r6>>, <<t1, t2, t3, t4, t5, t6>>)
BY DEF Are, Is

------------------------------------------------------------------------------
(* The parts of a message.                                                  *)

\* the TLVs of a msgGlobalData with these flags
HeaderOf(ts, flags) ==
    /\ Are(ts, <<IntTag, IntTag, StrTag, IntTag>>)
    /\ Len(ts[3].content) = 1 /\ ts[3].content[1] = flags /\ ValueOf(ts[4]).v = <<3>>

LEMMA JoinedFour ==
    ASSUME NEW s1 \in Strings, NEW s2 \in Strings, NEW s3 \in Strings, NEW s4 \in Strings
    PROVE  /\ s1 \o s2 \o s3 \o s4 \in Strings
           /\ Len(s1 \o s2 \o s3 \o s4) = Len(s1) + Len(s2) + Len(s3) + Len(s4)
<1>1. Join(s1, s2) \in Strings /\ Len(Join(s1, s2)) = Len(s1) + Len(s2)
  BY JoinType
<1>2. /\ Join(Join(s1, s2), s3) \in Strings
      /\ Len(Join(Join(s1, s2), s3)) = Len(Join(s1, s2)) + Len(s3)
  BY <1>1, JoinType
<1>3. /\ Join(Join(Join(s1, s2), s3), s4) \in Strings
      /\ Len(Join(Join(Join(s1, s2), s3), s4)) = Len(Join(Join(s1, s2), s3)) + Len(s4)
  BY <1>2, JoinType
<1>4. Join(Join(Join(s1, s2), s3), s4) = s1 \o s2 \o s3 \o s4
  BY DEF Join
<1> QED
  BY <1>1, <1>2, <1>3, <1>4

LEMMA JoinedSix ==
    ASSUME NEW s1 \in Strings, NEW s2 \in Strings, NEW s3 \in Strings, NEW s4 \in Strings,
           NEW s5 \in Strings, NEW s6 \in Strings
    PROVE  /\ s1 \o s2 \o s3 \o s4 \o s5 \o s6 \in Strings
           /\ Len(s1 \o s2 \o s3 \o s4 \o s5 \o s6)
                = Len(s1) + Len(s2) + Len(s3) + Len(s4) + Len(s5) + Len(s6)
<1> DEFINE x == s1 \o s2 \o s3 \o s4
<1>1. x \in Strings /\ Len(x) = Len(s1) + Len(s2) + Len(s3) + Len(s4)
  BY JoinedFour
<1> HIDE DEF x
<1>2. Join(x, s5) \in Strings /\ Len(Join(x, s5)) = Len(x) + Len(s5)
  BY <1>1, JoinType
<1>3. /\ Join(Join(x, s5), s6) \in Strings
      /\ Len(Join(Join(x, s5), s6)) = Len(Join(x, s5)) + Len(s6)
  BY <1>2, JoinType
<1>4. Join(Join(x, s5), s6) = s1 \o s2 \o s3 \o s4 \o s5 \o s6
  BY DEF Join, x
<1> QED
  BY <1>1, <1>2, <1>3, <1>4

LEMMA HeaderRead ==
    ASSUME NEW m, Message(m)
    PROVE  \E c \in Strings : /\ Encodes(HeaderData(m), SequenceTag, c)
                              /\ HeaderOf(Tlvs(c), Flags(m.level, m.reportable))
<1>1. PICK f \in Nat : f = Flags(m.level, m.reportable)
  BY FlagsType DEF Message
<1>2. PICK fs \in Strings : fs = <<f>> /\ Len(fs) = 1 /\ fs[1] = f
  BY OneElement DEF Strings
<1> DEFINE s1 == IntegerTlv(1)
           s2 == IntegerTlv(65507)
           s3 == OctetTlv(fs)
           s4 == IntegerTlv(3)
           c == s1 \o s2 \o s3 \o s4
<1>3. HeaderData(m) = Structure(c, m.long)
  <2>1. OctetTlv(<<Flags(m.level, m.reportable)>>) = s3
    BY <1>1, <1>2
  <2>2. HeaderData(m) = Structure(s1 \o s2 \o OctetTlv(<<Flags(m.level, m.reportable)>>) \o s4,
                                  m.long)
    BY DEF HeaderData
  <2> HIDE DEF s1, s2, s3, s4
  <2> QED
    BY <2>1, <2>2
<1>4. /\ Encodes(s1, Tag.Integer, SignedContent(1)) /\ Encodes(s2, Tag.Integer, SignedContent(65507))
      /\ Encodes(s4, Tag.Integer, SignedContent(3))
  BY IntegerEncodes
<1>5. Encodes(s3, Tag.OctetString, fs)
  BY OctetTlvIs
<1> DEFINE r1 == Read(Tag.Integer, SignedContent(1), Len(s1) + 1)
           r2 == Read(Tag.Integer, SignedContent(65507), Len(s1) + Len(s2) + 1)
           r3 == Read(Tag.OctetString, fs, Len(s1) + Len(s2) + Len(s3) + 1)
           r4 == Read(Tag.Integer, SignedContent(3), Len(s1) + Len(s2) + Len(s3) + Len(s4) + 1)
<1> HIDE DEF s1, s2, s3, s4
<1>6. Reads(c, <<r1, r2, r3, r4>>)
  BY <1>4, <1>5, ReadsFour
<1> HIDE DEF c
<1>7. c \in Seq(Nat) /\ Tlvs(c) = <<r1, r2, r3, r4>>
  BY <1>6, ReadsTlvs
<1>8. Is(r1, IntTag) /\ Is(r2, IntTag) /\ Is(r4, IntTag) /\ ValueOf(r4).v = <<3>>
  BY IsInteger
<1>9. Is(r3, StrTag)
  BY IsOther, TagNumbers DEF StrTag
<1>10. r3.content = fs
  BY DEF Read
<1> HIDE DEF r1, r2, r3, r4
<1>11. Are(<<r1, r2, r3, r4>>, <<IntTag, IntTag, StrTag, IntTag>>)
  <2>1. PICK S : S = {r1, r2, r3, r4}
    OBVIOUS
  <2>2. r1 \in S /\ r2 \in S /\ r3 \in S /\ r4 \in S
    BY <2>1
  <2> QED
    BY <1>8, <1>9, <2>2, AreFour
<1>12. <<r1, r2, r3, r4>>[3] = r3 /\ <<r1, r2, r3, r4>>[4] = r4
  OBVIOUS
<1>13. HeaderOf(Tlvs(c), f)
  BY <1>2, <1>7, <1>8, <1>10, <1>11, <1>12 DEF HeaderOf
<1>14. Encodes(HeaderData(m), SequenceTag, c)
  BY <1>3, <1>7, StructureEncodes DEF Message
<1> QED
  BY <1>1, <1>7, <1>13, <1>14 DEF Strings

\* the privacy parameters of a message
PrivOf(m) == IF m.level = "authPriv" THEN PrivParams ELSE <<>>

ParamsOf(ts, m, auth) ==
    /\ Are(ts, <<StrTag, IntTag, IntTag, StrTag, StrTag, StrTag>>)
    /\ ts[1].content = m.engine /\ ts[4].content = m.name
    /\ ts[5].content = auth /\ ts[6].content = PrivOf(m)

LEMMA ParamsRead ==
    ASSUME NEW m, Message(m), NEW auth \in Strings, NEW other \in Strings
    PROVE  Len(auth) = Len(other) =>
           \E c, d \in Strings :
              /\ Encodes(UsmParams(m, auth), SequenceTag, c)
              /\ UsmParams(m, auth) = Structure(c, m.long)
              /\ UsmParams(m, other) = Structure(d, m.long) /\ Len(c) = Len(d)
              /\ ParamsOf(Tlvs(c), m, auth) /\ StartOf(Tlvs(c)[5]) \in Nat
              /\ Framed(c, auth, d, other, StartOf(Tlvs(c)[5]))
<1>1. SUFFICES ASSUME Len(auth) = Len(other)
      PROVE  \E c, d \in Strings :
              /\ Encodes(UsmParams(m, auth), SequenceTag, c)
              /\ UsmParams(m, auth) = Structure(c, m.long)
              /\ UsmParams(m, other) = Structure(d, m.long) /\ Len(c) = Len(d)
              /\ ParamsOf(Tlvs(c), m, auth) /\ StartOf(Tlvs(c)[5]) \in Nat
              /\ Framed(c, auth, d, other, StartOf(Tlvs(c)[5]))
  OBVIOUS
<1>2. m.engine \in Strings /\ m.name \in Strings /\ PrivOf(m) \in Strings
  BY ParametersType DEF Message, PrivOf
<1> DEFINE s1 == OctetTlv(m.engine)
           s2 == IntegerTlv(0)
           s3 == IntegerTlv(0)
           s4 == OctetTlv(m.name)
           s5 == OctetTlv(auth)
           z5 == OctetTlv(other)
           s6 == OctetTlv(PrivOf(m))
           c == s1 \o s2 \o s3 \o s4 \o s5 \o s6
           d == s1 \o s2 \o s3 \o s4 \o z5 \o s6
<1>3. UsmParams(m, auth) = Structure(c, m.long) /\ UsmParams(m, other) = Structure(d, m.long)
  BY DEF UsmParams, PrivOf
<1>4. /\ Encodes(s1, Tag.OctetString, m.engine)
      /\ Encodes(s2, Tag.Integer, SignedContent(0)) /\ Encodes(s3, Tag.Integer, SignedContent(0))
      /\ Encodes(s4, Tag.OctetString, m.name) /\ Encodes(s5, Tag.OctetString, auth)
      /\ Encodes(s6, Tag.OctetString, PrivOf(m))
  BY <1>2, OctetTlvIs, IntegerEncodes
<1>26. Encodes(z5, Tag.OctetString, other)
  BY OctetTlvIs
<1>5. s5 = Tlv(Tag.OctetString, auth) /\ z5 = Tlv(Tag.OctetString, other)
  BY OctetTlvIs
<1> DEFINE r1 == Read(Tag.OctetString, m.engine, Len(s1) + 1)
           r2 == Read(Tag.Integer, SignedContent(0), Len(s1) + Len(s2) + 1)
           r3 == Read(Tag.Integer, SignedContent(0), Len(s1) + Len(s2) + Len(s3) + 1)
           r4 == Read(Tag.OctetString, m.name, Len(s1) + Len(s2) + Len(s3) + Len(s4) + 1)
           r5 == Read(Tag.OctetString, auth,
                      Len(s1) + Len(s2) + Len(s3) + Len(s4) + Len(s5) + 1)
           r6 == Read(Tag.OctetString, PrivOf(m),
                      Len(s1) + Len(s2) + Len(s3) + Len(s4) + Len(s5) + Len(s6) + 1)
<1> HIDE DEF s1, s2, s3, s4, s5, s6, z5
<1>27. SixTlvs(s1, Tag.OctetString, m.engine, s2, Tag.Integer, SignedContent(0),
               s3, Tag.Integer, SignedContent(0), s4, Tag.OctetString, m.name,
               s5, Tag.OctetString, auth, s6, Tag.OctetString, PrivOf(m))
  BY <1>4 DEF SixTlvs
<1>6. Reads(c, <<r1, r2, r3, r4, r5, r6>>)
  BY <1>27, ReadsSix
<1>25. /\ s1 \in Strings /\ s2 \in Strings /\ s3 \in Strings /\ s4 \in Strings
       /\ s5 \in Strings /\ s6 \in Strings /\ z5 \in Strings
  BY <1>4, <1>26, EncodesType DEF Strings
<1>7. d \in Strings /\ Len(d) = Len(s1) + Len(s2) + Len(s3) + Len(s4) + Len(z5) + Len(s6)
  BY <1>25, JoinedSix, SMTT(30)
<1>8. Len(c) = Len(s1) + Len(s2) + Len(s3) + Len(s4) + Len(s5) + Len(s6)
  BY <1>25, JoinedSix
<1>9. PICK x \in Strings : /\ x = s1 \o s2 \o s3 \o s4
                           /\ Len(x) = Len(s1) + Len(s2) + Len(s3) + Len(s4)
  <2>1. /\ s1 \o s2 \o s3 \o s4 \in Strings
        /\ Len(s1 \o s2 \o s3 \o s4) = Len(s1) + Len(s2) + Len(s3) + Len(s4)
    BY <1>25, JoinedFour
  <2> QED
    BY <2>1
<1>10. c = Between(x, s5, s6) /\ d = Between(x, z5, s6)
  BY <1>9 DEF Between, Join
<1> HIDE DEF c, d
<1>11. c \in Seq(Nat) /\ Tlvs(c) = <<r1, r2, r3, r4, r5, r6>>
  BY <1>6, ReadsTlvs
<1>12. /\ Is(r1, StrTag) /\ Is(r2, IntTag) /\ Is(r3, IntTag) /\ Is(r4, StrTag)
       /\ Is(r5, StrTag) /\ Is(r6, StrTag)
  <2>1. Tag.OctetString \in StrTag /\ Tag.OctetString # Tag.Integer
    BY TagNumbers DEF StrTag
  <2> QED
    BY <2>1, IsInteger, IsOther
<1>13. r1.content = m.engine /\ r4.content = m.name /\ r5.content = auth /\ r6.content = PrivOf(m)
  BY DEF Read
<1>14. Framed(s5, auth, z5, other, Len(s5) - Len(auth) + 0) /\ Len(s5) = Len(z5)
  <2>1. Begun(s5, auth, z5, other)
    BY <1>1, <1>5, TlvBegun, TagNumbers
  <2>2. Framed(auth, auth, other, other, 0) /\ 0 \in Nat
    BY FramedItself
  <2>3. FramedFurther(s5, auth, z5, other, auth, other, 0)
    BY <1>1, <2>1, <2>2, FramedBehind
  <2> QED
    BY <2>3 DEF FramedFurther
<1>15. PICK l \in Nat, k \in Nat, a \in Nat :
          /\ l = Len(x) /\ k = Len(s5) /\ a = Len(auth) /\ a <= k
  <2>1. s5 \in Seq(Nat) /\ Len(s5) >= 2 + Len(auth)
    BY <1>4, EncodesType
  <2>2. Len(x) \in Nat /\ Len(s5) \in Nat /\ Len(auth) \in Nat
    BY <2>1 DEF Strings
  <2> QED
    BY <2>1, <2>2
<1>16. StartOf(r5) = l + (k - a)
  <2>1. r5.next = l + k + 1 /\ r5.content = auth
    BY <1>9, <1>15 DEF Read
  <2>2. l + k + 1 - 1 - a = l + (k - a)
    OBVIOUS
  <2> QED
    BY <1>15, <2>1, <2>2 DEF StartOf
<1>17. Framed(c, auth, d, other, l + (k - a))
  <2>1. k - a + 0 = k - a
    OBVIOUS
  <2>2. Framed(s5, auth, z5, other, k - a)
    BY <1>14, <1>15, <2>1
  <2>3. s6 \in Strings
    BY <1>4, EncodesType DEF Strings
  <2> QED
    BY <1>10, <1>15, <2>2, <2>3, FramedInside
<1>18. l + (k - a) \in Nat
  BY <1>15
<1> HIDE DEF r1, r2, r3, r4, r5, r6
<1>19. Are(<<r1, r2, r3, r4, r5, r6>>, <<StrTag, IntTag, IntTag, StrTag, StrTag, StrTag>>)
  BY <1>12, AreSix
<1>20. /\ <<r1, r2, r3, r4, r5, r6>>[1] = r1 /\ <<r1, r2, r3, r4, r5, r6>>[4] = r4
       /\ <<r1, r2, r3, r4, r5, r6>>[5] = r5 /\ <<r1, r2, r3, r4, r5, r6>>[6] = r6
  OBVIOUS
<1>21. ParamsOf(Tlvs(c), m, auth) /\ Tlvs(c)[5] = r5
  BY <1>11, <1>13, <1>19, <1>20 DEF ParamsOf
<1>22. Encodes(Structure(c, m.long), SequenceTag, c)
  BY <1>11, StructureEncodes DEF Message
<1>23. Len(c) = Len(d)
  BY <1>7, <1>8, <1>14
<1>24. c \in Strings /\ d \in Strings
  BY <1>7, <1>11 DEF Strings
<1> QED
  BY <1>3, <1>16, <1>17, <1>18, <1>21, <1>22, <1>23, <1>24

\* the last part of a message
DataOf(m) == IF m.level = "authPriv" THEN OctetTlv(Cipher(ScopedPdu(m))) ELSE ScopedPdu(m)

LEMMA ScopedEncodes ==
    ASSUME NEW m, Message(m)
    PROVE  /\ ScopedPdu(m) \in Strings /\ Cipher(ScopedPdu(m)) \in Strings
           /\ Encodes(ScopedPdu(m), SequenceTag, OctetTlv(m.context) \o OctetTlv(<<>>) \o m.pdu)
<1>1. m.context \in Strings /\ m.pdu \in Strings /\ <<>> \in Strings
  BY ParametersType DEF Message
<1>2. OctetTlv(m.context) \in Strings /\ OctetTlv(<<>>) \in Strings
  BY <1>1, OctetTlvIs, EncodesType DEF Strings
<1> DEFINE s == OctetTlv(m.context)
           e == OctetTlv(<<>>)
           c == s \o e \o m.pdu
<1>3. ScopedPdu(m) = Structure(c, m.long)
  BY DEF ScopedPdu
<1> HIDE DEF s, e
<1>4. Join(Join(s, e), m.pdu) \in Strings
  <2>1. Join(s, e) \in Strings
    BY <1>2, JoinType DEF s, e
  <2> QED
    BY <1>1, <2>1, JoinType
<1>5. c \in Seq(Nat)
  BY <1>4 DEF Join, Strings
<1>6. Encodes(ScopedPdu(m), SequenceTag, c)
  BY <1>3, <1>5, StructureEncodes DEF Message
<1>7. ScopedPdu(m) \in Seq(Nat)
  BY <1>6, EncodesType
<1>8. Cipher(ScopedPdu(m)) \in Seq(Nat)
  BY <1>7, CipherBack
<1> QED
  BY <1>6, <1>7, <1>8 DEF s, e, Strings

LEMMA DataEncodes ==
    ASSUME NEW m, Message(m)
    PROVE  \E tag \in Nat, c \in Strings :
              /\ Encodes(DataOf(m), tag, c)
              /\ tag \in StrTag \union SeqTag
              /\ tag = Tag.OctetString <=> m.level = "authPriv"
              /\ tag # Tag.Integer
<1>1. CASE m.level = "authPriv"
  <2>1. Encodes(DataOf(m), Tag.OctetString, Cipher(ScopedPdu(m)))
    BY <1>1, ScopedEncodes, OctetTlvIs DEF DataOf
  <2>2. PICK c \in Strings : c = Cipher(ScopedPdu(m))
    BY ScopedEncodes
  <2>3. PICK tag \in Nat : tag = Tag.OctetString /\ tag # Tag.Integer /\ tag \in StrTag
    BY TagNumbers DEF StrTag
  <2>4. Encodes(DataOf(m), tag, c)
    BY <2>1, <2>2, <2>3
  <2> QED
    BY <1>1, <2>3, <2>4
<1>2. CASE m.level # "authPriv"
  <2> DEFINE c == OctetTlv(m.context) \o OctetTlv(<<>>) \o m.pdu
  <2>1. Encodes(DataOf(m), SequenceTag, c)
    BY <1>2, ScopedEncodes DEF DataOf
  <2> HIDE DEF c
  <2>2. c \in Strings
    BY <2>1 DEF Encodes, Strings
  <2> QED
    BY <1>2, <2>1, <2>2, TagNumbers DEF SeqTag
<1> QED
  BY <1>1, <1>2

\* octets that are a message, the content of the SEQUENCE they are and of the
\* one with its flags, and the tag and content of its last part
MessageParts(m, auth, c, h, tag, d) ==
    LET s1 == IntegerTlv(3)
        s2 == HeaderData(m)
        s3 == OctetTlv(UsmParams(m, auth))
        s4 == DataOf(m)
    IN /\ c = s1 \o s2 \o s3 \o s4 /\ UsmOctets(m, auth) = Structure(c, m.long)
       /\ s1 \in Strings /\ s2 \in Strings /\ s3 \in Strings /\ s4 \in Strings
       /\ UsmParams(m, auth) \in Strings
       /\ HeaderOf(Tlvs(h), Flags(m.level, m.reportable))
       /\ tag \in StrTag \union SeqTag /\ tag # Tag.Integer
       /\ tag = Tag.OctetString <=> m.level = "authPriv"
       /\ Tlvs(c) = <<Read(Tag.Integer, SignedContent(3), Len(s1) + 1),
                      Read(SequenceTag, h, Len(s1) + Len(s2) + 1),
                      Read(Tag.OctetString, UsmParams(m, auth), Len(s1) + Len(s2) + Len(s3) + 1),
                      Read(tag, d, Len(s1) + Len(s2) + Len(s3) + Len(s4) + 1)>>

\* every message has these parts
LEMMA PartsRead ==
    ASSUME NEW m, Message(m), NEW auth \in Strings
    PROVE  \E c \in Strings, h \in Strings, tag \in Nat, d \in Strings :
             MessageParts(m, auth, c, h, tag, d)
<1> DEFINE s1 == IntegerTlv(3)
           s2 == HeaderData(m)
           s3 == OctetTlv(UsmParams(m, auth))
           s4 == DataOf(m)
           c == s1 \o s2 \o s3 \o s4
<1>1. UsmOctets(m, auth) = Structure(c, m.long)
  BY DEF UsmOctets, DataOf
<1>2. PICK h \in Strings : /\ Encodes(s2, SequenceTag, h)
                           /\ HeaderOf(Tlvs(h), Flags(m.level, m.reportable))
  BY HeaderRead
<1>3. UsmParams(m, auth) \in Strings
  BY ParamsRead, EncodesType DEF Strings
<1>4. PICK tag \in Nat, d \in Strings :
          /\ Encodes(s4, tag, d) /\ tag \in StrTag \union SeqTag
          /\ tag = Tag.OctetString <=> m.level = "authPriv"
          /\ tag # Tag.Integer
  BY DataEncodes
<1>5. Encodes(s1, Tag.Integer, SignedContent(3)) /\ Encodes(s3, Tag.OctetString, UsmParams(m, auth))
  BY <1>3, IntegerEncodes, OctetTlvIs
<1> HIDE DEF s1, s2, s3, s4
<1>6. /\ s1 \in Strings /\ s2 \in Strings /\ s3 \in Strings /\ s4 \in Strings
  BY <1>2, <1>4, <1>5, EncodesType DEF Strings
<1> DEFINE ts == <<Read(Tag.Integer, SignedContent(3), Len(s1) + 1),
                   Read(SequenceTag, h, Len(s1) + Len(s2) + 1),
                   Read(Tag.OctetString, UsmParams(m, auth), Len(s1) + Len(s2) + Len(s3) + 1),
                   Read(tag, d, Len(s1) + Len(s2) + Len(s3) + Len(s4) + 1)>>
<1>7. Reads(c, ts)
  BY <1>2, <1>4, <1>5, ReadsFour
<1>8. c \in Strings /\ Tlvs(c) = ts
  <2> HIDE DEF c, ts
  <2> QED
    BY <1>7, ReadsTlvs DEF Strings
<1>9. MessageParts(m, auth, c, h, tag, d)
  BY <1>1, <1>2, <1>3, <1>4, <1>6, <1>8 DEF MessageParts, s1, s2, s3, s4
<1> QED
  BY <1>8, <1>9

------------------------------------------------------------------------------
(* Where the digest goes.                                                   *)

LEMMA LengthType == \A s \in Strings : Len(s) \in Nat
BY DEF Strings

\* one string beside octets that hold s
LEMMA FramedBeside ==
    ASSUME NEW b \in Strings, NEW c \in Strings, NEW s \in Strings, NEW t \in Strings,
           NEW n \in Nat, NEW x \in Strings, NEW y \in Strings
    PROVE  Len(b) = Len(c) /\ Framed(b, s, c, t, n) =>
           /\ Between(x, b, y) \in Strings /\ Between(x, c, y) \in Strings
           /\ Len(Between(x, b, y)) = Len(Between(x, c, y))
           /\ Len(x) + n \in Nat
           /\ Framed(Between(x, b, y), s, Between(x, c, y), t, Len(x) + n)
<1>1. ASSUME NEW u \in Strings
      PROVE  Between(x, u, y) \in Strings /\ Len(Between(x, u, y)) = Len(x) + Len(u) + Len(y)
  <2>1. Join(x, u) \in Strings /\ Len(Join(x, u)) = Len(x) + Len(u)
    BY JoinType
  <2>2. Join(Join(x, u), y) \in Strings /\ Len(Join(Join(x, u), y)) = Len(Join(x, u)) + Len(y)
    BY <2>1, JoinType
  <2> QED
    BY <2>1, <2>2 DEF Between
<1>2. Len(x) \in Nat
  BY DEF Strings
<1>3. Len(x) + n \in Nat
  BY <1>2
<1>4. /\ Between(x, b, y) \in Strings /\ Len(Between(x, b, y)) = Len(x) + Len(b) + Len(y)
      /\ Between(x, c, y) \in Strings /\ Len(Between(x, c, y)) = Len(x) + Len(c) + Len(y)
  BY <1>1
<1>5. Framed(b, s, c, t, n) => Framed(Between(x, b, y), s, Between(x, c, y), t, Len(x) + n)
  BY FramedInside
<1> QED
  BY <1>3, <1>4, <1>5

\* the parameters in their OCTET STRING
FramedDeep(pc, qc, long, s, t, n) ==
    LET p  == Structure(pc, long)
        q  == Structure(qc, long)
        s3 == Tlv(Tag.OctetString, p)
        z3 == Tlv(Tag.OctetString, q)
        k  == Len(s3) - Len(p) + (Len(p) - Len(pc) + n)
    IN  s3 \in Strings /\ z3 \in Strings /\ Len(s3) = Len(z3)
        /\ k \in Nat /\ Framed(s3, s, z3, t, k)

LEMMA FramedThrice ==
    ASSUME NEW pc \in Strings, NEW qc \in Strings, NEW long \in BOOLEAN,
           NEW s \in Strings, NEW t \in Strings, NEW n \in Nat,
           Len(pc) = Len(qc), Framed(pc, s, qc, t, n)
    PROVE  FramedDeep(pc, qc, long, s, t, n)
<1>2. PICK p \in Strings, q \in Strings, i \in Nat :
         /\ p = Structure(pc, long) /\ q = Structure(qc, long)
         /\ i = Len(p) - Len(pc) + n
         /\ Len(p) = Len(q) /\ Framed(p, s, q, t, i)
  <2>1. Begun(Structure(pc, long), pc, Structure(qc, long), qc)
    BY StructureBegun
  <2>2. /\ Structure(pc, long) \in Strings /\ Structure(qc, long) \in Strings
        /\ Len(Structure(pc, long)) = Len(Structure(qc, long))
        /\ Len(Structure(pc, long)) - Len(pc) + n \in Nat
        /\ Framed(Structure(pc, long), s, Structure(qc, long), t,
                  Len(Structure(pc, long)) - Len(pc) + n)
    <3>1. FramedFurther(Structure(pc, long), pc, Structure(qc, long), qc, s, t, n)
      BY <2>1, FramedBehind
    <3> QED
      BY <3>1 DEF FramedFurther
  <2> QED
    BY <2>2
<1>3. /\ Tlv(Tag.OctetString, p) \in Strings /\ Tlv(Tag.OctetString, q) \in Strings
      /\ Len(Tlv(Tag.OctetString, p)) = Len(Tlv(Tag.OctetString, q))
      /\ Len(Tlv(Tag.OctetString, p)) - Len(p) + i \in Nat
      /\ Framed(Tlv(Tag.OctetString, p), s, Tlv(Tag.OctetString, q), t,
                Len(Tlv(Tag.OctetString, p)) - Len(p) + i)
  <2>1. Begun(Tlv(Tag.OctetString, p), p, Tlv(Tag.OctetString, q), q)
    BY <1>2, TlvBegun, TagNumbers
  <2>2. FramedFurther(Tlv(Tag.OctetString, p), p, Tlv(Tag.OctetString, q), q, s, t, i)
    BY <1>2, <2>1, FramedBehind
  <2> QED
    BY <2>2 DEF FramedFurther
<1> QED
  BY <1>2, <1>3 DEF FramedDeep

\* the same in a message whose other parts are x and y
LEMMA FramedMessage ==
    ASSUME NEW s3 \in Strings, NEW z3 \in Strings, NEW s \in Strings, NEW t \in Strings,
           NEW k \in Nat, NEW x \in Strings, NEW y \in Strings,
           NEW long \in BOOLEAN
    PROVE  Len(s3) = Len(z3) /\ Framed(s3, s, z3, t, k) =>
           LET c == Between(x, s3, y)
               b == Structure(c, long)
           IN  Framed(b, s, Structure(Between(x, z3, y), long), t, Len(b) - Len(c) + (Len(x) + k))
<1>1. SUFFICES ASSUME Len(s3) = Len(z3) /\ Framed(s3, s, z3, t, k)
               PROVE LET c == Between(x, s3, y)
                         b == Structure(c, long)
                     IN  Framed(b, s, Structure(Between(x, z3, y), long), t,
                                Len(b) - Len(c) + (Len(x) + k))
  OBVIOUS
<1>2. PICK c \in Strings, cz \in Strings, i \in Nat :
         /\ c = Between(x, s3, y) /\ cz = Between(x, z3, y)
         /\ i = Len(x) + k
         /\ Len(c) = Len(cz) /\ Framed(c, s, cz, t, i)
  <2>1. /\ Between(x, s3, y) \in Strings /\ Between(x, z3, y) \in Strings
        /\ Len(Between(x, s3, y)) = Len(Between(x, z3, y))
        /\ Len(x) + k \in Nat
        /\ Framed(Between(x, s3, y), s, Between(x, z3, y), t, Len(x) + k)
    BY <1>1, FramedBeside
  <2> QED
    BY <2>1
<1>3. Framed(Structure(c, long), s, Structure(cz, long), t,
             Len(Structure(c, long)) - Len(c) + i)
  <2>1. Begun(Structure(c, long), c, Structure(cz, long), cz)
    BY <1>2, StructureBegun
  <2>2. FramedFurther(Structure(c, long), c, Structure(cz, long), cz, s, t, i)
    BY <1>2, <2>1, FramedBehind
  <2> QED
    BY <2>2 DEF FramedFurther
<1> QED
  BY <1>2, <1>3

\* the sum that auth_params_offset computes
LEMMA OffsetSum ==
    ASSUME NEW lb \in Nat, NEW lc \in Nat, NEW lx \in Nat, NEW l3 \in Nat, NEW lp \in Nat,
           NEW lpc \in Nat, NEW n \in Nat
    PROVE  lb - lc + (lx + (l3 - lp + (lp - lpc + n)))
             = (lb - lc) + (lx + l3 + 1 - 1 - lp) + (lp - lpc) + n
OBVIOUS

\* the content of a SEQUENCE is all of it but its first octets
LEMMA InsideStructure ==
    ASSUME NEW c \in Strings, NEW long \in BOOLEAN
    PROVE  Inside(Structure(c, long)) = c /\ Structure(c, long) \in Strings
<1>1. Encodes(Structure(c, long), SequenceTag, c) /\ Structure(c, long) \in Strings
  BY StructureEncodes DEF Strings
<1> QED
  BY <1>1, InsideEncoded

\* where the authentication parameters are
LEMMA OffsetIs ==
    ASSUME NEW m, Message(m), NEW auth \in Strings, NEW other \in Strings
    PROVE  Len(auth) = Len(other) =>
           LET b == UsmOctets(m, auth)
               p == UsmParams(m, auth)
           IN  Framed(b, auth, UsmOctets(m, other), other,
                      (Len(b) - Len(Inside(b))) + StartOf(Parts(b)[3])
                      + (Len(p) - Len(Inside(p))) + StartOf(Parts(p)[5]))
<1> DEFINE b == UsmOctets(m, auth)
           z == UsmOctets(m, other)
           p == UsmParams(m, auth)
           q == UsmParams(m, other)
           s1 == IntegerTlv(3)
           s2 == HeaderData(m)
           s3 == OctetTlv(p)
           z3 == OctetTlv(q)
           s4 == DataOf(m)
<1>1. SUFFICES ASSUME Len(auth) = Len(other)
               PROVE  Framed(b, auth, z, other,
                             (Len(b) - Len(Inside(b))) + StartOf(Parts(b)[3])
                             + (Len(p) - Len(Inside(p))) + StartOf(Parts(p)[5]))
  OBVIOUS
<1>l. PICK long \in BOOLEAN : long = m.long
  BY DEF Message
<1>2. PICK c \in Strings, h \in Strings, tag \in Nat, d \in Strings :
         MessageParts(m, auth, c, h, tag, d)
  BY PartsRead
<1>3. /\ c = s1 \o s2 \o s3 \o s4 /\ b = Structure(c, long)
      /\ s1 \in Strings /\ s2 \in Strings /\ s3 \in Strings /\ s4 \in Strings
      /\ p \in Strings
      /\ Tlvs(c) = <<Read(Tag.Integer, SignedContent(3), Len(s1) + 1),
                        Read(SequenceTag, h, Len(s1) + Len(s2) + 1),
                        Read(Tag.OctetString, p, Len(s1) + Len(s2) + Len(s3) + 1),
                        Read(tag, d, Len(s1) + Len(s2) + Len(s3) + Len(s4) + 1)>>
  BY <1>2, <1>l DEF MessageParts
<1>4. PICK cz \in Strings, hz \in Strings, tz \in Nat, dz \in Strings :
         MessageParts(m, other, cz, hz, tz, dz)
  BY PartsRead
<1>5. cz = s1 \o s2 \o z3 \o s4 /\ z = Structure(cz, long) /\ q \in Strings
  BY <1>4, <1>l DEF MessageParts
<1>6. PICK pc \in Strings, qc \in Strings :
         /\ p = Structure(pc, long) /\ q = Structure(qc, long) /\ Len(pc) = Len(qc)
         /\ StartOf(Tlvs(pc)[5]) \in Nat
         /\ Framed(pc, auth, qc, other, StartOf(Tlvs(pc)[5]))
  BY <1>1, <1>l, ParamsRead
<1>7. s3 = Tlv(Tag.OctetString, p) /\ z3 = Tlv(Tag.OctetString, q)
  BY <1>3, <1>5, OctetTlvIs
<1>8. b = Structure(c, long) /\ z = Structure(cz, long)
  BY <1>3, <1>5
<1> HIDE DEF b, z, p, q, s1, s2, s3, s4, z3
<1>9. Inside(p) = pc /\ Inside(b) = c /\ b \in Strings
  BY <1>6, <1>8, InsideStructure
<1>10. Parts(p) = Tlvs(pc) /\ Parts(b) = Tlvs(c)
  BY <1>9 DEF Parts
<1>11. PICK n \in Nat : n = StartOf(Tlvs(pc)[5])
  BY <1>6
<1>12. PICK k \in Nat : /\ k = Len(s3) - Len(p) + (Len(p) - Len(pc) + n)
                        /\ Framed(s3, auth, z3, other, k)
                        /\ Len(s3) = Len(z3) /\ z3 \in Strings
  <2>1. Framed(pc, auth, qc, other, n) /\ Len(pc) = Len(qc)
    BY <1>6, <1>11
  <2>2. FramedDeep(pc, qc, long, auth, other, n)
    BY <2>1, FramedThrice
  <2> QED
    BY <1>6, <1>7, <2>2 DEF FramedDeep
<1>13. PICK x \in Strings, lx \in Nat : x = Join(s1, s2) /\ lx = Len(x) /\ lx = Len(s1) + Len(s2)
  <2>1. Join(s1, s2) \in Strings /\ Len(Join(s1, s2)) = Len(s1) + Len(s2)
    BY <1>3, JoinType
  <2> QED
    BY <2>1 DEF Strings
<1>14. c = Between(x, s3, s4) /\ cz = Between(x, z3, s4)
  BY <1>3, <1>5, <1>13 DEF Between, Join
<1>15. Framed(b, auth, z, other, Len(b) - Len(c) + (Len(x) + k))
  <2>1. LET cc == Between(x, s3, s4)
            bb == Structure(cc, long)
        IN  Framed(bb, auth, Structure(Between(x, z3, s4), long), other,
                   Len(bb) - Len(cc) + (Len(x) + k))
    BY <1>3, <1>12, FramedMessage
  <2> QED
    BY <1>8, <1>14, <2>1
<1>16. PICK r3 : r3 = Parts(b)[3] /\ r3.content = p /\ r3.next = Len(s1) + Len(s2) + Len(s3) + 1
  <2>1. Parts(b)[3] = Read(Tag.OctetString, p, Len(s1) + Len(s2) + Len(s3) + 1)
    <3> DEFINE r1 == Read(Tag.Integer, SignedContent(3), Len(s1) + 1)
               r2 == Read(SequenceTag, h, Len(s1) + Len(s2) + 1)
               q3 == Read(Tag.OctetString, p, Len(s1) + Len(s2) + Len(s3) + 1)
               r4 == Read(tag, d, Len(s1) + Len(s2) + Len(s3) + Len(s4) + 1)
    <3>1. Parts(b) = <<r1, r2, q3, r4>>
      BY <1>3, <1>10
    <3> HIDE DEF r1, r2, q3, r4
    <3>2. Parts(b)[3] = q3
      BY <3>1
    <3> QED
      BY <3>2 DEF q3
  <2> QED
    BY <2>1 DEF Read
<1>17. PICK lb \in Nat, lc \in Nat, l3 \in Nat, lp \in Nat, lpc \in Nat :
          lb = Len(b) /\ lc = Len(c) /\ l3 = Len(s3) /\ lp = Len(p) /\ lpc = Len(pc)
  BY <1>3, <1>9, LengthType
<1>18. StartOf(Parts(b)[3]) = lx + l3 + 1 - 1 - lp
  BY <1>13, <1>16, <1>17 DEF StartOf
<1>19. Len(b) - Len(c) + (Len(x) + k) = lb - lc + (lx + (l3 - lp + (lp - lpc + n)))
  BY <1>12, <1>13, <1>17
<1>20. lb - lc + (lx + (l3 - lp + (lp - lpc + n)))
         = (Len(b) - Len(Inside(b))) + StartOf(Parts(b)[3])
           + (Len(p) - Len(Inside(p))) + StartOf(Parts(p)[5])
  BY <1>9, <1>10, <1>11, <1>17, <1>18, OffsetSum, SMTT(30)
<1> QED
  BY <1>15, <1>19, <1>20

\* every message is read as it was made
LEMMA UsmRead ==
    ASSUME NEW m, Message(m), NEW auth \in Strings
    PROVE  LET view == UsmView(UsmOctets(m, auth)) IN
           /\ view # NoView
           /\ view.flags = Flags(m.level, m.reportable)
           /\ view.engine = m.engine /\ view.name = m.name
           /\ view.auth = auth /\ view.priv = PrivOf(m) /\ view.data = DataOf(m)
           /\ \A other \in Strings : Len(auth) = Len(other) =>
                Framed(UsmOctets(m, auth), auth, UsmOctets(m, other), other, view.authOffset)
<1> DEFINE b == UsmOctets(m, auth)
           p == UsmParams(m, auth)
           s1 == IntegerTlv(3)
           s2 == HeaderData(m)
           s3 == OctetTlv(p)
           s4 == DataOf(m)
           f == Flags(m.level, m.reportable)
<1>0. PICK c \in Strings, h \in Strings, tag \in Nat, d \in Strings :
         MessageParts(m, auth, c, h, tag, d)
  BY PartsRead
<1>1. /\ c = s1 \o s2 \o s3 \o s4 /\ b = Structure(c, m.long)
      /\ s1 \in Strings /\ s2 \in Strings /\ s3 \in Strings /\ s4 \in Strings
      /\ p \in Strings /\ HeaderOf(Tlvs(h), f)
      /\ tag \in StrTag \union SeqTag /\ tag # Tag.Integer
      /\ tag = Tag.OctetString <=> m.level = "authPriv"
      /\ Tlvs(c) = <<Read(Tag.Integer, SignedContent(3), Len(s1) + 1),
                     Read(SequenceTag, h, Len(s1) + Len(s2) + 1),
                     Read(Tag.OctetString, p, Len(s1) + Len(s2) + Len(s3) + 1),
                     Read(tag, d, Len(s1) + Len(s2) + Len(s3) + Len(s4) + 1)>>
  BY <1>0 DEF MessageParts
<1>2. PICK pc \in Strings : Encodes(p, SequenceTag, pc) /\ ParamsOf(Tlvs(pc), m, auth)
  BY ParamsRead
<1>3. Encodes(b, SequenceTag, c)
  BY <1>1, StructureEncodes DEF Strings, Message
<1>4. \A other \in Strings : Len(auth) = Len(other) =>
        Framed(b, auth, UsmOctets(m, other), other,
               (Len(b) - Len(Inside(b))) + StartOf(Parts(b)[3])
               + (Len(p) - Len(Inside(p))) + StartOf(Parts(p)[5]))
  BY OffsetIs
<1>5. f \in Nat /\ (IsPrivate(f) <=> m.level = "authPriv")
  BY FlagsType DEF Message
<1>6. UsmView(b) = ViewOf(b, Parts(b), Tlvs(Parts(b)[2].content), Parts(Parts(b)[3].content))
  BY DEF UsmView, ViewOfParts
<1> HIDE DEF b, p, s1, s2, s3, s4, f
<1>7. Inside(p) = pc /\ Inside(b) = c
  BY <1>2, <1>3, InsideEncoded
<1>8. Parts(p) = Tlvs(pc) /\ Parts(b) = Tlvs(c)
  BY <1>7 DEF Parts
<1> DEFINE r1 == Read(Tag.Integer, SignedContent(3), Len(s1) + 1)
           r2 == Read(SequenceTag, h, Len(s1) + Len(s2) + 1)
           r3 == Read(Tag.OctetString, p, Len(s1) + Len(s2) + Len(s3) + 1)
           r4 == Read(tag, d, Len(s1) + Len(s2) + Len(s3) + Len(s4) + 1)
<1>9. Is(r1, IntTag) /\ ValueOf(r1).v = <<3>>
  BY IsInteger
<1>10. Is(r2, SeqTag) /\ Is(r3, StrTag) /\ Is(r4, StrTag \union SeqTag)
  <2>1. /\ SequenceTag \in SeqTag /\ SequenceTag # Tag.Integer
        /\ Tag.OctetString \in StrTag /\ Tag.OctetString # Tag.Integer
    BY TagNumbers DEF SeqTag, StrTag
  <2> QED
    BY <1>1, <2>1, IsOther
<1>11. r2.content = h /\ r3.content = p /\ r4.tag = tag
       /\ r3.next = Len(s1) + Len(s2) + Len(s3) + 1
       /\ r4.next = Len(s1) + Len(s2) + Len(s3) + Len(s4) + 1
  BY DEF Read
<1>12. Parts(b) = <<r1, r2, r3, r4>>
  BY <1>1, <1>8
<1> HIDE DEF r1, r2, r3, r4
<1>13. Parts(b)[1] = r1 /\ Parts(b)[2] = r2 /\ Parts(b)[3] = r3 /\ Parts(b)[4] = r4
  BY <1>12
<1>14. Are(Parts(b), <<IntTag, SeqTag, StrTag, StrTag \union SeqTag>>)
  <2>1. PICK S : S = {r1, r2, r3, r4}
    OBVIOUS
  <2>2. r1 \in S /\ r2 \in S /\ r3 \in S /\ r4 \in S
    BY <2>1
  <2>3. Are(<<r1, r2, r3, r4>>, <<IntTag, SeqTag, StrTag, StrTag \union SeqTag>>)
    BY <1>9, <1>10, <2>2, AreFour
  <2> QED
    BY <1>12, <2>3
<1> DEFINE ts == Tlvs(h)
           us == Tlvs(pc)
<1>15. /\ Are(ts, <<IntTag, IntTag, StrTag, IntTag>>) /\ Len(ts[3].content) = 1
       /\ ts[3].content[1] = f /\ ValueOf(ts[4]).v = <<3>>
  BY <1>1 DEF HeaderOf
<1>16. /\ Are(us, <<StrTag, IntTag, IntTag, StrTag, StrTag, StrTag>>)
       /\ us[1].content = m.engine /\ us[4].content = m.name
       /\ us[5].content = auth /\ us[6].content = PrivOf(m)
  BY <1>2 DEF ParamsOf
<1>17. UsmView(b) = ViewOf(b, Parts(b), ts, us)
  BY <1>6, <1>8, <1>11, <1>13
<1> HIDE DEF ts, us
<1>18. SubSeq(c, r3.next, r4.next - 1) = s4
  <2>1. PICK x \in Strings : x = s1 \o s2 \o s3 /\ Len(x) = Len(s1) + Len(s2) + Len(s3)
    <3>1. Join(s1, s2) \in Strings /\ Len(Join(s1, s2)) = Len(s1) + Len(s2)
      BY <1>1, JoinType
    <3>2. /\ Join(Join(s1, s2), s3) \in Strings
          /\ Len(Join(Join(s1, s2), s3)) = Len(Join(s1, s2)) + Len(s3)
      BY <1>1, <3>1, JoinType
    <3> QED
      BY <3>1, <3>2 DEF Join
  <2>2. c = x \o s4
    BY <1>1, <2>1
  <2>3. PICK l \in Nat, k \in Nat : l = Len(x) /\ k = Len(s4)
    BY <1>1, SMTT(30) DEF Strings
  <2>4. r3.next = l + 1 /\ r4.next = l + k + 1
    BY <1>11, <2>1, <2>3
  <2>5. Holds(c, l + 1, s4)
    BY <1>1, <2>2, <2>3, HoldsConcat DEF Strings
  <2>6. SubSeq(c, l + 1, (l + 1) + k - 1) = s4
    <3>1. l + 1 \in Nat
      OBVIOUS
    <3> QED
      BY <1>1, <2>3, <2>5, <3>1, HoldsSubSeq DEF Strings
  <2>7. (l + 1) + k - 1 = (l + k + 1) - 1
    OBVIOUS
  <2> QED
    BY <2>4, <2>6, <2>7
<1>19. IsPrivate(ts[3].content[1]) <=> Parts(b)[4].tag = Tag.OctetString
  BY <1>1, <1>5, <1>11, <1>13, <1>15
<1>20. ViewOf(b, Parts(b), ts, us)
         = [flags |-> ts[3].content[1], engine |-> us[1].content,
            name |-> us[4].content, auth |-> us[5].content, priv |-> us[6].content,
            authOffset |-> AuthOffset(b, Parts(b), us),
            data |-> SubSeq(Inside(b), Parts(b)[3].next, Parts(b)[4].next - 1)]
  BY <1>9, <1>13, <1>14, <1>15, <1>16, <1>19 DEF ViewOf
<1>21. AuthOffset(b, Parts(b), us)
         = (Len(b) - Len(Inside(b))) + StartOf(Parts(b)[3])
           + (Len(p) - Len(Inside(p))) + StartOf(Parts(p)[5])
  BY <1>8, <1>11, <1>13 DEF AuthOffset, ContentStart, us
<1>22. UsmView(b) = [flags |-> f, engine |-> m.engine, name |-> m.name, auth |-> auth,
                     priv |-> PrivOf(m), authOffset |-> AuthOffset(b, Parts(b), us),
                     data |-> s4]
  BY <1>7, <1>13, <1>15, <1>16, <1>17, <1>18, <1>20
<1>23. UsmView(b) # NoView
  <2>1. UsmView(b).flags \in Nat /\ NoView.flags = -1
    BY <1>5, <1>22 DEF NoView
  <2> QED
    BY <2>1
<1>24. \A other \in Strings : Len(auth) = Len(other) =>
         Framed(b, auth, UsmOctets(m, other), other, UsmView(b).authOffset)
  BY <1>4, <1>21, <1>22
<1> QED
  BY <1>22, <1>23, <1>24 DEF b, f, s4

------------------------------------------------------------------------------
(* Whatever octets are read, their parts have their types.                  *)

\* the TLVs that can be read from n octets
TlvIn(n) == {t \in TlvRecord : t = NoTlv \/ t.next \in 1 .. n + 1}

LEMMA TlvsWithin ==
    ASSUME NEW b \in Seq(Nat)
    PROVE  Tlvs(b) \in Seq(TlvIn(Len(b)))
<1>1. PICK f : ReadsFrom(f, b) /\ Tlvs(b) = f[1]
  BY TlvsRead
<1>2. PICK L \in Nat : L = Len(b)
  OBVIOUS
<1>3. /\ f[L + 1] = <<>>
      /\ \A i \in 1 .. L :
            f[i] = <<TlvAt(b, i)>> \o (IF TlvAt(b, i) = NoTlv THEN <<>> ELSE f[TlvAt(b, i).next])
  BY <1>1, <1>2 DEF ReadsFrom
<1>4. ASSUME NEW i \in 1 .. L
      PROVE  /\ TlvAt(b, i) \in TlvIn(L)
             /\ TlvAt(b, i) # NoTlv => TlvAt(b, i).next \in i + 1 .. L + 1
  <2>1. /\ TlvAt(b, i) \in TlvRecord
        /\ TlvAt(b, i) # NoTlv => TlvAt(b, i).next \in i + 1 .. L + 1
    BY <1>2, TlvAtType
  <2>2. i + 1 .. L + 1 \subseteq 1 .. L + 1
    OBVIOUS
  <2> QED
    BY <2>1, <2>2 DEF TlvIn
<1> DEFINE S == TlvIn(L)
           U == {k \in Nat : k <= L => \A j \in L + 1 - k .. L + 1 : f[j] \in Seq(S)}
<1> HIDE DEF S
<1>5. 0 \in U
  <2>1. \A j \in L + 1 - 0 .. L + 1 : j = L + 1
    OBVIOUS
  <2>2. f[L + 1] \in Seq(S)
    BY <1>3, EmptySeq
  <2> QED
    BY <2>1, <2>2
<1>6. ASSUME NEW k \in Nat, k \in U PROVE k + 1 \in U
  <2>1. SUFFICES ASSUME k + 1 <= L, NEW j \in L + 1 - (k + 1) .. L + 1 PROVE f[j] \in Seq(S)
    OBVIOUS
  <2>2. \A x \in L + 1 - k .. L + 1 : f[x] \in Seq(S)
    BY <1>6, <2>1
  <2>3. CASE j = L + 1 - (k + 1)
    <3>1. j \in 1 .. L /\ j + 1 = L + 1 - k
      BY <2>1, <2>3
    <3>2. PICK r \in Seq(S) :
             r = IF TlvAt(b, j) = NoTlv THEN <<>> ELSE f[TlvAt(b, j).next]
      <4>1. TlvAt(b, j) # NoTlv => f[TlvAt(b, j).next] \in Seq(S)
        BY <1>4, <2>2, <3>1
      <4>2. <<>> \in Seq(S)
        BY EmptySeq
      <4> QED
        BY <4>1, <4>2
    <3>3. PICK h \in Seq(S) : h = <<TlvAt(b, j)>>
      <4>1. TlvAt(b, j) \in S
        BY <1>4, <3>1 DEF S
      <4> QED
        BY <4>1, OneElement
    <3>4. f[j] = h \o r
      BY <1>3, <3>1, <3>2, <3>3
    <3> QED
      BY <3>4, ConcatProperties
  <2>4. CASE j # L + 1 - (k + 1)
    <3>1. j \in L + 1 - k .. L + 1
      BY <2>1, <2>4
    <3> QED
      BY <2>2, <3>1
  <2> QED
    BY <2>3, <2>4
<1>7. L \in U
  <2> HIDE DEF U
  <2> QED
    BY <1>5, <1>6, NaturalsByStep
<1>8. 1 \in L + 1 - L .. L + 1
  OBVIOUS
<1>9. f[1] \in Seq(S)
  BY <1>7, <1>8
<1> QED
  BY <1>1, <1>2, <1>9 DEF S

LEMMA FirstTlvType ==
    ASSUME NEW b \in Strings
    PROVE  TlvAt(b, 1) \in TlvRecord
<1>1. PICK L \in Nat : L = Len(b)
  BY LengthType
<1>2. CASE L = 0
  <2>1. TlvAt(b, 1) = NoTlv
    BY <1>1, <1>2 DEF TlvAt
  <2>2. NoTlv \in TlvRecord
    BY DEF NoTlv, TlvRecord
  <2> QED
    BY <2>1, <2>2
<1>3. CASE L # 0
  <2>1. 1 \in 1 .. Len(b)
    BY <1>1, <1>3
  <2> QED
    BY <2>1, TlvAtType DEF Strings
<1> QED
  BY <1>2, <1>3

LEMMA ContentType ==
    ASSUME NEW t \in TlvRecord
    PROVE  t.tag \in Nat /\ t.content \in Strings
BY DEF TlvRecord, Strings

LEMMA InsideType ==
    ASSUME NEW b \in Strings
    PROVE  Inside(b) \in Strings
<1>1. TlvAt(b, 1).content \in Strings /\ <<>> \in Strings
  BY FirstTlvType, ContentType, ParametersType
<1> QED
  BY <1>1 DEF Inside

LEMMA PartsType ==
    ASSUME NEW b \in Strings
    PROVE  Parts(b) \in Seq(TlvIn(Len(Inside(b)))) /\ Parts(b) \in Seq(TlvRecord)
<1>1. Inside(b) \in Seq(Nat)
  BY InsideType DEF Strings
<1> QED
  BY <1>1, TlvsWithin, TlvsType DEF Parts

LEMMA TlvType ==
    ASSUME NEW tag \in Nat, NEW c \in Strings
    PROVE  Tlv(tag, c) \in Strings
BY EncodesTlv, EncodesType DEF Strings

\* the parts that are named have been read
LEMMA AreRead ==
    ASSUME NEW S, NEW ts \in Seq(S), NEW tags, Are(ts, tags), NEW i \in 1 .. Len(tags)
    PROVE  ts[i] \in S /\ ts[i].tag \in tags[i]
BY DEF Are

LEMMA ThreeTags ==
    ASSUME NEW a, NEW b, NEW c
    PROVE  Len(<<a, b, c>>) = 3 /\ 1 \in 1 .. 3 /\ 2 \in 1 .. 3 /\ 3 \in 1 .. 3
           /\ <<a, b, c>>[1] = a /\ <<a, b, c>>[2] = b /\ <<a, b, c>>[3] = c
OBVIOUS

\* what is read as a scoped PDU or a community message is octets
LEMMA ScopedType ==
    ASSUME NEW b \in Strings
    PROVE  ScopedView(b).context \in Strings /\ ScopedView(b).pdu \in Strings
<1>1. CASE Are(Parts(b), <<StrTag, StrTag, AnyPdu>>)
  <2>1. Parts(b)[1] \in TlvRecord /\ Parts(b)[3] \in TlvRecord
    BY <1>1, PartsType, AreRead, ThreeTags
  <2>2. ScopedView(b).context = Parts(b)[1].content
        /\ ScopedView(b).pdu = Tlv(Parts(b)[3].tag, Parts(b)[3].content)
    BY <1>1 DEF ScopedView, ScopedOf
  <2> QED
    BY <2>1, <2>2, ContentType, TlvType
<1>2. CASE ~Are(Parts(b), <<StrTag, StrTag, AnyPdu>>)
  BY <1>2, ParametersType DEF ScopedView, ScopedOf, NoScoped
<1> QED
  BY <1>1, <1>2

LEMMA CommunityType ==
    ASSUME NEW b \in Strings
    PROVE  CommunityView(b).pdu \in Strings
<1>1. CASE Are(Parts(b), <<IntTag, StrTag, AnyPdu>>) /\ ValueOf(Parts(b)[1]).v = <<1>>
  <2>1. Parts(b)[3] \in TlvRecord
    BY <1>1, PartsType, AreRead, ThreeTags
  <2>2. CommunityView(b).pdu = Tlv(Parts(b)[3].tag, Parts(b)[3].content)
    BY <1>1 DEF CommunityView, CommunityViewOf
  <2> QED
    BY <2>1, <2>2, ContentType, TlvType
<1>2. CASE ~(Are(Parts(b), <<IntTag, StrTag, AnyPdu>>) /\ ValueOf(Parts(b)[1]).v = <<1>>)
  BY <1>2, ParametersType DEF CommunityView, CommunityViewOf, NoCommunityView
<1> QED
  BY <1>1, <1>2

\* what stands between two TLVs of the octets is octets
LEMMA BetweenType ==
    ASSUME NEW s \in Strings, NEW t \in TlvIn(Len(s)), NEW u \in TlvIn(Len(s)),
           t # NoTlv, u # NoTlv
    PROVE  SubSeq(s, t.next, u.next - 1) \in Strings
<1>1. PICK n \in Nat : n = Len(s)
  BY LengthType
<1>2. PICK i \in 1 .. n + 1, j \in 1 .. n + 1 : i = t.next /\ j = u.next
  BY <1>1 DEF TlvIn
<1>3. s \in Seq(Nat) /\ i \in Int /\ j - 1 \in Int /\ i >= 1 /\ j - 1 <= n
  BY <1>2 DEF Strings
<1>4. \A k \in i .. j - 1 : s[k] \in Nat
  <2>1. ASSUME NEW k \in i .. j - 1 PROVE k \in 1 .. n
    BY <1>3
  <2> QED
    BY <1>1, <1>3, <2>1
<1>5. SubSeq(s, i, j - 1) \in Seq(Nat)
  BY <1>1, <1>3, <1>4, SubSeqProperties
<1> QED
  BY <1>2, <1>5 DEF Strings

LEMMA ViewType ==
    ASSUME NEW b \in Strings, UsmView(b) # NoView
    PROVE  UsmView(b).data \in Strings
<1> DEFINE ps == Parts(b)
           tags == <<IntTag, SeqTag, StrTag, StrTag \union SeqTag>>
           view == UsmView(b)
<1>1. Are(ps, tags) /\ view.data = SubSeq(Inside(b), ps[3].next, ps[4].next - 1)
  BY DEF UsmView, ViewOfParts, ViewOf
<1>2. Len(tags) = 4 /\ 3 \in 1 .. 4 /\ 4 \in 1 .. 4 /\ tags[3] = StrTag
      /\ tags[4] = StrTag \union SeqTag
  OBVIOUS
<1>3. ps \in Seq(TlvIn(Len(Inside(b))))
  BY PartsType
<1> HIDE DEF ps, tags
<1>4. /\ ps[3] \in TlvIn(Len(Inside(b))) /\ ps[4] \in TlvIn(Len(Inside(b)))
      /\ ps[3].tag \in tags[3] /\ ps[4].tag \in tags[4]
  BY <1>1, <1>2, <1>3, AreRead
<1>5. ps[3].tag # 0 /\ ps[4].tag # 0 /\ NoTlv.tag = 0
  <2>1. \A t \in StrTag \union SeqTag : t # 0
    BY TagNumbers DEF StrTag, SeqTag
  <2> QED
    BY <1>2, <1>4, <2>1 DEF NoTlv
<1>6. ps[3] # NoTlv /\ ps[4] # NoTlv
  BY <1>5
<1> QED
  BY <1>1, <1>4, <1>6, InsideType, BetweenType, SMTT(30)

LEMMA DecryptedType ==
    ASSUME NEW view, view.data \in Strings
    PROVE  Decrypted(view) \in Strings
<1>1. TlvAt(view.data, 1).content \in Seq(Nat)
  BY FirstTlvType, ContentType DEF Strings
<1>2. Cipher(TlvAt(view.data, 1).content) \in Strings
  BY <1>1, CipherBack DEF Strings
<1> QED
  BY <1>2, ParametersType DEF Decrypted, DecryptedTlv

------------------------------------------------------------------------------
(* What is read of a message that was encoded.                              *)

\* octets that are one PDU or REPORT with this tag and id
PduOf(b, tag, id) ==
    /\ tag \in AnyPdu /\ tag \in Nat /\ id \in Int
    /\ \E c \in Strings : /\ b = Tlv(tag, c) /\ Encodes(b, tag, c)
                          /\ Len(Tlvs(c)) = 4 /\ Tlvs(c)[1].tag = Tag.Integer
                          /\ Tlvs(c)[1].content = SignedContent(id)

LEMMA PduTags ==
    /\ \A tag \in AnyPdu : tag \in Nat /\ tag # Tag.Integer /\ tag # Tag.OctetString
    /\ ReportTag \in AnyPdu /\ ReportTag \notin Range(PduTag)
    /\ PduTag.Response \in AnyPdu /\ PduTag.Get \in AnyPdu /\ PduTag.Inform \in AnyPdu
    /\ PduTag.Trap \in AnyPdu
    /\ 0 \notin AnyPdu
<1>1. Range(PduTag) = {160, 161, 162, 163, 165, 166, 167}
  BY DEF Range, PduTag
<1>2. AnyPdu = {160, 161, 162, 163, 165, 166, 167, 168}
  BY <1>1 DEF AnyPdu, ReportTag
<1>3. /\ PduTag.Response = 162 /\ PduTag.Get = 160 /\ PduTag.Inform = 166 /\ PduTag.Trap = 167
  BY DEF PduTag
<1> QED
  BY <1>1, <1>2, <1>3, TagNumbers DEF ReportTag

\* a PDU decoded has the tag and the id it was made with
LEMMA PduRead ==
    ASSUME NEW b, NEW tag, NEW id, PduOf(b, tag, id)
    PROVE  /\ Pdu(b) = NoPdu \/ (tag \in Range(PduTag) /\ Pdu(b).tag = tag /\ Pdu(b).id = id)
           /\ b \in Strings
<1>1. PICK c \in Strings : /\ Encodes(b, tag, c)
                           /\ Len(Tlvs(c)) = 4 /\ Tlvs(c)[1].tag = Tag.Integer
                           /\ Tlvs(c)[1].content = SignedContent(id)
  BY DEF PduOf
<1>2. id \in Int
  BY DEF PduOf
<1>3. b \in Strings
  BY <1>1, EncodesType DEF Strings
<1> QED
  BY <1>1, <1>2, <1>3, PduBack DEF Pdu

LEMMA NoPduRead == Pdu(<<>>) = NoPdu /\ NoPdu.tag = 0
<1>1. Len(Tlvs(<<>>)) = 0
  BY NothingToRead
<1> QED
  BY <1>1 DEF Pdu, OnlyPdu, NoPdu

------------------------------------------------------------------------------
(* The scoped PDU of a message.                                             *)

LEMMA ScopedRead ==
    ASSUME NEW m, Message(m), NEW tag, NEW id, PduOf(m.pdu, tag, id)
    PROVE  ScopedView(ScopedPdu(m)) = [context |-> m.context, pdu |-> m.pdu]
<1>1. PICK c \in Strings : m.pdu = Tlv(tag, c) /\ Encodes(m.pdu, tag, c)
  BY DEF PduOf
<1>2. tag \in AnyPdu /\ tag # Tag.Integer
  BY PduTags DEF PduOf
<1>3. PICK e \in Strings, x \in Strings : e = <<>> /\ x = m.context
  BY ParametersType DEF Message
<1> DEFINE s1 == OctetTlv(x)
           s2 == OctetTlv(e)
           s3 == m.pdu
           b == s1 \o s2 \o s3
           r1 == Read(Tag.OctetString, x, Len(s1) + 1)
           r2 == Read(Tag.OctetString, e, Len(s1) + Len(s2) + 1)
           r3 == Read(tag, c, Len(s1) + Len(s2) + Len(s3) + 1)
<1>4. Encodes(s1, Tag.OctetString, x) /\ Encodes(s2, Tag.OctetString, e)
  BY OctetTlvIs
<1>5. Encodes(ScopedPdu(m), SequenceTag, b)
  BY <1>3, ScopedEncodes
<1>6. Encodes(s3, tag, c)
  BY <1>1
<1> HIDE DEF s1, s2, s3
<1>7. Reads(b, <<r1, r2, r3>>)
  BY <1>4, <1>6, ReadsThree
<1> HIDE DEF b
<1>8. Tlvs(b) = <<r1, r2, r3>>
  BY <1>7, ReadsTlvs
<1>9. Parts(ScopedPdu(m)) = <<r1, r2, r3>>
  BY <1>5, <1>8, InsideEncoded DEF Parts
<1>10. Is(r1, StrTag) /\ Is(r2, StrTag) /\ Is(r3, AnyPdu)
  <2>1. Tag.OctetString \in StrTag /\ Tag.OctetString # Tag.Integer
    BY TagNumbers DEF StrTag
  <2> QED
    BY <1>2, <2>1, IsOther
<1>11. r1.content = x /\ r3.tag = tag /\ r3.content = c
  BY DEF Read
<1> HIDE DEF r1, r2, r3
<1>12. Are(<<r1, r2, r3>>, <<StrTag, StrTag, AnyPdu>>)
  <2>1. PICK S : S = {r1, r2, r3}
    OBVIOUS
  <2>2. r1 \in S /\ r2 \in S /\ r3 \in S
    BY <2>1
  <2> QED
    BY <1>10, <2>2, AreThree
<1>13. <<r1, r2, r3>>[1] = r1 /\ <<r1, r2, r3>>[3] = r3
  OBVIOUS
<1> DEFINE ts == <<r1, r2, r3>>
<1> HIDE DEF ts
<1>14. /\ Parts(ScopedPdu(m)) = ts /\ Are(ts, <<StrTag, StrTag, AnyPdu>>)
       /\ ts[1] = r1 /\ ts[3] = r3
  BY <1>9, <1>12, <1>13 DEF ts
<1>15. ScopedView(ScopedPdu(m)) = [context |-> ts[1].content, pdu |-> Tlv(ts[3].tag, ts[3].content)]
  BY <1>14 DEF ScopedView, ScopedOf
<1> QED
  BY <1>1, <1>3, <1>11, <1>14, <1>15

\* what is no SEQUENCE holds no scoped PDU
LEMMA NothingScoped ==
    ASSUME NEW b, Inside(b) = <<>>
    PROVE  ScopedView(b) = NoScoped /\ CommunityView(b) = NoCommunityView /\ UsmView(b) = NoView
<1>1. Len(Parts(b)) = 0
  BY NothingToRead DEF Parts
<1>2. ASSUME NEW a1, NEW a2, NEW a3, NEW a4
      PROVE  /\ ~Are(Parts(b), <<a1, a2, a3>>) /\ ~Are(Parts(b), <<a1, a2, a3, a4>>)
  <2>1. Len(<<a1, a2, a3>>) = 3 /\ Len(<<a1, a2, a3, a4>>) = 4
    OBVIOUS
  <2> QED
    BY <1>1, <2>1 DEF Are
<1> QED
  BY <1>2 DEF ScopedView, ScopedOf, CommunityView, CommunityViewOf, UsmView, ViewOfParts, ViewOf

LEMMA NoneInOctets ==
    ASSUME NEW s \in Strings
    PROVE  ScopedView(OctetTlv(s)) = NoScoped
<1>1. Inside(OctetTlv(s)) = <<>>
  BY OctetTlvIs, InsideEncoded, TagNumbers
<1> QED
  BY <1>1, NothingScoped

LEMMA NoneInNothing == ScopedView(<<>>) = NoScoped
<1>1. TlvAt(<<>>, 1) = NoTlv
  BY DEF TlvAt
<1>2. Inside(<<>>) = <<>>
  BY <1>1, TagNumbers DEF Inside, NoTlv
<1> QED
  BY <1>2, NothingScoped

LEMMA DecryptedData ==
    ASSUME NEW m, Message(m), NEW view,
           view.data = DataOf(m), view.priv = PrivOf(m)
    PROVE  Decrypted(view) = IF m.level = "authPriv" THEN ScopedPdu(m) ELSE <<>>
<1>1. PICK s \in Strings : s = ScopedPdu(m)
  BY ScopedEncodes
<1>2. CASE m.level = "authPriv"
  <2>1. DataOf(m) = OctetTlv(Cipher(s)) /\ PrivOf(m) = PrivParams
    BY <1>1, <1>2 DEF DataOf, PrivOf
  <2>2. Cipher(s) \in Strings /\ Cipher(Cipher(s)) = s
    BY CipherBack DEF Strings
  <2>3. Encodes(OctetTlv(Cipher(s)), Tag.OctetString, Cipher(s))
    BY <2>2, OctetTlvIs
  <2>4. PICK t : /\ t = TlvAt(view.data, 1) /\ t.tag = Tag.OctetString /\ t.content = Cipher(s)
    BY <2>1, <2>3, OnlyTlv
  <2>5. Len(view.priv) = 8
    BY <2>1, ParametersType
  <2> QED
    BY <1>1, <1>2, <2>2, <2>4, <2>5 DEF Decrypted, DecryptedTlv
<1>3. CASE m.level # "authPriv"
  <2>1. PICK c : Encodes(view.data, SequenceTag, c)
    BY <1>3, ScopedEncodes DEF DataOf
  <2>2. TlvAt(view.data, 1).tag = SequenceTag
    BY <2>1, OnlyTlv
  <2> QED
    BY <1>3, <2>2, TagNumbers DEF Decrypted, DecryptedTlv
<1> QED
  BY <1>2, <1>3

\* whichever way its data is looked at, it shows the message's own PDU or none
LEMMA DataRead ==
    ASSUME NEW m, Message(m), NEW tag, NEW id, PduOf(m.pdu, tag, id),
           NEW view, view.data = DataOf(m), view.priv = PrivOf(m)
    PROVE  /\ ScopedView(view.data).pdu \in {m.pdu, <<>>}
           /\ ScopedView(Decrypted(view)).pdu \in {m.pdu, <<>>}
<1>1. ScopedView(ScopedPdu(m)).pdu = m.pdu
  <2>1. ScopedView(ScopedPdu(m)) = [context |-> m.context, pdu |-> m.pdu]
    BY ScopedRead
  <2> QED
    BY <2>1
<1>2. NoScoped.pdu = <<>>
  BY DEF NoScoped
<1>3. Cipher(ScopedPdu(m)) \in Strings
  BY ScopedEncodes
<1>4. ScopedView(OctetTlv(Cipher(ScopedPdu(m)))) = NoScoped
  BY <1>3, NoneInOctets
<1>5. CASE m.level = "authPriv"
  BY <1>1, <1>2, <1>4, <1>5, DecryptedData DEF DataOf
<1>6. CASE m.level # "authPriv"
  BY <1>1, <1>2, <1>6, DecryptedData, NoneInNothing DEF DataOf
<1> QED
  BY <1>5, <1>6

------------------------------------------------------------------------------
(* Messages, and parts of them.                                             *)

\* the octets of a message's datagram
AuthOf(m) == IF m.level = "noAuthNoPriv" THEN <<>> ELSE Digest

LEMMA DatagramOf ==
    ASSUME NEW m, Message(m)
    PROVE  /\ AuthOf(m) \in Strings
           /\ UsmDatagram(m).octets = UsmOctets(m, AuthOf(m))
           /\ m.level # "noAuthNoPriv" =>
                UsmDatagram(m).key = m.key /\ UsmDatagram(m).over = UsmOctets(m, Zeros)
<1>0. PICK z \in Strings, d \in Strings : z = Zeros /\ d = Digest /\ Len(z) = Len(d)
  BY ParametersType
<1>1. CASE m.level = "noAuthNoPriv"
  BY <1>1, ParametersType DEF UsmDatagram, Datagram, AuthOf
<1>2. CASE m.level # "noAuthNoPriv"
  <2>1. AuthOf(m) = d
    BY <1>0, <1>2 DEF AuthOf
  <2>2. CASE m.long = TRUE
    BY <1>0, <1>2, <2>1, <2>2 DEF UsmDatagram, Datagram
  <2>3. CASE m.long = FALSE
    <3> DEFINE raw == UsmOctets(m, z)
               n == UsmView(raw).authOffset
    <3>1. Framed(raw, z, UsmOctets(m, d), d, n)
      BY <1>0, UsmRead
    <3>2. UsmDatagram(m) = Datagram(Splice(raw, n, d), m.key, raw)
      BY <1>0, <1>2, <2>3 DEF UsmDatagram, Stamped
    <3>3. raw = UsmOctets(m, Zeros)
      BY <1>0
    <3> HIDE DEF raw, n
    <3>4. Splice(raw, n, d) = UsmOctets(m, d)
      BY <1>0, <3>1, SpliceFramed
    <3> QED
      BY <2>1, <3>2, <3>3, <3>4 DEF Datagram
  <2> QED
    BY <2>2, <2>3 DEF Message
<1> QED
  BY <1>1, <1>2

\* b is all of the octets o, or what is left when they are cut short
PartOf(b, o) == b = o \/ \E k \in Int : k < Len(o) /\ b = SubSeq(o, 1, k)

\* What the codec promises of every SNMPv3 message UsmModel and the listener make:
\* decode_v3_message finds in it the engine, the user, the scoped PDU (the
\* encrypted one, when it is private) and the privacy parameters that it was
\* made of; in a part of it, nothing else or nothing at all; and
\* decode_message never takes it or a part of it for an SNMPv2c message.
THEOREM UsmArrives ==
    ASSUME NEW m, Message(m), NEW auth \in Strings, NEW b, PartOf(b, UsmOctets(m, auth))
    PROVE  /\ CommunityView(b) = NoCommunityView
           /\ \/ UsmView(b) = NoView
              \/ /\ UsmView(b).engine = m.engine /\ UsmView(b).name = m.name
                 /\ UsmView(b).data = DataOf(m) /\ UsmView(b).priv = PrivOf(m)
<1>1. PICK c \in Strings, h \in Strings, tag \in Nat, d \in Strings :
         MessageParts(m, auth, c, h, tag, d)
  BY PartsRead
<1> DEFINE o == UsmOctets(m, auth)
<1>2. o = Structure(c, m.long)
  BY <1>1 DEF MessageParts
<1>3. Encodes(o, SequenceTag, c)
  BY <1>2, StructureEncodes DEF Strings, Message
<1>4. CASE b = o
  <2>1. Parts(b) = Tlvs(c)
    BY <1>3, <1>4, InsideEncoded DEF Parts
  <2>2. Len(Parts(b)) = 4
    <3>1. PICK r1, r2, r3, r4 : Tlvs(c) = <<r1, r2, r3, r4>>
      BY <1>1 DEF MessageParts
    <3> QED
      BY <2>1, <3>1
  <2>3. Len(<<IntTag, StrTag, AnyPdu>>) = 3
    OBVIOUS
  <2>4. CommunityView(b) = NoCommunityView
    BY <2>2, <2>3 DEF CommunityView, CommunityViewOf, Are
  <2> QED
    BY <1>4, <2>4, UsmRead
<1>5. CASE b # o
  <2>1. PICK k \in Int : k < Len(o) /\ b = SubSeq(o, 1, k)
    BY <1>5 DEF PartOf
  <2> HIDE DEF o
  <2>2. Inside(b) = <<>>
    BY <1>3, <2>1, InsideCut
  <2> QED
    BY <2>2, NothingScoped
<1> QED
  BY <1>4, <1>5

\* The same of every SNMPv2c message around one PDU: its community and that
\* PDU are read back, of a part of it nothing else or nothing at all, and no
\* SNMPv3 receiver takes it or a part of it for a message of its own.
THEOREM CommunityArrives ==
    ASSUME NEW name \in Strings, NEW long \in BOOLEAN, NEW pdu, NEW tag, NEW id, PduOf(pdu, tag, id), NEW b,
           PartOf(b, CommunityOctets(name, pdu, long))
    PROVE  /\ UsmView(b) = NoView
           /\ \/ CommunityView(b) = NoCommunityView
              \/ CommunityView(b).pdu = pdu /\ CommunityView(b).name = name
<1>1. PICK pc \in Strings : pdu = Tlv(tag, pc) /\ Encodes(pdu, tag, pc)
  BY DEF PduOf
<1> DEFINE o == CommunityOctets(name, pdu, long)
           s1 == IntegerTlv(1)
           s2 == OctetTlv(name)
           c == s1 \o s2 \o pdu
           r1 == Read(Tag.Integer, SignedContent(1), Len(s1) + 1)
           r2 == Read(Tag.OctetString, name, Len(s1) + Len(s2) + 1)
           r3 == Read(tag, pc, Len(s1) + Len(s2) + Len(pdu) + 1)
<1>2. o = Structure(c, long)
  BY DEF CommunityOctets
<1>3. Encodes(s1, Tag.Integer, SignedContent(1)) /\ Encodes(s2, Tag.OctetString, name)
  BY IntegerEncodes, OctetTlvIs
<1> HIDE DEF s1, s2
<1>4. Reads(c, <<r1, r2, r3>>)
  BY <1>1, <1>3, ReadsThree
<1> HIDE DEF c
<1>5. c \in Seq(Nat) /\ Tlvs(c) = <<r1, r2, r3>>
  BY <1>4, ReadsTlvs
<1>6. Encodes(o, SequenceTag, c)
  BY <1>2, <1>5, StructureEncodes
<1>7. CASE b = o
  <2>1. r2.content = name /\ r3.content = pc /\ r3.tag = tag
    BY DEF Read
  <2> HIDE DEF r1, r2, r3, o
  <2>2. Parts(b) = <<r1, r2, r3>>
    BY <1>5, <1>6, <1>7, InsideEncoded DEF Parts
  <2> DEFINE ts == Parts(b)
  <2>3. Len(ts) = 3 /\ ts[2] = r2 /\ ts[3] = r3
    BY <2>2
  <2>4. Len(<<IntTag, SeqTag, StrTag, StrTag \union SeqTag>>) = 4
    OBVIOUS
  <2> HIDE DEF ts
  <2>5. ~Are(ts, <<IntTag, SeqTag, StrTag, StrTag \union SeqTag>>)
    BY <2>3, <2>4 DEF Are
  <2>6. UsmView(b) = NoView
    BY <2>5 DEF ts, UsmView, ViewOfParts, ViewOf
  <2>7. CommunityView(b) = CommunityViewOf(ts)
    BY DEF CommunityView, ts
  <2>8. CommunityViewOf(ts) = NoCommunityView \/
        CommunityViewOf(ts) = [name |-> name, pdu |-> pdu]
    BY <1>1, <2>1, <2>3 DEF CommunityViewOf
  <2> QED
    BY <2>6, <2>7, <2>8
<1>8. CASE b # o
  <2>1. PICK k \in Int : k < Len(o) /\ b = SubSeq(o, 1, k)
    BY <1>8 DEF PartOf
  <2> HIDE DEF o
  <2>2. Inside(b) = <<>>
    BY <1>6, <2>1, InsideCut
  <2> QED
    BY <2>2, NothingScoped
<1> QED
  BY <1>7, <1>8

------------------------------------------------------------------------------
(* What an application may send.                                            *)

LEMMA OctetsAreStrings == Seq(0 .. 255) \subseteq Strings
<1>1. 0 .. 255 \subseteq Nat
  OBVIOUS
<1>2. ASSUME NEW S, NEW T, S \subseteq T, NEW s \in Seq(S) PROVE s \in Seq(T)
  <2>1. PICK n \in Nat : s \in [1 .. n -> S]
    OBVIOUS
  <2>2. s \in [1 .. n -> T]
    BY <1>2, <2>1
  <2> QED
    BY <2>2
<1> QED
  BY <1>1, <1>2 DEF Strings

LEMMA OidsType == SysUptime \in Seq(Nat) /\ TrapOid \in Seq(Nat) /\ ProbeOid \in Seq(Nat)
BY DEF SysUptime, TrapOid, ProbeOid

LEMMA ArcsOf ==
    ASSUME NEW o \in Seq(Int), EncodableOid(o)
    PROVE  Arcs(o)
<1>1. \A x \in 0 .. 255 : x \in Nat
  OBVIOUS
<1>2. /\ Len(o) >= 2 /\ 40 * o[1] + o[2] \in 0 .. 255
      /\ \A i \in 3 .. Len(o) : o[i] >= 0
  BY DEF EncodableOid
<1>3. 40 * o[1] + o[2] \in Nat
  BY <1>1, <1>2
<1>4. \A i \in 3 .. Len(o) : o[i] \in Nat
  <2>1. TAKE i \in 3 .. Len(o)
  <2>2. PICK x \in Int : x = o[i]
    OBVIOUS
  <2>3. x >= 0
    BY <1>2, <2>2
  <2> QED
    BY <2>2, <2>3
<1> QED
  BY <1>2, <1>3, <1>4 DEF Arcs

LEMMA TagTypes ==
    ASSUME NEW type \in DOMAIN Tag
    PROVE  /\ type = "Integer" \/ type \in Unsigned \/ type = "ObjectIdentifier"
              \/ type \in Octets \/ type \in Empty
           /\ type \in Unsigned => type # "Integer" /\ type # "ObjectIdentifier" /\ type # "IpAddress"
           /\ type \in Octets \union Empty => type \notin Unsigned \union {"Integer", "ObjectIdentifier"}
           /\ "Integer" \notin Unsigned /\ "ObjectIdentifier" \notin Unsigned
BY DEF Tag, Unsigned, Octets, Empty

LEMMA EncodableParts ==
    ASSUME NEW type, NEW v, Encodable(Val(type, v))
    PROVE  /\ type = "ObjectIdentifier" => EncodableOid(v)
           /\ type \in Unsigned => v[1] >= 0
<1>1. Val(type, v).type = type /\ Val(type, v).v = v
  BY DEF Val
<1>2. "ObjectIdentifier" \notin Unsigned /\ "IpAddress" \notin Unsigned
  BY DEF Unsigned
<1> DEFINE x == Val(type, v)
<1> HIDE DEF x
<1>3. x.type = type /\ x.v = v /\ Encodable(x)
  BY <1>1 DEF x
<1>4. CASE type = "ObjectIdentifier"
  <2>1. type \notin Unsigned /\ type # "IpAddress"
    BY <1>2, <1>4
  <2>2. EncodableOid(x.v)
    BY ONLY <1>3, <1>4, <2>1 DEF Encodable
  <2> QED
    BY <1>2, <1>3, <1>4, <2>2
<1>5. CASE type \in Unsigned
  <2>1. type # "ObjectIdentifier" /\ type # "IpAddress"
    BY <1>2, <1>5
  <2>2. x.v[1] >= 0
    BY ONLY <1>3, <1>5, <2>1 DEF Encodable
  <2> QED
    BY <1>3, <1>5, <2>1, <2>2
<1> QED
  BY <1>4, <1>5

LEMMA ValueCarried ==
    ASSUME NEW type, NEW v, IsValue(Val(type, v)), Encodable(Val(type, v))
    PROVE  type \in DOMAIN Tag /\ Carries(type, v)
<1>1. Val(type, v).type = type /\ Val(type, v).v = v
  BY DEF Val
<1> DEFINE x == Val(type, v)
<1> HIDE DEF x
<1>2. x.type = type /\ x.v = v /\ IsValue(x)
  BY <1>1 DEF x
<1>3. /\ type \in DOMAIN Tag
      /\ type \in Unsigned \union {"Integer"} => v \in [1 .. 1 -> Int]
      /\ type = "ObjectIdentifier" => v \in Seq(Int)
      /\ type \in Octets => v \in Seq(0 .. 255)
      /\ type \in Empty => v = <<>>
  BY <1>2 DEF IsValue
<1>4. type \in Unsigned \union {"Integer"} => v[1] \in Int
  <2>1. \A w \in [1 .. 1 -> Int] : w[1] \in Int
    OBVIOUS
  <2> QED
    BY <1>3, <2>1
<1>5. type \in Unsigned => v[1] \in Nat
  <2>1. type \in Unsigned => v[1] >= 0
    BY EncodableParts
  <2>2. \A n \in Int : n >= 0 => n \in Nat
    OBVIOUS
  <2> QED
    BY <1>4, <2>1, <2>2
<1>6. type = "ObjectIdentifier" => Arcs(v)
  BY <1>3, EncodableParts, ArcsOf
<1>7. type \in Octets \union Empty => v \in Seq(Nat)
  <2>1. type \in Octets => v \in Seq(Nat)
    BY <1>3, OctetsAreStrings DEF Strings
  <2>2. type \in Empty => v \in Seq(Nat)
    BY <1>3, ParametersType DEF Strings
  <2> QED
    BY <2>1, <2>2
<1>8. type \notin Unsigned \union {"Integer", "ObjectIdentifier"} => v \in Seq(Nat)
  BY <1>3, <1>7, TagTypes
<1> QED
  BY <1>3, <1>4, <1>5, <1>6, <1>8 DEF Carries

\* what can be encoded of what an application may give
LEMMA VarbindCarried ==
    ASSUME NEW vb, IsVarbind(vb), EncodableOid(vb.oid), Encodable(vb.value)
    PROVE  CarriedVarbind(vb)
<1>1. Arcs(vb.oid)
  BY ArcsOf DEF IsVarbind
<1>2. PICK x : x = vb.value /\ IsValue(x) /\ Encodable(x)
  BY DEF IsVarbind
<1>3. x = Val(x.type, x.v)
  BY <1>2 DEF IsValue
<1>4. PICK type, v : x = Val(type, v)
  BY <1>3
<1>5. type \in DOMAIN Tag /\ Carries(type, v)
  BY <1>2, <1>4, ValueCarried
<1>6. Carried(x)
  BY <1>4, <1>5 DEF Carried
<1>7. vb = [oid |-> vb.oid, value |-> x]
  BY <1>2 DEF IsVarbind
<1> QED
  BY <1>1, <1>6, <1>7 DEF CarriedVarbind

LEMMA ValParts ==
    ASSUME NEW type, NEW v
    PROVE  Val(type, v).type = type /\ Val(type, v).v = v
BY DEF Val

LEMMA BuiltValues ==
    ASSUME NEW n \in Int, NEW o \in Seq(Int)
    PROVE  IsValue(Val("TimeTicks", <<n>>)) /\ IsValue(Val("ObjectIdentifier", o))
<1>1. /\ "TimeTicks" \in Unsigned /\ "TimeTicks" \notin Octets /\ "TimeTicks" \notin Empty
      /\ "TimeTicks" \in DOMAIN Tag
      /\ "ObjectIdentifier" \notin Unsigned \union {"Integer"} /\ "ObjectIdentifier" \notin Octets
      /\ "ObjectIdentifier" \notin Empty /\ "ObjectIdentifier" \in DOMAIN Tag
  BY DEF Unsigned, Octets, Empty, Tag
<1>2. IsValue(Val("TimeTicks", <<n>>))
  <2>0. <<n>> \in [1 .. 1 -> Int]
    OBVIOUS
  <2>1. PICK w \in [1 .. 1 -> Int] : w = <<n>>
    BY <2>0
  <2>2. PICK x : x = Val("TimeTicks", w) /\ x.type = "TimeTicks" /\ x.v = w
    BY ValParts
  <2>3. IsValue(x)
    BY <1>1, <2>2 DEF IsValue
  <2> QED
    BY <2>1, <2>2, <2>3
<1>3. IsValue(Val("ObjectIdentifier", o))
  <2>1. PICK x : x = Val("ObjectIdentifier", o) /\ x.type = "ObjectIdentifier" /\ x.v = o
    BY ValParts
  <2>2. IsValue(x)
    BY <1>1, <2>1 DEF IsValue
  <2> QED
    BY <2>1, <2>2
<1> QED
  BY <1>2, <1>3

\* what is sent are varbinds again
LEMMA VarbindsBuilt ==
    ASSUME NEW content \in Contents
    PROVE  \E n \in Nat :
              /\ \E S : NotificationVarbinds(content) \in [1 .. n -> S]
              /\ \A i \in 1 .. n : IsVarbind(NotificationVarbinds(content)[i])
<1> DEFINE given == content.varbinds
           u == Val("TimeTicks", <<content.uptime>>)
           t == Val("ObjectIdentifier", content.target)
           GS == Range(given)
           VS == {u, t} \union {vb.value : vb \in GS}
           S == [uptime : VS, trap : VS, extras : Seq(GS)]
           x == [uptime |-> u, trap |-> t, extras |-> <<>>]
           N == Len(given)
           F == [k \in 1 .. N |-> [s \in S |-> WithVarbind(s, given[k])]]
           built == CHOOSE f : f = [n \in 0 .. N |-> IF n = 0 THEN x
                                                     ELSE WithVarbind(f[n - 1], given[n])]
           a == [oid |-> SysUptime, value |-> built[N].uptime]
           b == [oid |-> TrapOid, value |-> built[N].trap]
<1>1. NotificationVarbinds(content) = <<a, b>> \o built[N].extras
  BY DEF NotificationVarbinds
<1>2. given \in Seq(GS) /\ \A i \in DOMAIN given : IsVarbind(given[i])
  BY NotificationAssumption
<1>3. N \in Nat /\ DOMAIN given = 1 .. N /\ \A i \in 1 .. N : given[i] \in GS
  BY <1>2
<1>4. \A vb \in GS : IsVarbind(vb)
  BY <1>2 DEF Range
<1>5. content.target \in Seq(Int) /\ content.uptime \in Nat
  BY NotificationAssumption
<1>6. IsValue(u) /\ IsValue(t)
  BY <1>5, BuiltValues
<1> HIDE DEF given, u, t, GS, N
<1>8. \A y \in VS : IsValue(y)
  BY <1>4, <1>6 DEF IsVarbind
<1>9. \A vb \in GS : vb.value \in VS
  OBVIOUS
<1>10. u \in VS /\ t \in VS
  OBVIOUS
<1> HIDE DEF VS
<1>11. x \in S
  BY <1>10, EmptySeq
<1>12. ASSUME NEW s \in S, NEW vb \in GS PROVE WithVarbind(s, vb) \in S
  <2>1. Append(s.extras, vb) \in Seq(GS)
    OBVIOUS
  <2>2. [s EXCEPT !.uptime = vb.value] \in S /\ [s EXCEPT !.trap = vb.value] \in S
        /\ [s EXCEPT !.extras = Append(@, vb)] \in S
    BY <1>9, <2>1
  <2> QED
    BY <2>2 DEF WithVarbind
<1> HIDE DEF S, x
<1>13. F \in [1 .. N -> [S -> S]]
  BY <1>3, <1>12
<1>14. \A k \in 1 .. N : \A s \in S : F[k][s] = WithVarbind(s, given[k])
  OBVIOUS
<1> HIDE DEF F
<1>15. PICK f \in [0 .. N -> S] : Iterates(F, x, N, f)
  BY <1>3, <1>11, <1>13, IterationExists
<1>16. f[0] = x /\ \A k \in 1 .. N : f[k] = F[k][f[k - 1]]
  BY <1>15 DEF Iterates
<1>17. ASSUME NEW k \in 1 .. N PROVE f[k] = WithVarbind(f[k - 1], given[k])
  <2>1. k - 1 \in 0 .. N
    BY <1>3
  <2> QED
    BY <1>14, <1>16, <2>1
<1>18. f = [n \in 0 .. N |-> IF n = 0 THEN x ELSE WithVarbind(f[n - 1], given[n])]
  BY <1>3, <1>16, <1>17
<1>19. built = [n \in 0 .. N |-> IF n = 0 THEN x ELSE WithVarbind(built[n - 1], given[n])]
  BY <1>18
<1> HIDE DEF built
<1>20. built[N] \in S
  <2> DEFINE T == {n \in Nat : n <= N => built[n] \in S}
  <2>1. 0 \in T
    <3>1. 0 \in 0 .. N
      BY <1>3
    <3> QED
      BY <1>11, <1>19, <3>1
  <2>2. ASSUME NEW n \in Nat, n \in T PROVE n + 1 \in T
    <3>1. SUFFICES ASSUME n + 1 <= N PROVE built[n + 1] \in S
      OBVIOUS
    <3>2. built[n] \in S /\ n + 1 \in 0 .. N /\ n + 1 \in 1 .. N /\ n + 1 # 0 /\ (n + 1) - 1 = n
      BY <1>3, <2>2, <3>1
    <3>3. built[n + 1] = WithVarbind(built[n], given[n + 1])
      BY <1>19, <3>2
    <3> QED
      BY <1>3, <1>12, <3>2, <3>3
  <2>3. Nat \subseteq T
    <3> HIDE DEF T
    <3> QED
      BY <2>1, <2>2, NaturalsByStep
  <2> QED
    BY <1>3, <2>3
<1>21. built[N].uptime \in VS /\ built[N].trap \in VS /\ built[N].extras \in Seq(GS)
  BY <1>20 DEF S
<1>22. IsVarbind(a) /\ IsVarbind(b)
  BY <1>8, <1>21, OidsType DEF IsVarbind
<1> DEFINE T == {a, b} \union GS
<1>23. a \in T /\ b \in T /\ GS \subseteq T
  OBVIOUS
<1>24. \A vb \in T : IsVarbind(vb)
  BY <1>4, <1>22
<1> HIDE DEF T, a, b
<1>25. PICK h \in Seq(T) : h = <<a, b>>
  <2>1. <<a, b>> \in Seq(T)
    BY <1>23
  <2> QED
    BY <2>1
<1>26. PICK e \in Seq(T) : e = built[N].extras
  <2>1. PICK n \in Nat : built[N].extras \in [1 .. n -> GS]
    BY <1>21
  <2>2. built[N].extras \in [1 .. n -> T]
    BY <1>23, <2>1
  <2>3. built[N].extras \in Seq(T)
    BY <2>2
  <2> QED
    BY <2>3
<1>27. PICK w \in Seq(T) : w = NotificationVarbinds(content)
  <2>1. h \o e \in Seq(T)
    BY ConcatProperties
  <2> QED
    BY <1>1, <1>25, <1>26, <2>1
<1>28. PICK n \in Nat : w \in [1 .. n -> T]
  OBVIOUS
<1>29. \A i \in 1 .. n : IsVarbind(w[i])
  BY <1>24, <1>28
<1> QED
  BY <1>27, <1>28, <1>29

LEMMA ContentCarried ==
    ASSUME NEW content \in Contents, CanEncode(content)
    PROVE  CarriedVarbinds(NotificationVarbinds(content))
<1>1. PICK w : w = NotificationVarbinds(content)
  OBVIOUS
<1>0. PICK n \in Nat : \E S : w \in [1 .. n -> S] /\ \A i \in 1 .. n : IsVarbind(w[i])
  BY <1>1, VarbindsBuilt
<1>2. PICK S : w \in [1 .. n -> S] /\ \A i \in 1 .. n : IsVarbind(w[i])
  BY <1>0
<1>3. \A i \in 1 .. n : EncodableOid(w[i].oid) /\ Encodable(w[i].value)
  BY <1>1, <1>2 DEF CanEncode
<1>4. \A i \in 1 .. n : CarriedVarbind(w[i])
  BY <1>2, <1>3, VarbindCarried
<1> QED
  BY <1>1, <1>2, <1>4 DEF CarriedVarbinds

------------------------------------------------------------------------------
(* What is sent are octets.                                                 *)

LEMMA StructureType ==
    ASSUME NEW c \in Strings, NEW long \in BOOLEAN
    PROVE  Structure(c, long) \in Strings
BY StructureEncodes DEF Strings

LEMMA IntegerType == ASSUME NEW n \in Int PROVE IntegerTlv(n) \in Strings
BY IntegerEncodes, EncodesType DEF Strings

LEMMA OctetType == ASSUME NEW s \in Strings PROVE OctetTlv(s) \in Strings
BY OctetTlvIs, EncodesType DEF Strings

LEMMA JoinedThree ==
    ASSUME NEW s1 \in Strings, NEW s2 \in Strings, NEW s3 \in Strings
    PROVE  s1 \o s2 \o s3 \in Strings
<1>1. Join(s1, s2) \in Strings
  BY JoinType
<1>2. Join(Join(s1, s2), s3) \in Strings
  BY <1>1, JoinType
<1> QED
  BY <1>2 DEF Join

LEMMA UsmOctetsType ==
    ASSUME NEW m, Message(m), NEW auth \in Strings
    PROVE  UsmOctets(m, auth) \in Strings
<1>0. PICK long \in BOOLEAN : long = m.long
  BY DEF Message
<1>1. PICK f \in Nat : f = Flags(m.level, m.reportable)
  BY FlagsType DEF Message
<1>2. <<f>> \in Strings
  BY OneElement DEF Strings
<1>3. IntegerTlv(0) \in Strings /\ IntegerTlv(1) \in Strings /\ IntegerTlv(3) \in Strings
      /\ IntegerTlv(65507) \in Strings
  BY IntegerType
<1>4. HeaderData(m) \in Strings
  <2>1. OctetTlv(<<f>>) \in Strings
    BY <1>2, OctetType
  <2>2. IntegerTlv(1) \o IntegerTlv(65507) \o OctetTlv(<<f>>) \o IntegerTlv(3) \in Strings
    BY <1>3, <2>1, JoinedFour
  <2> QED
    BY <1>0, <1>1, <2>2, StructureType DEF HeaderData
<1>5. UsmParams(m, auth) \in Strings
  <2>1. PICK s1 \in Strings, s2 \in Strings, s3 \in Strings, s4 \in Strings :
           /\ s1 = OctetTlv(m.engine) /\ s2 = OctetTlv(m.name) /\ s3 = OctetTlv(auth)
           /\ s4 = OctetTlv(IF m.level = "authPriv" THEN PrivParams ELSE <<>>)
    BY ParametersType, OctetType DEF Message
  <2>2. PICK z \in Strings : z = IntegerTlv(0)
    BY <1>3
  <2>3. s1 \o z \o z \o s2 \o s3 \o s4 \in Strings
    BY JoinedSix
  <2> QED
    BY <1>0, <2>1, <2>2, <2>3, StructureType DEF UsmParams
<1>6. ScopedPdu(m) \in Strings
  <2>1. OctetTlv(m.context) \in Strings /\ OctetTlv(<<>>) \in Strings /\ m.pdu \in Strings
    BY ParametersType, OctetType DEF Message
  <2>2. OctetTlv(m.context) \o OctetTlv(<<>>) \o m.pdu \in Strings
    BY <2>1, JoinedThree
  <2> QED
    BY <1>0, <2>2, StructureType DEF ScopedPdu
<1>7. DataOf(m) \in Strings
  <2>1. Cipher(ScopedPdu(m)) \in Strings
    BY <1>6, CipherBack DEF Strings
  <2> QED
    BY <1>6, <2>1, OctetType DEF DataOf
<1>8. OctetTlv(UsmParams(m, auth)) \in Strings
  BY <1>5, OctetType
<1>9. IntegerTlv(3) \o HeaderData(m) \o OctetTlv(UsmParams(m, auth)) \o DataOf(m) \in Strings
  BY <1>3, <1>4, <1>7, <1>8, JoinedFour
<1> QED
  BY <1>0, <1>9, StructureType DEF UsmOctets, DataOf

LEMMA DatagramType ==
    ASSUME NEW m, Message(m)
    PROVE  \E o \in Strings : \E k, v : UsmDatagram(m) = Datagram(o, k, v)
<1>1. CASE m.level = "noAuthNoPriv"
  BY <1>1, UsmOctetsType, ParametersType DEF UsmDatagram
<1>2. CASE m.level # "noAuthNoPriv" /\ m.long
  BY <1>2, UsmOctetsType, ParametersType DEF UsmDatagram
<1>3. CASE m.level # "noAuthNoPriv" /\ ~m.long
  <2>1. m.long = FALSE
    BY <1>3 DEF Message
  <2>2. PICK auth \in Strings : UsmDatagram(m).octets = UsmOctets(m, auth)
    BY <2>1, DatagramOf
  <2>3. PICK o, k, v : UsmDatagram(m) = Datagram(o, k, v)
    BY <1>3 DEF UsmDatagram, Stamped
  <2>4. o \in Strings
    BY <2>2, <2>3, UsmOctetsType DEF Datagram
  <2> QED
    BY <2>3, <2>4
<1> QED
  BY <1>1, <1>2, <1>3

LEMMA CommunityOctetsType ==
    ASSUME NEW name \in Strings, NEW pdu \in Strings, NEW long \in BOOLEAN
    PROVE  CommunityOctets(name, pdu, long) \in Strings
<1>1. IntegerTlv(1) \in Strings /\ OctetTlv(name) \in Strings
  BY IntegerType, OctetType
<1>2. IntegerTlv(1) \o OctetTlv(name) \o pdu \in Strings
  BY <1>1, JoinedThree
<1> QED
  BY <1>2, StructureType DEF CommunityOctets

\* every PDU that can be encoded
LEMMA PduMade ==
    ASSUME NEW tag \in AnyPdu, NEW id \in Int, NEW vbs, CarriedVarbinds(vbs)
    PROVE  PduOf(PduOctets(tag, id, 0, 0, vbs), tag, id)
<1>1. tag \in Nat
  BY PduTags
<1>2. PICK z \in Int : z = 0
  OBVIOUS
<1>3. BeginsWith(PduOctets(tag, id, z, z, vbs), tag, id)
  BY <1>1, PduEncodes
<1>4. PICK b : b = PduOctets(tag, id, 0, 0, vbs) /\ BeginsWith(b, tag, id)
  BY <1>2, <1>3
<1> QED
  BY <1>1, <1>4 DEF PduOf, BeginsWith, Strings

------------------------------------------------------------------------------
(* What the notifier makes of an answer, whole or cut short.                *)

\* octets that answer with a PDU of this tag and id, for a notifier of either
\* version, with a REPORT or RESPONSE of a listener with one of the engines
Answer(o, tag, id) ==
    \/ \E m : \E auth \in Strings :
          /\ Message(m) /\ m.long = FALSE /\ m.engine \in Engines
          /\ o = UsmOctets(m, auth) /\ PduOf(m.pdu, tag, id)
    \/ \E name \in Strings : \E pdu :
          /\ o = CommunityOctets(name, pdu, FALSE) /\ PduOf(pdu, tag, id)

LEMMA AnswerView ==
    ASSUME NEW o, NEW tag, NEW id, Answer(o, tag, id), NEW b, PartOf(b, o), UsmView(b) # NoView
    PROVE  /\ UsmView(b).engine \in Engines
           /\ \E pdu : /\ PduOf(pdu, tag, id)
                       /\ ScopedView(UsmView(b).data).pdu \in {pdu, <<>>}
                       /\ ScopedView(Decrypted(UsmView(b))).pdu \in {pdu, <<>>}
<1>1. CASE \E m : \E auth \in Strings :
             /\ Message(m) /\ m.long = FALSE /\ m.engine \in Engines
             /\ o = UsmOctets(m, auth) /\ PduOf(m.pdu, tag, id)
  <2>0. PICK m : \E auth \in Strings :
             /\ Message(m) /\ m.long = FALSE /\ m.engine \in Engines
             /\ o = UsmOctets(m, auth) /\ PduOf(m.pdu, tag, id)
    BY <1>1
  <2>1. PICK auth \in Strings :
             /\ Message(m) /\ m.long = FALSE /\ m.engine \in Engines
             /\ o = UsmOctets(m, auth) /\ PduOf(m.pdu, tag, id)
    BY <2>0
  <2>2. /\ UsmView(b).engine = m.engine
        /\ UsmView(b).data = DataOf(m) /\ UsmView(b).priv = PrivOf(m)
    BY <2>1, UsmArrives
  <2>3. /\ ScopedView(UsmView(b).data).pdu \in {m.pdu, <<>>}
        /\ ScopedView(Decrypted(UsmView(b))).pdu \in {m.pdu, <<>>}
    BY <2>1, <2>2, DataRead
  <2> QED
    BY <2>1, <2>2, <2>3
<1>2. CASE \E name \in Strings : \E pdu :
             /\ o = CommunityOctets(name, pdu, FALSE) /\ PduOf(pdu, tag, id)
  <2>0. PICK name \in Strings : \E pdu :
             /\ o = CommunityOctets(name, pdu, FALSE) /\ PduOf(pdu, tag, id)
    BY <1>2
  <2>1. PICK pdu : /\ o = CommunityOctets(name, pdu, FALSE) /\ PduOf(pdu, tag, id)
    BY <2>0
  <2>2. UsmView(b) = NoView
    BY <2>1, CommunityArrives
  <2> QED
    BY <2>2
<1> QED
  BY <1>1, <1>2 DEF Answer

LEMMA AnswerCommunity ==
    ASSUME NEW o, NEW tag, NEW id, Answer(o, tag, id), NEW b, PartOf(b, o)
    PROVE  \E pdu : PduOf(pdu, tag, id) /\ CommunityView(b).pdu \in {pdu, <<>>}
<1>0. NoCommunityView.pdu = <<>>
  BY DEF NoCommunityView
<1>1. CASE \E m : \E auth \in Strings :
             /\ Message(m) /\ m.long = FALSE /\ m.engine \in Engines
             /\ o = UsmOctets(m, auth) /\ PduOf(m.pdu, tag, id)
  <2>0. PICK m : \E auth \in Strings :
             /\ Message(m) /\ m.long = FALSE
             /\ o = UsmOctets(m, auth) /\ PduOf(m.pdu, tag, id)
    BY <1>1
  <2>1. PICK auth \in Strings :
             /\ Message(m) /\ m.long = FALSE
             /\ o = UsmOctets(m, auth) /\ PduOf(m.pdu, tag, id)
    BY <2>0
  <2>2. CommunityView(b) = NoCommunityView
    BY <2>1, UsmArrives
  <2> QED
    BY <1>0, <2>1, <2>2
<1>2. CASE \E name \in Strings : \E pdu :
             /\ o = CommunityOctets(name, pdu, FALSE) /\ PduOf(pdu, tag, id)
  <2>0. PICK name \in Strings : \E pdu :
             /\ o = CommunityOctets(name, pdu, FALSE) /\ PduOf(pdu, tag, id)
    BY <1>2
  <2>1. PICK pdu : /\ o = CommunityOctets(name, pdu, FALSE) /\ PduOf(pdu, tag, id)
    BY <2>0
  <2>2. \/ CommunityView(b) = NoCommunityView
        \/ CommunityView(b).pdu = pdu /\ CommunityView(b).name = name
    <3>1. PICK long \in BOOLEAN : long = FALSE
      OBVIOUS
    <3>2. /\ PartOf(b, CommunityOctets(name, pdu, long)) /\ PduOf(pdu, tag, id)
      BY <2>1, <3>1
    <3> QED
      BY <3>2, CommunityArrives
  <2> QED
    BY <1>0, <2>1, <2>2
<1> QED
  BY <1>1, <1>2 DEF Answer

LEMMA ShownPdu ==
    ASSUME NEW pdu, NEW tag, NEW id, PduOf(pdu, tag, id), NEW b, b \in {pdu, <<>>},
           Pdu(b).tag = PduTag.Response
    PROVE  tag = PduTag.Response /\ Pdu(b).id = id
<1>1. PduTag.Response # 0
  BY PduTags
<1>2. Pdu(b) # NoPdu
  BY <1>1, NoPduRead
<1>3. b = pdu
  BY <1>2, NoPduRead
<1> QED
  BY <1>2, <1>3, PduRead

\* what answers the request in progress has its id and is a RESPONSE
LEMMA OnlyItsAnswer ==
    ASSUME NEW o, NEW tag, NEW id, Answer(o, tag, id), NEW d, PartOf(d.octets, o), Answers(d)
    PROVE  tag = PduTag.Response /\ pending.id = id
<1>1. PduTag.Response # 0 /\ NoPdu.tag = 0
  BY PduTags, NoPduRead
<1>2. CASE notifier.version = "v2c"
  <2>1. PICK pdu : PduOf(pdu, tag, id) /\ CommunityView(d.octets).pdu \in {pdu, <<>>}
    BY AnswerCommunity
  <2>2. PICK p : p = CommunityUnwrap(d) /\ p.tag = PduTag.Response /\ p.id = pending.id
    BY <1>2 DEF Answers, IsAnswer
  <2>3. p = Pdu(CommunityView(d.octets).pdu)
    BY <1>1, <2>2 DEF CommunityUnwrap, CommunityPdu
  <2> QED
    BY <2>1, <2>2, <2>3, ShownPdu
<1>3. CASE notifier.version # "v2c"
  <2>1. PICK p : p = UsmUnwrap(d) /\ p.tag = PduTag.Response /\ p.id = pending.id
    BY <1>3 DEF Answers, IsAnswer
  <2> DEFINE view == UsmView(d.octets)
             b == ScopedView(IF notifier.level = "authPriv" THEN Decrypted(view) ELSE view.data).pdu
  <2>2. view # NoView /\ p = Pdu(b)
    BY <1>1, <2>1 DEF UsmUnwrap, UsmPdu
  <2>3. PICK pdu : /\ PduOf(pdu, tag, id)
                   /\ ScopedView(view.data).pdu \in {pdu, <<>>}
                   /\ ScopedView(Decrypted(view)).pdu \in {pdu, <<>>}
    BY <2>2, AnswerView
  <2> HIDE DEF view
  <2>4. b \in {pdu, <<>>}
    BY <2>3
  <2> HIDE DEF b
  <2> QED
    BY <2>1, <2>2, <2>3, <2>4, ShownPdu
<1> QED
  BY <1>2, <1>3

------------------------------------------------------------------------------
(* What arrives.                                                            *)

\* a datagram of octets
Posted(d) == \E o \in Strings : \E k, v : d = Datagram(o, k, v)

LEMMA Arrives ==
    ASSUME NEW sent, \A d \in sent : Posted(d), NEW d \in Arriving(sent)
    PROVE  /\ \E s \in sent : PartOf(d.octets, s.octets)
           /\ d.octets \in Strings
<1>1. CASE d \in sent
  BY <1>1 DEF PartOf, Posted, Datagram
<1>2. CASE d \notin sent
  <2>0. PICK s \in sent : \E n \in Lengths(s) : d = [s EXCEPT !.octets = SubSeq(@, 1, n)]
    BY <1>2 DEF Arriving
  <2>1. PICK n \in Lengths(s) : d = [s EXCEPT !.octets = SubSeq(@, 1, n)]
    BY <2>0
  <2>9. PICK o \in Strings : \E k, v : s = Datagram(o, k, v)
    BY DEF Posted
  <2>2. PICK k, v : s = Datagram(o, k, v)
    BY <2>9
  <2>3. s.octets = o /\ d.octets = SubSeq(o, 1, n)
    BY <2>1, <2>2 DEF Datagram
  <2>4. PICK l \in Nat : l = Len(o)
    BY LengthType
  <2>5. n \in Int /\ n < l
    <3>1. n \in {l - 1} \union {k_ \in Cuts : k_ < l}
      BY <2>3, <2>4 DEF Lengths
    <3>2. Cuts \subseteq Nat
      BY NotificationAssumption
    <3> QED
      BY <3>1, <3>2
  <2>6. SubSeq(o, 1, n) \in Strings
    <3>1. \A i \in 1 .. n : o[i] \in Nat
      <4>1. TAKE i \in 1 .. n
      <4>2. i \in 1 .. Len(o)
        BY <2>4, <2>5
      <4> QED
        BY <4>2 DEF Strings
    <3> QED
      BY <2>5, <3>1, SubSeqProperties DEF Strings
  <2> QED
    BY <2>3, <2>4, <2>5, <2>6 DEF PartOf
<1> QED
  BY <1>1, <1>2

------------------------------------------------------------------------------
(* What the listener takes from octets.                                     *)

\* a PDU that has been decoded
Known(p) == p.tag \in Range(PduTag) /\ p.id \in Int /\ CarriedVarbinds(p.varbinds)

LEMMA KnownPdu ==
    ASSUME NEW b \in Strings, Pdu(b) # NoPdu
    PROVE  Known(Pdu(b))
BY PduType DEF Pdu, Strings, Known

LEMMA WantedType ==
    ASSUME NEW d, d.octets \in Strings, listener \in Listeners, Wanted(d) # Unwanted
    PROVE  /\ Wanted(d).name \in Strings /\ Wanted(d).context \in Strings /\ Known(Wanted(d).pdu)
           /\ IsNotification(Wanted(d).pdu)
<1>1. listener.names \subseteq Strings
  BY NotificationAssumption, OctetsAreStrings
<1>2. ASSUME NEW b \in Strings, IsNotification(Pdu(b)) PROVE Known(Pdu(b))
  <2>1. NoPdu.tag # PduTag.Trap /\ NoPdu.tag # PduTag.Inform
    BY PduTags, NoPduRead
  <2> QED
    BY <1>2, <2>1, KnownPdu DEF IsNotification
<1>3. ASSUME NEW name \in Strings, NEW context \in Strings, NEW b \in Strings,
             IsNotification(Pdu(b)), Wanted(d) = Taken(name, context, Pdu(b))
      PROVE  /\ Wanted(d).name \in Strings /\ Wanted(d).context \in Strings
             /\ Known(Wanted(d).pdu) /\ IsNotification(Wanted(d).pdu)
  BY <1>2, <1>3 DEF Taken
<1>4. CASE listener.version = "v2c"
  <2> DEFINE view == CommunityView(d.octets)
  <2>1. Wanted(d) = CommunityTaken(view, Pdu(view.pdu))
    BY <1>4 DEF Wanted, CommunityNotification, CommunityNotificationIn
  <2>2. view.pdu \in Strings
    BY CommunityType
  <2> HIDE DEF view
  <2>3. view.name \in listener.names /\ IsNotification(Pdu(view.pdu))
        /\ Wanted(d) = Taken(view.name, <<>>, Pdu(view.pdu))
    BY <2>1 DEF CommunityTaken
  <2> QED
    BY <1>1, <1>3, <2>2, <2>3, ParametersType
<1>5. CASE listener.version # "v2c"
  <2> DEFINE view == UsmView(d.octets)
             s == ScopedView(IF IsPrivate(view.flags) THEN Decrypted(view) ELSE view.data)
  <2>1. Wanted(d) = UsmNotificationIn(d, view)
    BY <1>5 DEF Wanted, UsmNotification
  <2>2. view # NoView => view.data \in Strings
    BY ViewType
  <2>3. view # NoView => Decrypted(view) \in Strings
    BY <2>2, DecryptedType
  <2> HIDE DEF view
  <2>4. view # NoView => s.context \in Strings /\ s.pdu \in Strings
    BY <2>2, <2>3, ScopedType
  <2>5. view # NoView /\ view.name \in listener.names /\ Wanted(d) = UsmTakenFrom(view, s)
    BY <2>1 DEF UsmNotificationIn
  <2> HIDE DEF s
  <2>6. IsNotification(Pdu(s.pdu)) /\ Wanted(d) = Taken(view.name, s.context, Pdu(s.pdu))
    BY <2>5 DEF UsmTakenFrom, UsmTaken
  <2> QED
    BY <1>1, <1>3, <2>4, <2>5, <2>6
<1> QED
  BY <1>4, <1>5

\* what is taken for a discovery probe has an id
LEMMA ProbeType ==
    ASSUME NEW b \in Strings, UsmView(b) # NoView,
           LET s == ScopedView(UsmView(b).data) IN IsProbe(UsmView(b), s, Pdu(s.pdu))
    PROVE  LET s == ScopedView(UsmView(b).data) IN
           s.context \in Strings /\ Pdu(s.pdu).id \in Int
<1> DEFINE s == ScopedView(UsmView(b).data)
<1>1. s.context \in Strings /\ s.pdu \in Strings
  BY ViewType, ScopedType
<1> HIDE DEF s
<1>2. Pdu(s.pdu).tag = PduTag.Get
  BY DEF IsProbe, s
<1>3. Pdu(s.pdu) # NoPdu
  BY <1>2, PduTags, NoPduRead
<1>4. Known(Pdu(s.pdu))
  BY <1>1, <1>3, KnownPdu
<1> QED
  BY <1>1, <1>4 DEF Known, s

------------------------------------------------------------------------------
(* What is given to the two of them.                                        *)

LEMMA EngineType ==
    /\ Engines \subseteq Strings /\ OwnEngine \in Strings /\ NoEngine \in Strings
    /\ NoEngine \notin Engines
BY NotificationAssumption, OctetsAreStrings, ParametersType DEF NoEngine

LEMMA NotifierType ==
    ASSUME NEW n \in Notifiers
    PROVE  /\ n.name \in Strings /\ n.long \in BOOLEAN
           /\ n.version # "v2c" => n.level \in DOMAIN LevelFlags
BY NotificationAssumption, OctetsAreStrings

LEMMA ListenerType ==
    ASSUME NEW l \in Listeners
    PROVE  l.names \subseteq Strings /\ (l.version # "v2c" => l.level \in DOMAIN LevelFlags)
BY NotificationAssumption, OctetsAreStrings

LEMMA NoLevel == "noAuthNoPriv" \in DOMAIN LevelFlags
BY DEF LevelFlags

------------------------------------------------------------------------------
(* The invariant.                                                           *)

Delivered(id) == \E e \in events : e.tag = PduTag.Inform /\ e.id = id

\* what is sent to the notifier is a REPORT or acknowledges an inform that was
\* handed to the application
Answering(d) ==
    \E o \in Strings : \E k, v, tag, id :
        /\ d = Datagram(o, k, v) /\ Answer(o, tag, id)
        /\ tag = PduTag.Response => Delivered(id)

\* the inform in progress
Waits ==
    \/ pending = NoInform
    \/ /\ pending.phase = "discovering" /\ pending.id = 0
       /\ pending.content \in Contents /\ Len(calls) < MaxCalls
    \/ /\ pending.phase = "waiting" /\ pending.id \in 1 .. Len(calls)

Prepared == [tag : {PduTag.Trap, PduTag.Inform}, content : Contents]

IInv ==
    /\ notifier \in Notifiers /\ listener \in Listeners
    /\ engine \in Engines /\ peer \in Engines \union {NoEngine}
    /\ calls \in Seq(Prepared) /\ Len(calls) <= MaxCalls
    /\ returned \subseteq 1 .. Len(calls)
    /\ Waits
    /\ \A d \in toListener : Posted(d)
    /\ \A d \in toNotifier : Answering(d)
    /\ \A i \in returned : Delivered(i)

LEMMA Implied == IInv => TypeOK /\ AckedWasDelivered
<1> SUFFICES ASSUME IInv PROVE TypeOK /\ AckedWasDelivered
  OBVIOUS
<1>1. AckedWasDelivered
  BY DEF IInv, Delivered, AckedWasDelivered
<1>2. Len(calls) \in Nat
  BY LenProperties DEF IInv
<1>3. pending.phase \in {"none", "discovering", "waiting"} /\ pending.id \in 0 .. Len(calls)
  BY <1>2 DEF IInv, Waits, NoInform
<1> QED
  BY <1>1, <1>3 DEF IInv, TypeOK

LEMMA Initially == Init => IInv
<1> SUFFICES ASSUME Init PROVE IInv
  OBVIOUS
<1>1. calls \in Seq(Prepared) /\ Len(calls) = 0
  BY EmptySeq DEF Init
<1>2. MaxCalls \in Nat
  BY NotificationAssumption
<1>3. Len(calls) <= MaxCalls
  BY <1>1, <1>2
<1> QED
  BY <1>1, <1>3 DEF Init, IInv, Waits

------------------------------------------------------------------------------
(* What is sent.                                                            *)

LEMMA ProbeArcs == Arcs(ProbeOid)
<1>1. /\ Len(ProbeOid) = 11 /\ ProbeOid[1] = 1 /\ ProbeOid[2] = 3
      /\ \A i \in 3 .. 11 : ProbeOid[i] \in Nat
  BY DEF ProbeOid
<1>2. PICK n \in Nat, x \in Nat, y \in Nat : n = 11 /\ x = 1 /\ y = 3
  OBVIOUS
<1>3. n >= 2 /\ 40 * x + y \in Nat
  BY <1>2
<1>4. ProbeOid \in Seq(Int)
  BY OidsType, OctetsAreNumbers
<1> QED
  BY ONLY <1>1, <1>2, <1>3, <1>4 DEF Arcs

LEMMA ProbeCarried ==
    ASSUME NEW x, Carried(x)
    PROVE  CarriedVarbinds(ProbeVarbind(x))
<1> DEFINE vb == [oid |-> ProbeOid, value |-> x]
<1>1. CarriedVarbind(vb)
  BY ProbeArcs DEF CarriedVarbind
<1> HIDE DEF vb
<1>2. ProbeVarbind(x) = <<vb>>
  BY DEF ProbeVarbind, vb
<1>3. <<vb>> \in [1 .. 1 -> {vb}]
  OBVIOUS
<1>4. \A i \in 1 .. 1 : CarriedVarbind(<<vb>>[i])
  BY <1>1
<1> QED
  BY <1>2, <1>3, <1>4 DEF CarriedVarbinds

LEMMA ProbeValues == Carried(Null) /\ Carried(Val("Counter32", <<1>>))
<1>1. /\ "Null" \in DOMAIN Tag /\ "Counter32" \in DOMAIN Tag
      /\ "Null" \notin Unsigned /\ "Counter32" \in Unsigned
  BY DEF Tag, Unsigned
<1>2. Carries("Null", <<>>)
  BY <1>1, EmptySeq DEF Carries
<1>3. <<1>>[1] \in Nat
  OBVIOUS
<1>4. Carries("Counter32", <<1>>)
  BY <1>1, <1>3 DEF Carries
<1> QED
  BY <1>1, <1>2, <1>4 DEF Carried, Null

LEMMA ProbeMade == ASSUME notifier \in Notifiers PROVE Posted(Probe)
<1> DEFINE pdu == PduOctets(PduTag.Get, 1, 0, 0, ProbeVarbind(Null))
           m == [name |-> <<>>, key |-> "", level |-> "noAuthNoPriv", reportable |-> TRUE,
                 engine |-> NoEngine, context |-> <<>>, pdu |-> pdu, long |-> notifier.long]
<1>1. PduOf(pdu, PduTag.Get, 1)
  BY ProbeValues, ProbeCarried, PduTags, PduMade
<1>2. pdu \in Strings
  BY <1>1, PduRead
<1>3. Probe = UsmDatagram(m)
  BY DEF Probe, UsmMessage
<1> HIDE DEF pdu
<1>4. Message(m)
  BY <1>2, NoLevel, EngineType, NotifierType, ParametersType DEF Message
<1> HIDE DEF m
<1> QED
  BY <1>3, <1>4, DatagramType DEF Posted

\* what a call sends
LEMMA OutboundMade ==
    ASSUME notifier \in Notifiers, NEW tag \in {PduTag.Trap, PduTag.Inform}, NEW id \in Int,
           NEW content \in Contents, CanEncode(content),
           NEW peerEngine \in Engines \union {NoEngine}
    PROVE  Posted(Outbound(tag, id, content, peerEngine))
<1> DEFINE pdu == PduOctets(tag, id, 0, 0, NotificationVarbinds(content))
           authority == OutboundEngine(tag, peerEngine)
<1>1. tag \in AnyPdu
  BY PduTags
<1>2. PduOf(pdu, tag, id)
  BY <1>1, ContentCarried, PduMade
<1>3. pdu \in Strings
  BY <1>2, PduRead
<1>4. authority \in Strings
  BY EngineType DEF OutboundEngine
<1>5. Outbound(tag, id, content, peerEngine) = Wrapped(tag, authority, pdu)
  BY DEF Outbound
<1> HIDE DEF pdu, authority
<1>6. notifier.name \in Strings /\ notifier.long \in BOOLEAN
  BY NotifierType
<1>7. CASE notifier.version = "v2c"
  BY <1>3, <1>5, <1>6, <1>7, CommunityOctetsType DEF Wrapped, CommunityMessage, Posted
<1>8. CASE notifier.version # "v2c"
  <2> DEFINE m == [name |-> notifier.name, key |-> notifier.key, level |-> notifier.level,
                   reportable |-> tag = PduTag.Inform, engine |-> authority,
                   context |-> authority, pdu |-> pdu, long |-> notifier.long]
  <2>1. Message(m)
    BY <1>3, <1>4, <1>6, <1>8, NotifierType DEF Message
  <2>2. Wrapped(tag, authority, pdu) = UsmDatagram(m)
    BY <1>8 DEF Wrapped, UsmMessage
  <2> HIDE DEF m
  <2> QED
    BY <1>5, <2>1, <2>2, DatagramType DEF Posted
<1> QED
  BY <1>7, <1>8

\* an answer of the listener
LEMMA UsmAnswer ==
    ASSUME NEW m, Message(m), m.long = FALSE, m.engine \in Engines,
           NEW tag, NEW id, PduOf(m.pdu, tag, id)
    PROVE  \E o \in Strings : \E k, v : UsmDatagram(m) = Datagram(o, k, v) /\ Answer(o, tag, id)
<1>1. PICK o \in Strings : \E k, v : UsmDatagram(m) = Datagram(o, k, v)
  BY DatagramType
<1>2. PICK auth \in Strings : UsmDatagram(m).octets = UsmOctets(m, auth)
  BY DatagramOf
<1>3. o = UsmOctets(m, auth)
  BY <1>1, <1>2 DEF Datagram
<1>4. Answer(o, tag, id)
  BY <1>3 DEF Answer
<1> QED
  BY <1>1, <1>4

LEMMA AckMade ==
    ASSUME listener \in Listeners, engine \in Engines, NEW n,
           n.name \in Strings, n.context \in Strings, Known(n.pdu)
    PROVE  \E o \in Strings : \E k, v :
              Ack(n) = Datagram(o, k, v) /\ Answer(o, PduTag.Response, n.pdu.id)
<1> DEFINE pdu == AckPdu(n.pdu)
<1>1. n.pdu.id \in Int /\ CarriedVarbinds(n.pdu.varbinds)
  BY DEF Known
<1>2. PduOf(pdu, PduTag.Response, n.pdu.id)
  BY <1>1, PduTags, PduMade DEF AckPdu
<1>3. pdu \in Strings
  BY <1>2, PduRead
<1> HIDE DEF pdu
<1>4. CASE listener.version = "v2c"
  <2>1. Ack(n) = Datagram(CommunityOctets(n.name, pdu, FALSE), "", <<>>)
    BY <1>4 DEF Ack, CommunityMessage, pdu
  <2>2. CommunityOctets(n.name, pdu, FALSE) \in Strings
    BY <1>3, CommunityOctetsType
  <2>3. Answer(CommunityOctets(n.name, pdu, FALSE), PduTag.Response, n.pdu.id)
    BY <1>2 DEF Answer
  <2> QED
    BY <2>1, <2>2, <2>3
<1>5. CASE listener.version # "v2c"
  <2> DEFINE m == [name |-> n.name, key |-> listener.key, level |-> listener.level,
                   reportable |-> FALSE, engine |-> engine, context |-> n.context,
                   pdu |-> pdu, long |-> FALSE]
  <2>1. Message(m) /\ m.long = FALSE /\ m.engine \in Engines
    BY <1>3, <1>5, ListenerType, EngineType DEF Message
  <2>2. Ack(n) = UsmDatagram(m) /\ m.pdu = pdu
    BY <1>5 DEF Ack, UsmMessage, pdu
  <2>3. PduOf(m.pdu, PduTag.Response, n.pdu.id)
    BY <1>2, <2>2
  <2> HIDE DEF m
  <2>4. \E o \in Strings : \E k, v :
           UsmDatagram(m) = Datagram(o, k, v) /\ Answer(o, PduTag.Response, n.pdu.id)
    BY <2>1, <2>3, UsmAnswer
  <2> QED
    BY <2>2, <2>4
<1> QED
  BY <1>4, <1>5

LEMMA ReportMade ==
    ASSUME engine \in Engines, NEW scoped, NEW p, scoped.context \in Strings, p.id \in Int
    PROVE  \E o \in Strings : \E k, v :
              ReportOn(scoped, p) = Datagram(o, k, v) /\ Answer(o, ReportTag, p.id)
<1> DEFINE get == PduOctets(PduTag.Get, p.id, 0, 0, ProbeVarbind(Val("Counter32", <<1>>)))
           pdu == Tlv(ReportTag, Tlvs(get)[1].content)
<1>1. CarriedVarbinds(ProbeVarbind(Val("Counter32", <<1>>)))
  BY ProbeValues, ProbeCarried
<1>2. PduOf(get, PduTag.Get, p.id)
  BY <1>1, PduTags, PduMade
<1> HIDE DEF get
<1>3. PICK c \in Strings : /\ Encodes(get, PduTag.Get, c)
                           /\ Len(Tlvs(c)) = 4 /\ Tlvs(c)[1].tag = Tag.Integer
                           /\ Tlvs(c)[1].content = SignedContent(p.id)
  BY <1>2 DEF PduOf
<1>4. Tlvs(get)[1].content = c
  BY <1>3, OnlyTlv
<1>5. ReportTag \in Nat /\ ReportTag \in AnyPdu
  BY PduTags
<1>6. Encodes(Tlv(ReportTag, c), ReportTag, c)
  BY <1>5, EncodesTlv DEF Strings
<1>7. pdu = Tlv(ReportTag, c)
  BY <1>4
<1> HIDE DEF pdu
<1>8. PduOf(pdu, ReportTag, p.id)
  BY <1>3, <1>5, <1>6, <1>7 DEF PduOf
<1>9. pdu \in Strings
  BY <1>8, PduRead
<1> DEFINE m == [name |-> <<>>, key |-> "", level |-> "noAuthNoPriv", reportable |-> FALSE,
                 engine |-> engine, context |-> scoped.context, pdu |-> pdu, long |-> FALSE]
<1>10. Message(m) /\ m.long = FALSE /\ m.engine \in Engines
  BY <1>9, NoLevel, EngineType, ParametersType DEF Message
<1>11. ReportOn(scoped, p) = UsmDatagram(m) /\ m.pdu = pdu
  BY DEF ReportOn, UsmMessage, pdu, get
<1>12. PduOf(m.pdu, ReportTag, p.id)
  BY <1>8, <1>11
<1> HIDE DEF m
<1>13. \E o \in Strings : \E k, v : UsmDatagram(m) = Datagram(o, k, v) /\ Answer(o, ReportTag, p.id)
  BY <1>10, <1>12, UsmAnswer
<1> QED
  BY <1>11, <1>13

------------------------------------------------------------------------------
(* The steps.                                                               *)

\* a call that is prepared
LEMMA Sending ==
    ASSUME IInv, Len(calls) < MaxCalls, NEW tag \in {PduTag.Trap, PduTag.Inform},
           NEW content \in Contents, NEW peerEngine \in Engines \union {NoEngine},
           Send(tag, content, peerEngine)
    PROVE  /\ calls' \in Seq(Prepared) /\ Len(calls') = Len(calls) + 1
           /\ Len(calls') <= MaxCalls /\ Len(calls) \in Nat
           /\ Waits'
           /\ \A d \in toListener' : Posted(d)
<1>1. calls \in Seq(Prepared) /\ MaxCalls \in Nat
  BY NotificationAssumption DEF IInv
<1>2. [tag |-> tag, content |-> content] \in Prepared
  BY DEF Prepared
<1>3. /\ calls' \in Seq(Prepared) /\ Len(calls') = Len(calls) + 1 /\ Len(calls) \in Nat
  BY <1>1, <1>2, AppendProperties, LenProperties DEF Send
<1>4. NextRequestId \in Int /\ NextRequestId = Len(calls')
  BY <1>3 DEF NextRequestId
<1>5. CASE CanEncode(content)
  <2>1. toListener' = toListener \union {Outbound(tag, NextRequestId, content, peerEngine)}
    BY <1>5 DEF Send
  <2>2. Posted(Outbound(tag, NextRequestId, content, peerEngine))
    BY <1>4, <1>5, OutboundMade DEF IInv
  <2>3. \A d \in toListener' : Posted(d)
    BY <2>1, <2>2 DEF IInv
  <2>4. \/ pending' = NoInform
        \/ pending' = [phase |-> "waiting", id |-> NextRequestId, content |-> content]
    BY <1>5 DEF Send
  <2>5. NextRequestId \in 1 .. Len(calls')
    BY <1>3, <1>4
  <2>6. Waits'
    BY <2>4, <2>5 DEF Waits
  <2> QED
    BY <1>1, <1>3, <2>3, <2>6
<1>6. CASE ~CanEncode(content)
  <2>1. pending' = NoInform /\ toListener' = toListener
    BY <1>6 DEF Send
  <2> QED
    BY <1>1, <1>3, <2>1 DEF Waits, IInv
<1> QED
  BY <1>5, <1>6

\* an answer stays one when more is handed to the application
LEMMA StillAnswering ==
    ASSUME events \subseteq events', NEW d, Answering(d)
    PROVE  Answering(d)'
BY DEF Answering, Delivered

\* nothing is sent and nothing returns
LEMMA NetworkKept ==
    ASSUME IInv, UNCHANGED <<setup, calls, returned, network, events>>, Waits',
           engine' \in Engines, peer' \in Engines \union {NoEngine}
    PROVE  IInv'
<1>1. /\ notifier' = notifier /\ listener' = listener /\ calls' = calls /\ events' = events
      /\ returned' = returned /\ toListener' = toListener /\ toNotifier' = toNotifier
  BY DEF setup, network
<1>2. \A d \in toNotifier' : Answering(d)'
  BY <1>1, StillAnswering DEF IInv
<1>3. \A i \in returned' : Delivered(i)'
  BY <1>1 DEF IInv, Delivered
<1>4. \A d \in toListener' : Posted(d)
  BY <1>1 DEF IInv
<1> QED
  BY <1>1, <1>2, <1>3, <1>4 DEF IInv

LEMMA SendTrapKeeps ==
    ASSUME IInv, NEW content \in Contents, SendTrap(content)
    PROVE  IInv'
<1>1. /\ Send(PduTag.Trap, content, peer) /\ Len(calls) < MaxCalls
      /\ UNCHANGED <<setup, engine, peer, returned, toNotifier, events>>
  BY DEF SendTrap
<1>2. /\ calls' \in Seq(Prepared) /\ Len(calls') = Len(calls) + 1
      /\ Len(calls') <= MaxCalls /\ Len(calls) \in Nat /\ Waits'
      /\ \A d \in toListener' : Posted(d)
  BY <1>1, Sending DEF IInv
<1>3. returned' \subseteq 1 .. Len(calls')
  BY <1>1, <1>2 DEF IInv
<1> QED
  BY <1>1, <1>2, <1>3 DEF IInv, setup, Answering, Delivered

LEMMA SendInformKeeps ==
    ASSUME IInv, NEW content \in Contents, SendInform(content)
    PROVE  IInv'
<1>1. /\ Len(calls) < MaxCalls
      /\ UNCHANGED <<setup, engine, peer, returned, toNotifier, events>>
  BY DEF SendInform
<1>2. CASE Send(PduTag.Inform, content, peer)
  <2>1. /\ calls' \in Seq(Prepared) /\ Len(calls') = Len(calls) + 1
        /\ Len(calls') <= MaxCalls /\ Len(calls) \in Nat /\ Waits'
        /\ \A d \in toListener' : Posted(d)
    BY <1>1, <1>2, Sending DEF IInv
  <2>2. returned' \subseteq 1 .. Len(calls')
    BY <1>1, <2>1 DEF IInv
  <2> QED
    BY <1>1, <2>1, <2>2 DEF IInv, setup, Answering, Delivered
<1>3. CASE /\ pending' = [phase |-> "discovering", id |-> 0, content |-> content]
           /\ toListener' = toListener \union {Probe} /\ calls' = calls
  <2>1. Waits'
    BY <1>1, <1>3 DEF Waits
  <2>2. \A d \in toListener' : Posted(d)
    BY <1>3, ProbeMade DEF IInv
  <2> QED
    BY <1>1, <1>3, <2>1, <2>2 DEF IInv, setup, Answering, Delivered
<1> QED
  BY <1>2, <1>3 DEF SendInform

\* what comes to the notifier is an answer, or a part of one
LEMMA AnswerArrives ==
    ASSUME IInv, NEW d \in Arriving(toNotifier)
    PROVE  \E o \in Strings : \E tag, id :
              Answer(o, tag, id) /\ PartOf(d.octets, o) /\ (tag = PduTag.Response => Delivered(id))
<1>1. \A e \in toNotifier : Posted(e)
  BY DEF IInv, Answering, Posted
<1>2. PICK s \in toNotifier : PartOf(d.octets, s.octets)
  BY <1>1, Arrives
<1>3. PICK o \in Strings : \E k, v, tag, id :
        /\ s = Datagram(o, k, v) /\ Answer(o, tag, id)
        /\ tag = PduTag.Response => Delivered(id)
  BY DEF IInv, Answering
<1>4. s.octets = o
  BY <1>3 DEF Datagram
<1> QED
  BY <1>2, <1>3, <1>4

LEMMA DiscoverKeeps ==
    ASSUME IInv, NEW d \in Arriving(toNotifier), Discover(d)
    PROVE  IInv'
<1>1. /\ TakeReport(UsmView(d.octets)) /\ pending.phase = "discovering"
      /\ UNCHANGED <<setup, engine, returned, toNotifier, events>>
  BY DEF Discover
<1>2. pending.content \in Contents /\ Len(calls) < MaxCalls
  BY <1>1 DEF IInv, Waits, NoInform
<1>3. PICK o \in Strings : \E tag, id : Answer(o, tag, id) /\ PartOf(d.octets, o)
  BY AnswerArrives
<1>4. UsmView(d.octets) # NoView
  BY <1>1 DEF TakeReport, IsReport
<1>5. UsmView(d.octets).engine \in Engines
  BY <1>3, <1>4, AnswerView
<1>6. peer' = UsmView(d.octets).engine /\ Send(PduTag.Inform, pending.content, peer')
  BY <1>1 DEF TakeReport
<1>7. /\ calls' \in Seq(Prepared) /\ Len(calls') = Len(calls) + 1
      /\ Len(calls') <= MaxCalls /\ Len(calls) \in Nat /\ Waits'
      /\ \A e \in toListener' : Posted(e)
  <2>1. PICK p : p = peer' /\ p \in Engines \union {NoEngine}
    BY <1>5, <1>6
  <2>2. Send(PduTag.Inform, pending.content, p)
    BY <1>6, <2>1
  <2> QED
    BY <1>2, <2>1, <2>2, Sending
<1>8. returned' \subseteq 1 .. Len(calls')
  BY <1>1, <1>7 DEF IInv
<1> QED
  BY <1>1, <1>5, <1>6, <1>7, <1>8 DEF IInv, setup, Answering, Delivered

LEMMA AcknowledgedKeeps ==
    ASSUME IInv, NEW d \in Arriving(toNotifier), Acknowledged(d)
    PROVE  IInv'
<1>1. /\ pending.phase = "waiting" /\ Answers(d)
      /\ returned' = returned \union {pending.id} /\ pending' = NoInform
      /\ UNCHANGED <<setup, engine, peer, calls, network, events>>
  BY DEF Acknowledged
<1>2. PICK o \in Strings : \E tag, id :
        Answer(o, tag, id) /\ PartOf(d.octets, o) /\ (tag = PduTag.Response => Delivered(id))
  BY AnswerArrives
<1>3. Delivered(pending.id)
  BY <1>1, <1>2, OnlyItsAnswer
<1>4. pending.id \in 1 .. Len(calls)
  BY <1>1 DEF IInv, Waits, NoInform
<1>5. PICK w : w = pending.id /\ returned' = returned \union {w}
  BY <1>1
<1>6. returned' \subseteq 1 .. Len(calls')
  BY <1>1, <1>4, <1>5 DEF IInv
<1>7. \A i \in returned' : Delivered(i)'
  <2>1. \A i \in returned' : Delivered(i)
    BY <1>3, <1>5 DEF IInv
  <2> QED
    BY <1>1, <2>1 DEF Delivered
<1>8. \A s \in toNotifier' : Answering(s)'
  BY <1>1 DEF IInv, network, Answering, Delivered
<1> QED
  BY <1>1, <1>6, <1>7, <1>8 DEF IInv, Waits, setup, network

LEMMA InformFailsKeeps == IInv /\ InformFails => IInv'
<1> SUFFICES ASSUME IInv, InformFails PROVE IInv'
  OBVIOUS
<1>1. UNCHANGED <<setup, engine, peer, calls, returned, network, events>> /\ Waits'
  BY DEF InformFails, Waits
<1> QED
  BY <1>1, NetworkKept DEF IInv

\* what comes to the listener are octets
LEMMA PostArrives ==
    ASSUME IInv, NEW d \in Arriving(toListener)
    PROVE  d.octets \in Strings
BY Arrives DEF IInv

LEMMA AnswerProbeKeeps ==
    ASSUME IInv, NEW d \in Arriving(toListener), AnswerProbe(d)
    PROVE  IInv'
<1> DEFINE view == UsmView(d.octets)
           s == ScopedView(view.data)
<1>1. UNCHANGED <<setup, engine, peer, pending, calls, returned, toListener, events>>
  BY DEF AnswerProbe
<1>2. /\ view # NoView /\ IsProbe(view, s, Pdu(s.pdu))
      /\ toNotifier' = toNotifier \union {ReportOn(s, Pdu(s.pdu))}
  BY DEF AnswerProbe, ProbeView, ReportIfProbeIn, ReportIfProbe
<1>3. s.context \in Strings /\ Pdu(s.pdu).id \in Int
  BY <1>2, PostArrives, ProbeType
<1> HIDE DEF s, view
<1>4. \E o \in Strings : \E k, v :
         ReportOn(s, Pdu(s.pdu)) = Datagram(o, k, v) /\ Answer(o, ReportTag, Pdu(s.pdu).id)
  BY <1>3, ReportMade DEF IInv
<1>5. ReportTag # PduTag.Response
  BY PduTags DEF Range, PduTag
<1>6. Answering(ReportOn(s, Pdu(s.pdu)))
  BY <1>4, <1>5 DEF Answering
<1> QED
  BY <1>1, <1>2, <1>6 DEF IInv, Waits, setup, Answering, Delivered

LEMMA DeliverKeeps ==
    ASSUME IInv, NEW d \in Arriving(toListener), Deliver(d)
    PROVE  IInv'
<1>1. UNCHANGED <<setup, engine, peer, pending, calls, returned, toListener>>
  BY DEF Deliver
<1>2. PICK n : n = Wanted(d) /\ Accept(n)
  BY DEF Deliver
<1>3. /\ n # Unwanted
      /\ toNotifier' = IF n.pdu.tag = PduTag.Inform THEN toNotifier \union {Ack(n)} ELSE toNotifier
      /\ events' = events \union {Event(n)}
  BY <1>2 DEF Accept, HandOn
<1>4. n.name \in Strings /\ n.context \in Strings /\ Known(n.pdu)
  BY <1>2, <1>3, PostArrives, WantedType DEF IInv
<1>10. Event(n).tag = n.pdu.tag /\ Event(n).id = n.pdu.id
  BY DEF Event
<1>5. PICK a, e : a = Ack(n) /\ e = Event(n) /\ e.tag = n.pdu.tag /\ e.id = n.pdu.id
  BY <1>10
<1>6. \A s \in toNotifier : Answering(s)'
  BY <1>3, StillAnswering DEF IInv
<1>7. ASSUME n.pdu.tag = PduTag.Inform PROVE Answering(a)'
  <2>1. \E o \in Strings : \E k, v :
           a = Datagram(o, k, v) /\ Answer(o, PduTag.Response, n.pdu.id)
    BY <1>4, <1>5, AckMade DEF IInv
  <2>2. Delivered(n.pdu.id)'
    BY <1>3, <1>5, <1>7 DEF Delivered
  <2> QED
    BY <2>1, <2>2 DEF Answering
<1>8. \A s \in toNotifier' : Answering(s)'
  BY <1>3, <1>5, <1>6, <1>7
<1>9. \A i \in returned' : Delivered(i)'
  BY <1>1, <1>3 DEF IInv, Delivered
<1> QED
  BY <1>1, <1>8, <1>9 DEF IInv, Waits, setup

LEMMA RestartKeeps == IInv /\ Restart => IInv'
<1> SUFFICES ASSUME IInv, Restart PROVE IInv'
  OBVIOUS
<1>1. UNCHANGED <<setup, peer, pending, calls, returned, network, events>> /\ engine' \in Engines
  BY DEF Restart
<1>2. Waits'
  BY <1>1 DEF IInv, Waits
<1> QED
  BY <1>1, <1>2, NetworkKept DEF IInv

LEMMA Inductive == IInv /\ [Next]_vars => IInv'
<1> SUFFICES ASSUME IInv, [Next]_vars PROVE IInv'
  OBVIOUS
<1>1. CASE \E content \in Contents : SendTrap(content) \/ SendInform(content)
  BY <1>1, SendTrapKeeps, SendInformKeeps
<1>2. CASE \E d \in Arriving(toNotifier) : Discover(d) \/ Acknowledged(d)
  BY <1>2, DiscoverKeeps, AcknowledgedKeeps
<1>3. CASE InformFails
  BY <1>3, InformFailsKeeps
<1>4. CASE \E d \in Arriving(toListener) : AnswerProbe(d) \/ Deliver(d)
  BY <1>4, AnswerProbeKeeps, DeliverKeeps
<1>5. CASE Restart
  BY <1>5, RestartKeeps
<1>6. CASE UNCHANGED vars
  <2>1. /\ UNCHANGED <<setup, calls, returned, network, events>>
        /\ engine' = engine /\ peer' = peer /\ Waits'
    BY <1>6 DEF IInv, vars, Waits
  <2> QED
    BY <2>1, NetworkKept DEF IInv
<1> QED
  BY <1>1, <1>2, <1>3, <1>4, <1>5, <1>6 DEF Next

------------------------------------------------------------------------------
(* Sequences joined one after another.                                      *)

\* a flattened sequence, one of its sequences at a time
Flattens(f, ss) ==
    /\ f[0] = <<>> /\ FlattenSeq(ss) = f[Len(ss)]
    /\ \A i \in 1 .. Len(ss) : f[i] = f[i - 1] \o ss[i]

LEMMA FlattenSteps ==
    ASSUME NEW S, NEW ss \in Seq(Seq(S))
    PROVE  \E f \in [0 .. Len(ss) -> Seq(S)] : Flattens(f, ss)
<1> DEFINE N == Len(ss)
           flatten[i \in 1 .. N] == IF i = 1 THEN ss[i] ELSE flatten[i - 1] \o ss[i]
<1>1. FlattenSeq(ss) = IF N = 0 THEN ss ELSE flatten[N]
  BY DEF FlattenSeq
<1>2. N \in Nat /\ DOMAIN ss = 1 .. N /\ \A i \in 1 .. N : ss[i] \in Seq(S)
  OBVIOUS
<1>0. N = 0 => ss = <<>>
  BY EmptySeq
<1> HIDE DEF N
<1> DEFINE F == [n \in 1 .. N |-> [s \in Seq(S) |-> s \o ss[n]]]
<1>3. \A n \in 1 .. N, s \in Seq(S) : s \o ss[n] \in Seq(S)
  BY <1>2, ConcatProperties
<1>4. F \in [1 .. N -> [Seq(S) -> Seq(S)]]
  BY <1>3
<1>5. \A n \in 1 .. N : \A s \in Seq(S) : F[n][s] = s \o ss[n]
  OBVIOUS
<1> HIDE DEF F
<1>6. PICK f \in [0 .. N -> Seq(S)] : Iterates(F, <<>>, N, f)
  <2>1. <<>> \in Seq(S)
    OBVIOUS
  <2> QED
    BY <1>2, <1>4, <2>1, IterationExists
<1>7. f[0] = <<>> /\ \A n \in 1 .. N : f[n] = f[n - 1] \o ss[n]
  <2>1. f[0] = <<>> /\ \A n \in 1 .. N : f[n] = F[n][f[n - 1]] /\ f[n - 1] \in Seq(S)
    BY <1>2, <1>6 DEF Iterates
  <2> QED
    BY <1>5, <2>1
<1> DEFINE g == [i \in 1 .. N |-> f[i]]
<1>8. \A i \in 1 .. N : g[i] = IF i = 1 THEN ss[i] ELSE g[i - 1] \o ss[i]
  <2>1. TAKE i \in 1 .. N
  <2>2. CASE i = 1
    <3>1. 1 \in 1 .. N /\ 1 - 1 = 0
      BY <2>1, <2>2
    <3>2. f[1] = <<>> \o ss[1] /\ ss[1] \in Seq(S)
      BY <1>2, <1>7, <3>1
    <3> QED
      BY <2>1, <2>2, <3>2
  <2>3. CASE i # 1
    <3>1. i - 1 \in 1 .. N
      BY <1>2, <2>1, <2>3
    <3> QED
      BY <1>7, <2>1, <2>3, <3>1
  <2> QED
    BY <2>2, <2>3
<1>9. g = [i \in 1 .. N |-> IF i = 1 THEN ss[i] ELSE g[i - 1] \o ss[i]]
  BY <1>8, SMTT(30)
<1>10. flatten = [i \in 1 .. N |-> IF i = 1 THEN ss[i] ELSE flatten[i - 1] \o ss[i]]
  <2> HIDE DEF g
  <2> QED
    BY <1>9, ZenonT(30)
<1>11. \A i \in 1 .. N : flatten[i] = IF i = 1 THEN ss[i] ELSE flatten[i - 1] \o ss[i]
  BY <1>10
<1> HIDE DEF flatten
<1> DEFINE T == {n \in Nat : n + 1 <= N => flatten[n + 1] = f[n + 1]}
<1>12. 0 \in T
  <2>1. SUFFICES ASSUME 1 <= N PROVE flatten[1] = f[1]
    OBVIOUS
  <2>2. 1 \in 1 .. N
    BY <1>2, <2>1
  <2>3. flatten[1] = ss[1] /\ f[1] = g[1] /\ g[1] = ss[1]
    BY <1>8, <1>11, <2>2
  <2> QED
    BY <2>3
<1>13. ASSUME NEW n \in Nat, n \in T PROVE n + 1 \in T
  <2>1. SUFFICES ASSUME n + 1 + 1 <= N PROVE flatten[n + 1 + 1] = f[n + 1 + 1]
    OBVIOUS
  <2>2. n + 1 + 1 \in 1 .. N /\ n + 1 + 1 # 1 /\ (n + 1 + 1) - 1 = n + 1 /\ n + 1 <= N
    BY <1>2, <2>1
  <2>3. flatten[n + 1] = f[n + 1]
    BY <1>13, <2>2
  <2>4. flatten[n + 1 + 1] = flatten[n + 1] \o ss[n + 1 + 1]
    BY <1>11, <2>2
  <2>5. f[n + 1 + 1] = f[n + 1] \o ss[n + 1 + 1]
    BY <1>7, <2>2
  <2> QED
    BY <2>3, <2>4, <2>5
<1>14. N > 0 => flatten[N] = f[N]
  <2>1. SUFFICES ASSUME N > 0 PROVE flatten[N] = f[N]
    OBVIOUS
  <2>2. N - 1 \in Nat /\ (N - 1) + 1 = N
    BY <1>2, <2>1
  <2>3. N - 1 \in T
    <3> HIDE DEF T
    <3> QED
      BY <1>12, <1>13, <2>2, NaturalsByStep
  <2> QED
    BY <1>2, <2>2, <2>3
<1>15. FlattenSeq(ss) = f[N]
  BY <1>0, <1>1, <1>2, <1>7, <1>14
<1> QED
  BY <1>6, <1>7, <1>15 DEF Flattens, N

------------------------------------------------------------------------------
(* OIDs are read back.                                                      *)

\* the steps of reading the octets s as arcs, and where they end
ReadsArcs(s, f) ==
    /\ f[0] = [arcs |-> FirstArcs(s[1]), value |-> 0]
    /\ \A k \in 1 .. Len(s) - 1 : f[k] = ReadArc(f[k - 1], s[k + 1])

LEMMA ReadArcsIs ==
    ASSUME NEW s \in Seq(Nat), s # <<>>, NEW f, ReadsArcs(s, f)
    PROVE  OidNumbers(s) = f[Len(s) - 1].arcs
<1>1. PICK N \in Nat : N = Len(s) - 1
  OBVIOUS
<1> DEFINE start == [arcs |-> FirstArcs(s[1]), value |-> 0]
           read == CHOOSE g : g = [n \in 0 .. N |-> IF n = 0 THEN start
                                                    ELSE ReadArc(g[n - 1], s[n + 1])]
           h == [n \in 0 .. N |-> f[n]]
<1>2. OidNumbers(s) = read[N].arcs
  BY <1>1 DEF OidNumbers
<1> HIDE DEF read
<1>3. f[0] = start /\ \A k \in 1 .. N : f[k] = ReadArc(f[k - 1], s[k + 1])
  BY <1>1 DEF ReadsArcs
<1> HIDE DEF start
<1>4. ASSUME NEW n \in 0 .. N
      PROVE  h[n] = IF n = 0 THEN start ELSE ReadArc(h[n - 1], s[n + 1])
  <2>1. CASE n = 0
    BY <1>3, <2>1
  <2>2. CASE n # 0
    <3>1. n \in 1 .. N /\ n - 1 \in 0 .. N
      BY <2>2
    <3> QED
      BY <1>3, <2>2, <3>1
  <2> QED
    BY <2>1, <2>2
<1>5. h = [n \in 0 .. N |-> IF n = 0 THEN start ELSE ReadArc(h[n - 1], s[n + 1])]
  BY <1>4
<1>6. \A n \in 0 .. N : h[n] = f[n]
  OBVIOUS
<1> HIDE DEF h
<1>7. read = [n \in 0 .. N |-> IF n = 0 THEN start ELSE ReadArc(read[n - 1], s[n + 1])]
  BY <1>5 DEF read
<1>8. \A n \in 0 .. N : read[n] = IF n = 0 THEN start ELSE ReadArc(read[n - 1], s[n + 1])
  BY <1>7
<1> DEFINE T == {n \in Nat : n <= N => read[n] = f[n]}
<1>9. 0 \in T
  BY <1>3, <1>8
<1>10. ASSUME NEW n \in Nat, n \in T PROVE n + 1 \in T
  <2>1. SUFFICES ASSUME n + 1 <= N PROVE read[n + 1] = f[n + 1]
    OBVIOUS
  <2>2. n + 1 \in 0 .. N /\ n + 1 # 0 /\ (n + 1) - 1 = n /\ n + 1 \in 1 .. N /\ n <= N
    BY <2>1
  <2>3. read[n] = f[n]
    BY <1>10, <2>2
  <2> QED
    BY <1>3, <1>8, <2>2, <2>3
<1>11. read[N] = f[N]
  <2>1. N \in T
    <3> HIDE DEF T
    <3> QED
      BY <1>9, <1>10, NaturalsByStep
  <2> QED
    BY <2>1
<1> QED
  BY <1>1, <1>2, <1>11

\* what is left of a number as its digits are dropped, as a function
LEMMA QuotientsAre ==
    ASSUME NEW n \in Int, NEW base \in Nat, base > 0, NEW w \in Nat
    PROVE  \E Q \in [0 .. w -> Int] :
             /\ Q[0] = n /\ Q[w] = Quotient(n, base, w)
             /\ \A k \in 1 .. w : Q[k] = Q[k - 1] \div base
             /\ \A i \in 1 .. w : Digits(n, base, w)[i] = Q[w - i] % base
<1> DEFINE q(k) == Quotient(n, base, k)
           Q == [k \in 0 .. w |-> q(k)]
<1>1. q(0) = n /\ \A k \in Nat : q(k) \in Int /\ q(k + 1) = q(k) \div base
  BY QuotientSteps
<1>2. \A i \in 1 .. w : Digits(n, base, w)[i] = q(w - i) % base
  BY DigitsType
<1> HIDE DEF q
<1>3. Q \in [0 .. w -> Int]
  BY <1>1
<1>4. \A k \in 1 .. w : Q[k] = Q[k - 1] \div base
  <2>1. TAKE k \in 1 .. w
  <2>2. k - 1 \in Nat /\ (k - 1) + 1 = k /\ k \in 0 .. w /\ k - 1 \in 0 .. w
    OBVIOUS
  <2>3. q(k) = q(k - 1) \div base
    BY <1>1, <2>2
  <2> QED
    BY <2>2, <2>3
<1>5. \A i \in 1 .. w : Digits(n, base, w)[i] = Q[w - i] % base
  <2>1. \A i \in 1 .. w : w - i \in 0 .. w
    OBVIOUS
  <2> QED
    BY <1>2, <2>1
<1>6. Q[0] = n /\ Q[w] = Quotient(n, base, w)
  BY <1>1 DEF q
<1> QED
  BY <1>3, <1>4, <1>5, <1>6

\* one arc is read to its end
LEMMA ArcRead ==
    ASSUME NEW n \in Nat, NEW a \in Seq(Nat), NEW g,
           g[0] = [arcs |-> a, value |-> 0],
           \A k \in 1 .. Len(Base128(n)) : g[k] = ReadArc(g[k - 1], Base128(n)[k])
    PROVE  g[Len(Base128(n))] = [arcs |-> Append(a, n), value |-> 0]
<1>0. PICK base \in Nat : base = 128
  OBVIOUS
<1>a. base \in Nat /\ base > 0 /\ base >= 2
  BY <1>0
<1>1. PICK w \in Nat : w = Width(n, base) /\ w > 0 /\ Quotient(n, base, w) = 0
  <2>1. Width(n, base) \in Nat \ {0} /\ Quotient(n, base, Width(n, base)) = 0
    BY ONLY <1>a, n \in Nat, WidthIs
  <2> QED
    BY <2>1
<1>2. PICK Q \in [0 .. w -> Int] :
        /\ Q[0] = n /\ Q[w] = Quotient(n, base, w)
        /\ \A k \in 1 .. w : Q[k] = Q[k - 1] \div base
        /\ \A i \in 1 .. w : Digits(n, base, w)[i] = Q[w - i] % base
  <2>1. n \in Int
    OBVIOUS
  <2>2. \E Q \in [0 .. w -> Int] :
           /\ Q[0] = n /\ Q[w] = Quotient(n, base, w)
           /\ \A k \in 1 .. w : Q[k] = Q[k - 1] \div base
           /\ \A i \in 1 .. w : Digits(n, base, w)[i] = Q[w - i] % base
    BY ONLY <1>a, w \in Nat, <2>1, QuotientsAre
  <2> QED
    BY ONLY <2>2
<1>3. PICK s \in Seq(Int) : /\ s = Base128(n) /\ Len(s) = w
                           /\ \A i \in 1 .. w :
                                s[i] = (Q[w - i] % base) + (IF i < w THEN 128 ELSE 0)
  <2> DEFINE s == [i \in 1 .. w |-> Digits(n, base, w)[i] + (IF i < w THEN 128 ELSE 0)]
  <2>1. Base128(n) = s
    BY <1>0, <1>1 DEF Base128, SevenBits
  <2>2. \A i \in 1 .. w : s[i] = (Q[w - i] % base) + (IF i < w THEN 128 ELSE 0)
    BY <1>2
  <2>3. \A i \in 1 .. w : s[i] \in Int
    <3>1. TAKE i \in 1 .. w
    <3>2. Q[w - i] \in Int
      BY <1>2
    <3>3. Q[w - i] % base \in Int
      BY <1>0, <3>2
    <3> QED
      BY <2>2, <3>3
  <2>4. s \in Seq(Int) /\ Len(s) = w
    BY <2>3
  <2> QED
    BY <2>1, <2>2, <2>4
<1>7. \A k \in 1 .. w : g[k] = ReadArc(g[k - 1], s[k])
  BY <1>3
<1>8. \A x \in Int : 128 * (x \div 128) + (x % 128) = x /\ x % 128 \in 0 .. 127
  OBVIOUS
<1>9. \A i \in 1 .. w : \E x \in Int, y \in Int, z \in 0 .. 127 :
        /\ x = Q[w - i] /\ y = Q[w - (i - 1)] /\ x = 128 * y + z
        /\ s[i] = z + (IF i < w THEN 128 ELSE 0)
  <2>1. TAKE i \in 1 .. w
  <2>2. /\ w - (i - 1) \in 1 .. w /\ (w - (i - 1)) - 1 = w - i
        /\ w - i \in 0 .. w /\ w - (i - 1) \in 0 .. w
    OBVIOUS
  <2>3. PICK x \in Int, y \in Int : x = Q[w - i] /\ y = Q[w - (i - 1)]
    BY <2>2
  <2>4. Q[w - (i - 1)] = Q[(w - (i - 1)) - 1] \div base
    BY ONLY <1>2, <2>2
  <2>5. y = x \div 128
    BY ONLY <1>0, <2>2, <2>3, <2>4
  <2>6. s[i] = (Q[w - i] % base) + (IF i < w THEN 128 ELSE 0)
    BY ONLY <1>3, i \in 1 .. w
  <2>7. s[i] = (x % 128) + (IF i < w THEN 128 ELSE 0)
    BY ONLY <1>0, <2>3, <2>6
  <2>8. x = 128 * y + (x % 128) /\ x % 128 \in 0 .. 127
    BY ONLY <1>8, <2>3, <2>5, ZenonT(30)
  <2>9. PICK z \in 0 .. 127 : z = x % 128
    BY ONLY <2>8
  <2>10. x = 128 * y + z /\ s[i] = z + (IF i < w THEN 128 ELSE 0)
    BY ONLY <2>7, <2>8, <2>9
  <2>11. x = Q[w - i] /\ y = Q[w - (i - 1)]
    BY ONLY <2>3
  <2> QED
    BY ONLY <2>10, <2>11, x \in Int, y \in Int, z \in 0 .. 127, ZenonT(30)
<1> DEFINE T == {i \in Nat : i < w => g[i] = [arcs |-> a, value |-> Q[w - i]]}
<1>10. 0 \in T
  BY <1>1, <1>2
<1>11. ASSUME NEW i \in Nat, i \in T PROVE i + 1 \in T
  <2>1. SUFFICES ASSUME i + 1 < w PROVE g[i + 1] = [arcs |-> a, value |-> Q[w - (i + 1)]]
    OBVIOUS
  <2>2. i + 1 \in 1 .. w /\ (i + 1) - 1 = i /\ i < w
    BY <2>1
  <2>3. g[i] = [arcs |-> a, value |-> Q[w - i]]
    BY <1>11, <2>2
  <2>4. PICK y \in Int, x \in Int, z \in 0 .. 127 :
           /\ y = Q[w - (i + 1)] /\ x = Q[w - ((i + 1) - 1)] /\ y = 128 * x + z
           /\ s[i + 1] = z + (IF i + 1 < w THEN 128 ELSE 0)
    BY <1>9, <2>2
  <2>5. s[i + 1] = z + 128 /\ x = Q[w - i]
    BY <2>1, <2>2, <2>4
  <2>6. g[i + 1] = ReadArc(g[i], s[i + 1])
    BY <1>7, <2>2
  <2>7. ~(z + 128 < 128) /\ 128 * x + (z + 128) - 128 = y
    BY <2>4
  <2>8. g[i].arcs = a /\ g[i].value = x
    BY <2>3, <2>5
  <2>9. g[i + 1] = [arcs |-> a, value |-> 128 * x + (z + 128) - 128]
    BY <2>5, <2>6, <2>7, <2>8 DEF ReadArc
  <2> QED
    BY <2>4, <2>7, <2>9
<1>12. g[w - 1] = [arcs |-> a, value |-> Q[w - (w - 1)]]
  <2>1. w - 1 \in Nat
    BY <1>1
  <2>2. w - 1 \in T
    <3> HIDE DEF T
    <3> QED
      BY <1>10, <1>11, <2>1, NaturalsByStep
  <2> QED
    BY <1>1, <2>1, <2>2
<1>13. PICK x \in Int, z \in 0 .. 127 :
          x = Q[w - (w - 1)] /\ n = 128 * x + z /\ s[w] = z
  <2>1. w \in 1 .. w /\ w - w = 0 /\ ~(w < w)
    BY <1>1
  <2>2. PICK m \in Int, x \in Int, z \in 0 .. 127 :
           /\ m = Q[w - w] /\ x = Q[w - (w - 1)] /\ m = 128 * x + z
           /\ s[w] = z + (IF w < w THEN 128 ELSE 0)
    BY <1>9, <2>1
  <2>3. m = n
    <3>1. Q[0] = n /\ w - w = 0 /\ m = Q[w - w]
      BY ONLY <1>2, <2>1, <2>2
    <3> QED
      BY ONLY <3>1
  <2>4. s[w] = z
    <3>1. s[w] = z + (IF w < w THEN 128 ELSE 0) /\ z \in 0 .. 127
      BY <2>2
    <3> QED
      BY ONLY <2>1, <3>1
  <2>5. x = Q[w - (w - 1)] /\ n = 128 * x + z
    BY ONLY <2>2, <2>3
  <2> QED
    BY ONLY <2>4, <2>5, x \in Int, z \in 0 .. 127
<1>15. g[w] = ReadArc(g[w - 1], z)
  <2>1. w \in 1 .. w
    BY <1>1
  <2> QED
    BY <1>7, <1>13, <2>1
<1>16. g[w - 1].arcs = a /\ g[w - 1].value = x
  BY <1>12, <1>13
<1>17. g[w] = [arcs |-> Append(a, 128 * x + z), value |-> 0]
  <2>1. z < 128
    OBVIOUS
  <2> QED
    BY <1>15, <1>16, <2>1 DEF ReadArc
<1> QED
  BY <1>2, <1>3, <1>13, <1>17

LEMMA ReadExists ==
    ASSUME NEW s \in Seq(Nat), s # <<>>
    PROVE  \E f : /\ ReadsArcs(s, f)
                  /\ f[Len(s) - 1].arcs \in Seq(Nat) /\ Len(f[Len(s) - 1].arcs) >= 2
<1>1. PICK N \in Nat : N = Len(s) - 1
  OBVIOUS
<1> DEFINE S == {r \in [arcs : Seq(Nat), value : Nat] : Len(r.arcs) >= 2}
           start == [arcs |-> FirstArcs(s[1]), value |-> 0]
           F == [k \in 1 .. N |-> [r \in S |-> ReadArc(r, s[k + 1])]]
<1>2. start \in S
  <2>1. s[1] \in Nat
    OBVIOUS
  <2>2. PICK a \in Seq(Nat) : a = FirstArcs(s[1]) /\ Len(a) = 2
    BY <2>1, FirstArcsType
  <2>3. start = [arcs |-> a, value |-> 0]
    BY <2>2
  <2>4. PICK r : r = [arcs |-> a, value |-> 0]
    OBVIOUS
  <2>5. r \in [arcs : Seq(Nat), value : Nat] /\ r.arcs = a
    BY <2>4
  <2>6. r \in S
    <3> HIDE DEF F, start
    <3>1. Len(r.arcs) = 2
      BY <2>2, <2>5
    <3>2. Len(r.arcs) >= 2
      BY <3>1
    <3> QED
      BY <2>5, <3>2
  <2>7. start = r
    BY <2>3, <2>4
  <2> HIDE DEF S, start
  <2> QED
    BY <2>6, <2>7
<1> HIDE DEF start
<1>3. ASSUME NEW r \in S, NEW x \in Nat PROVE ReadArc(r, x) \in S
  <2>1. r.arcs \in Seq(Nat) /\ Len(r.arcs) >= 2 /\ r.value \in Nat
    OBVIOUS
  <2>2. CASE x < 128
    <3>1. PICK y \in Nat : y = 128 * r.value + x
      BY <2>1
    <3>2. Append(r.arcs, y) \in Seq(Nat) /\ Len(Append(r.arcs, y)) = Len(r.arcs) + 1
      BY <2>1, AppendProperties
    <3>3. Len(r.arcs) + 1 >= 2
      BY <2>1
    <3>4. ReadArc(r, x) = [arcs |-> Append(r.arcs, y), value |-> 0]
      BY <2>2, <3>1 DEF ReadArc
    <3> QED
      BY <3>2, <3>3, <3>4
  <2>3. CASE ~(x < 128)
    <3>1. 128 * r.value + x - 128 \in Nat
      BY <2>1, <2>3
    <3> QED
      BY <2>1, <2>3, <3>1 DEF ReadArc
  <2> QED
    BY <2>2, <2>3
<1>4. \A k \in 1 .. N : s[k + 1] \in Nat
  BY <1>1
<1>5. \A k \in 1 .. N : \A r \in S : F[k][r] = ReadArc(r, s[k + 1])
  OBVIOUS
<1>b. ASSUME NEW r \in S PROVE r.arcs \in Seq(Nat) /\ Len(r.arcs) >= 2
  OBVIOUS
<1> HIDE DEF S
<1>6. F \in [1 .. N -> [S -> S]]
  BY <1>3, <1>4
<1> HIDE DEF F
<1>7. PICK f \in [0 .. N -> S] : Iterates(F, start, N, f)
  BY <1>2, <1>6, IterationExists
<1>8. ASSUME NEW n \in 1 .. N PROVE f[n] = ReadArc(f[n - 1], s[n + 1])
  <2>1. n - 1 \in 0 .. N
    OBVIOUS
  <2>2. f[n] = F[n][f[n - 1]] /\ f[n - 1] \in S
    BY <1>7, <2>1 DEF Iterates
  <2> QED
    BY <1>5, <2>2
<1>9. f[0] = start
  BY <1>7 DEF Iterates
<1>10. ReadsArcs(s, f)
  BY <1>1, <1>8, <1>9 DEF ReadsArcs, start
<1>11. f[N] \in S
  BY <1>7
<1>12. f[N].arcs \in Seq(Nat) /\ Len(f[N].arcs) >= 2
  BY <1>b, <1>11
<1> QED
  BY <1>1, <1>10, <1>12

LEMMA Base128Last ==
    ASSUME NEW n \in Nat
    PROVE  Len(Base128(n)) > 0 /\ Base128(n)[Len(Base128(n))] < 128
<1>1. PICK w \in Nat : w = Width(n, 128) /\ w > 0
  <2>1. 128 \in Nat /\ 128 >= 2
    OBVIOUS
  <2> QED
    BY <2>1, WidthIs
<1> DEFINE s == [i \in 1 .. w |-> Digits(n, 128, w)[i] + (IF i < w THEN 128 ELSE 0)]
<1>2. Base128(n) = s
  BY <1>1 DEF Base128, SevenBits
<1>3. Len(s) = w /\ s[w] = Digits(n, 128, w)[w] + 0
  BY <1>1
<1>4. Digits(n, 128, w)[w] = n % 128
  <2>1. 128 \in Nat /\ 128 > 0 /\ n \in Int /\ w \in 1 .. w /\ w - w = 0
    BY <1>1
  <2>2. Digits(n, 128, w)[w] = Quotient(n, 128, w - w) % 128
    BY <2>1, DigitsType
  <2>3. Quotient(n, 128, 0) = n
    BY <2>1, QuotientSteps
  <2> QED
    BY <2>1, <2>2, <2>3
<1>5. n % 128 \in 0 .. 127
  OBVIOUS
<1> HIDE DEF s
<1> QED
  BY <1>1, <1>2, <1>3, <1>4, <1>5

\* the octets s are the arcs a, and nothing is left over
ReadsTo(s, a) ==
    /\ s \in Seq(Nat) /\ Len(s) > 0 /\ (Len(s) > 1 => s[Len(s)] < 128)
    /\ \A f : ReadsArcs(s, f) => f[Len(s) - 1] = [arcs |-> a, value |-> 0]

LEMMA ReadsOneMore ==
    ASSUME NEW s, NEW a \in Seq(Nat), ReadsTo(s, a), NEW n \in Nat
    PROVE  ReadsTo(s \o Base128(n), Append(a, n))
<1>1. s \in Seq(Nat) /\ Len(s) > 0
  BY DEF ReadsTo
<1>2. PICK t \in Seq(Nat) : t = Base128(n) /\ Len(t) > 0 /\ t[Len(t)] < 128
  BY Base128Type, Base128Last
<1> DEFINE b == s \o t
<1>3. /\ b \in Seq(Nat) /\ Len(b) = Len(s) + Len(t)
      /\ \A i \in 1 .. Len(s) : b[i] = s[i]
      /\ \A i \in 1 .. Len(t) : b[Len(s) + i] = t[i]
  <2>1. /\ b \in Seq(Nat) /\ Len(b) = Len(s) + Len(t)
        /\ \A i \in 1 .. Len(s) + Len(t) : b[i] = IF i <= Len(s) THEN s[i] ELSE t[i - Len(s)]
    BY <1>1, ConcatProperties
  <2> HIDE DEF b
  <2>2. PICK ls \in Nat, lt \in Nat : ls = Len(s) /\ lt = Len(t)
    BY <1>1
  <2>3. ASSUME NEW i \in 1 .. lt PROVE b[ls + i] = t[i]
    <3>1. ls + i \in 1 .. ls + lt /\ ~(ls + i <= ls) /\ (ls + i) - ls = i
      OBVIOUS
    <3> QED
      BY <2>1, <2>2, <3>1
  <2> QED
    BY <2>1, <2>2, <2>3
<1> HIDE DEF b
<1>4. PICK ls \in Nat \ {0}, lt \in Nat \ {0} : ls = Len(s) /\ lt = Len(t)
  BY <1>1, <1>2
<1>5. b[Len(b)] < 128
  <2>1. lt \in 1 .. Len(t)
    BY <1>4
  <2> QED
    BY <1>2, <1>3, <1>4, <2>1
<1>6. ASSUME NEW f, ReadsArcs(b, f)
      PROVE  f[Len(b) - 1] = [arcs |-> Append(a, n), value |-> 0]
  <2>1. /\ f[0] = [arcs |-> FirstArcs(b[1]), value |-> 0]
        /\ \A k \in 1 .. Len(b) - 1 : f[k] = ReadArc(f[k - 1], b[k + 1])
    BY <1>6 DEF ReadsArcs
  <2>2. ReadsArcs(s, f)
    <3>1. b[1] = s[1]
      BY <1>3, <1>4
    <3>2. ASSUME NEW k \in 1 .. ls - 1 PROVE f[k] = ReadArc(f[k - 1], s[k + 1])
      <4>1. k \in 1 .. Len(b) - 1 /\ k + 1 \in 1 .. Len(s)
        BY <1>3, <1>4
      <4> QED
        BY <1>3, <2>1, <4>1
    <3> QED
      BY <1>4, <2>1, <3>1, <3>2 DEF ReadsArcs
  <2>3. f[ls - 1] = [arcs |-> a, value |-> 0]
    BY <1>4, <2>2 DEF ReadsTo
  <2> DEFINE g == [k \in 0 .. lt |-> f[ls - 1 + k]]
  <2>4. g[0] = [arcs |-> a, value |-> 0]
    <3>1. ls - 1 + 0 = ls - 1 /\ 0 \in 0 .. lt
      OBVIOUS
    <3> QED
      BY <2>3, <3>1
  <2>5. ASSUME NEW k \in 1 .. lt PROVE g[k] = ReadArc(g[k - 1], t[k])
    <3>1. /\ k \in 0 .. lt /\ k - 1 \in 0 .. lt /\ ls - 1 + (k - 1) = (ls - 1 + k) - 1
          /\ ls - 1 + k \in 1 .. ls + lt - 1 /\ (ls - 1 + k) + 1 = ls + k
      OBVIOUS
    <3>b. Len(b) - 1 = ls + lt - 1
      BY <1>3, <1>4
    <3>a. PICK i \in 1 .. Len(b) - 1 : i = ls - 1 + k
      BY <3>1, <3>b
    <3>2. f[ls - 1 + k] = ReadArc(f[(ls - 1 + k) - 1], b[(ls - 1 + k) + 1])
      BY <2>1, <3>a
    <3>3. b[(ls - 1 + k) + 1] = t[k]
      BY <1>3, <1>4, <3>1
    <3>4. g[k] = f[ls - 1 + k] /\ g[k - 1] = f[(ls - 1 + k) - 1]
      BY <3>1
    <3> QED
      BY <3>2, <3>3, <3>4
  <2>6. g[lt] = f[Len(b) - 1]
    BY <1>3, <1>4
  <2> HIDE DEF g
  <2>7. g[lt] = [arcs |-> Append(a, n), value |-> 0]
    BY <1>2, <1>4, <2>4, <2>5, ArcRead
  <2> QED
    BY <2>6, <2>7
<1>7. ReadsTo(b, Append(a, n))
  <2>1. Len(b) > 0
    BY <1>3, <1>4
  <2> QED
    BY <1>3, <1>5, <1>6, <2>1 DEF ReadsTo
<1> QED
  BY <1>2, <1>7 DEF b

LEMMA TwoElements ==
    ASSUME NEW S, NEW p \in Seq(S), Len(p) = 2
    PROVE  p = <<p[1], p[2]>>
<1>1. PICK a \in S, b \in S : a = p[1] /\ b = p[2]
  BY SMTT(30)
<1>2. PICK t \in Seq(S) : t = <<a, b>> /\ Len(t) = 2 /\ t[1] = a /\ t[2] = b
  <2>1. <<a, b>> \in Seq(S)
    OBVIOUS
  <2> QED
    BY <2>1
<1>3. \A i \in 1 .. 2 : p[i] = t[i]
  <2>1. \A i \in 1 .. 2 : i = 1 \/ i = 2
    OBVIOUS
  <2> QED
    BY <1>1, <1>2, <2>1
<1>4. p = t
  BY <1>2, <1>3, SeqEqual
<1> QED
  BY <1>1, <1>2, <1>4

\* the numbers of an application's OID that can be encoded are read back
LEMMA OidBack ==
    ASSUME NEW o \in Seq(Nat), EncodableOid(o)
    PROVE  /\ OidContent(o) \in Seq(Nat)
           /\ DecodableOid(OidContent(o)) /\ OidNumbers(OidContent(o)) = o
<1>1. PICK n \in Nat : n = Len(o) - 2 /\ Len(o) >= 2 /\ Len(o) = n + 2
  <2>1. Len(o) >= 2
    BY DEF EncodableOid
  <2>2. PICK k \in Nat : k = Len(o)
    OBVIOUS
  <2>3. k - 2 \in Nat /\ k = (k - 2) + 2
    BY <2>1, <2>2
  <2> QED
    BY <2>1, <2>2, <2>3
<1>2. PICK x \in Nat : x = 40 * o[1] + o[2] /\ FirstArcs(x) = <<o[1], o[2]>>
  <2>1. PICK i \in Nat, j \in Nat : i = o[1] /\ j = o[2]
    BY <1>1
  <2>2. i \in 0 .. 2 /\ (i < 2 => j < 40)
    BY <2>1 DEF EncodableOid
  <2>3. i = 0 \/ i = 1 \/ i = 2
    BY <2>2
  <2>4. CASE i = 0
    <3>1. 40 * i + j = j /\ j < 40
      BY <2>2, <2>4
    <3> QED
      BY <2>1, <2>4, <3>1 DEF FirstArcs
  <2>5. CASE i = 1
    <3>1. PICK y \in Nat : y = 40 * i + j /\ ~(y < 40) /\ y < 80 /\ y - 40 = j
      BY <2>2, <2>5
    <3> QED
      BY <2>1, <2>5, <3>1 DEF FirstArcs
  <2>6. CASE i = 2
    <3>1. PICK y \in Nat : y = 40 * i + j /\ ~(y < 40) /\ ~(y < 80) /\ y - 80 = j
      BY <2>6
    <3> QED
      BY <2>1, <2>6, <3>1 DEF FirstArcs
  <2> QED
    BY <2>3, <2>4, <2>5, <2>6
<1> DEFINE ss == [i \in 1 .. n |-> Base128(o[i + 2])]
<1>3. OidContent(o) = <<x>> \o FlattenSeq(ss)
  BY <1>1, <1>2 DEF OidContent
<1>4. ss \in Seq(Seq(Nat)) /\ Len(ss) = n
  <2>1. \A i \in 1 .. n : o[i + 2] \in Nat
    BY <1>1
  <2>2. ss \in [1 .. n -> Seq(Nat)]
    BY <2>1, Base128Type
  <2> QED
    BY <2>2
<1>5. \A i \in 1 .. n : ss[i] = Base128(o[i + 2])
  OBVIOUS
<1> HIDE DEF ss
<1>6. PICK f \in [0 .. n -> Seq(Nat)] : Flattens(f, ss)
  BY <1>4, FlattenSteps
<1>7. /\ f[0] = <<>> /\ FlattenSeq(ss) = f[n]
      /\ \A i \in 1 .. n : f[i] = f[i - 1] \o Base128(o[i + 2])
  BY <1>4, <1>5, <1>6 DEF Flattens
<1>8. PICK first \in Seq(Nat) : first = <<x>> /\ Len(first) = 1 /\ first[1] = x
  BY OneElement
<1> DEFINE T == {j \in Nat : j <= n => ReadsTo(first \o f[j], SubSeq(o, 1, j + 2))}
<1>9. 0 \in T
  <2>1. PICK p \in Seq(Nat) : p = SubSeq(o, 1, 2) /\ p = <<o[1], o[2]>>
    <3>0. /\ SubSeq(o, 1, 2) \in Seq(Nat) /\ Len(SubSeq(o, 1, 2)) = 2
          /\ \A i \in 1 .. 2 : SubSeq(o, 1, 2)[i] = o[1 + i - 1]
      BY <1>1, SubSeqProperties
    <3>1. PICK p \in Seq(Nat) : p = SubSeq(o, 1, 2) /\ Len(p) = 2 /\ p[1] = o[1] /\ p[2] = o[2]
      <4>1. SubSeq(o, 1, 2)[1] = o[1] /\ SubSeq(o, 1, 2)[2] = o[2]
        <5>1. 1 \in 1 .. 2 /\ 2 \in 1 .. 2 /\ 1 + 1 - 1 = 1 /\ 1 + 2 - 1 = 2
          OBVIOUS
        <5> QED
          BY ONLY <3>0, <5>1
      <4>2. PICK q : q = SubSeq(o, 1, 2)
        OBVIOUS
      <4>3. q \in Seq(Nat) /\ Len(q) = 2 /\ q[1] = o[1] /\ q[2] = o[2]
        BY ONLY <3>0, <4>1, <4>2
      <4> QED
        BY ONLY <4>2, <4>3
    <3> QED
      BY <3>1, TwoElements
  <2>2. first \o f[0] = first
    BY <1>7, <1>8
  <2>3. ReadsTo(first, p)
    <3>1. ASSUME NEW g, ReadsArcs(first, g)
          PROVE  g[Len(first) - 1] = [arcs |-> p, value |-> 0]
      <4>1. g[0] = [arcs |-> FirstArcs(first[1]), value |-> 0]
        BY <3>1 DEF ReadsArcs
      <4>2. Len(first) - 1 = 0
        BY <1>8
      <4> QED
        BY <1>2, <1>8, <2>1, <4>1, <4>2
    <3>2. Len(first) > 0 /\ ~(Len(first) > 1)
      BY <1>8
    <3> QED
      BY <3>1, <3>2 DEF ReadsTo
  <2>4. ReadsTo(first \o f[0], SubSeq(o, 1, 0 + 2))
    BY <2>1, <2>2, <2>3
  <2> QED
    BY <2>4
<1>10. ASSUME NEW j \in Nat, j \in T PROVE j + 1 \in T
  <2>1. SUFFICES ASSUME j + 1 <= n PROVE ReadsTo(first \o f[j + 1], SubSeq(o, 1, j + 1 + 2))
    OBVIOUS
  <2>2. j + 1 \in 1 .. n /\ (j + 1) - 1 = j /\ j <= n /\ j + 1 + 2 \in 1 .. Len(o)
        /\ j \in 0 .. n
    BY <1>1, <2>1
  <2>3. ReadsTo(first \o f[j], SubSeq(o, 1, j + 2))
    BY <1>10, <2>2
  <2>4. PICK y \in Nat : y = o[j + 1 + 2]
    BY <2>2
  <2>5. SubSeq(o, 1, j + 2) \in Seq(Nat)
    <3>1. 1 \in Int /\ j + 2 \in Int
      BY <2>2
    <3>2. PICK N \in Nat : N = Len(o)
      OBVIOUS
    <3>3. \A i \in 1 .. N : o[i] \in Nat
      BY <1>1, <3>2
    <3>4. \A i \in 1 .. j + 2 : o[i] \in Nat
      BY ONLY <1>10, <2>2, <3>2, <3>3
    <3> QED
      BY ONLY <3>1, <3>4, SubSeqProperties, Zenon
  <2>6. Append(SubSeq(o, 1, j + 2), y) = SubSeq(o, 1, j + 1 + 2)
    BY <1>1, <2>2, <2>4, <2>5, SMTT(30)
  <2>7. first \o f[j + 1] = (first \o f[j]) \o Base128(y)
    <3>1. PICK u \in Seq(Nat), v \in Seq(Nat) : u = f[j] /\ v = Base128(y) /\ f[j + 1] = u \o v
      BY <1>6, <1>7, <2>2, <2>4, Base128Type
    <3>2. (first \o u) \o v = first \o (u \o v)
      BY Associate
    <3> QED
      BY <3>1, <3>2
  <2>8. ReadsTo((first \o f[j]) \o Base128(y), Append(SubSeq(o, 1, j + 2), y))
    BY <2>3, <2>5, ReadsOneMore
  <2> QED
    BY <2>6, <2>7, <2>8
<1>11. ReadsTo(first \o f[n], SubSeq(o, 1, n + 2))
  <2>1. n \in T
    <3> HIDE DEF T
    <3> QED
      BY <1>9, <1>10, NaturalsByStep
  <2> QED
    BY <2>1
<1>12. SubSeq(o, 1, n + 2) = o
  BY <1>1
<1> DEFINE c == first \o f[n]
<1>13. OidContent(o) = c
  BY <1>3, <1>7, <1>8
<1> HIDE DEF c, T
<1>14. ReadsTo(c, o)
  BY <1>11, <1>12 DEF c
<1>15. c \in Seq(Nat) /\ Len(c) > 0 /\ (Len(c) > 1 => c[Len(c)] < 128)
  BY <1>14 DEF ReadsTo
<1>16. c # <<>>
  BY <1>15
<1>17. PICK g : ReadsArcs(c, g)
  BY <1>15, <1>16, ReadExists
<1>18. g[Len(c) - 1] = [arcs |-> o, value |-> 0]
  BY <1>14, <1>17 DEF ReadsTo
<1>19. OidNumbers(c) = o
  BY <1>15, <1>16, <1>17, <1>18, ReadArcsIs
<1>20. DecodableOid(c)
  BY <1>15, <1>16 DEF DecodableOid, Last
<1> QED
  BY <1>13, <1>15, <1>19, <1>20

------------------------------------------------------------------------------
(* Values are read back.                                                    *)

LEMMA LeadingZero ==
    ASSUME NEW d \in Seq(Nat), NEW z \in Seq(Nat), Len(z) = 1, z[1] = 0, NEW base \in Nat
    PROVE  Number(z \o d, base) = Number(d, base)
<1>1. PICK N \in Nat : N = Len(d)
  OBVIOUS
<1>2. d \in Seq(Int) /\ z \in Seq(Int) /\ base \in Int
  BY OctetsAreNumbers
<1>3. PICK v : Accumulates(v, d, base) /\ Number(d, base) = v[N]
  BY <1>1, <1>2, NumberIs
<1>4. v \in [0 .. N -> Int] /\ v[0] = 0 /\ \A i \in 1 .. N : v[i] = base * v[i - 1] + d[i]
  BY <1>1, <1>3 DEF Accumulates
<1>5. \E b \in Seq(Int) : /\ b = z \o d /\ Len(b) = N + 1 /\ b[1] = 0
                          /\ \A i \in 1 .. N : b[i + 1] = d[i]
  <2>1. /\ z \o d \in Seq(Int) /\ Len(z \o d) = Len(z) + Len(d)
        /\ \A i \in 1 .. Len(z) + Len(d) :
              (z \o d)[i] = IF i <= Len(z) THEN z[i] ELSE d[i - Len(z)]
    BY <1>2, ConcatProperties
  <2>2. PICK b \in Seq(Int) : b = z \o d
    BY <2>1
  <2>3. Len(b) = 1 + N /\ \A i \in 1 .. 1 + N : b[i] = IF i <= 1 THEN z[i] ELSE d[i - 1]
    <3>1. Len(z) = 1 /\ Len(d) = N
      BY <1>1
    <3> QED
      BY ONLY <2>1, <2>2, <3>1
  <2>4. b[1] = 0
    BY <2>3
  <2>5. ASSUME NEW i \in 1 .. N PROVE b[i + 1] = d[i]
    <3>1. i + 1 \in 1 .. 1 + N /\ ~(i + 1 <= 1) /\ (i + 1) - 1 = i
      OBVIOUS
    <3> QED
      BY <2>3, <3>1
  <2>6. Len(b) = N + 1
    BY <2>3
  <2>7. \A i \in 1 .. N : b[i + 1] = d[i]
    BY ONLY <2>5
  <2> QED
    BY ONLY <2>2, <2>4, <2>6, <2>7
<1>b. PICK b \in Seq(Int) : /\ b = z \o d /\ Len(b) = N + 1 /\ b[1] = 0
                            /\ \A i \in 1 .. N : b[i + 1] = d[i]
  BY <1>5
<1> DEFINE w == [i \in 0 .. N + 1 |-> IF i = 0 THEN 0 ELSE v[i - 1]]
<1>6. w \in [0 .. N + 1 -> Int]
  <2>1. \A i \in 0 .. N + 1 : i # 0 => i - 1 \in 0 .. N
    OBVIOUS
  <2> QED
    BY <1>4, <2>1
<1>7. ASSUME NEW i \in 1 .. N + 1 PROVE w[i] = base * w[i - 1] + b[i]
  <2>1. CASE i = 1
    <3>1. w[1] = 0 /\ w[0] = 0
      <4>1. 1 # 0 /\ 1 - 1 = 0 /\ 1 \in 0 .. N + 1 /\ 0 \in 0 .. N + 1
        OBVIOUS
      <4> QED
        BY <1>4, <4>1
    <3> HIDE DEF w
    <3>2. w[1 - 1] = 0 /\ b[1] = 0 /\ base * 0 + 0 = 0
      BY <1>b, <3>1
    <3> QED
      BY <2>1, <3>1, <3>2
  <2>2. CASE i # 1
    <3>1. PICK j \in 1 .. N : i = j + 1
      <4>1. i - 1 \in 1 .. N /\ i = (i - 1) + 1
        BY <2>2
      <4> QED
        BY <4>1
    <3>2. j \in 0 .. N + 1 /\ j + 1 \in 0 .. N + 1 /\ j # 0 /\ j + 1 # 0 /\ (j + 1) - 1 = j
      OBVIOUS
    <3>3. w[j + 1] = v[j] /\ w[j] = v[j - 1]
      BY <3>2
    <3>4. v[j] = base * v[j - 1] + d[j] /\ b[j + 1] = d[j]
      BY <1>4, <1>b
    <3> HIDE DEF w
    <3>5. w[j + 1] = base * w[j] + b[j + 1]
      BY <3>3, <3>4
    <3> QED
      BY <3>1, <3>2, <3>5
  <2> QED
    BY <2>1, <2>2
<1>8. w[0] = 0 /\ w[N + 1] = v[N]
  <2>1. N + 1 # 0 /\ (N + 1) - 1 = N /\ N + 1 \in 0 .. N + 1
    OBVIOUS
  <2> QED
    BY <2>1
<1> HIDE DEF w
<1>9. Accumulates(w, b, base)
  BY <1>b, <1>6, <1>7, <1>8 DEF Accumulates
<1>10. Number(b, base) = w[N + 1]
  <2>1. b \in Seq(Int) /\ Len(b) = N + 1
    BY <1>b
  <2>2. Number(b, base) = w[Len(b)]
    BY <1>2, <1>9, <2>1, NumberIs
  <2> QED
    BY <2>1, <2>2
<1> QED
  BY <1>3, <1>b, <1>8, <1>10

LEMMA UnsignedBack ==
    ASSUME NEW n \in Nat
    PROVE  /\ UnsignedContent(n) \in Seq(Nat) /\ UnsignedContent(n) # <<>>
           /\ Number(UnsignedContent(n), 256) = n
<1>0. 256 \in Nat /\ 256 >= 2 /\ 256 > 0
  OBVIOUS
<1>1. PICK w \in Nat : w = Width(n, 256) /\ w > 0 /\ Quotient(n, 256, w) = 0
  BY <1>0, WidthIs
<1>2. PICK d \in Seq(Byte) : d = Digits(n, 256, w) /\ Len(d) = w
  BY OctetsType
<1>3. d \in Seq(Nat) /\ d # <<>>
  BY <1>1, <1>2, BytesAreOctets
<1>4. Number(d, 256) = n
  BY <1>0, <1>1, <1>2, DigitsBack
<1>5. UnsignedContent(n) = IF d[1] >= 128 THEN <<0>> \o d ELSE d
  BY <1>1, <1>2 DEF UnsignedContent, Positive
<1>6. PICK z \in Seq(Nat) : z = <<0>> /\ Len(z) = 1 /\ z[1] = 0
  BY OneElement
<1>7. PICK b \in Seq(Nat) : b = z \o d /\ Len(b) = 1 + w
  <2>1. z \o d \in Seq(Nat) /\ Len(z \o d) = Len(z) + Len(d)
    BY <1>3, ConcatProperties
  <2> QED
    BY <1>2, <1>6, <2>1
<1>8. b # <<>>
  BY <1>7
<1>9. Number(b, 256) = n
  <2>1. Number(z \o d, 256) = Number(d, 256)
    <3>1. PICK base \in Nat : base = 256
      OBVIOUS
    <3>2. z \in Seq(Nat) /\ Len(z) = 1 /\ z[1] = 0
      BY <1>6
    <3>3. Number(z \o d, base) = Number(d, base)
      BY ONLY <1>3, <3>2, LeadingZero
    <3> QED
      BY <3>1, <3>3
  <2> QED
    BY <1>4, <1>7, <2>1
<1> QED
  BY <1>3, <1>4, <1>5, <1>6, <1>7, <1>8, <1>9

\* a value an application may send: one that can be encoded, and that has no
\* negative arc
Plain(x) ==
    /\ IsValue(x) /\ Encodable(x)
    /\ x.type = "ObjectIdentifier" => x.v \in Seq(Nat)

\* what the content of its TLV is, and what that is decoded as
LEMMA ContentBack ==
    ASSUME NEW type, NEW v, Plain(Val(type, v))
    PROVE  \E c \in Seq(Nat) : /\ Encodes(EncodeValue(Val(type, v)), Tag[type], c)
                               /\ Decoded(type, c) = Val(type, v)
<1>1. Val(type, v).type = type /\ Val(type, v).v = v
  BY ValParts
<1> DEFINE x == Val(type, v)
           c == CASE type = "Integer" -> SignedContent(v[1])
                  [] type \in Unsigned -> UnsignedContent(v[1])
                  [] type = "ObjectIdentifier" -> OidContent(v)
                  [] OTHER -> v
<1>2. EncodeValue(x) = Tlv(Tag[type], c)
  BY DEF EncodeValue, Val
<1>3. type \in DOMAIN Tag /\ Carries(type, v)
  BY ValueCarried DEF Plain
<1>4. Tag[type] \in Nat
  BY <1>3, TagType
<1> HIDE DEF x
<1>5. /\ type \in Unsigned \union {"Integer"} => v \in [1 .. 1 -> Int]
      /\ type = "ObjectIdentifier" => v \in Seq(Nat) /\ EncodableOid(v)
      /\ type \in Octets => v \in Seq(0 .. 255)
      /\ type \in Empty => v = <<>>
      /\ type \in Unsigned => v[1] \in Nat
  <2>1. x.type = type /\ x.v = v /\ IsValue(x) /\ Encodable(x)
        /\ (type = "ObjectIdentifier" => v \in Seq(Nat))
    BY <1>1 DEF Plain, x
  <2>2. type = "ObjectIdentifier" => EncodableOid(v)
    BY <2>1, EncodableParts DEF x
  <2>3. type \in Unsigned => v[1] \in Nat
    BY <1>3 DEF Carries
  <2> QED
    BY <2>1, <2>2, <2>3 DEF IsValue
<1>6. CASE type = "Integer"
  <2>1. PICK n \in Int : v = <<n>> /\ v[1] = n
    <3>1. PICK n \in Int : n = v[1]
      BY <1>5, <1>6
    <3>2. v \in [1 .. 1 -> Int]
      BY <1>5, <1>6
    <3>3. <<n>> \in [1 .. 1 -> Int] /\ <<n>>[1] = n
      OBVIOUS
    <3>4. PICK t \in [1 .. 1 -> Int] : t = <<n>> /\ t[1]  = n
      BY <3>3
    <3>5. v = t
      BY <3>1, <3>2, <3>4
    <3> QED
      BY <3>1, <3>4, <3>5
  <2>2. /\ type \notin Unsigned /\ type # "ObjectIdentifier" /\ type # "IpAddress"
        /\ type \notin {"OctetString", "Opaque"} /\ type \notin Empty
    BY <1>6 DEF Unsigned, Empty
  <2>3. c = SignedContent(n)
    BY ONLY <1>6, <2>1, <2>2
  <2>4. PICK s \in Seq(Nat) : s = SignedContent(n) /\ s # <<>> /\ SignedNumber(s) = n
    BY SignedContentBack, BytesAreOctets
  <2>5. Decoded(type, s) = Val(type, <<SignedNumber(s)>>)
    BY ONLY <1>6, <2>2, <2>4 DEF Decoded
  <2>6. Encodes(Tlv(Tag[type], s), Tag[type], s)
    BY <1>4, EncodesTlv
  <2> HIDE DEF c
  <2> QED
    BY <1>2, <2>1, <2>3, <2>4, <2>5, <2>6 DEF x
<1>7. CASE type \in Unsigned
  <2>1. PICK n \in Nat : v = <<n>> /\ v[1] = n
    <3>1. PICK n \in Nat : n = v[1]
      BY <1>5, <1>7
    <3>2. v \in [1 .. 1 -> Int]
      BY <1>5, <1>7
    <3>3. <<n>> \in [1 .. 1 -> Int] /\ <<n>>[1] = n
      OBVIOUS
    <3>4. PICK t \in [1 .. 1 -> Int] : t = <<n>> /\ t[1]  = n
      BY <3>3
    <3>5. v = t
      BY <3>1, <3>2, <3>4
    <3> QED
      BY <3>1, <3>4, <3>5
  <2>2. /\ type # "Integer" /\ type # "ObjectIdentifier" /\ type # "IpAddress"
        /\ type \notin {"OctetString", "Opaque"} /\ type \notin Empty
    BY <1>7 DEF Unsigned, Empty
  <2>3. c = UnsignedContent(n)
    BY ONLY <1>7, <2>1, <2>2
  <2>4. PICK s \in Seq(Nat) : s = UnsignedContent(n) /\ s # <<>> /\ Number(s, 256) = n
    BY UnsignedBack
  <2>5. Decoded(type, s) = Val(type, <<Number(s, 256)>>)
    BY ONLY <1>7, <2>2, <2>4 DEF Decoded
  <2>6. Encodes(Tlv(Tag[type], s), Tag[type], s)
    BY <1>4, EncodesTlv
  <2> HIDE DEF c
  <2> QED
    BY <1>2, <2>1, <2>3, <2>4, <2>5, <2>6 DEF x
<1>8. CASE type = "ObjectIdentifier"
  <2>2. /\ type # "Integer" /\ type \notin Unsigned /\ type # "IpAddress"
        /\ type \notin {"OctetString", "Opaque"} /\ type \notin Empty
    BY <1>8 DEF Unsigned, Empty
  <2>3. c = OidContent(v)
    BY ONLY <1>8, <2>2
  <2>4. PICK s \in Seq(Nat) : s = OidContent(v) /\ DecodableOid(s) /\ OidNumbers(s) = v
    BY <1>5, <1>8, OidBack
  <2>5. Decoded(type, s) = Val(type, OidNumbers(s))
    BY ONLY <1>8, <2>2, <2>4 DEF Decoded
  <2>6. Encodes(Tlv(Tag[type], s), Tag[type], s)
    BY <1>4, EncodesTlv
  <2> HIDE DEF c
  <2> QED
    BY <1>2, <2>3, <2>4, <2>5, <2>6 DEF x
<1>9. CASE type \notin Unsigned \union {"Integer", "ObjectIdentifier"}
  <2>1. type # "Integer" /\ type \notin Unsigned /\ type # "ObjectIdentifier"
    BY <1>9
  <2>2. c = v
    BY ONLY <2>1
  <2>3. v \in Seq(Nat)
    BY <1>3, <1>9 DEF Carries
  <2>4. Decoded(type, v) = Val(type, v)
    <3>1. CASE type = "IpAddress"
      <4>1. Len(v) = 4
        <5>1. x.type = type /\ x.v = v /\ Encodable(x)
          BY <1>1 DEF Plain, x
        <5> QED
          BY ONLY <2>1, <3>1, <5>1 DEF Encodable
      <4>2. type \notin {"OctetString", "Opaque"} /\ type \notin Empty
        BY <3>1 DEF Empty
      <4> QED
        BY ONLY <2>1, <3>1, <4>1, <4>2 DEF Decoded
    <3>2. CASE type \in {"OctetString", "Opaque"}
      <4>2. type # "IpAddress" /\ type \notin Empty
        BY <3>2 DEF Empty
      <4> QED
        BY ONLY <2>1, <3>2, <4>2 DEF Decoded
    <3>3. CASE type \in Empty
      <4>1. type # "IpAddress" /\ type \notin {"OctetString", "Opaque"}
        BY <3>3 DEF Empty
      <4>2. v = <<>>
        BY <1>5, <3>3
      <4> QED
        BY ONLY <2>1, <3>3, <4>1, <4>2 DEF Decoded
    <3>4. type \in Octets \union Empty
      BY <1>3, <2>1, TagTypes
    <3> QED
      BY <3>1, <3>2, <3>3, <3>4 DEF Octets
  <2>5. Encodes(Tlv(Tag[type], v), Tag[type], v)
    BY <1>4, <2>3, EncodesTlv
  <2> HIDE DEF c
  <2> QED
    BY <1>2, <2>2, <2>3, <2>4, <2>5 DEF x
<1> QED
  BY <1>6, <1>7, <1>8, <1>9

\* each type has its own tag
LEMMA TypeOfTag ==
    ASSUME NEW type \in DOMAIN Tag, NEW c, NEW next
    PROVE  ValueOf(Read(Tag[type], c, next)) = Decoded(type, c)
<1>1. \A other \in DOMAIN Tag : Tag[other] = Tag[type] => other = type
  BY DEF Tag
<1>2. PICK t : t = Read(Tag[type], c, next) /\ t.tag = Tag[type] /\ t.content = c
  <2>1. Read(Tag[type], c, next).tag = Tag[type] /\ Read(Tag[type], c, next).content = c
    BY DEF Read
  <2> QED
    BY <2>1
<1>3. (CHOOSE other \in DOMAIN Tag : Tag[other] = t.tag) = type
  BY <1>1, <1>2
<1> QED
  BY <1>2, <1>3 DEF ValueOf

\* every value an application may send is read back as it was
LEMMA ValueBack ==
    ASSUME NEW x, Plain(x)
    PROVE  \E c \in Seq(Nat) : \E tag : /\ Encodes(EncodeValue(x), tag, c)
                                        /\ \A next : ValueOf(Read(tag, c, next)) = x
<1>1. PICK type, v : x = Val(type, v) /\ type \in DOMAIN Tag
  BY DEF Plain, IsValue
<1>2. PICK c \in Seq(Nat) : Encodes(EncodeValue(x), Tag[type], c) /\ Decoded(type, c) = x
  BY <1>1, ContentBack
<1>3. \A next : ValueOf(Read(Tag[type], c, next)) = x
  BY <1>1, <1>2, TypeOfTag
<1> QED
  BY <1>2, <1>3

------------------------------------------------------------------------------
(* Varbinds and PDUs are read back.                                         *)

PlainVarbind(vb) ==
    /\ vb = [oid |-> vb.oid, value |-> vb.value]
    /\ vb.oid \in Seq(Nat) /\ EncodableOid(vb.oid) /\ Plain(vb.value)

PlainVarbinds(vbs) ==
    \E n \in Nat : /\ \E S : vbs \in [1 .. n -> S]
                   /\ \A i \in 1 .. n : PlainVarbind(vbs[i])

LEMMA OidPlain ==
    ASSUME NEW o \in Seq(Nat), EncodableOid(o)
    PROVE  Plain(Val("ObjectIdentifier", o))
<1>1. PICK x : /\ x = Val("ObjectIdentifier", o) /\ x.type = "ObjectIdentifier" /\ x.v = o
  BY ValParts
<1>2. o \in Seq(Int)
  BY OctetsAreNumbers
<1>3. IsValue(x)
  <2>1. "ObjectIdentifier" \in DOMAIN Tag
    BY DEF Tag
  <2>2. "ObjectIdentifier" \notin Unsigned \union {"Integer"} /\ "ObjectIdentifier" \notin Octets
        /\ "ObjectIdentifier" \notin Empty
    BY DEF Unsigned, Octets, Empty
  <2> QED
    BY <1>1, <1>2, <2>1, <2>2 DEF IsValue
<1>4. Encodable(x)
  <2>1. EncodableOid(x.v)
    BY <1>1
  <2>2. /\ x.type \notin Unsigned /\ x.type # "IpAddress"
    BY <1>1 DEF Unsigned
  <2> QED
    BY ONLY <1>1, <2>1, <2>2 DEF Encodable
<1> QED
  BY <1>1, <1>3, <1>4 DEF Plain

LEMMA PlainIsValue ==
    ASSUME NEW x, Plain(x)
    PROVE  x # Malformed
<1>1. x.type \in DOMAIN Tag
  BY DEF Plain, IsValue
<1>2. "malformed" \notin DOMAIN Tag
  BY DEF Tag
<1> QED
  BY <1>1, <1>2, ValParts DEF Malformed

LEMMA VarbindBack ==
    ASSUME NEW vb, PlainVarbind(vb)
    PROVE  \E c \in Seq(Nat) : /\ Encodes(VarbindOctets(vb), SequenceTag, c)
                               /\ VarbindFrom(Values(Tlvs(c))) = vb
<1>1. PICK o, y : /\ o \in Seq(Nat) /\ o = vb.oid /\ y = vb.value
                  /\ vb = [oid |-> o, value |-> y] /\ EncodableOid(o) /\ Plain(y)
  BY DEF PlainVarbind
<1>2. PICK x : x = Val("ObjectIdentifier", o) /\ Plain(x) /\ x.type = "ObjectIdentifier" /\ x.v = o
  BY <1>1, OidPlain, ValParts
<1> DEFINE IsRead(z, t, c) == /\ Encodes(EncodeValue(z), t, c)
                              /\ \A next : ValueOf(Read(t, c, next)) = z
<1>20. \A z : Plain(z) => \E c \in Seq(Nat) : \E t : IsRead(z, t, c)
  BY ValueBack
<1>21. Plain(y)
  BY <1>1
<1> HIDE DEF IsRead
<1>22. (\E c \in Seq(Nat) : \E t : IsRead(x, t, c)) /\ (\E c \in Seq(Nat) : \E t : IsRead(y, t, c))
  BY <1>2, <1>20, <1>21
<1>23. PICK c1, t1 : c1 \in Seq(Nat) /\ IsRead(x, t1, c1)
  BY <1>22
<1>24. PICK c2, t2 : c2 \in Seq(Nat) /\ IsRead(y, t2, c2)
  BY <1>22
<1> USE DEF IsRead
<1>3. Encodes(EncodeValue(x), t1, c1) /\ \A next : ValueOf(Read(t1, c1, next)) = x
  BY <1>23
<1>4. Encodes(EncodeValue(y), t2, c2) /\ \A next : ValueOf(Read(t2, c2, next)) = y
  BY <1>24
<1> HIDE DEF IsRead
<1>5. PICK s1, s2 : s1 = EncodeValue(x) /\ s2 = EncodeValue(y)
  OBVIOUS
<1>6. PICK r1, r2 : /\ r1 = Read(t1, c1, Len(s1) + 1)
                    /\ r2 = Read(t2, c2, Len(s1) + Len(s2) + 1)
  OBVIOUS
<1>7. Reads(s1 \o s2, <<r1, r2>>)
  BY <1>3, <1>4, <1>5, <1>6, ReadsTwo
<1>25. PICK ts : ts = <<r1, r2>> /\ DOMAIN ts = 1 .. 2 /\ ts[1] = r1 /\ ts[2] = r2
  <2>1. DOMAIN <<r1, r2>> = 1 .. 2 /\ <<r1, r2>>[1] = r1 /\ <<r1, r2>>[2] = r2
    OBVIOUS
  <2> QED
    BY <2>1
<1>26. Reads(s1 \o s2, ts)
  BY <1>7, <1>25
<1>27. s1 \o s2 \in Seq(Nat) /\ Tlvs(s1 \o s2) = ts
  BY <1>26, ReadsTlvs
<1>8. PICK c \in Seq(Nat) : c = s1 \o s2 /\ Tlvs(c) = ts
  BY <1>27
<1>9. VarbindOctets(vb) = Tlv(SequenceTag, c)
  BY <1>1, <1>2, <1>5, <1>8 DEF VarbindOctets
<1>10. Encodes(VarbindOctets(vb), SequenceTag, c)
  BY <1>9, EncodesTlv, TagNumbers
<1>11. ValueOf(r1) = x /\ ValueOf(r2) = y
  BY <1>3, <1>4, <1>6
<1>12. DOMAIN ts = 1 .. 2 /\ ts[1] = r1 /\ ts[2] = r2
  BY <1>25
<1>13. PICK vs : vs = Values(ts) /\ vs = [i \in 1 .. 2 |-> ValueOf(ts[i])]
  BY <1>12 DEF Values
<1>14. Len(vs) = 2 /\ vs[1] = x /\ vs[2] = y
  BY <1>11, <1>12, <1>13
<1>15. VarbindFrom(vs) = [oid |-> o, value |-> y]
  BY <1>1, <1>2, <1>14, PlainIsValue DEF VarbindFrom
<1> QED
  BY <1>1, <1>8, <1>10, <1>12, <1>13, <1>15

\* ts are the first k of TLVs with this tag and these contents
Listed(b, ts, k, tag, cs) ==
    /\ Reads(b, ts) /\ Len(ts) = k
    /\ \A i \in 1 .. k : ts[i].tag = tag /\ ts[i].content = cs[i]

LEMMA ListedNone ==
    ASSUME NEW tag, NEW cs
    PROVE  Listed(<<>>, <<>>, 0, tag, cs)
<1>1. Reads(<<>>, <<>>)
  BY ConsistsNone, EmptySeq DEF Reads
<1> QED
  BY <1>1 DEF Listed

LEMMA ListedMore ==
    ASSUME NEW b, NEW ts, NEW k \in Nat, NEW tag, NEW cs, Listed(b, ts, k, tag, cs),
           NEW s, Encodes(s, tag, cs[k + 1])
    PROVE  \E us : Listed(b \o s, us, k + 1, tag, cs)
<1>1. PICK r : r = Read(tag, cs[k + 1], Len(b) + Len(s) + 1)
  OBVIOUS
<1>2. Reads(b \o s, Append(ts, r))
  BY <1>1, ReadsMore DEF Listed
<1>3. r.tag = tag /\ r.content = cs[k + 1]
  BY <1>1 DEF Read
<1>4. ts \in Seq(TlvRecord) /\ Len(ts) = k
  BY ReadsTlvs DEF Listed
<1>5. Append(ts, r) \in Seq(TlvRecord)
  BY <1>2, ReadsTlvs
<1>6. Len(Append(ts, r)) = k + 1 /\ \A i \in 1 .. k + 1 :
         Append(ts, r)[i] = IF i <= k THEN ts[i] ELSE r
  <2>1. r \in TlvRecord
    <3>1. Encodes(s, tag, cs[k + 1]) /\ b \in Seq(Nat)
      BY ReadsTlvs DEF Listed
    <3>2. s \in Seq(Nat)
      BY EncodesType
    <3>3. PICK n \in Nat : n = Len(b) + Len(s) + 1
      BY <3>1, <3>2
    <3> QED
      BY <1>1, <3>1, <3>3, ReadType
  <2> QED
    BY <1>4, <2>1, AppendProperties
<1>7. ASSUME NEW i \in 1 .. k + 1
      PROVE  Append(ts, r)[i].tag = tag /\ Append(ts, r)[i].content = cs[i]
  <2>1. CASE i <= k
    <3>1. i \in 1 .. k
      BY <2>1
    <3> QED
      BY <1>6, <2>1, <3>1 DEF Listed
  <2>2. CASE ~(i <= k)
    <3>1. i = k + 1
      BY <2>2
    <3> QED
      BY <1>3, <1>6, <2>2, <3>1
  <2> QED
    BY <2>1, <2>2
<1> QED
  BY <1>2, <1>6, <1>7 DEF Listed

\* octets that are one such TLV after another
LEMMA FlattenBack ==
    ASSUME NEW n \in Nat, NEW ss \in Seq(Seq(Nat)), Len(ss) = n, NEW tag, NEW cs,
           \A i \in 1 .. n : Encodes(ss[i], tag, cs[i])
    PROVE  \E ts : Listed(FlattenSeq(ss), ts, n, tag, cs)
<1>1. PICK f : Flattens(f, ss)
  BY FlattenSteps
<1>2. /\ f[0] = <<>> /\ FlattenSeq(ss) = f[n]
      /\ \A i \in 1 .. n : f[i] = f[i - 1] \o ss[i]
  BY <1>1 DEF Flattens
<1> DEFINE T == {k \in Nat : k <= n => \E ts : Listed(f[k], ts, k, tag, cs)}
<1>3. 0 \in T
  BY <1>2, ListedNone
<1>4. ASSUME NEW k \in Nat, k \in T PROVE k + 1 \in T
  <2>1. SUFFICES ASSUME k + 1 <= n PROVE \E ts : Listed(f[k + 1], ts, k + 1, tag, cs)
    OBVIOUS
  <2>2. k <= n /\ k + 1 \in 1 .. n /\ (k + 1) - 1 = k
    BY <2>1
  <2>3. PICK ts : Listed(f[k], ts, k, tag, cs)
    BY <1>4, <2>2
  <2>4. f[k + 1] = f[k] \o ss[k + 1] /\ Encodes(ss[k + 1], tag, cs[k + 1])
    BY <1>2, <2>2
  <2> HIDE DEF T
  <2> QED
    BY <2>3, <2>4, ListedMore
<1>5. n \in T
  <2> HIDE DEF T
  <2> QED
    BY <1>3, <1>4, NaturalsByStep
<1> QED
  BY <1>2, <1>5

LEMMA VarbindsBack ==
    ASSUME NEW vbs, PlainVarbinds(vbs)
    PROVE  \E b \in Seq(Nat) : /\ b = FlattenSeq([i \in DOMAIN vbs |-> VarbindOctets(vbs[i])])
                               /\ Varbinds(Tlvs(b)) = vbs
<1>0. PICK n \in Nat : (\E S : vbs \in [1 .. n -> S]) /\ \A i \in 1 .. n : PlainVarbind(vbs[i])
  BY DEF PlainVarbinds
<1>1. PICK S : vbs \in [1 .. n -> S] /\ \A i \in 1 .. n : PlainVarbind(vbs[i])
  BY <1>0
<1> DEFINE C(i) == {c \in Seq(Nat) : /\ Encodes(VarbindOctets(vbs[i]), SequenceTag, c)
                                     /\ VarbindFrom(Values(Tlvs(c))) = vbs[i]}
           cs == [i \in 1 .. n |-> CHOOSE c : c \in C(i)]
           ss == [i \in 1 .. n |-> VarbindOctets(vbs[i])]
<1>2. ASSUME NEW i \in 1 .. n
      PROVE  /\ Encodes(VarbindOctets(vbs[i]), SequenceTag, cs[i])
             /\ VarbindFrom(Values(Tlvs(cs[i]))) = vbs[i]
  <2>1. \E c : c \in C(i)
    BY <1>1, VarbindBack
  <2>2. cs[i] \in C(i)
    <3> HIDE DEF C
    <3> QED
      BY <2>1
  <2> HIDE DEF cs
  <2> QED
    BY <2>2
<1> HIDE DEF C, cs
<1>3. ss \in Seq(Seq(Nat)) /\ Len(ss) = n /\ \A i \in 1 .. n : ss[i] = VarbindOctets(vbs[i])
  <2>1. \A i \in 1 .. n : VarbindOctets(vbs[i]) \in Seq(Nat)
    BY <1>2, EncodesType
  <2> QED
    BY <2>1
<1>4. FlattenSeq([i \in DOMAIN vbs |-> VarbindOctets(vbs[i])]) = FlattenSeq(ss)
  BY <1>1
<1> HIDE DEF ss
<1>5. PICK ts : Listed(FlattenSeq(ss), ts, n, SequenceTag, cs)
  BY <1>2, <1>3, FlattenBack
<1>6. PICK b \in Seq(Nat) : b = FlattenSeq(ss) /\ Tlvs(b) = ts /\ ts \in Seq(TlvRecord)
  BY <1>5, ReadsTlvs DEF Listed
<1>7. DOMAIN ts = 1 .. n /\ \A i \in 1 .. n : ts[i].tag = SequenceTag /\ ts[i].content = cs[i]
  BY <1>5, <1>6 DEF Listed
<1>8. Varbinds(ts) = [i \in 1 .. n |-> vbs[i]]
  <2>1. Varbinds(ts) = [i \in 1 .. n |-> IF ts[i].tag = SequenceTag
                                         THEN VarbindFrom(Values(Tlvs(ts[i].content)))
                                         ELSE NoVarbind]
    BY <1>7 DEF Varbinds
  <2> QED
    BY <1>2, <1>7, <2>1
<1>9. Varbinds(ts) = vbs
  BY <1>1, <1>8
<1> QED
  BY <1>4, <1>6, <1>9

LEMMA PlainIsVarbind ==
    ASSUME NEW vb, PlainVarbind(vb)
    PROVE  vb # NoVarbind
BY PlainIsValue DEF PlainVarbind, NoVarbind

\* Every PDU whose varbinds are values an application may send is encoded to
\* octets that are decoded to it.
THEOREM PduRoundTrip ==
    ASSUME NEW tag \in Nat, NEW id \in Int, NEW status \in Int, NEW index \in Int,
           NEW vbs, PlainVarbinds(vbs), NEW tags, tag \in tags
    PROVE  OnlyPdu(Tlvs(PduOctets(tag, id, status, index, vbs)), tags)
             = [tag |-> tag, id |-> id, status |-> status, index |-> index, varbinds |-> vbs]
<1>1. PICK vs \in Seq(Nat) : /\ vs = FlattenSeq([i \in DOMAIN vbs |-> VarbindOctets(vbs[i])])
                             /\ Varbinds(Tlvs(vs)) = vbs
  BY VarbindsBack
<1>2. PICK s1, s2, s3, s4 : /\ s1 = IntegerTlv(id) /\ s2 = IntegerTlv(status)
                            /\ s3 = IntegerTlv(index) /\ s4 = Tlv(SequenceTag, vs)
  OBVIOUS
<1>3. /\ Encodes(s1, Tag.Integer, SignedContent(id))
      /\ Encodes(s2, Tag.Integer, SignedContent(status))
      /\ Encodes(s3, Tag.Integer, SignedContent(index))
      /\ Encodes(s4, SequenceTag, vs)
  BY <1>2, IntegerEncodes, EncodesTlv, TagNumbers
<1>4. PICK r1, r2, r3, r4 :
        /\ r1 = Read(Tag.Integer, SignedContent(id), Len(s1) + 1)
        /\ r2 = Read(Tag.Integer, SignedContent(status), Len(s1) + Len(s2) + 1)
        /\ r3 = Read(Tag.Integer, SignedContent(index), Len(s1) + Len(s2) + Len(s3) + 1)
        /\ r4 = Read(SequenceTag, vs, Len(s1) + Len(s2) + Len(s3) + Len(s4) + 1)
  OBVIOUS
<1>5. Reads(s1 \o s2 \o s3 \o s4, <<r1, r2, r3, r4>>)
  BY <1>3, <1>4, ReadsFour
<1>20. PICK ts : /\ ts = <<r1, r2, r3, r4>> /\ Len(ts) = 4
                 /\ ts[1] = r1 /\ ts[2] = r2 /\ ts[3] = r3 /\ ts[4] = r4
  <2>1. Len(<<r1, r2, r3, r4>>) = 4 /\ <<r1, r2, r3, r4>>[1] = r1 /\ <<r1, r2, r3, r4>>[2] = r2
        /\ <<r1, r2, r3, r4>>[3] = r3 /\ <<r1, r2, r3, r4>>[4] = r4
    OBVIOUS
  <2> QED
    BY <2>1
<1>21. Reads(s1 \o s2 \o s3 \o s4, ts)
  BY <1>5, <1>20
<1>22. s1 \o s2 \o s3 \o s4 \in Seq(Nat) /\ Tlvs(s1 \o s2 \o s3 \o s4) = ts
       /\ ts \in Seq(TlvRecord)
  BY <1>21, ReadsTlvs
<1>6. PICK c \in Seq(Nat) : c = s1 \o s2 \o s3 \o s4 /\ Tlvs(c) = ts
  BY <1>22
<1>7. PduOctets(tag, id, status, index, vbs) = Tlv(tag, c)
  BY <1>1, <1>2, <1>6 DEF PduOctets
<1>23. Encodes(PduOctets(tag, id, status, index, vbs), tag, c)
  BY <1>7, EncodesTlv
<1>24. PICK r : r = [tag |-> tag, content |-> c,
                     next |-> Len(PduOctets(tag, id, status, index, vbs)) + 1]
  OBVIOUS
<1>25. Tlvs(PduOctets(tag, id, status, index, vbs)) = <<r>>
  BY <1>23, <1>24, OnlyTlv
<1>8. /\ Tlvs(PduOctets(tag, id, status, index, vbs)) = <<r>>
      /\ r.tag = tag /\ r.content = c
  BY <1>24, <1>25
<1>9. OnlyPdu(<<r>>, tags) = PduBody(tag, Tlvs(c))
  <2>1. Len(<<r>>) = 1 /\ <<r>>[1] = r
    OBVIOUS
  <2> QED
    BY <1>8, <2>1 DEF OnlyPdu
<1>10. ValueOf(r1).type = "Integer" /\ ValueOf(r1).v[1] = id
       /\ ValueOf(r2).type = "Integer" /\ ValueOf(r2).v[1] = status
       /\ ValueOf(r3).type = "Integer" /\ ValueOf(r3).v[1] = index
  <2>1. ASSUME NEW n \in Int, NEW next
        PROVE  LET t == Read(Tag.Integer, SignedContent(n), next)
               IN  ValueOf(t).type = "Integer" /\ ValueOf(t).v[1] = n
    <3>1. SignedContent(n) # <<>> /\ SignedNumber(SignedContent(n)) = n
      BY SignedContentBack
    <3>2. PICK t : /\ t = Read(Tag.Integer, SignedContent(n), next)
                   /\ t.tag = Tag.Integer /\ t.content = SignedContent(n)
      <4>1. Read(Tag.Integer, SignedContent(n), next).tag = Tag.Integer
            /\ Read(Tag.Integer, SignedContent(n), next).content = SignedContent(n)
        BY DEF Read
      <4> QED
        BY <4>1
    <3>3. ValueOf(t) = Val("Integer", <<n>>)
      BY <3>1, <3>2, IntegerOf
    <3>4. <<n>>[1] = n
      OBVIOUS
    <3> QED
      BY <3>2, <3>3, <3>4, ValParts
  <2> QED
    BY <1>4, <2>1
<1>11. r4.tag = SequenceTag /\ r4.content = vs
  BY <1>4 DEF Read
<1>12. /\ ts \in Seq(TlvRecord) /\ ts = Tlvs(c) /\ Len(ts) = 4
       /\ ts[1] = r1 /\ ts[2] = r2 /\ ts[3] = r3 /\ ts[4] = r4
  BY <1>6, <1>20, <1>22
<1>13. PduBody(tag, ts) = PduWith(tag, Values(Front(ts)), vbs)
  BY <1>1, <1>11, <1>12 DEF PduBody
<1>14. PICK h : /\ h = Front(ts) /\ DOMAIN h = 1 .. 3
                /\ h[1] = r1 /\ h[2] = r2 /\ h[3] = r3
  <2>1. Front(ts) = SubSeq(ts, 1, 3)
    BY <1>12 DEF Front
  <2>2. \A i \in 1 .. 3 : ts[i] \in TlvRecord
    <3>1. DOMAIN ts = 1 .. 4
      BY <1>12
    <3>2. \A i \in 1 .. 3 : i \in DOMAIN ts
      BY <3>1
    <3>3. ASSUME NEW i \in 1 .. 3 PROVE ts[i] \in TlvRecord
      <4>1. i \in DOMAIN ts /\ ts \in Seq(TlvRecord)
        BY <1>12, <3>2
      <4> QED
        BY ONLY <4>1, ElementOfSeq
    <3> QED
      BY <3>3
  <2>3. /\ SubSeq(ts, 1, 3) \in Seq(TlvRecord) /\ Len(SubSeq(ts, 1, 3)) = 3
        /\ \A i \in 1 .. 3 : SubSeq(ts, 1, 3)[i] = ts[1 + i - 1]
    BY <2>2, SubSeqProperties
  <2>4. DOMAIN SubSeq(ts, 1, 3) = 1 .. 3
    BY <2>3
  <2>5. /\ SubSeq(ts, 1, 3)[1] = ts[1] /\ SubSeq(ts, 1, 3)[2] = ts[2]
        /\ SubSeq(ts, 1, 3)[3] = ts[3]
    BY <2>3
  <2> QED
    BY <1>12, <2>1, <2>4, <2>5
<1>15. PICK ns : /\ ns = Values(h) /\ DOMAIN ns = 1 .. 3
                 /\ ns[1] = ValueOf(r1) /\ ns[2] = ValueOf(r2) /\ ns[3] = ValueOf(r3)
  <2>1. Values(h) = [i \in 1 .. 3 |-> ValueOf(h[i])]
    BY <1>14 DEF Values
  <2> QED
    BY <1>14, <2>1
<1>16. \A i \in DOMAIN ns : ns[i].type = "Integer"
  BY <1>10, <1>15
<1>17. \A i \in DOMAIN vbs : vbs[i] # NoVarbind
  <2>0. PICK n \in Nat : (\E S : vbs \in [1 .. n -> S]) /\ \A i \in 1 .. n : PlainVarbind(vbs[i])
    BY DEF PlainVarbinds
  <2>1. PICK S : vbs \in [1 .. n -> S] /\ \A i \in 1 .. n : PlainVarbind(vbs[i])
    BY <2>0
  <2> QED
    BY <2>1, PlainIsVarbind
<1>18. PduWith(tag, ns, vbs)
         = [tag |-> tag, id |-> id, status |-> status, index |-> index, varbinds |-> vbs]
  BY <1>10, <1>15, <1>16, <1>17 DEF PduWith
<1> QED
  BY <1>8, <1>9, <1>12, <1>13, <1>14, <1>15, <1>18

------------------------------------------------------------------------------
(* What the listener takes a datagram for.                                  *)

\* octets of a message with this PDU
Carrier(o, pdu) ==
    \/ \E m, auth : Message(m) /\ auth \in Strings /\ o = UsmOctets(m, auth) /\ m.pdu = pdu
    \/ \E name, long : name \in Strings /\ long \in BOOLEAN /\ o = CommunityOctets(name, pdu, long)

\* what carries the PDU, or a part of it, is taken for that PDU or passed over
LEMMA WhatIsTaken ==
    ASSUME NEW pdu, NEW tag, NEW id, PduOf(pdu, tag, id),
           NEW o, Carrier(o, pdu), NEW d, PartOf(d.octets, o), Wanted(d) # Unwanted
    PROVE  Wanted(d).pdu = Pdu(pdu) /\ IsNotification(Pdu(pdu))
<1>1. ~IsNotification(Pdu(<<>>))
  BY PduTags, NoPduRead DEF IsNotification
<1>2. ASSUME NEW name, NEW context, NEW b \in {pdu, <<>>}, IsNotification(Pdu(b)),
             Wanted(d) = Taken(name, context, Pdu(b))
      PROVE  Wanted(d).pdu = Pdu(pdu) /\ IsNotification(Pdu(pdu))
  <2>1. b = pdu
    BY <1>1, <1>2
  <2> QED
    BY <1>2, <2>1 DEF Taken
<1>3. CASE listener.version = "v2c"
  <2> DEFINE view == CommunityView(d.octets)
  <2>1. Wanted(d) = CommunityTaken(view, Pdu(view.pdu))
    BY <1>3 DEF Wanted, CommunityNotification, CommunityNotificationIn
  <2>2. view.pdu \in {pdu, <<>>}
    <3>1. CASE \E m, auth : Message(m) /\ auth \in Strings /\ o = UsmOctets(m, auth) /\ m.pdu = pdu
      <4>1. view = NoCommunityView
        BY <3>1, UsmArrives
      <4> HIDE DEF view
      <4> QED
        BY <4>1 DEF NoCommunityView
    <3>2. CASE \E name, long : name \in Strings /\ long \in BOOLEAN /\ o = CommunityOctets(name, pdu, long)
      <4>1. view = NoCommunityView \/ view.pdu = pdu
        BY <3>2, CommunityArrives
      <4> HIDE DEF view
      <4> QED
        BY <4>1 DEF NoCommunityView
    <3> QED
      BY <3>1, <3>2 DEF Carrier
  <2> HIDE DEF view
  <2>3. IsNotification(Pdu(view.pdu)) /\ Wanted(d) = Taken(view.name, <<>>, Pdu(view.pdu))
    BY <2>1 DEF CommunityTaken
  <2> QED
    BY <1>2, <2>2, <2>3
<1>4. CASE listener.version # "v2c"
  <2> DEFINE view == UsmView(d.octets)
             s == ScopedView(IF IsPrivate(view.flags) THEN Decrypted(view) ELSE view.data)
  <2>1. Wanted(d) = UsmNotificationIn(d, view)
    BY <1>4 DEF Wanted, UsmNotification
  <2>2. view # NoView => s.pdu \in {pdu, <<>>}
    <3>0. SUFFICES ASSUME view # NoView PROVE s.pdu \in {pdu, <<>>}
      OBVIOUS
    <3>1. PICK m, auth : Message(m) /\ auth \in Strings /\ o = UsmOctets(m, auth) /\ m.pdu = pdu
      BY <3>0, CommunityArrives DEF Carrier
    <3>2. view.data = DataOf(m) /\ view.priv = PrivOf(m)
      BY <3>0, <3>1, UsmArrives
    <3> HIDE DEF view
    <3>3. ScopedView(view.data).pdu \in {pdu, <<>>} /\ ScopedView(Decrypted(view)).pdu \in {pdu, <<>>}
      BY <3>1, <3>2, DataRead
    <3> QED
      BY <3>3
  <2> HIDE DEF view
  <2>3. view # NoView /\ Wanted(d) = UsmTakenFrom(view, s)
    BY <2>1 DEF UsmNotificationIn
  <2> HIDE DEF s
  <2>4. IsNotification(Pdu(s.pdu)) /\ Wanted(d) = Taken(view.name, s.context, Pdu(s.pdu))
    BY <2>3 DEF UsmTakenFrom, UsmTaken
  <2> QED
    BY <1>2, <2>2, <2>3, <2>4
<1> QED
  BY <1>3, <1>4

\* the datagram of a call
LEMMA OutboundCarries ==
    ASSUME notifier \in Notifiers, NEW tag \in {PduTag.Trap, PduTag.Inform}, NEW id \in Int,
           NEW content, CarriedVarbinds(NotificationVarbinds(content)),
           NEW peerEngine \in Engines \union {NoEngine}
    PROVE  LET pdu == PduOctets(tag, id, 0, 0, NotificationVarbinds(content)) IN
           /\ Carrier(Outbound(tag, id, content, peerEngine).octets, pdu)
           /\ PduOf(pdu, tag, id)
<1> DEFINE pdu == PduOctets(tag, id, 0, 0, NotificationVarbinds(content))
           authority == OutboundEngine(tag, peerEngine)
<1>1. tag \in AnyPdu
  BY PduTags
<1>2. PduOf(pdu, tag, id)
  BY <1>1, PduMade
<1>3. pdu \in Strings
  BY <1>2, PduRead
<1>4. authority \in Strings
  BY EngineType DEF OutboundEngine
<1>5. Outbound(tag, id, content, peerEngine) = Wrapped(tag, authority, pdu)
  BY DEF Outbound
<1> HIDE DEF pdu, authority
<1>6. notifier.name \in Strings /\ notifier.long \in BOOLEAN
  BY NotifierType
<1>7. CASE notifier.version = "v2c"
  <2>1. Wrapped(tag, authority, pdu).octets = CommunityOctets(notifier.name, pdu, notifier.long)
    BY <1>7 DEF Wrapped, CommunityMessage, Datagram
  <2> QED
    BY <1>2, <1>5, <1>6, <2>1 DEF Carrier, pdu
<1>8. CASE notifier.version # "v2c"
  <2> DEFINE m == [name |-> notifier.name, key |-> notifier.key, level |-> notifier.level,
                   reportable |-> tag = PduTag.Inform, engine |-> authority,
                   context |-> authority, pdu |-> pdu, long |-> notifier.long]
  <2>1. Message(m) /\ m.pdu = pdu
    BY <1>3, <1>4, <1>6, <1>8, NotifierType DEF Message
  <2>2. Wrapped(tag, authority, pdu) = UsmDatagram(m)
    BY <1>8 DEF Wrapped, UsmMessage
  <2> HIDE DEF m
  <2>3. PICK auth \in Strings : UsmDatagram(m).octets = UsmOctets(m, auth)
    BY <2>1, DatagramOf
  <2>4. Carrier(Outbound(tag, id, content, peerEngine).octets, pdu)
    BY <1>5, <2>1, <2>2, <2>3 DEF Carrier
  <2> QED
    BY <1>2, <2>4 DEF pdu
<1> QED
  BY <1>7, <1>8

LEMMA ProbeCarries ==
    ASSUME notifier \in Notifiers
    PROVE  \E pdu : Carrier(Probe.octets, pdu) /\ PduOf(pdu, PduTag.Get, 1)
<1> DEFINE pdu == PduOctets(PduTag.Get, 1, 0, 0, ProbeVarbind(Null))
           m == [name |-> <<>>, key |-> "", level |-> "noAuthNoPriv", reportable |-> TRUE,
                 engine |-> NoEngine, context |-> <<>>, pdu |-> pdu, long |-> notifier.long]
<1>1. PduOf(pdu, PduTag.Get, 1)
  BY ProbeValues, ProbeCarried, PduTags, PduMade
<1>2. pdu \in Strings
  BY <1>1, PduRead
<1>3. Probe = UsmDatagram(m)
  BY DEF Probe, UsmMessage
<1> HIDE DEF pdu
<1>4. Message(m) /\ m.pdu = pdu
  BY <1>2, NoLevel, EngineType, NotifierType, ParametersType DEF Message
<1> HIDE DEF m
<1>5. PICK auth \in Strings : UsmDatagram(m).octets = UsmOctets(m, auth)
  BY <1>4, DatagramOf
<1> QED
  BY <1>1, <1>3, <1>4, <1>5 DEF Carrier

\* a probe is no notification
LEMMA ProbeIsPassedOver ==
    ASSUME notifier \in Notifiers, NEW d, PartOf(d.octets, Probe.octets)
    PROVE  Wanted(d) = Unwanted
<1> SUFFICES ASSUME Wanted(d) # Unwanted PROVE FALSE
  OBVIOUS
<1>1. PICK pdu : Carrier(Probe.octets, pdu) /\ PduOf(pdu, PduTag.Get, 1)
  BY ProbeCarries
<1>2. IsNotification(Pdu(pdu))
  BY <1>1, WhatIsTaken
<1>3. Pdu(pdu) = NoPdu \/ Pdu(pdu).tag = PduTag.Get
  BY <1>1, PduRead
<1>4. NoPdu.tag = 0 /\ PduTag.Trap # 0 /\ PduTag.Inform # 0
      /\ PduTag.Get # PduTag.Trap /\ PduTag.Get # PduTag.Inform
  BY NoPduRead, PduTags DEF PduTag
<1> QED
  BY <1>2, <1>3, <1>4 DEF IsNotification

\* what is taken from the datagram of a call is what the call was given
LEMMA OutboundIsTaken ==
    ASSUME notifier \in Notifiers, NEW tag \in {PduTag.Trap, PduTag.Inform}, NEW id \in Int,
           NEW content \in Contents, CanEncode(content),
           PlainVarbinds(NotificationVarbinds(content)),
           NEW peerEngine \in Engines \union {NoEngine}, NEW d,
           PartOf(d.octets, Outbound(tag, id, content, peerEngine).octets), Wanted(d) # Unwanted
    PROVE  Wanted(d).pdu = [tag |-> tag, id |-> id, status |-> 0, index |-> 0,
                            varbinds |-> NotificationVarbinds(content)]
<1> DEFINE vbs == NotificationVarbinds(content)
           pdu == PduOctets(tag, id, 0, 0, vbs)
<1>1. CarriedVarbinds(vbs)
  BY ContentCarried
<1>2. Carrier(Outbound(tag, id, content, peerEngine).octets, pdu) /\ PduOf(pdu, tag, id)
  BY <1>1, OutboundCarries
<1>3. tag \in Nat /\ tag \in Range(PduTag)
  <2>1. tag \in Nat
    BY PduTags
  <2>2. PduTag.Trap \in Range(PduTag) /\ PduTag.Inform \in Range(PduTag)
    BY DEF Range, PduTag
  <2> QED
    BY <2>1, <2>2
<1> HIDE DEF vbs
<1>4. Pdu(pdu) = [tag |-> tag, id |-> id, status |-> 0, index |-> 0, varbinds |-> vbs]
  <2>1. PlainVarbinds(vbs)
    BY DEF vbs
  <2>2. 0 \in Int
    OBVIOUS
  <2> QED
    BY <1>3, <2>1, <2>2, PduRoundTrip DEF Pdu
<1> HIDE DEF pdu
<1>5. Wanted(d).pdu = Pdu(pdu)
  BY <1>2, WhatIsTaken
<1> QED
  BY <1>4, <1>5 DEF vbs

------------------------------------------------------------------------------
(* The varbinds that are built for a call.                                  *)

BuildStart(content) ==
    [uptime |-> Val("TimeTicks", <<content.uptime>>),
     trap |-> Val("ObjectIdentifier", content.target), extras |-> <<>>]

BuildStates(content) ==
    LET given  == Range(content.varbinds)
        values == {BuildStart(content).uptime, BuildStart(content).trap} \union {vb.value : vb \in given}
    IN  [uptime : values, trap : values, extras : Seq(given)]

\* the varbinds of a notification, built one given varbind at a time
Builds(f, content) ==
    LET n == Len(content.varbinds) IN
    /\ f \in [0 .. n -> BuildStates(content)]
    /\ f[0] = BuildStart(content)
    /\ \A k \in 1 .. n : f[k] = WithVarbind(f[k - 1], content.varbinds[k])
    /\ NotificationVarbinds(content)
         = <<[oid |-> SysUptime, value |-> f[n].uptime],
             [oid |-> TrapOid, value |-> f[n].trap]>> \o f[n].extras

LEMMA ContentGiven ==
    ASSUME NEW content \in Contents
    PROVE  /\ content.varbinds \in Seq(Range(content.varbinds))
           /\ Len(content.varbinds) \in Nat
           /\ DOMAIN content.varbinds = 1 .. Len(content.varbinds)
           /\ \A i \in 1 .. Len(content.varbinds) : /\ content.varbinds[i] \in Range(content.varbinds)
                                                    /\ IsVarbind(content.varbinds[i])
           /\ \A vb \in Range(content.varbinds) : IsVarbind(vb)
           /\ content.target \in Seq(Nat) /\ content.uptime \in Nat
<1>1. /\ content.varbinds \in Seq(Range(content.varbinds))
      /\ \A i \in DOMAIN content.varbinds : IsVarbind(content.varbinds[i])
      /\ content.target \in Seq(Nat) /\ content.uptime \in Nat
  BY NotificationAssumption
<1>2. \A vb \in Range(content.varbinds) : IsVarbind(vb)
  BY <1>1 DEF Range
<1> QED
  BY <1>1, <1>2

LEMMA VarbindsFolded ==
    ASSUME NEW content \in Contents
    PROVE  \E f : Builds(f, content)
<1> DEFINE given == content.varbinds
           GS == Range(given)
           x == BuildStart(content)
           VS == {x.uptime, x.trap} \union {vb.value : vb \in GS}
           S == BuildStates(content)
           N == Len(given)
           F == [k \in 1 .. N |-> [s \in S |-> WithVarbind(s, given[k])]]
           built == CHOOSE f : f = [n \in 0 .. N |-> IF n = 0 THEN x
                                                     ELSE WithVarbind(f[n - 1], given[n])]
<1>1. NotificationVarbinds(content)
        = <<[oid |-> SysUptime, value |-> built[N].uptime],
            [oid |-> TrapOid, value |-> built[N].trap]>> \o built[N].extras
  BY DEF NotificationVarbinds, BuildStart
<1>2. N \in Nat /\ \A i \in 1 .. N : given[i] \in GS
  BY ContentGiven
<1>3. S = [uptime : VS, trap : VS, extras : Seq(GS)]
  BY DEF BuildStates
<1>4. x.uptime \in VS /\ x.trap \in VS /\ \A vb \in GS : vb.value \in VS
  OBVIOUS
<1>5. x = [uptime |-> x.uptime, trap |-> x.trap, extras |-> <<>>]
  BY DEF BuildStart
<1> HIDE DEF given, GS, x, VS, S, N
<1>6. x \in S
  <2>1. PICK u \in VS, t \in VS : u = x.uptime /\ t = x.trap
    BY <1>4
  <2>2. PICK e \in Seq(GS) : e = <<>>
    BY EmptySeq
  <2>3. [uptime |-> u, trap |-> t, extras |-> e] \in S
    BY <1>3
  <2> QED
    BY <1>5, <2>1, <2>2, <2>3
<1>7. ASSUME NEW s \in S, NEW vb \in GS PROVE WithVarbind(s, vb) \in S
  <2>1. Append(s.extras, vb) \in Seq(GS)
    BY <1>3
  <2>2. [s EXCEPT !.uptime = vb.value] \in S /\ [s EXCEPT !.trap = vb.value] \in S
        /\ [s EXCEPT !.extras = Append(@, vb)] \in S
    BY <1>3, <1>4, <2>1
  <2> QED
    BY <2>2 DEF WithVarbind
<1>8. F \in [1 .. N -> [S -> S]] /\ \A k \in 1 .. N : \A s \in S : F[k][s] = WithVarbind(s, given[k])
  BY <1>2, <1>7
<1> HIDE DEF F
<1>9. PICK f \in [0 .. N -> S] : Iterates(F, x, N, f)
  BY <1>2, <1>6, <1>8, IterationExists
<1>10. f[0] = x /\ \A k \in 1 .. N : f[k] = F[k][f[k - 1]]
  BY <1>9 DEF Iterates
<1>11. ASSUME NEW k \in 1 .. N PROVE f[k] = WithVarbind(f[k - 1], given[k])
  <2>1. k - 1 \in 0 .. N
    BY <1>2
  <2> QED
    BY <1>8, <1>10, <2>1
<1>12. f = [n \in 0 .. N |-> IF n = 0 THEN x ELSE WithVarbind(f[n - 1], given[n])]
  BY <1>2, <1>10, <1>11
<1>13. built = [n \in 0 .. N |-> IF n = 0 THEN x ELSE WithVarbind(built[n - 1], given[n])]
  BY <1>12
<1>14. 0 \in 0 .. N /\ N \in 0 .. N
  BY <1>2
<1> HIDE DEF built
<1>15. built[0] = x /\ \A k \in 1 .. N : built[k] = WithVarbind(built[k - 1], given[k])
  <2>1. \A k \in 1 .. N : k \in 0 .. N /\ k # 0
    BY <1>2
  <2> QED
    BY <1>13, <1>14, <2>1
<1>16. \A n \in 0 .. N : built[n] \in S
  <2> DEFINE T == {n \in Nat : n <= N => built[n] \in S}
  <2>1. 0 \in T
    BY <1>6, <1>15
  <2>2. ASSUME NEW n \in Nat, n \in T PROVE n + 1 \in T
    <3>1. SUFFICES ASSUME n + 1 <= N PROVE built[n + 1] \in S
      OBVIOUS
    <3>2. built[n] \in S /\ n + 1 \in 1 .. N /\ (n + 1) - 1 = n
      BY <1>2, <2>2, <3>1
    <3>3. built[n + 1] = WithVarbind(built[n], given[n + 1])
      BY <1>15, <3>2
    <3> QED
      BY <1>2, <1>7, <3>2, <3>3
  <2>3. Nat \subseteq T
    <3> HIDE DEF T
    <3> QED
      BY <2>1, <2>2, NaturalsByStep
  <2> QED
    BY <1>2, <2>3
<1>17. built \in [0 .. N -> S]
  <2> DEFINE G(n) == IF n = 0 THEN x ELSE WithVarbind(built[n - 1], given[n])
  <2>1. built = [n \in 0 .. N |-> G(n)]
    BY <1>13
  <2>2. \A n \in 0 .. N : G(n) \in S
    <3>1. \A n \in 0 .. N : built[n] = G(n)
      <4> HIDE DEF G
      <4> QED
        BY <2>1
    <3> QED
      BY <1>16, <3>1
  <2> HIDE DEF G
  <2> QED
    BY <2>1, <2>2
<1>18. Builds(built, content)
  BY <1>1, <1>15, <1>17 DEF Builds, x, S, N, given
<1> QED
  BY <1>18

IsUptime(vb) == vb.oid = SysUptime /\ vb.value.type = "TimeTicks"
IsTrap(vb)   == vb.oid = TrapOid /\ vb.value.type = "ObjectIdentifier"

\* the first n of the given varbinds that replace the uptime, the notification
\* or neither
Uptimes(g, n) == {i \in 1 .. n : IsUptime(g[i])}
Traps(g, n)   == {i \in 1 .. n : IsTrap(g[i])}
Others(g, n)  == (1 .. n) \ (Uptimes(g, n) \union Traps(g, n))
UpTo(S, i)    == {j \in S : j <= i}

\* the last of the indices gives the value
LastOf(S, g, x) == IF S = {} THEN x ELSE g[Max(S)].value

BuiltFrom(s, content, n) ==
    LET g == content.varbinds IN
    /\ s.uptime = LastOf(Uptimes(g, n), g, Val("TimeTicks", <<content.uptime>>))
    /\ s.trap = LastOf(Traps(g, n), g, Val("ObjectIdentifier", content.target))
    /\ Len(s.extras) = Cardinality(Others(g, n))
    /\ \A i \in Others(g, n) : s.extras[Cardinality(UpTo(Others(g, n), i))] = g[i]

LEMMA LastAdded ==
    ASSUME NEW n \in Nat, NEW S \in SUBSET (1 .. n), NEW g, NEW x
    PROVE  LastOf(S \union {n + 1}, g, x) = g[n + 1].value
<1>1. S \union {n + 1} \in SUBSET (1 .. n + 1) /\ S \union {n + 1} # {}
  OBVIOUS
<1>2. Max(S \union {n + 1}) \in S \union {n + 1}
      /\ \A k \in S \union {n + 1} : k <= Max(S \union {n + 1})
  <2>1. n + 1 \in Nat
    OBVIOUS
  <2> QED
    BY <1>1, <2>1, GreatestOne
<1>3. Max(S \union {n + 1}) = n + 1
  <2>1. PICK m : m = Max(S \union {n + 1})
    OBVIOUS
  <2>2. m \in 1 .. n + 1 /\ n + 1 <= m
    BY <1>1, <1>2, <2>1
  <2> QED
    BY <2>1, <2>2
<1> QED
  BY <1>1, <1>3 DEF LastOf

LEMMA CountUpTo ==
    ASSUME NEW n \in Nat, NEW S \in SUBSET (1 .. n)
    PROVE  /\ Cardinality(S) \in Nat
           /\ \A i \in S : Cardinality(UpTo(S, i)) \in 1 .. Cardinality(S)
           /\ Cardinality(S \union {n + 1}) = Cardinality(S) + 1
           /\ UpTo(S \union {n + 1}, n + 1) = S \union {n + 1}
           /\ \A i \in S : UpTo(S \union {n + 1}, i) = UpTo(S, i)
<1>1. IsFiniteSet(1 .. n)
  <2>1. 1 \in Int /\ n \in Int
    OBVIOUS
  <2> QED
    BY <2>1, FS_Interval
<1>2. IsFiniteSet(S)
  BY <1>1, FS_Subset
<1>3. Cardinality(S) \in Nat
  BY <1>2, FS_CardinalityType
<1>4. ASSUME NEW i \in S PROVE Cardinality(UpTo(S, i)) \in 1 .. Cardinality(S)
  <2>1. UpTo(S, i) \in SUBSET S /\ i \in UpTo(S, i)
    BY DEF UpTo
  <2>2. IsFiniteSet(UpTo(S, i)) /\ Cardinality(UpTo(S, i)) <= Cardinality(S)
    BY <1>2, <2>1, FS_Subset
  <2>3. Cardinality(UpTo(S, i)) \in Nat
    BY <2>2, FS_CardinalityType
  <2>4. Cardinality(UpTo(S, i)) # 0
    BY <2>1, <2>2, FS_EmptySet
  <2> QED
    BY <1>3, <2>2, <2>3, <2>4
<1>5. n + 1 \notin S
  OBVIOUS
<1>6. Cardinality(S \union {n + 1}) = Cardinality(S) + 1
  BY <1>2, <1>5, FS_AddElement
<1>7. UpTo(S \union {n + 1}, n + 1) = S \union {n + 1}
  <2>1. \A k \in S \union {n + 1} : k <= n + 1
    OBVIOUS
  <2> QED
    BY <2>1 DEF UpTo
<1>8. \A i \in S : UpTo(S \union {n + 1}, i) = UpTo(S, i)
  BY DEF UpTo
<1> QED
  BY <1>3, <1>4, <1>6, <1>7, <1>8

LEMMA BuiltMore ==
    ASSUME NEW content \in Contents, NEW n \in Nat, n + 1 <= Len(content.varbinds),
           NEW s \in BuildStates(content), BuiltFrom(s, content, n)
    PROVE  BuiltFrom(WithVarbind(s, content.varbinds[n + 1]), content, n + 1)
<1> DEFINE g == content.varbinds
           vb == g[n + 1]
           w == WithVarbind(s, vb)
<1>1. \A i \in 1 .. n + 1 : i \in 1 .. n \/ i = n + 1
  OBVIOUS
<1>2. /\ Uptimes(g, n) \in SUBSET (1 .. n) /\ Traps(g, n) \in SUBSET (1 .. n)
      /\ Others(g, n) \in SUBSET (1 .. n)
  BY DEF Uptimes, Traps, Others
<1>3. Uptimes(g, n + 1) = Uptimes(g, n) \union (IF IsUptime(vb) THEN {n + 1} ELSE {})
  BY DEF Uptimes
<1>4. Traps(g, n + 1) = Traps(g, n) \union (IF IsTrap(vb) THEN {n + 1} ELSE {})
  BY DEF Traps
<1>5. Others(g, n + 1) = Others(g, n) \union (IF IsUptime(vb) \/ IsTrap(vb) THEN {} ELSE {n + 1})
  <2>1. n + 1 \notin Uptimes(g, n) /\ n + 1 \notin Traps(g, n)
    BY <1>2
  <2>2. 1 .. n + 1 = (1 .. n) \union {n + 1} /\ n + 1 \notin 1 .. n
    OBVIOUS
  <2> HIDE DEF g, vb
  <2> QED
    BY <1>3, <1>4, <2>1, <2>2 DEF Others
<1>6. ~(IsUptime(vb) /\ IsTrap(vb))
  BY DEF IsUptime, IsTrap
<1>7. \E GS, VS : s \in [uptime : VS, trap : VS, extras : Seq(GS)] /\ vb \in GS
  <2>1. n + 1 \in 1 .. Len(content.varbinds)
    BY ContentGiven
  <2> QED
    BY <2>1, ContentGiven DEF BuildStates
<1>8. /\ s.uptime = LastOf(Uptimes(g, n), g, Val("TimeTicks", <<content.uptime>>))
      /\ s.trap = LastOf(Traps(g, n), g, Val("ObjectIdentifier", content.target))
      /\ Len(s.extras) = Cardinality(Others(g, n))
      /\ \A i \in Others(g, n) : s.extras[Cardinality(UpTo(Others(g, n), i))] = g[i]
  BY DEF BuiltFrom
<1>9. WithVarbind(s, vb) = IF IsUptime(vb) THEN [s EXCEPT !.uptime = vb.value]
                           ELSE IF IsTrap(vb) THEN [s EXCEPT !.trap = vb.value]
                           ELSE [s EXCEPT !.extras = Append(@, vb)]
  BY DEF WithVarbind, IsUptime, IsTrap
<1>10. PICK u, t : u = Val("TimeTicks", <<content.uptime>>) /\ t = Val("ObjectIdentifier", content.target)
  OBVIOUS
<1>11. LastOf(Uptimes(g, n) \union {n + 1}, g, u) = vb.value
       /\ LastOf(Traps(g, n) \union {n + 1}, g, t) = vb.value
  BY <1>2, LastAdded
<1>12. SUFFICES /\ w.uptime = LastOf(Uptimes(g, n + 1), g, u)
                /\ w.trap = LastOf(Traps(g, n + 1), g, t)
                /\ Len(w.extras) = Cardinality(Others(g, n + 1))
                /\ \A i \in Others(g, n + 1) :
                      w.extras[Cardinality(UpTo(Others(g, n + 1), i))] = g[i]
  BY <1>10 DEF BuiltFrom
<1> HIDE DEF g, w, vb
<1>13. CASE IsUptime(vb)
  <2>1. w.uptime = vb.value /\ w.trap = s.trap /\ w.extras = s.extras
    BY <1>7, <1>9, <1>13 DEF w
  <2>2. Others(g, n + 1) = Others(g, n) /\ Traps(g, n + 1) = Traps(g, n)
        /\ Uptimes(g, n + 1) = Uptimes(g, n) \union {n + 1}
    BY <1>3, <1>4, <1>5, <1>6, <1>13
  <2> QED
    BY <1>8, <1>10, <1>11, <2>1, <2>2
<1>14. CASE IsTrap(vb)
  <2>1. w.uptime = s.uptime /\ w.trap = vb.value /\ w.extras = s.extras
    BY <1>6, <1>7, <1>9, <1>14 DEF w
  <2>2. Others(g, n + 1) = Others(g, n) /\ Uptimes(g, n + 1) = Uptimes(g, n)
        /\ Traps(g, n + 1) = Traps(g, n) \union {n + 1}
    BY <1>3, <1>4, <1>5, <1>6, <1>14
  <2> QED
    BY <1>8, <1>10, <1>11, <2>1, <2>2
<1>15. CASE ~IsUptime(vb) /\ ~IsTrap(vb)
  <2>1. w.uptime = s.uptime /\ w.trap = s.trap /\ w.extras = Append(s.extras, vb)
    BY <1>7, <1>9, <1>15 DEF w
  <2>2. Uptimes(g, n + 1) = Uptimes(g, n) /\ Traps(g, n + 1) = Traps(g, n)
        /\ Others(g, n + 1) = Others(g, n) \union {n + 1}
    BY <1>3, <1>4, <1>5, <1>15
  <2> DEFINE O == Others(g, n)
             c == Cardinality(O)
  <2>3. /\ c \in Nat /\ \A i \in O : Cardinality(UpTo(O, i)) \in 1 .. c
        /\ Cardinality(O \union {n + 1}) = c + 1
        /\ UpTo(O \union {n + 1}, n + 1) = O \union {n + 1}
        /\ \A i \in O : UpTo(O \union {n + 1}, i) = UpTo(O, i)
    BY <1>2, CountUpTo
  <2> HIDE DEF O
  <2>4. Len(s.extras) = c /\ \A i \in O : s.extras[Cardinality(UpTo(O, i))] = g[i]
    BY <1>8 DEF O
  <2> HIDE DEF c
  <2>5. Len(w.extras) = c + 1 /\ w.extras[c + 1] = vb /\ \A k \in 1 .. c : w.extras[k] = s.extras[k]
    BY <1>7, <2>1, <2>3, <2>4, AppendProperties
  <2>6. Len(w.extras) = Cardinality(O \union {n + 1})
    BY <2>3, <2>5
  <2>7. ASSUME NEW i \in O \union {n + 1}
        PROVE  w.extras[Cardinality(UpTo(O \union {n + 1}, i))] = g[i]
    <3>1. CASE i \in O
      BY <2>3, <2>4, <2>5, <3>1
    <3>2. CASE i = n + 1
      <4>1. Cardinality(UpTo(O \union {n + 1}, i)) = c + 1
        BY <2>3, <3>2
      <4> QED
        BY <2>5, <3>2, <4>1 DEF vb
    <3> QED
      BY <3>1, <3>2
  <2> QED
    BY <1>8, <1>10, <2>1, <2>2, <2>6, <2>7 DEF O
<1> QED
  BY <1>13, <1>14, <1>15

LEMMA BuiltAtFirst ==
    ASSUME NEW content
    PROVE  BuiltFrom(BuildStart(content), content, 0)
<1> DEFINE g == content.varbinds
<1>1. Uptimes(g, 0) = {} /\ Traps(g, 0) = {} /\ Others(g, 0) = {}
  BY DEF Uptimes, Traps, Others
<1>2. Cardinality({}) = 0 /\ Len(<<>>) = 0
  BY FS_EmptySet
<1>3. /\ BuildStart(content).uptime = Val("TimeTicks", <<content.uptime>>)
      /\ BuildStart(content).trap = Val("ObjectIdentifier", content.target)
      /\ BuildStart(content).extras = <<>>
  BY DEF BuildStart
<1> QED
  BY <1>1, <1>2, <1>3 DEF BuiltFrom, LastOf

\* what is sent is what was given, the last override in front
LEMMA BuiltFromGiven ==
    ASSUME NEW content \in Contents
    PROVE  \E s \in BuildStates(content) :
              /\ BuiltFrom(s, content, Len(content.varbinds))
              /\ NotificationVarbinds(content)
                   = <<[oid |-> SysUptime, value |-> s.uptime],
                       [oid |-> TrapOid, value |-> s.trap]>> \o s.extras
<1> DEFINE N == Len(content.varbinds)
<1>1. PICK f : Builds(f, content)
  BY VarbindsFolded
<1>2. N \in Nat
  BY ContentGiven
<1>3. /\ f \in [0 .. N -> BuildStates(content)] /\ f[0] = BuildStart(content)
      /\ \A k \in 1 .. N : f[k] = WithVarbind(f[k - 1], content.varbinds[k])
      /\ NotificationVarbinds(content)
           = <<[oid |-> SysUptime, value |-> f[N].uptime],
               [oid |-> TrapOid, value |-> f[N].trap]>> \o f[N].extras
  BY <1>1 DEF Builds
<1> DEFINE T == {n \in Nat : n <= N => BuiltFrom(f[n], content, n)}
<1>4. 0 \in T
  BY <1>3, BuiltAtFirst
<1>5. ASSUME NEW n \in Nat, n \in T PROVE n + 1 \in T
  <2>1. SUFFICES ASSUME n + 1 <= N PROVE BuiltFrom(f[n + 1], content, n + 1)
    OBVIOUS
  <2>2. n <= N /\ n \in 0 .. N /\ n + 1 \in 1 .. N /\ (n + 1) - 1 = n
    BY <1>2, <2>1
  <2>3. f[n + 1] = WithVarbind(f[n], content.varbinds[n + 1]) /\ f[n] \in BuildStates(content)
    BY <1>3, <2>2
  <2>4. BuiltFrom(f[n], content, n)
    BY <1>5, <2>2
  <2> QED
    BY <2>1, <2>3, <2>4, BuiltMore
<1>6. N \in T
  <2> HIDE DEF T
  <2> QED
    BY <1>2, <1>4, <1>5, NaturalsByStep
<1>7. BuiltFrom(f[N], content, N) /\ f[N] \in BuildStates(content)
  BY <1>2, <1>3, <1>6
<1> QED
  BY <1>3, <1>7

------------------------------------------------------------------------------
(* What is built is what was given.                                         *)

\* the uptime, the notification and then the others
Shape(w, s) ==
    /\ Len(s.extras) \in Nat /\ Len(w) = Len(s.extras) + 2 /\ DOMAIN w = 1 .. Len(s.extras) + 2
    /\ w[1] = [oid |-> SysUptime, value |-> s.uptime]
    /\ w[2] = [oid |-> TrapOid, value |-> s.trap]
    /\ \A k \in 1 .. Len(s.extras) : w[k + 2] = s.extras[k]

LEMMA TwoInFront ==
    ASSUME NEW S, NEW a \in S, NEW b \in S, NEW e \in Seq(S)
    PROVE  LET w == <<a, b>> \o e IN
           /\ w \in Seq(S) /\ Len(e) \in Nat /\ Len(w) = Len(e) + 2 /\ DOMAIN w = 1 .. Len(e) + 2
           /\ w[1] = a /\ w[2] = b
           /\ \A k \in 1 .. Len(e) : w[k + 2] = e[k]
<1>1. PICK h \in Seq(S) : h = <<a, b>> /\ Len(h) = 2 /\ h[1] = a /\ h[2] = b
  <2>1. <<a, b>> \in Seq(S) /\ Len(<<a, b>>) = 2 /\ <<a, b>>[1] = a /\ <<a, b>>[2] = b
    OBVIOUS
  <2> QED
    BY <2>1
<1>2. PICK w : w = h \o e
  OBVIOUS
<1>3. Len(e) \in Nat
  OBVIOUS
<1>4. w \in Seq(S) /\ Len(w) = 2 + Len(e)
      /\ \A i \in 1 .. 2 + Len(e) : w[i] = IF i <= 2 THEN h[i] ELSE e[i - 2]
  BY <1>1, <1>2, ConcatProperties
<1>5. 1 \in 1 .. 2 + Len(e) /\ 2 \in 1 .. 2 + Len(e)
  BY <1>3
<1>6. w[1] = a /\ w[2] = b
  BY <1>1, <1>4, <1>5
<1>7. ASSUME NEW k \in 1 .. Len(e) PROVE w[k + 2] = e[k]
  <2>1. k + 2 \in 1 .. 2 + Len(e) /\ ~(k + 2 <= 2) /\ (k + 2) - 2 = k
    BY <1>3
  <2> QED
    BY <1>4, <2>1
<1>8. DOMAIN w = 1 .. Len(e) + 2 /\ Len(w) = Len(e) + 2
  BY <1>3, <1>4
<1> QED
  BY <1>1, <1>2, <1>3, <1>4, <1>6, <1>7, <1>8

\* the last of some indices is one of them
LEMMA LastIs ==
    ASSUME NEW n \in Nat, NEW S \in SUBSET (1 .. n), NEW g, NEW x
    PROVE  /\ LastOf(S, g, x) = IF S = {} THEN x ELSE g[Max(S)].value
           /\ S # {} => Max(S) \in S
BY GreatestOne DEF LastOf

LEMMA BuiltParts ==
    ASSUME NEW content \in Contents, NEW s \in BuildStates(content),
           BuiltFrom(s, content, Len(content.varbinds))
    PROVE  /\ s.uptime.type = "TimeTicks" /\ s.trap.type = "ObjectIdentifier"
           /\ NaturalArcs => s.trap.v \in Seq(Nat)
           /\ s.extras \in Seq(Range(content.varbinds))
<1> DEFINE g == content.varbinds
           n == Len(g)
<1>1. n \in Nat /\ DOMAIN g = 1 .. n /\ content.target \in Seq(Nat)
  BY ContentGiven
<1>2. Uptimes(g, n) \in SUBSET (1 .. n) /\ Traps(g, n) \in SUBSET (1 .. n)
  BY DEF Uptimes, Traps
<1>3. PICK u, t : /\ u = Val("TimeTicks", <<content.uptime>>) /\ u.type = "TimeTicks"
                  /\ t = Val("ObjectIdentifier", content.target)
                  /\ t.type = "ObjectIdentifier" /\ t.v = content.target
  BY ValParts
<1>4. s.uptime = LastOf(Uptimes(g, n), g, u) /\ s.trap = LastOf(Traps(g, n), g, t)
  BY <1>3 DEF BuiltFrom
<1>5. s.extras \in Seq(Range(content.varbinds))
  BY DEF BuildStates
<1>6. NaturalArcs => \A i \in 1 .. n : g[i].value.type = "ObjectIdentifier" => g[i].value.v \in Seq(Nat)
  BY <1>1 DEF NaturalArcs
<1> HIDE DEF g, n
<1>9. /\ s.uptime = IF Uptimes(g, n) = {} THEN u ELSE g[Max(Uptimes(g, n))].value
      /\ Uptimes(g, n) # {} => Max(Uptimes(g, n)) \in Uptimes(g, n)
      /\ s.trap = IF Traps(g, n) = {} THEN t ELSE g[Max(Traps(g, n))].value
      /\ Traps(g, n) # {} => Max(Traps(g, n)) \in Traps(g, n)
  <2>1. PICK us \in SUBSET (1 .. n), ts \in SUBSET (1 .. n) : us = Uptimes(g, n) /\ ts = Traps(g, n)
    BY <1>2
  <2>2. /\ LastOf(us, g, u) = IF us = {} THEN u ELSE g[Max(us)].value
        /\ us # {} => Max(us) \in us
    BY <1>1, LastIs
  <2>3. /\ LastOf(ts, g, t) = IF ts = {} THEN t ELSE g[Max(ts)].value
        /\ ts # {} => Max(ts) \in ts
    BY <1>1, LastIs
  <2> QED
    BY <1>4, <2>1, <2>2, <2>3
<1>7. s.uptime.type = "TimeTicks"
  <2>1. CASE Uptimes(g, n) = {}
    BY <1>3, <1>9, <2>1
  <2>2. CASE Uptimes(g, n) # {}
    <3>1. PICK i \in Uptimes(g, n) : s.uptime = g[i].value
      BY <1>9, <2>2
    <3> QED
      BY <3>1 DEF Uptimes, IsUptime
  <2> QED
    BY <2>1, <2>2
<1>8. s.trap.type = "ObjectIdentifier" /\ (NaturalArcs => s.trap.v \in Seq(Nat))
  <2>1. CASE Traps(g, n) = {}
    BY <1>1, <1>3, <1>9, <2>1
  <2>2. CASE Traps(g, n) # {}
    <3>1. PICK i \in Traps(g, n) : s.trap = g[i].value
      BY <1>9, <2>2
    <3> QED
      BY <1>6, <3>1 DEF Traps, IsTrap
  <2> QED
    BY <2>1, <2>2
<1> QED
  BY <1>5, <1>7, <1>8

\* what is sent
LEMMA WhatIsSent ==
    ASSUME NEW content \in Contents
    PROVE  \E s \in BuildStates(content) :
              /\ BuiltFrom(s, content, Len(content.varbinds))
              /\ Shape(NotificationVarbinds(content), s)
<1>1. PICK s \in BuildStates(content) :
        /\ BuiltFrom(s, content, Len(content.varbinds))
        /\ NotificationVarbinds(content)
             = <<[oid |-> SysUptime, value |-> s.uptime],
                 [oid |-> TrapOid, value |-> s.trap]>> \o s.extras
  BY BuiltFromGiven
<1>2. PICK a, b : a = [oid |-> SysUptime, value |-> s.uptime] /\ b = [oid |-> TrapOid, value |-> s.trap]
  OBVIOUS
<1>3. PICK S : S = {a, b} \union Range(content.varbinds)
  OBVIOUS
<1>4. PICK e \in Seq(S) : e = s.extras
  <2>1. s.extras \in Seq(Range(content.varbinds))
    BY DEF BuildStates
  <2>2. PICK n \in Nat : s.extras \in [1 .. n -> Range(content.varbinds)]
    BY <2>1
  <2>3. s.extras \in [1 .. n -> S]
    BY <1>3, <2>2
  <2>4. s.extras \in Seq(S)
    BY <2>3
  <2> QED
    BY <2>4
<1>5. NotificationVarbinds(content) = <<a, b>> \o e
  BY <1>1, <1>2, <1>4
<1>6. a \in S /\ b \in S
  BY <1>3
<1>7. Shape(<<a, b>> \o e, s)
  BY <1>2, <1>4, <1>6, TwoInFront DEF Shape
<1> QED
  BY <1>1, <1>5, <1>7

LEMMA PlainContent ==
    ASSUME NaturalArcs, NEW content \in Contents, CanEncode(content)
    PROVE  PlainVarbinds(NotificationVarbinds(content))
<1>1. PICK w : w = NotificationVarbinds(content)
  OBVIOUS
<1>2. \E n \in Nat : (\E S : w \in [1 .. n -> S]) /\ \A i \in 1 .. n : IsVarbind(w[i])
  BY <1>1, VarbindsBuilt
<1>3. PICK n \in Nat : (\E S : w \in [1 .. n -> S]) /\ \A i \in 1 .. n : IsVarbind(w[i])
  BY <1>2
<1>4. PICK s \in BuildStates(content) :
        BuiltFrom(s, content, Len(content.varbinds)) /\ Shape(w, s)
  BY <1>1, WhatIsSent
<1>5. /\ s.uptime.type = "TimeTicks" /\ s.trap.v \in Seq(Nat)
      /\ s.extras \in Seq(Range(content.varbinds))
  BY <1>4, BuiltParts
<1>6. DOMAIN w = 1 .. n
  BY <1>3
<1>7. \A i \in 1 .. n : EncodableOid(w[i].oid) /\ Encodable(w[i].value)
  BY <1>1, <1>6 DEF CanEncode
<1>8. ASSUME NEW i \in 1 .. n, w[i].value.type = "ObjectIdentifier"
      PROVE  w[i].value.v \in Seq(Nat)
  <2>1. i = 1 \/ i = 2 \/ \E k \in 1 .. Len(s.extras) : i = k + 2
    <3>1. i \in 1 .. Len(s.extras) + 2 /\ Len(s.extras) \in Nat
      BY <1>4, <1>6 DEF Shape
    <3>2. i # 1 /\ i # 2 => i - 2 \in 1 .. Len(s.extras) /\ i = (i - 2) + 2
      BY <3>1
    <3> QED
      BY <3>2
  <2>2. CASE i = 1
    BY <1>4, <1>5, <1>8, <2>2 DEF Shape
  <2>3. CASE i = 2
    BY <1>4, <1>5, <2>3 DEF Shape
  <2>4. CASE \E k \in 1 .. Len(s.extras) : i = k + 2
    <3>1. PICK k \in 1 .. Len(s.extras) : i = k + 2
      BY <2>4
    <3>2. w[i] = s.extras[k]
      BY <1>4, <3>1 DEF Shape
    <3>3. s.extras[k] \in Range(content.varbinds)
      BY <1>5
    <3>4. PICK j \in DOMAIN content.varbinds : w[i] = content.varbinds[j]
      BY <3>2, <3>3 DEF Range
    <3> QED
      BY <1>8, <3>4 DEF NaturalArcs
  <2> QED
    BY <2>1, <2>2, <2>3, <2>4
<1>9. ASSUME NEW i \in 1 .. n PROVE PlainVarbind(w[i])
  <2>1. PICK vb : vb = w[i]
    OBVIOUS
  <2>2. /\ IsVarbind(vb) /\ EncodableOid(vb.oid) /\ Encodable(vb.value)
        /\ vb.value.type = "ObjectIdentifier" => vb.value.v \in Seq(Nat)
    BY <1>3, <1>7, <1>8, <2>1
  <2>3. Plain(vb.value)
    BY <2>2 DEF IsVarbind, Plain
  <2> QED
    BY <2>1, <2>2, <2>3 DEF IsVarbind, PlainVarbind
<1> QED
  BY <1>1, <1>3, <1>9 DEF PlainVarbinds

\* the listener looks up what was put in front
LEMMA FirstTwoFound ==
    ASSUME NEW w, NEW s, Shape(w, s), s.uptime.type = "TimeTicks", s.trap.type = "ObjectIdentifier"
    PROVE  /\ FirstValue(w, SysUptime, "TimeTicks") = s.uptime.v
           /\ FirstValue(w, TrapOid, "ObjectIdentifier") = s.trap.v
<1> DEFINE Same(oid, type) == {i \in DOMAIN w : w[i].oid = oid /\ w[i].value.type = type}
<1>1. /\ 1 \in DOMAIN w /\ 2 \in DOMAIN w /\ DOMAIN w \in SUBSET Nat
      /\ \A i \in DOMAIN w : 1 <= i
  BY DEF Shape
<1>2. w[1].oid = SysUptime /\ w[1].value = s.uptime /\ w[2].oid = TrapOid /\ w[2].value = s.trap
  BY DEF Shape
<1>3. SysUptime # TrapOid
  <2>1. Len(SysUptime) = 9 /\ Len(TrapOid) = 11
    BY DEF SysUptime, TrapOid
  <2> QED
    BY <2>1
<1>4. FirstValue(w, SysUptime, "TimeTicks") = s.uptime.v
  <2>1. PICK S : S = Same(SysUptime, "TimeTicks")
    OBVIOUS
  <2>2. S \in SUBSET Nat /\ 1 \in S /\ \A i \in S : 1 <= i
    BY <1>1, <1>2, <2>1
  <2>3. Min(S) \in S /\ \A i \in S : Min(S) <= i
    BY <2>2, LeastOne
  <2>4. Min(S) = 1
    <3>1. PICK m : m = Min(S)
      OBVIOUS
    <3>2. m \in Nat /\ 1 <= m /\ m <= 1
      BY <2>2, <2>3, <3>1
    <3> QED
      BY <3>1, <3>2
  <2>5. FirstValue(w, SysUptime, "TimeTicks") = w[Min(S)].value.v
    BY <2>1, <2>2 DEF FirstValue
  <2> QED
    BY <1>2, <2>4, <2>5
<1>5. FirstValue(w, TrapOid, "ObjectIdentifier") = s.trap.v
  <2>1. PICK S : S = Same(TrapOid, "ObjectIdentifier")
    OBVIOUS
  <2>2. S \in SUBSET Nat /\ 2 \in S /\ 1 \notin S /\ \A i \in S : 1 <= i
    BY <1>1, <1>2, <1>3, <2>1
  <2>3. Min(S) \in S /\ \A i \in S : Min(S) <= i
    BY <2>2, LeastOne
  <2>4. Min(S) = 2
    <3>1. PICK m : m = Min(S)
      OBVIOUS
    <3>2. m \in Nat /\ m # 1 /\ 1 <= m /\ m <= 2
      BY <2>2, <2>3, <3>1
    <3> QED
      BY <3>1, <3>2
  <2>5. FirstValue(w, TrapOid, "ObjectIdentifier") = w[Min(S)].value.v
    BY <2>1, <2>2 DEF FirstValue
  <2> QED
    BY <1>2, <2>4, <2>5
<1> QED
  BY <1>4, <1>5

\* what an application is told, of what was given
AsGiven(content, uptime, trap, varbinds) ==
    LET all  == content.varbinds
        Overrides(oid, type) == {i \in DOMAIN all : all[i].oid = oid /\ all[i].value.type = type}
        uptimes == Overrides(SysUptime, "TimeTicks")
        traps   == Overrides(TrapOid, "ObjectIdentifier")
        others  == DOMAIN all \ (uptimes \union traps)
    IN  /\ uptime = IF uptimes = {} THEN <<content.uptime>> ELSE all[Max(uptimes)].value.v
        /\ trap = IF traps = {} THEN content.target ELSE all[Max(traps)].value.v
        /\ Len(varbinds) = 2 + Cardinality(others)
        /\ \A i \in others :
            all[i] = varbinds[2 + Cardinality({j \in others : j <= i})]

LEMMA SentAsGiven ==
    ASSUME NEW content \in Contents, NEW w, w = NotificationVarbinds(content)
    PROVE  AsGiven(content, FirstValue(w, SysUptime, "TimeTicks"),
                   FirstValue(w, TrapOid, "ObjectIdentifier"), w)
<1>1. PICK s \in BuildStates(content) :
        BuiltFrom(s, content, Len(content.varbinds)) /\ Shape(w, s)
  BY WhatIsSent
<1>2. s.uptime.type = "TimeTicks" /\ s.trap.type = "ObjectIdentifier"
  BY <1>1, BuiltParts
<1>3. PICK uptime, trap : /\ uptime = FirstValue(w, SysUptime, "TimeTicks") /\ uptime = s.uptime.v
                          /\ trap = FirstValue(w, TrapOid, "ObjectIdentifier") /\ trap = s.trap.v
  BY <1>1, <1>2, FirstTwoFound
<1> DEFINE g == content.varbinds
           n == Len(g)
<1>4. n \in Nat /\ DOMAIN g = 1 .. n
  BY ContentGiven
<1>5. Uptimes(g, n) \in SUBSET (1 .. n) /\ Traps(g, n) \in SUBSET (1 .. n)
      /\ Others(g, n) \in SUBSET (1 .. n)
  BY DEF Uptimes, Traps, Others
<1>6. PICK us, ts, os : /\ us = Uptimes(g, n) /\ ts = Traps(g, n) /\ os = Others(g, n)
                        /\ us = {i \in 1 .. n : g[i].oid = SysUptime /\ g[i].value.type = "TimeTicks"}
                        /\ ts = {i \in 1 .. n : g[i].oid = TrapOid /\ g[i].value.type = "ObjectIdentifier"}
                        /\ os = (1 .. n) \ (us \union ts)
  BY DEF Uptimes, Traps, Others, IsUptime, IsTrap
<1>7. PICK u, t : /\ u = Val("TimeTicks", <<content.uptime>>) /\ u.v = <<content.uptime>>
                  /\ t = Val("ObjectIdentifier", content.target) /\ t.v = content.target
  BY ValParts
<1>8. /\ s.uptime = LastOf(us, g, u) /\ s.trap = LastOf(ts, g, t)
      /\ Len(s.extras) = Cardinality(os)
      /\ \A i \in os : s.extras[Cardinality(UpTo(os, i))] = g[i]
  BY <1>1, <1>6, <1>7 DEF BuiltFrom
<1>9. \A i \in os : Cardinality(UpTo(os, i)) \in 1 .. Cardinality(os)
  BY <1>4, <1>5, <1>6, CountUpTo
<1>10. uptime = IF us = {} THEN <<content.uptime>> ELSE g[Max(us)].value.v
  BY <1>3, <1>7, <1>8 DEF LastOf
<1>11. trap = IF ts = {} THEN content.target ELSE g[Max(ts)].value.v
  BY <1>3, <1>7, <1>8 DEF LastOf
<1>12. Len(w) = 2 + Cardinality(os) /\ Cardinality(os) \in Nat
  BY <1>1, <1>8 DEF Shape
<1>13. ASSUME NEW i \in os PROVE g[i] = w[2 + Cardinality(UpTo(os, i))]
  <2>1. PICK k \in 1 .. Len(s.extras) : k = Cardinality(UpTo(os, i))
    BY <1>8, <1>9
  <2>2. k + 2 = 2 + k
    BY <1>8, <1>12
  <2> QED
    BY <1>1, <1>8, <2>1, <2>2 DEF Shape
<1>14. \A i \in os : UpTo(os, i) = {j \in os : j <= i}
  BY DEF UpTo
<1> HIDE DEF g, n
<1>15. content.varbinds = g
  BY DEF g
<1>16. AsGiven(content, uptime, trap, w)
  <2>1. /\ us = {i \in DOMAIN g : g[i].oid = SysUptime /\ g[i].value.type = "TimeTicks"}
        /\ ts = {i \in DOMAIN g : g[i].oid = TrapOid /\ g[i].value.type = "ObjectIdentifier"}
        /\ os = DOMAIN g \ (us \union ts)
    BY <1>4, <1>6
  <2>2. \A i \in os : g[i] = w[2 + Cardinality({j \in os : j <= i})]
    BY <1>13, <1>14
  <2> QED
    BY ONLY <1>10, <1>11, <1>12, <1>15, <2>1, <2>2 DEF AsGiven
<1> QED
  BY <1>3, <1>16

------------------------------------------------------------------------------
(* What was sent, and what events tell of it.                               *)

\* a datagram of the notifier
Sent(d) ==
    \/ d = Probe
    \/ \E id \in DOMAIN calls : \E peerEngine \in Engines \union {NoEngine} :
          /\ CanEncode(calls[id].content)
          /\ d = Outbound(calls[id].tag, id, calls[id].content, peerEngine)

\* an event that tells what a call was given
Tells(e) ==
    \E n, id : /\ e = Event(n) /\ id \in DOMAIN calls
               /\ n.pdu.id = id /\ n.pdu.tag = calls[id].tag
               /\ n.pdu.varbinds = NotificationVarbinds(calls[id].content)

SInv ==
    /\ IInv
    /\ \A d \in toListener : Sent(d)
    /\ \A e \in events : Tells(e)

\* a call once prepared stays as it is
CallsKept == DOMAIN calls \subseteq DOMAIN calls' /\ \A id \in DOMAIN calls : calls'[id] = calls[id]

LEMMA SameDatagrams ==
    ASSUME notifier' = notifier, NEW tag, NEW id, NEW content, NEW peerEngine
    PROVE  /\ Probe' = Probe
           /\ Outbound(tag, id, content, peerEngine)' = Outbound(tag, id, content, peerEngine)
BY DEF Probe, Outbound, Wrapped, UsmMessage, CommunityMessage

LEMMA StillSent ==
    ASSUME notifier' = notifier, CallsKept, NEW d, Sent(d)
    PROVE  Sent(d)'
<1>1. CASE d = Probe
  <2>1. d = Probe'
    BY <1>1, SameDatagrams
  <2> QED
    BY <2>1 DEF Sent
<1>2. CASE d # Probe
  <2>0. PICK id \in DOMAIN calls : \E peerEngine \in Engines \union {NoEngine} :
          /\ CanEncode(calls[id].content)
          /\ d = Outbound(calls[id].tag, id, calls[id].content, peerEngine)
    BY <1>2 DEF Sent
  <2>1. PICK peerEngine \in Engines \union {NoEngine} :
          /\ CanEncode(calls[id].content)
          /\ d = Outbound(calls[id].tag, id, calls[id].content, peerEngine)
    BY <2>0
  <2>2. id \in DOMAIN calls' /\ calls'[id] = calls[id]
    BY DEF CallsKept
  <2>3. Outbound(calls[id].tag, id, calls[id].content, peerEngine)'
          = Outbound(calls[id].tag, id, calls[id].content, peerEngine)
    BY <2>2 DEF Outbound, Wrapped, UsmMessage, CommunityMessage
  <2> QED
    BY <2>1, <2>2, <2>3 DEF Sent
<1> QED
  BY <1>1, <1>2

LEMMA StillTells ==
    ASSUME CallsKept, NEW e, Tells(e)
    PROVE  Tells(e)'
<1>1. PICK n, id : /\ e = Event(n) /\ id \in DOMAIN calls
                   /\ n.pdu.id = id /\ n.pdu.tag = calls[id].tag
                   /\ n.pdu.varbinds = NotificationVarbinds(calls[id].content)
  BY DEF Tells
<1>2. id \in DOMAIN calls' /\ calls'[id] = calls[id]
  BY <1>1 DEF CallsKept
<1> QED
  BY <1>1, <1>2 DEF Tells

LEMMA CallsUnchanged == calls' = calls => CallsKept
BY DEF CallsKept

\* a call that is prepared is added to them, and what it sends is its datagram
LEMMA SendingTells ==
    ASSUME IInv, Len(calls) < MaxCalls, NEW tag \in {PduTag.Trap, PduTag.Inform},
           NEW content \in Contents, NEW peerEngine \in Engines \union {NoEngine},
           Send(tag, content, peerEngine), notifier' = notifier,
           \A d \in toListener : Sent(d)
    PROVE  CallsKept /\ \A d \in toListener' : Sent(d)'
<1>0. PICK call : call = [tag |-> tag, content |-> content] /\ call.tag = tag /\ call.content = content
  <2>1. [tag |-> tag, content |-> content].tag = tag /\ [tag |-> tag, content |-> content].content = content
    OBVIOUS
  <2> QED
    BY <2>1
<1>1. calls \in Seq(Prepared) /\ call \in Prepared
  BY <1>0 DEF IInv, Prepared
<1>2. calls' = Append(calls, call)
  BY <1>0 DEF Send
<1>3. call.tag = tag /\ call.content = content
  BY <1>0
<1>4. PICK id : id = NextRequestId /\ id = Len(calls) + 1 /\ Len(calls) \in Nat
  BY <1>1 DEF NextRequestId
<1>5. /\ DOMAIN calls = 1 .. Len(calls) /\ DOMAIN calls' = 1 .. Len(calls) + 1
      /\ \A i \in 1 .. Len(calls) : calls'[i] = calls[i]
      /\ calls'[Len(calls) + 1] = call
  BY <1>1, <1>2, AppendProperties
<1>6. CallsKept
  BY <1>4, <1>5 DEF CallsKept
<1>7. id \in DOMAIN calls' /\ calls'[id] = call
  BY <1>4, <1>5
<1>8. \A d \in toListener : Sent(d)'
  BY <1>6, StillSent
<1>9. CASE CanEncode(content)
  <2>1. toListener' = toListener \union {Outbound(tag, id, content, peerEngine)}
    BY <1>4, <1>9 DEF Send
  <2>2. PICK d : d = Outbound(tag, id, content, peerEngine)
    OBVIOUS
  <2>3. CanEncode(calls[id].content)'
    BY <1>3, <1>7, <1>9
  <2>4. Outbound(calls[id].tag, id, calls[id].content, peerEngine)' = d
    BY <1>3, <1>7, <2>2 DEF Outbound, Wrapped, UsmMessage, CommunityMessage
  <2>5. Sent(d)'
    BY <1>7, <2>3, <2>4 DEF Sent
  <2> QED
    BY <1>6, <1>8, <2>1, <2>2, <2>5
<1>10. CASE ~CanEncode(content)
  <2>1. toListener' = toListener
    BY <1>10 DEF Send
  <2> QED
    BY <1>6, <1>8, <2>1
<1> QED
  BY <1>9, <1>10

LEMMA CallType ==
    ASSUME calls \in Seq(Prepared), NEW id \in DOMAIN calls
    PROVE  /\ id \in Nat /\ calls[id].tag \in {PduTag.Trap, PduTag.Inform}
           /\ calls[id].content \in Contents
<1>1. id \in Nat /\ calls[id] \in Prepared
  OBVIOUS
<1> QED
  BY <1>1 DEF Prepared

\* what is handed on tells what a call was given
LEMMA DeliveredTells ==
    ASSUME NaturalArcs, SInv, NEW d \in Arriving(toListener), NEW n, n = Wanted(d), n # Unwanted
    PROVE  Tells(Event(n))
<1>1. \A e \in toListener : Posted(e)
  BY DEF SInv, IInv
<1>2. PICK s \in toListener : PartOf(d.octets, s.octets)
  BY <1>1, Arrives
<1>3. Sent(s) /\ notifier \in Notifiers /\ calls \in Seq(Prepared)
  BY DEF SInv, IInv
<1>4. s # Probe
  BY <1>2, <1>3, ProbeIsPassedOver
<1>5. PICK id \in DOMAIN calls : \E peerEngine \in Engines \union {NoEngine} :
        /\ CanEncode(calls[id].content)
        /\ s = Outbound(calls[id].tag, id, calls[id].content, peerEngine)
  BY <1>3, <1>4 DEF Sent
<1>6. PICK tag \in {PduTag.Trap, PduTag.Inform}, content \in Contents :
        tag = calls[id].tag /\ content = calls[id].content
  BY <1>3, CallType
<1>7. PICK peerEngine \in Engines \union {NoEngine} :
        CanEncode(content) /\ s = Outbound(tag, id, content, peerEngine)
  BY <1>5, <1>6
<1>8. id \in Int
  BY <1>3, CallType
<1>9. PlainVarbinds(NotificationVarbinds(content))
  BY <1>7, PlainContent
<1>10. n.pdu = [tag |-> tag, id |-> id, status |-> 0, index |-> 0,
                varbinds |-> NotificationVarbinds(content)]
  BY <1>2, <1>3, <1>7, <1>8, <1>9, OutboundIsTaken
<1>11. n.pdu.id = id /\ n.pdu.tag = tag /\ n.pdu.varbinds = NotificationVarbinds(content)
  BY <1>10
<1> QED
  BY <1>6, <1>11 DEF Tells

LEMMA ToldInitially == Init => SInv
<1> SUFFICES ASSUME Init PROVE SInv
  OBVIOUS
<1> QED
  BY Initially DEF Init, SInv

LEMMA ToldStep ==
    ASSUME NaturalArcs, SInv, [Next]_vars
    PROVE  SInv'
<1>0. IInv /\ \A d \in toListener : Sent(d)
  BY DEF SInv
<1>1. IInv'
  BY <1>0, Inductive
<1>2. SUFFICES (\A d \in toListener' : Sent(d)') /\ (\A e \in events' : Tells(e)')
  BY <1>1 DEF SInv
<1>3. ASSUME UNCHANGED <<notifier, events>>, CallsKept, \A d \in toListener' : Sent(d)'
      PROVE  (\A d \in toListener' : Sent(d)') /\ (\A e \in events' : Tells(e)')
  <2>1. \A e \in events' : Tells(e)'
    BY <1>3, StillTells DEF SInv
  <2> QED
    BY <1>3, <2>1
<1>4. ASSUME UNCHANGED <<notifier, calls, toListener, events>>
      PROVE  (\A d \in toListener' : Sent(d)') /\ (\A e \in events' : Tells(e)')
  <2>1. CallsKept
    BY <1>4, CallsUnchanged
  <2>2. \A d \in toListener' : Sent(d)'
    BY <1>0, <1>4, <2>1, StillSent
  <2> QED
    BY <1>3, <1>4, <2>1, <2>2
<1>5. ASSUME NEW content \in Contents, SendTrap(content)
      PROVE  (\A d \in toListener' : Sent(d)') /\ (\A e \in events' : Tells(e)')
  <2>1. /\ Send(PduTag.Trap, content, peer) /\ Len(calls) < MaxCalls
        /\ UNCHANGED <<notifier, events>>
    BY <1>5 DEF SendTrap, setup
  <2>2. CallsKept /\ \A d \in toListener' : Sent(d)'
    BY <1>0, <2>1, SendingTells DEF IInv
  <2> QED
    BY <1>3, <2>1, <2>2
<1>6. ASSUME NEW content \in Contents, SendInform(content)
      PROVE  (\A d \in toListener' : Sent(d)') /\ (\A e \in events' : Tells(e)')
  <2>1. Len(calls) < MaxCalls /\ UNCHANGED <<notifier, events>>
    BY <1>6 DEF SendInform, setup
  <2>2. CASE Send(PduTag.Inform, content, peer)
    <3>1. CallsKept /\ \A d \in toListener' : Sent(d)'
      BY <1>0, <2>1, <2>2, SendingTells DEF IInv
    <3> QED
      BY <1>3, <2>1, <3>1
  <2>3. CASE toListener' = toListener \union {Probe} /\ calls' = calls
    <3>1. CallsKept
      BY <2>3, CallsUnchanged
    <3>2. \A d \in toListener : Sent(d)'
      BY <1>0, <2>1, <3>1, StillSent
    <3>3. PICK p : p = Probe
      OBVIOUS
    <3>4. Sent(p)
      BY <3>3 DEF Sent
    <3>5. Sent(p)'
      BY <2>1, <3>1, <3>4, StillSent
    <3> QED
      BY <1>3, <2>1, <2>3, <3>1, <3>2, <3>3, <3>5
  <2> QED
    BY <1>6, <2>2, <2>3 DEF SendInform
<1>7. ASSUME NEW d \in Arriving(toNotifier), Discover(d)
      PROVE  (\A s \in toListener' : Sent(s)') /\ (\A e \in events' : Tells(e)')
  <2>1. /\ TakeReport(UsmView(d.octets)) /\ pending.phase = "discovering"
        /\ UNCHANGED <<notifier, events>>
    BY <1>7 DEF Discover, setup
  <2>2. pending.content \in Contents /\ Len(calls) < MaxCalls
    BY <1>0, <2>1 DEF IInv, Waits, NoInform
  <2>3. peer' \in Engines \union {NoEngine}
    BY <1>1 DEF IInv
  <2>4. PICK p \in Engines \union {NoEngine} : Send(PduTag.Inform, pending.content, p)
    BY <2>1, <2>3 DEF TakeReport
  <2>5. CallsKept /\ \A s \in toListener' : Sent(s)'
    BY <1>0, <2>1, <2>2, <2>4, SendingTells
  <2> QED
    BY <1>3, <2>1, <2>5
<1>8. ASSUME NEW d \in Arriving(toNotifier), Acknowledged(d)
      PROVE  (\A s \in toListener' : Sent(s)') /\ (\A e \in events' : Tells(e)')
  BY <1>4, <1>8 DEF Acknowledged, setup, network
<1>9. CASE InformFails
  BY <1>4, <1>9 DEF InformFails, setup, network
<1>10. ASSUME NEW d \in Arriving(toListener), AnswerProbe(d)
       PROVE  (\A s \in toListener' : Sent(s)') /\ (\A e \in events' : Tells(e)')
  BY <1>4, <1>10 DEF AnswerProbe, setup
<1>11. ASSUME NEW d \in Arriving(toListener), Deliver(d)
       PROVE  (\A s \in toListener' : Sent(s)') /\ (\A e \in events' : Tells(e)')
  <2>1. PICK n : n = Wanted(d) /\ Accept(n)
    BY <1>11 DEF Deliver
  <2>2. n # Unwanted /\ events' = events \union {Event(n)}
        /\ UNCHANGED <<notifier, calls, toListener>>
    BY <1>11, <2>1 DEF Deliver, Accept, HandOn, setup
  <2>3. Tells(Event(n))
    BY <2>1, <2>2, DeliveredTells
  <2>4. CallsKept
    BY <2>2, CallsUnchanged
  <2>5. PICK f : f = Event(n) /\ events' = events \union {f} /\ Tells(f)
    BY <2>2, <2>3
  <2>6. \A e \in events' : Tells(e)'
    BY <2>4, <2>5, StillTells DEF SInv
  <2>7. \A s \in toListener' : Sent(s)'
    BY <1>0, <2>2, <2>4, StillSent
  <2> QED
    BY <2>6, <2>7
<1>12. CASE Restart
  BY <1>4, <1>12 DEF Restart, setup, network
<1>13. CASE UNCHANGED vars
  BY <1>4, <1>13 DEF vars, setup, network
<1> QED
  BY <1>5, <1>6, <1>7, <1>8, <1>9, <1>10, <1>11, <1>12, <1>13 DEF Next

LEMMA ToldAsSent == SInv => EventsAsSent
<1> SUFFICES ASSUME SInv, NEW e \in events
    PROVE  /\ e.id \in DOMAIN calls /\ e.tag = calls[e.id].tag
           /\ AsGiven(calls[e.id].content, e.uptime, e.trap, e.varbinds)
  BY DEF EventsAsSent, AsGiven
<1>1. PICK n, id : /\ e = Event(n) /\ id \in DOMAIN calls
                   /\ n.pdu.id = id /\ n.pdu.tag = calls[id].tag
                   /\ n.pdu.varbinds = NotificationVarbinds(calls[id].content)
  BY DEF SInv, Tells
<1>2. PICK w : w = n.pdu.varbinds
  OBVIOUS
<1>3. /\ e.id = id /\ e.tag = n.pdu.tag /\ e.varbinds = w
      /\ e.uptime = FirstValue(w, SysUptime, "TimeTicks")
      /\ e.trap = FirstValue(w, TrapOid, "ObjectIdentifier")
  BY <1>1, <1>2 DEF Event
<1>4. calls[id].content \in Contents
  BY <1>1, CallType DEF SInv, IInv
<1>5. AsGiven(calls[id].content, e.uptime, e.trap, w)
  BY <1>1, <1>2, <1>3, <1>4, SentAsGiven
<1> QED
  BY <1>1, <1>3, <1>5, SMTT(30)

------------------------------------------------------------------------------
(* Members and their varbinds.                                              *)

LEMMA PayloadIs ==
    ASSUME NEW V, NEW w \in Seq(V), NEW m \in Nat, Len(w) = m + 2,
           w[1].oid = SysUptime, w[2].oid = TrapOid,
           \A k \in 1 .. m : w[k + 2].oid \notin {SysUptime, TrapOid}
    PROVE  Len(Payload(w)) = m /\ \A k \in 1 .. m : Payload(w)[k] = w[k + 2]
<1> DEFINE N == Len(w)
           F == [k \in 1 .. N |-> [s \in Seq(V) |-> Keep(s, w[k])]]
           kept == CHOOSE f : f = [n \in 0 .. N |-> IF n = 0 THEN <<>> ELSE Keep(f[n - 1], w[n])]
<1>1. Payload(w) = kept[N]
  BY DEF Payload
<1>2. N \in Nat /\ N = m + 2 /\ \A k \in 1 .. N : w[k] \in V
  OBVIOUS
<1>3. \A s \in Seq(V), v \in V : Keep(s, v) \in Seq(V)
  BY DEF Keep
<1>4. <<>> \in Seq(V)
  OBVIOUS
<1> HIDE DEF N
<1>5. F \in [1 .. N -> [Seq(V) -> Seq(V)]] /\ \A k \in 1 .. N : \A s \in Seq(V) : F[k][s] = Keep(s, w[k])
  BY <1>2, <1>3
<1> HIDE DEF F
<1>6. PICK f \in [0 .. N -> Seq(V)] : Iterates(F, <<>>, N, f)
  BY <1>2, <1>4, <1>5, IterationExists
<1>7. f[0] = <<>> /\ \A k \in 1 .. N : f[k] = F[k][f[k - 1]]
  BY <1>6 DEF Iterates
<1>8. ASSUME NEW k \in 1 .. N PROVE f[k] = Keep(f[k - 1], w[k])
  <2>1. k - 1 \in 0 .. N
    BY <1>2
  <2> QED
    BY <1>5, <1>7, <2>1
<1>9. f = [n \in 0 .. N |-> IF n = 0 THEN <<>> ELSE Keep(f[n - 1], w[n])]
  <2> DEFINE G(n) == IF n = 0 THEN <<>> ELSE Keep(f[n - 1], w[n])
  <2>1. \A n \in 0 .. N : f[n] = G(n)
    <3>1. TAKE n \in 0 .. N
    <3>2. n = 0 \/ n \in 1 .. N
      BY <1>2
    <3>3. n \in 1 .. N => n # 0
      BY <1>2
    <3> QED
      BY <1>7, <1>8, <3>2, <3>3
  <2> HIDE DEF G
  <2>2. f = [n \in 0 .. N |-> G(n)]
    BY <2>1
  <2> QED
    BY <2>2 DEF G
<1>10. kept = [n \in 0 .. N |-> IF n = 0 THEN <<>> ELSE Keep(kept[n - 1], w[n])]
  BY <1>9
<1> HIDE DEF kept
<1>11. kept[0] = <<>> /\ \A k \in 1 .. N : kept[k] = Keep(kept[k - 1], w[k])
  <2>1. 0 \in 0 .. N /\ \A k \in 1 .. N : k \in 0 .. N /\ k # 0
    BY <1>2
  <2> QED
    BY <1>10, <2>1
<1>12. 1 \in 1 .. N /\ 2 \in 1 .. N /\ 1 - 1 = 0 /\ 2 - 1 = 1
  BY <1>2
<1>13. kept[2] = <<>>
  <2>1. kept[1] = <<>>
    BY <1>11, <1>12 DEF Keep
  <2> QED
    BY <1>11, <1>12, <2>1 DEF Keep
<1> DEFINE Good(k) == /\ kept[k + 2] \in Seq(V) /\ Len(kept[k + 2]) = k
                      /\ \A j \in 1 .. k : kept[k + 2][j] = w[j + 2]
           T == {k \in Nat : k <= m => Good(k)}
<1>14. Good(0)
  <2>1. 0 + 2 = 2 /\ Len(<<>>) = 0 /\ 1 .. 0 = {}
    OBVIOUS
  <2> QED
    BY <1>4, <1>13, <2>1
<1>15. ASSUME NEW k \in Nat, k + 1 <= m, Good(k) PROVE Good(k + 1)
  <2>1. /\ (k + 1) + 2 \in 1 .. N /\ ((k + 1) + 2) - 1 = k + 2 /\ k + 1 \in 1 .. m
    BY <1>2, <1>15
  <2>2. PICK s \in Seq(V) : s = kept[k + 2] /\ Len(s) = k /\ \A j \in 1 .. k : s[j] = w[j + 2]
    BY <1>15
  <2>3. PICK v \in V : v = w[(k + 1) + 2] /\ v.oid \notin {SysUptime, TrapOid}
    BY <1>2, <2>1
  <2>4. kept[(k + 1) + 2] = Append(s, v)
    BY <1>11, <2>1, <2>2, <2>3 DEF Keep
  <2>5. /\ Append(s, v) \in Seq(V) /\ Len(Append(s, v)) = k + 1
        /\ \A j \in 1 .. k : Append(s, v)[j] = s[j]
        /\ Append(s, v)[k + 1] = v
    BY <2>2, AppendProperties
  <2>6. ASSUME NEW j \in 1 .. k + 1 PROVE Append(s, v)[j] = w[j + 2]
    <3>1. CASE j = k + 1
      BY <2>3, <2>5, <3>1
    <3>2. CASE j # k + 1
      <4>1. j \in 1 .. k
        BY <3>2
      <4> QED
        BY <2>2, <2>5, <4>1
    <3> QED
      BY <3>1, <3>2
  <2> QED
    BY <2>4, <2>5, <2>6
<1> HIDE DEF Good
<1>16. 0 \in T
  BY <1>14
<1>17. ASSUME NEW k \in Nat, k \in T PROVE k + 1 \in T
  <2>1. SUFFICES ASSUME k + 1 <= m PROVE Good(k + 1)
    OBVIOUS
  <2>2. Good(k)
    BY <1>17, <2>1
  <2> QED
    BY <1>15, <2>1, <2>2
<1>18. m \in T
  <2> HIDE DEF T
  <2> QED
    BY <1>16, <1>17, NaturalsByStep
<1>19. Good(m)
  BY <1>18
<1> QED
  BY <1>1, <1>2, <1>19 DEF Good

LEMMA Declared ==
    ASSUME NEW trap, NEW w, NEW declared,
           declared = IF trap \in DOMAIN Members THEN Members[trap] ELSE <<>>
    PROVE  LET b == Bindings(trap, w) IN
           /\ Len(b) \in Nat /\ DOMAIN b = 1 .. Len(b) /\ DOMAIN declared = DOMAIN b
           /\ \A i \in DOMAIN b : /\ b[i].member = declared[i]
                                  /\ i <= Len(Payload(w)) => b[i].varbind = Payload(w)[i]
<1>1. \E n \in Nat : DOMAIN declared = 1 .. n
  <2>1. CASE trap \in DOMAIN Members
    <3>1. Members[trap] \in Seq(Range(Members[trap]))
      BY <2>1, NotificationAssumption
    <3> QED
      BY <2>1, <3>1
  <2>2. CASE trap \notin DOMAIN Members
    <3>1. DOMAIN <<>> = 1 .. 0
      OBVIOUS
    <3> QED
      BY <2>2, <3>1
  <2> QED
    BY <2>1, <2>2
<1>2. PICK n \in Nat : DOMAIN declared = 1 .. n
  BY <1>1
<1>3. PICK p : p = Payload(w)
  OBVIOUS
<1>4. PICK b : /\ b = Bindings(trap, w)
               /\ b = [i \in 1 .. n |-> [member |-> declared[i],
                                         varbind |-> IF i <= Len(p) THEN p[i] ELSE NoVarbind]]
  BY <1>2, <1>3 DEF Bindings
<1>5. /\ DOMAIN b = 1 .. n
      /\ \A i \in 1 .. n : /\ b[i].member = declared[i]
                           /\ i <= Len(p) => b[i].varbind = p[i]
  BY <1>4
<1>6. Len(b) = n
  <2>1. PICK S : b \in [1 .. n -> S]
    <3>1. b \in [1 .. n -> {b[i] : i \in 1 .. n}]
      BY <1>4
    <3> QED
      BY <3>1
  <2> QED
    BY <2>1
<1> QED
  BY <1>2, <1>3, <1>4, <1>5, <1>6

LEMMA ToldComplete == MembersApart /\ SInv => CompleteBindings
<1> SUFFICES ASSUME MembersApart, SInv, NEW e \in events,
                    Len(SubSeq(e.varbinds, 3, Len(e.varbinds))) = Len(e.bindings),
                    \A i \in DOMAIN SubSeq(e.varbinds, 3, Len(e.varbinds)) :
                       IsInstance(SubSeq(e.varbinds, 3, Len(e.varbinds))[i], e.bindings[i].member),
                    NEW i \in DOMAIN SubSeq(e.varbinds, 3, Len(e.varbinds))
             PROVE  e.bindings[i].varbind = SubSeq(e.varbinds, 3, Len(e.varbinds))[i]
  BY DEF CompleteBindings
<1>1. PICK n, id : /\ e = Event(n) /\ id \in DOMAIN calls
                   /\ n.pdu.id = id /\ n.pdu.tag = calls[id].tag
                   /\ n.pdu.varbinds = NotificationVarbinds(calls[id].content)
  BY DEF SInv, Tells
<1>2. calls[id].content \in Contents
  BY <1>1, CallType DEF SInv, IInv
<1>3. PICK w : w = NotificationVarbinds(calls[id].content) /\ w = n.pdu.varbinds
  BY <1>1
<1>4. PICK s : Shape(w, s)
  BY <1>2, <1>3, WhatIsSent
<1>5. \E k \in Nat : \E S : w \in [1 .. k -> S]
  BY <1>2, <1>3, VarbindsBuilt
<1>6. PICK S : w \in Seq(S)
  <2>1. PICK k \in Nat : \E S : w \in [1 .. k -> S]
    BY <1>5
  <2>2. PICK S : w \in [1 .. k -> S]
    BY <2>1
  <2>3. w \in Seq(S)
    BY <2>2
  <2> QED
    BY <2>3
<1>7. PICK m \in Nat : m = Len(s.extras) /\ Len(w) = m + 2
  BY <1>4 DEF Shape
<1>8. w[1].oid = SysUptime /\ w[2].oid = TrapOid
  BY <1>4 DEF Shape
<1>9. e.varbinds = w /\ e.bindings = Bindings(e.trap, w)
  BY <1>1, <1>3 DEF Event
<1>10. PICK given : /\ given = SubSeq(w, 3, Len(w)) /\ Len(given) = m /\ DOMAIN given = 1 .. m
                    /\ \A j \in 1 .. m : given[j] = w[j + 2]
  <2>1. 3 \in Int /\ m + 2 \in Int /\ \A j \in 3 .. m + 2 : w[j] \in S
    BY <1>6, <1>7
  <2>2. PICK a \in Int, b \in Int : a = 3 /\ b = m + 2
    BY <2>1
  <2>3. /\ SubSeq(w, a, b) \in Seq(S)
        /\ Len(SubSeq(w, a, b)) = IF a <= b THEN b - a + 1 ELSE 0
        /\ \A j \in 1 .. b - a + 1 : SubSeq(w, a, b)[j] = w[a + j - 1]
    BY <2>1, <2>2, SubSeqProperties
  <2>5. DOMAIN SubSeq(w, a, b) = 1 .. Len(SubSeq(w, a, b))
    BY <2>3
  <2>4. b - a + 1 = m /\ (IF a <= b THEN b - a + 1 ELSE 0) = m /\ \A j \in 1 .. m : a + j - 1 = j + 2
    BY <2>2
  <2>6. PICK given : given = SubSeq(w, a, b) /\ Len(given) = m /\ DOMAIN given = 1 .. m
                     /\ \A j \in 1 .. m : given[j] = w[j + 2]
    BY <2>3, <2>4, <2>5
  <2>7. given = SubSeq(w, 3, Len(w))
    BY <1>7, <2>2, <2>6
  <2> QED
    BY <2>6, <2>7
<1>11. PICK b : b = Bindings(e.trap, w)
  OBVIOUS
<1>12. PICK declared : declared = IF e.trap \in DOMAIN Members THEN Members[e.trap] ELSE <<>>
  OBVIOUS
<1>13. /\ Len(b) \in Nat /\ DOMAIN b = 1 .. Len(b) /\ DOMAIN declared = DOMAIN b
       /\ \A j \in DOMAIN b : /\ b[j].member = declared[j]
                              /\ j <= Len(Payload(w)) => b[j].varbind = Payload(w)[j]
  BY <1>11, <1>12, Declared
<1>14. Len(b) = m /\ i \in 1 .. m /\ \A j \in 1 .. m : IsInstance(given[j], b[j].member)
  BY <1>9, <1>10, <1>11
<1>15. ASSUME NEW k \in 1 .. m PROVE w[k + 2].oid \notin {SysUptime, TrapOid}
  <2>1. IsPrefix(declared[k], w[k + 2].oid) /\ k \in DOMAIN declared
    BY <1>10, <1>13, <1>14 DEF IsInstance
  <2>2. e.trap \in DOMAIN Members
    <3>1. DOMAIN <<>> = {}
      OBVIOUS
    <3> QED
      BY <1>12, <2>1, <3>1
  <2>3. ~IsPrefix(declared[k], SysUptime) /\ ~IsPrefix(declared[k], TrapOid)
    BY <1>12, <2>1, <2>2 DEF MembersApart
  <2> QED
    BY <2>1, <2>3
<1>16. Len(Payload(w)) = m /\ \A k \in 1 .. m : Payload(w)[k] = w[k + 2]
  BY <1>6, <1>7, <1>8, <1>15, PayloadIs
<1>17. b[i].varbind = given[i]
  BY <1>10, <1>13, <1>14, <1>16
<1> QED
  BY <1>9, <1>10, <1>11, <1>17

------------------------------------------------------------------------------
(* Partners.                                                                *)

\* an SNMPv2c message is read as what it was made of
LEMMA CommunityRead ==
    ASSUME NEW name \in Strings, NEW long \in BOOLEAN, NEW pdu, NEW tag, NEW id, PduOf(pdu, tag, id)
    PROVE  CommunityView(CommunityOctets(name, pdu, long)) = [name |-> name, pdu |-> pdu]
<1>1. PICK pc \in Strings : pdu = Tlv(tag, pc) /\ Encodes(pdu, tag, pc)
  BY DEF PduOf
<1>2. tag \in AnyPdu /\ tag # Tag.Integer
  BY PduTags DEF PduOf
<1> DEFINE o == CommunityOctets(name, pdu, long)
           s1 == IntegerTlv(1)
           s2 == OctetTlv(name)
           c == s1 \o s2 \o pdu
           r1 == Read(Tag.Integer, SignedContent(1), Len(s1) + 1)
           r2 == Read(Tag.OctetString, name, Len(s1) + Len(s2) + 1)
           r3 == Read(tag, pc, Len(s1) + Len(s2) + Len(pdu) + 1)
<1>3. o = Structure(c, long)
  BY DEF CommunityOctets
<1>4. Encodes(s1, Tag.Integer, SignedContent(1)) /\ Encodes(s2, Tag.OctetString, name)
  BY IntegerEncodes, OctetTlvIs
<1> HIDE DEF s1, s2
<1>5. Reads(c, <<r1, r2, r3>>)
  BY <1>1, <1>4, ReadsThree
<1> HIDE DEF c
<1>6. c \in Seq(Nat) /\ Tlvs(c) = <<r1, r2, r3>>
  BY <1>5, ReadsTlvs
<1>7. Encodes(o, SequenceTag, c)
  BY <1>3, <1>6, StructureEncodes
<1>8. Is(r1, IntTag) /\ ValueOf(r1).v = <<1>>
  BY IsInteger
<1>9. Is(r2, StrTag) /\ Is(r3, AnyPdu)
  <2>1. Tag.OctetString \in StrTag /\ Tag.OctetString # Tag.Integer
    BY TagNumbers DEF StrTag
  <2> QED
    BY <1>2, <2>1, IsOther
<1>10. r2.content = name /\ r3.content = pc /\ r3.tag = tag
  BY DEF Read
<1> HIDE DEF r1, r2, r3, o
<1>11. Parts(o) = <<r1, r2, r3>>
  BY <1>6, <1>7, InsideEncoded DEF Parts
<1>12. Are(<<r1, r2, r3>>, <<IntTag, StrTag, AnyPdu>>)
  <2>1. PICK S : S = {r1, r2, r3}
    OBVIOUS
  <2>2. r1 \in S /\ r2 \in S /\ r3 \in S
    BY <2>1
  <2> QED
    BY <1>8, <1>9, <2>2, AreThree
<1>13. <<r1, r2, r3>>[1] = r1 /\ <<r1, r2, r3>>[2] = r2 /\ <<r1, r2, r3>>[3] = r3
  OBVIOUS
<1> DEFINE ts == <<r1, r2, r3>>
<1> HIDE DEF ts
<1>14. /\ Parts(o) = ts /\ Are(ts, <<IntTag, StrTag, AnyPdu>>)
       /\ ts[1] = r1 /\ ts[2] = r2 /\ ts[3] = r3
  BY <1>11, <1>12, <1>13 DEF ts
<1>15. CommunityView(o) = [name |-> ts[2].content, pdu |-> Tlv(ts[3].tag, ts[3].content)]
  BY <1>8, <1>14 DEF CommunityView, CommunityViewOf
<1> QED
  BY <1>1, <1>10, <1>14, <1>15 DEF o

\* what a view of the whole datagram of m is
Opened(d, view, m) ==
    /\ view # NoView /\ view.name = m.name /\ view.engine = m.engine
    /\ view.flags % ReportableFlag = LevelFlags[m.level]
    /\ IsPrivate(view.flags) <=> m.level = "authPriv"
    /\ IsReportable(view.flags) <=> m.reportable
    /\ m.level # "noAuthNoPriv" => Verified(d, view, m.key)
    /\ ScopedView(IF m.level = "authPriv" THEN Decrypted(view) ELSE view.data)
         = [context |-> m.context, pdu |-> m.pdu]

\* an SNMPv3 message is read, verified and decrypted as what it was made of
LEMMA UsmOpened ==
    ASSUME NEW m, Message(m), NEW tag, NEW id, PduOf(m.pdu, tag, id)
    PROVE  Opened(UsmDatagram(m), UsmView(UsmDatagram(m).octets), m)
<1>1. PICK d : d = UsmDatagram(m)
  OBVIOUS
<1>2. PICK auth \in Strings : auth = AuthOf(m) /\ d.octets = UsmOctets(m, auth)
  BY <1>1, DatagramOf
<1>3. PICK view : view = UsmView(d.octets)
  OBVIOUS
<1>4. /\ view # NoView
      /\ view.flags = Flags(m.level, m.reportable)
      /\ view.engine = m.engine /\ view.name = m.name
      /\ view.auth = auth /\ view.priv = PrivOf(m) /\ view.data = DataOf(m)
      /\ \A other \in Strings : Len(auth) = Len(other) =>
           Framed(d.octets, auth, UsmOctets(m, other), other, view.authOffset)
  BY <1>2, <1>3, UsmRead
<1>5. m.level \in DOMAIN LevelFlags /\ m.reportable \in BOOLEAN
  BY DEF Message
<1>6. /\ view.flags % ReportableFlag = LevelFlags[m.level]
      /\ IsPrivate(view.flags) <=> m.level = "authPriv"
      /\ IsReportable(view.flags) <=> m.reportable
  BY <1>4, <1>5, FlagsType
<1>7. ASSUME m.level # "noAuthNoPriv" PROVE Verified(d, view, m.key)
  <2>1. d.key = m.key /\ d.over = UsmOctets(m, Zeros)
    BY <1>1, <1>7, DatagramOf
  <2>2. auth = Digest
    BY <1>2, <1>7 DEF AuthOf
  <2>3. Zeros \in Strings /\ Len(auth) = Len(Zeros)
    BY <2>2, ParametersType
  <2>4. Framed(d.octets, auth, UsmOctets(m, Zeros), Zeros, view.authOffset)
    BY <1>4, <2>3
  <2>5. Splice(d.octets, view.authOffset, Zeros) = UsmOctets(m, Zeros)
    BY <2>3, <2>4, SpliceFramed
  <2> QED
    BY <1>4, <2>1, <2>2, <2>5 DEF Verified
<1>8. ScopedView(IF m.level = "authPriv" THEN Decrypted(view) ELSE view.data)
        = [context |-> m.context, pdu |-> m.pdu]
  <2>1. ScopedView(ScopedPdu(m)) = [context |-> m.context, pdu |-> m.pdu]
    BY ScopedRead
  <2>2. CASE m.level = "authPriv"
    BY <1>4, <2>1, <2>2, DecryptedData
  <2>3. CASE m.level # "authPriv"
    BY <1>4, <2>1, <2>3 DEF DataOf
  <2> QED
    BY <2>2, <2>3
<1>9. Opened(d, view, m)
  BY <1>4, <1>6, <1>7, <1>8 DEF Opened
<1> QED
  BY <1>1, <1>3, <1>9

\* the varbinds of a call, and the notification or acknowledgement they are in
Plainly(p, tag, id, vbs) ==
    p = [tag |-> tag, id |-> id, status |-> 0, index |-> 0, varbinds |-> vbs]

LEMMA PduIsRead ==
    ASSUME NEW tag \in {PduTag.Trap, PduTag.Inform, PduTag.Response}, NEW id \in Int,
           NEW vbs, PlainVarbinds(vbs)
    PROVE  Plainly(Pdu(PduOctets(tag, id, 0, 0, vbs)), tag, id, vbs)
<1>1. tag \in Nat
  BY PduTags
<1>2. tag \in Range(PduTag)
  <2>1. PduTag.Trap \in Range(PduTag) /\ PduTag.Inform \in Range(PduTag)
        /\ PduTag.Response \in Range(PduTag)
    BY DEF Range, PduTag
  <2> QED
    BY <2>1
<1>3. 0 \in Int
  OBVIOUS
<1> QED
  BY <1>1, <1>2, <1>3, PduRoundTrip DEF Pdu, Plainly

LEMMA PlainNotification ==
    ASSUME NEW p, NEW tag \in {PduTag.Trap, PduTag.Inform}, NEW id, NEW vbs, Plainly(p, tag, id, vbs)
    PROVE  IsNotification(p) /\ p # NoPdu /\ p.tag = tag /\ p.id = id /\ p.varbinds = vbs
<1>1. p.tag = tag /\ p.id = id /\ p.varbinds = vbs
  BY DEF Plainly
<1>2. PduTag.Trap # 0 /\ PduTag.Inform # 0 /\ NoPdu.tag = 0
  BY PduTags, NoPduRead
<1> QED
  BY <1>1, <1>2 DEF IsNotification

\* a partner takes a notification for what it is
LEMMA PartnerTakes ==
    ASSUME notifier \in Notifiers, Partners,
           NEW tag \in {PduTag.Trap, PduTag.Inform}, NEW id \in Int,
           NEW content \in Contents, CanEncode(content),
           PlainVarbinds(NotificationVarbinds(content)),
           NEW peerEngine \in Engines \union {NoEngine}
    PROVE  \E context \in Strings :
              LET n == Wanted(Outbound(tag, id, content, peerEngine)) IN
              /\ n # Unwanted /\ n.name = notifier.name /\ n.context = context
              /\ Plainly(n.pdu, tag, id, NotificationVarbinds(content))
<1> DEFINE vbs == NotificationVarbinds(content)
           pdu == PduOctets(tag, id, 0, 0, vbs)
           authority == OutboundEngine(tag, peerEngine)
           d == Outbound(tag, id, content, peerEngine)
<1>1. CarriedVarbinds(vbs) /\ tag \in AnyPdu
  BY ContentCarried, PduTags
<1>2. PduOf(pdu, tag, id)
  BY <1>1, PduMade
<1>3. pdu \in Strings
  BY <1>2, PduRead
<1>4. authority \in Strings
  BY EngineType DEF OutboundEngine
<1>5. d = Wrapped(tag, authority, pdu)
  BY DEF Outbound
<1>6. PICK p : p = Pdu(pdu) /\ Plainly(p, tag, id, vbs)
  BY PduIsRead
<1> HIDE DEF pdu, authority, d, vbs
<1>7. IsNotification(p) /\ p # NoPdu /\ p.tag = tag
  BY <1>6, PlainNotification
<1>8. /\ notifier.name \in Strings /\ notifier.long \in BOOLEAN
      /\ listener.version = notifier.version /\ notifier.name \in listener.names
      /\ listener.key = notifier.key /\ listener.level = notifier.level
  BY NotifierType DEF Partners
<1>9. ASSUME NEW context \in Strings, Wanted(d) = Taken(notifier.name, context, p)
      PROVE  \E c \in Strings :
                /\ Wanted(d) # Unwanted /\ Wanted(d).name = notifier.name /\ Wanted(d).context = c
                /\ Plainly(Wanted(d).pdu, tag, id, vbs)
  <2>1. PICK n : n = Wanted(d) /\ n.name = notifier.name /\ n.context = context /\ n.pdu = p
    BY <1>9 DEF Taken
  <2>2. Unwanted.pdu = NoPdu
    BY DEF Unwanted
  <2> QED
    BY <1>6, <1>7, <2>1, <2>2
<1>10. CASE notifier.version = "v2c"
  <2>1. d.octets = CommunityOctets(notifier.name, pdu, notifier.long)
    BY <1>5, <1>10 DEF Wrapped, CommunityMessage, Datagram
  <2>2. CommunityView(d.octets) = [name |-> notifier.name, pdu |-> pdu]
    BY <1>2, <1>8, <2>1, CommunityRead
  <2>3. PICK view : view = CommunityView(d.octets) /\ view.name = notifier.name /\ view.pdu = pdu
    BY <2>2
  <2>4. Wanted(d) = CommunityTaken(view, p)
    BY <1>6, <1>8, <1>10, <2>3 DEF Wanted, CommunityNotification, CommunityNotificationIn
  <2>5. Wanted(d) = Taken(notifier.name, <<>>, p)
    BY <1>7, <1>8, <2>3, <2>4 DEF CommunityTaken
  <2> QED
    BY <1>9, <2>5, ParametersType DEF d, vbs
<1>11. CASE notifier.version # "v2c"
  <2> DEFINE m == [name |-> notifier.name, key |-> notifier.key, level |-> notifier.level,
                   reportable |-> tag = PduTag.Inform, engine |-> authority,
                   context |-> authority, pdu |-> pdu, long |-> notifier.long]
  <2>1. Message(m) /\ m.pdu = pdu /\ m.name = notifier.name /\ m.key = notifier.key
        /\ m.level = notifier.level /\ m.context = authority
        /\ (m.reportable <=> tag = PduTag.Inform)
    BY <1>3, <1>4, <1>8, <1>11, NotifierType DEF Message
  <2>2. d = UsmDatagram(m)
    BY <1>5, <1>11 DEF Wrapped, UsmMessage
  <2> HIDE DEF m
  <2>3. PICK view : view = UsmView(d.octets) /\ Opened(d, view, m)
    BY <1>2, <2>1, <2>2, UsmOpened
  <2>4. Wanted(d) = UsmNotificationIn(d, view)
    BY <1>8, <1>11, <2>3 DEF Wanted, UsmNotification
  <2>5. PICK s : /\ s = ScopedView(IF m.level = "authPriv" THEN Decrypted(view) ELSE view.data)
                 /\ s.context = authority /\ s.pdu = pdu
    <3>1. ScopedView(IF m.level = "authPriv" THEN Decrypted(view) ELSE view.data)
            = [context |-> authority, pdu |-> pdu]
      BY <2>1, <2>3 DEF Opened
    <3> QED
      BY <3>1
  <2>6. /\ view # NoView /\ view.name \in listener.names
        /\ LevelFits(view)
        /\ listener.level # "noAuthNoPriv" => Verified(d, view, listener.key)
    BY <1>8, <2>1, <2>3 DEF Opened, LevelFits
  <2>7. s = ScopedView(IF IsPrivate(view.flags) THEN Decrypted(view) ELSE view.data)
    BY <2>3, <2>5 DEF Opened
  <2>8. Wanted(d) = UsmTakenFrom(view, s)
    BY <2>4, <2>6, <2>7 DEF UsmNotificationIn
  <2>9. ReportableFits(view, p)
    BY <1>7, <2>1, <2>3 DEF Opened, ReportableFits
  <2>10. Wanted(d) = Taken(notifier.name, authority, p)
    BY <1>6, <1>7, <2>1, <2>3, <2>5, <2>8, <2>9 DEF UsmTakenFrom, UsmTaken, Opened
  <2> QED
    BY <1>4, <1>9, <2>10 DEF d, vbs
<1> QED
  BY <1>10, <1>11

\* and its acknowledgement is one to the notifier
LEMMA PartnerAnswers ==
    ASSUME listener \in Listeners, engine \in Engines, Partners,
           NEW n, NEW tag, n.name = notifier.name, n.context \in Strings,
           NEW id \in Int, NEW vbs, PlainVarbinds(vbs), CarriedVarbinds(vbs),
           Plainly(n.pdu, tag, id, vbs),
           pending.id = id, notifier.version = "v3" => peer = engine,
           notifier \in Notifiers
    PROVE  Answers(Ack(n))
<1> DEFINE pdu == AckPdu(n.pdu)
           d == Ack(n)
<1>1. n.pdu.id = id /\ n.pdu.varbinds = vbs
  BY DEF Plainly
<1>2. pdu = PduOctets(PduTag.Response, id, 0, 0, vbs)
  BY <1>1 DEF AckPdu
<1>3. PduOf(pdu, PduTag.Response, id)
  BY <1>2, PduTags, PduMade
<1>4. pdu \in Strings
  BY <1>3, PduRead
<1>5. PICK p : p = Pdu(pdu) /\ p.tag = PduTag.Response /\ p.id = id
  <2>1. Plainly(Pdu(pdu), PduTag.Response, id, vbs)
    BY <1>2, PduIsRead
  <2> QED
    BY <2>1 DEF Plainly
<1>6. IsAnswer(p)
  BY <1>5 DEF IsAnswer
<1>7. /\ notifier.name \in Strings
      /\ listener.version = notifier.version
      /\ listener.key = notifier.key /\ listener.level = notifier.level
  BY NotifierType DEF Partners
<1> HIDE DEF pdu, d
<1>8. CASE notifier.version = "v2c"
  <2>1. d.octets = CommunityOctets(notifier.name, pdu, FALSE)
    BY <1>7, <1>8 DEF Ack, CommunityMessage, Datagram, pdu, d
  <2>2. CommunityView(d.octets) = [name |-> notifier.name, pdu |-> pdu]
    <3>1. PICK long \in BOOLEAN : long = FALSE
      OBVIOUS
    <3> QED
      BY <1>3, <1>7, <2>1, <3>1, CommunityRead
  <2>3. CommunityUnwrap(d) = p
    BY <1>5, <2>2 DEF CommunityUnwrap, CommunityPdu
  <2> QED
    BY <1>6, <1>8, <2>3 DEF Answers, d
<1>9. CASE notifier.version # "v2c"
  <2> DEFINE m == [name |-> n.name, key |-> listener.key, level |-> listener.level,
                   reportable |-> FALSE, engine |-> engine, context |-> n.context,
                   pdu |-> pdu, long |-> FALSE]
  <2>1. Message(m) /\ m.pdu = pdu /\ m.name = notifier.name /\ m.key = notifier.key
        /\ m.level = notifier.level /\ m.engine = engine
    BY <1>4, <1>7, <1>9, ListenerType, EngineType DEF Message
  <2>2. d = UsmDatagram(m)
    BY <1>7, <1>9 DEF Ack, UsmMessage, pdu, d
  <2> HIDE DEF m
  <2>3. PICK view : view = UsmView(d.octets) /\ Opened(d, view, m)
    BY <1>3, <2>1, <2>2, UsmOpened
  <2>4. peer = engine
    BY <1>9, NotificationAssumption
  <2>5. ScopedView(IF notifier.level = "authPriv" THEN Decrypted(view) ELSE view.data).pdu = pdu
    <3>1. ScopedView(IF notifier.level = "authPriv" THEN Decrypted(view) ELSE view.data)
            = [context |-> m.context, pdu |-> pdu]
      BY <2>1, <2>3 DEF Opened
    <3> QED
      BY <3>1
  <2>6. /\ view # NoView /\ view.name = notifier.name
        /\ peer # NoEngine => view.engine = peer
        /\ notifier.level # "noAuthNoPriv" => Verified(d, view, notifier.key)
    BY <2>1, <2>3, <2>4 DEF Opened
  <2>7. UsmUnwrap(d) = p
    BY <1>5, <2>3, <2>5, <2>6 DEF UsmUnwrap, UsmPdu
  <2> QED
    BY <1>6, <1>9, <2>7 DEF Answers, d
<1> QED
  BY <1>8, <1>9

LEMMA ToldPartners == NaturalArcs /\ SInv => PartnersUnderstand
<1> SUFFICES ASSUME NaturalArcs, SInv PROVE PartnersUnderstand
  OBVIOUS
<1> SUFFICES ASSUME Partners, NEW d \in toListener PROVE Understood(d, Wanted(d))
  BY DEF PartnersUnderstand
<1>0. ASSUME d = Probe PROVE Understood(d, Wanted(d))
  <2>1. notifier \in Notifiers /\ Waits
    BY DEF SInv, IInv
  <2>2. Wanted(d) = Unwanted
    BY <1>0, <2>1, ProbeIsPassedOver DEF PartOf
  <2>3. Wanted(d).pdu.id = 0
    BY <2>2 DEF Unwanted, NoPdu
  <2>4. pending.phase = "waiting" => pending.id # 0
    BY <2>1 DEF Waits, NoInform
  <2> QED
    BY <1>0, <2>3, <2>4 DEF Understood
<1> SUFFICES ASSUME d # Probe PROVE Understood(d, Wanted(d))
  BY <1>0
<1>1. /\ Sent(d) /\ notifier \in Notifiers /\ listener \in Listeners /\ engine \in Engines
      /\ calls \in Seq(Prepared)
  BY DEF SInv, IInv
<1>2. PICK id \in DOMAIN calls : \E peerEngine \in Engines \union {NoEngine} :
        /\ CanEncode(calls[id].content)
        /\ d = Outbound(calls[id].tag, id, calls[id].content, peerEngine)
  BY <1>1 DEF Sent
<1>3. PICK tag \in {PduTag.Trap, PduTag.Inform}, content \in Contents :
        tag = calls[id].tag /\ content = calls[id].content
  BY <1>1, CallType
<1>4. PICK peerEngine \in Engines \union {NoEngine} :
        CanEncode(content) /\ d = Outbound(tag, id, content, peerEngine)
  BY <1>2, <1>3
<1>5. id \in Int
  BY <1>1, CallType
<1>6. PICK vbs : vbs = NotificationVarbinds(content) /\ PlainVarbinds(vbs) /\ CarriedVarbinds(vbs)
  BY <1>4, PlainContent, ContentCarried
<1>7. \E context \in Strings :
         /\ Wanted(d) # Unwanted /\ Wanted(d).name = notifier.name /\ Wanted(d).context = context
         /\ Plainly(Wanted(d).pdu, tag, id, vbs)
  BY <1>1, <1>4, <1>5, <1>6, PartnerTakes
<1>8. PICK n : /\ n = Wanted(d) /\ n # Unwanted /\ n.name = notifier.name /\ n.context \in Strings
               /\ Plainly(n.pdu, tag, id, vbs)
  BY <1>7
<1>9. ASSUME pending.phase = "waiting", n.pdu.id = pending.id, notifier.version = "v3" => peer = engine
      PROVE  Answers(Ack(n))
  <2>1. pending.id = id
    BY <1>8, <1>9 DEF Plainly
  <2> QED
    BY <1>1, <1>5, <1>6, <1>8, <1>9, <2>1, PartnerAnswers
<1> QED
  BY <1>8, <1>9 DEF Understood

------------------------------------------------------------------------------
\* The variables of Notification keep their types.
THEOREM NotificationTypes == Spec => []TypeOK
BY Initially, Inductive, Implied, PTL DEF Spec

\* send_inform returns a Response only for an inform the listener has handed
\* to its application, for any notifications, engines and number of calls and
\* whatever the network repeats, reorders, loses or cuts short.
THEOREM OnlyDeliveredInformsReturn == Spec => []AckedWasDelivered
BY Initially, Inductive, Implied, PTL DEF Spec

\* what IInv adds to the types is kept along every behaviour
LEMMA ToldThroughout == ASSUME NaturalArcs PROVE Spec => []SInv
<1>1. Init => SInv
  BY ToldInitially
<1>2. SInv /\ [Next]_vars => SInv'
  BY ToldStep
<1> QED
  BY <1>1, <1>2, PTL DEF Spec

\* Every event the listener hands to its application tells what the sender was
\* told to send: the notification and uptime given, or the last explicit
\* varbinds that override them, and every other varbind in order, unchanged by
\* the encoding, whatever the network does.  NaturalArcs: no value is an OID
\* with a negative arc, which _encode_oid lets through as the second one.
THEOREM EventsTellWhatWasSent == ASSUME NaturalArcs PROVE Spec => []EventsAsSent
<1>1. SInv => EventsAsSent
  BY ToldAsSent
<1> QED
  BY <1>1, ToldThroughout, PTL

\* When the sender gives exactly the members the bundle declares, in order, the
\* event pairs each with its own varbind.  MembersApart: no declared member
\* names the uptime or the notification, whose varbinds are not paired.
THEOREM CompleteNotificationsArePaired ==
    ASSUME NaturalArcs, MembersApart PROVE Spec => []CompleteBindings
<1>1. SInv => CompleteBindings
  BY ToldComplete
<1> QED
  BY <1>1, ToldThroughout, PTL

\* A listener set up for its notifier takes every datagram of it for what it
\* is, in either version, at every level and with lengths written long or short;
\* and the notifier takes the acknowledgement of the inform it waits for as one
\* while the listener keeps its engine.
THEOREM PartnersUnderstandEachOther == ASSUME NaturalArcs PROVE Spec => []PartnersUnderstand
<1>1. SInv => PartnersUnderstand
  BY ToldPartners
<1> QED
  BY <1>1, ToldThroughout, PTL
==============================================================================
