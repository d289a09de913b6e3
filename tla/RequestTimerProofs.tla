------------------------- MODULE RequestTimerProofs -------------------------
(* The bounds on the length of a call, for every timeout and retry count.   *)
EXTENDS RequestTimer, TLAPS

\* While a call waits, each transmission that timed out has cost exactly one
\* timeout, each datagram passed over at most one, and the current wait what
\* its timer has run.
Accounted ==
    /\ state = "waiting" =>
         /\ attempt <= Retries
         /\ elapsed >= attempt * Timeout + (Timeout - timer)
         /\ elapsed <= (attempt + ignored) * Timeout + (Timeout - timer)
    /\ kind = "probe" => ignored = 0

TimerInv == TypeOK /\ Accounted /\ ElapsedBounded /\ NoEarlyTimeout

\* the timeouts of n + 1 waits are those of n waits and one more
LEMMA OneMore ==
    ASSUME NEW n \in Nat
    PROVE  /\ (n + 1) * Timeout = n * Timeout + Timeout
           /\ n * Timeout \in Nat
  BY TimerAssumption

\* more waits do not cost less
LEMMA Monotone ==
    ASSUME NEW m \in Nat, NEW n \in Nat, m <= n
    PROVE  m * Timeout <= n * Timeout
<1>1. PICK k \in Nat : n = m + k
  <2>1. n - m \in Nat /\ n = m + (n - m)
    OBVIOUS
  <2> QED
    BY <2>1
<1>2. (m + k) * Timeout = m * Timeout + k * Timeout
  BY TimerAssumption
<1>3. k * Timeout \in Nat /\ m * Timeout \in Nat
  BY TimerAssumption
<1> QED
  BY <1>1, <1>2, <1>3

LEMMA TimerInit == Init => TimerInv
  BY TimerAssumption
     DEF Init, TimerInv, TypeOK, Accounted, ElapsedBounded, NoEarlyTimeout

\* what Accounted says of a waiting call keeps it within ElapsedBounded
LEMMA WithinBound ==
    ASSUME NEW a \in Nat, a <= Retries, NEW i \in Nat, NEW r \in 0 .. Timeout,
           NEW e \in Nat, e <= (a + i) * Timeout + (Timeout - r)
    PROVE  e <= (Retries + 1 + i) * Timeout
<1>1. (a + i + 1) * Timeout = (a + i) * Timeout + Timeout
  BY OneMore
<1>2. (a + i + 1) * Timeout <= (Retries + 1 + i) * Timeout
  <2>1. a + i + 1 \in Nat /\ Retries + 1 + i \in Nat /\ a + i + 1 <= Retries + 1 + i
    BY TimerAssumption
  <2> QED
    BY <2>1, Monotone
<1>3. /\ (a + i) * Timeout \in Nat /\ (Retries + 1 + i) * Timeout \in Nat
      /\ (a + i + 1) * Timeout \in Nat
  BY TimerAssumption
<1> QED
  BY <1>1, <1>2, <1>3, TimerAssumption

LEMMA TimerStep == TimerInv /\ [Next]_vars => TimerInv'
<1> SUFFICES ASSUME TimerInv, [Next]_vars PROVE TimerInv'
  OBVIOUS
<1> USE TimerAssumption
<1>a. TypeOK /\ Accounted /\ ElapsedBounded /\ NoEarlyTimeout
  BY DEF TimerInv
<1>b. state = "waiting" => attempt <= Retries
  BY <1>a DEF Accounted
<1>1. TypeOK'
  <2>1. /\ attempt \in Nat /\ timer \in 0 .. Timeout /\ elapsed \in Nat /\ ignored \in Nat
        /\ attempt <= Retries + 1
    BY <1>a DEF TypeOK
  <2>2. CASE Call("request") \/ Call("probe")
    BY <2>2 DEF Call, TypeOK
  <2>3. CASE Tick
    BY <1>a, <2>1, <2>3 DEF Tick, TypeOK
  <2>4. CASE Ignore
    BY <1>a, <2>1, <2>4 DEF Ignore, TypeOK
  <2>5. CASE Expire
    BY <1>a, <1>b, <2>1, <2>5 DEF Expire, MayRetry, TypeOK
  <2>6. CASE Finish("answered") \/ Finish("raised")
    BY <1>a, <2>6 DEF Finish, TypeOK
  <2>7. CASE UNCHANGED vars
    BY <1>a, <2>7 DEF vars, TypeOK
  <2> QED
    BY <2>2, <2>3, <2>4, <2>5, <2>6, <2>7 DEF Next
<1>2. /\ attempt \in Nat /\ ignored \in Nat /\ timer \in 0 .. Timeout /\ elapsed \in Nat
      /\ attempt' \in Nat /\ ignored' \in Nat /\ timer' \in 0 .. Timeout /\ elapsed' \in Nat
  BY <1>a, <1>1 DEF TypeOK
<1>3. ASSUME state' = "waiting", Accounted' PROVE ElapsedBounded' /\ NoEarlyTimeout'
  <2>1. elapsed' <= (Retries + 1 + ignored') * Timeout
    BY <1>2, <1>3, WithinBound DEF Accounted
  <2>2. kind' = "probe" => Retries + 1 + ignored' = Retries + 1
    BY <1>2, <1>3 DEF Accounted
  <2> QED
    BY <1>3, <2>1, <2>2 DEF ElapsedBounded, NoEarlyTimeout
<1>4. ASSUME NEW k \in {"request", "probe"}, Call(k) PROVE TimerInv'
  <2>1. Accounted'
    BY <1>4 DEF Call, Accounted
  <2> QED
    BY <1>1, <1>3, <1>4, <2>1 DEF Call, TimerInv
<1>5. CASE Tick
  <2>1. Accounted'
    BY <1>a, <1>2, <1>5 DEF Tick, Accounted
  <2> QED
    BY <1>1, <1>3, <1>5, <2>1 DEF Tick, TimerInv
<1>6. CASE Ignore
  <2>1. (attempt + ignored + 1) * Timeout = (attempt + ignored) * Timeout + Timeout
    BY <1>2, OneMore
  <2>2. (attempt + ignored) * Timeout \in Nat /\ attempt * Timeout \in Nat
    BY <1>2
  <2>3. attempt + (ignored + 1) = attempt + ignored + 1
    BY <1>2
  <2>4. Accounted'
    BY <1>a, <1>2, <1>6, <2>1, <2>2, <2>3 DEF Ignore, Accounted
  <2> QED
    BY <1>1, <1>3, <1>6, <2>4 DEF Ignore, TimerInv
<1>7. ASSUME NEW how \in {"answered", "raised"}, Finish(how) PROVE TimerInv'
  BY <1>a, <1>1, <1>7 DEF Finish, Accounted, ElapsedBounded, NoEarlyTimeout, TimerInv
<1>8. CASE Expire
  <2>1. /\ (attempt + 1) * Timeout = attempt * Timeout + Timeout
        /\ attempt * Timeout \in Nat
    BY <1>2, OneMore
  <2>2. CASE attempt < Retries
    <3>1. (attempt + ignored + 1) * Timeout = (attempt + ignored) * Timeout + Timeout
      BY <1>2, OneMore
    <3>2. attempt + 1 + ignored = attempt + ignored + 1
      BY <1>2
    <3>3. (attempt + ignored) * Timeout \in Nat
      BY <1>2
    <3>4. Accounted'
      BY <1>a, <1>2, <1>8, <2>1, <2>2, <3>1, <3>2, <3>3 DEF Expire, MayRetry, Accounted
    <3> QED
      BY <1>1, <1>3, <1>8, <2>2, <3>4 DEF Expire, MayRetry, TimerInv
  <2>3. CASE ~(attempt < Retries)
    <3>1. attempt = Retries
      BY <1>b, <1>2, <1>8, <2>3 DEF Expire, MayRetry
    <3>2. /\ state' = "expired"
          /\ UNCHANGED <<kind, elapsed, ignored>>
      BY <1>8, <2>3 DEF Expire, MayRetry
    <3>3. elapsed >= attempt * Timeout + (Timeout - 0)
      BY <1>a, <1>8 DEF Expire, MayRetry, Accounted
    <3>4. NoEarlyTimeout'
      <4>1. (Retries + 1) * Timeout = attempt * Timeout + Timeout
        BY <2>1, <3>1
      <4> QED
        BY <1>2, <2>1, <3>2, <3>3, <4>1 DEF NoEarlyTimeout
    <3> QED
      BY <1>a, <1>1, <3>2, <3>4 DEF Accounted, ElapsedBounded, TimerInv
  <2> QED
    BY <2>2, <2>3
<1>9. CASE UNCHANGED vars
  BY <1>a, <1>1, <1>9 DEF vars, Accounted, ElapsedBounded, NoEarlyTimeout, TimerInv
<1> QED
  BY <1>4, <1>5, <1>6, <1>7, <1>8, <1>9 DEF Next

\* Whatever the timeout and the retries, a call ends within one timeout per
\* transmission plus one per datagram it passed over, and reports a timeout
\* no earlier than one per transmission (dispatcher.py).
THEOREM CallDuration == Spec => [](ElapsedBounded /\ NoEarlyTimeout)
<1>1. TimerInv => ElapsedBounded /\ NoEarlyTimeout
  BY DEF TimerInv
<1> QED
  BY TimerInit, TimerStep, <1>1, PTL DEF Spec

\* The clock, the timer and the counts keep their types: the timer never
\* runs past zero and no call transmits more than Retries + 1 times.
THEOREM TimerTypes == Spec => []TypeOK
<1>1. TimerInv => TypeOK
  BY DEF TimerInv
<1> QED
  BY TimerInit, TimerStep, <1>1, PTL DEF Spec

\* A caller is told of a timeout only when Retries + 1 whole timeouts have
\* gone by (dispatcher.py: RequestTimeoutError).
THEOREM TimeoutsAreWhole == Spec => []NoEarlyTimeout
  BY CallDuration, PTL
=============================================================================
