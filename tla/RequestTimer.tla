---------------------------- MODULE RequestTimer ----------------------------
(***************************************************************************)
(* How long one call of RequestDispatcher takes: the retry loops of        *)
(* send_prepared_request and send_raw_and_receive around UdpClient.receive,*)
(* whose wait_for starts a new timer each time it is entered.  Time passes *)
(* in ticks while the call waits; nothing else takes time.                 *)
(***************************************************************************)
EXTENDS Integers

CONSTANTS
    Timeout,      \* ticks in RequestDispatcher._timeout
    Retries,      \* RequestDispatcher._retries
    MaxIgnored    \* bound: datagrams that are not for the request

ASSUME TimerAssumption ==
    /\ Timeout \in Nat \ {0}
    /\ Retries \in Nat
    /\ MaxIgnored \in Nat

VARIABLES
    state,     \* "idle", "waiting", and how the last call ended
    kind,      \* "request": send_prepared_request, "probe": send_raw_and_receive
    attempt,   \* transmissions that have timed out
    timer,     \* ticks left to the timer of this wait_for
    elapsed,   \* ticks since the call began
    ignored    \* datagrams it has passed over

vars == <<state, kind, attempt, timer, elapsed, ignored>>

Init ==
    /\ state = "idle"
    /\ kind = "request"
    /\ attempt = 0 /\ timer = 0 /\ elapsed = 0 /\ ignored = 0

\* the first transmission, and receive()
Call(k) ==
    /\ state # "waiting"
    /\ state' = "waiting"
    /\ kind' = k
    /\ attempt' = 0 /\ timer' = Timeout /\ elapsed' = 0 /\ ignored' = 0

Tick ==
    /\ state = "waiting"
    /\ timer > 0
    /\ timer' = timer - 1
    /\ elapsed' = elapsed + 1
    /\ UNCHANGED <<state, kind, attempt, ignored>>

\* _receive_matching_response: not for this request, receive() again
Ignore ==
    /\ state = "waiting"
    /\ kind = "request"
    /\ ignored < MaxIgnored
    /\ ignored' = ignored + 1
    /\ timer' = Timeout
    /\ UNCHANGED <<state, kind, attempt, elapsed>>

\* the response, or for a probe the first datagram; or an error
Finish(how) ==
    /\ state = "waiting"
    /\ state' = how
    /\ UNCHANGED <<kind, attempt, timer, elapsed, ignored>>

\* mutants: a turn too many, a turn too few
RetryOnceMore == attempt <= Retries
RetryOnceLess == attempt + 1 < Retries

\* the loop over range(retries + 1) has another turn
MayRetry == attempt < Retries

\* the timer fires: transmit again, or raise the last RequestTimeoutError
Expire ==
    /\ state = "waiting"
    /\ timer = 0
    /\ attempt' = attempt + 1
    /\ IF MayRetry
       THEN timer' = Timeout /\ UNCHANGED state
       ELSE state' = "expired" /\ UNCHANGED timer
    /\ UNCHANGED <<kind, elapsed, ignored>>

Next ==
    \/ Call("request") \/ Call("probe")
    \/ Tick \/ Ignore \/ Expire
    \/ Finish("answered") \/ Finish("raised")

Spec == Init /\ [][Next]_vars

------------------------------------------------------------------------------
\* The values the counters take: no more than Retries + 1 transmissions.
TypeOK ==
    /\ state \in {"idle", "waiting", "answered", "raised", "expired"}
    /\ kind \in {"request", "probe"}
    /\ attempt \in 0 .. Retries + 1
    /\ timer \in 0 .. Timeout
    /\ elapsed \in Nat
    /\ ignored \in Nat

\* A call lasts at most one timeout per transmission and one more per
\* datagram it passed over; a discovery probe passes over none.
ElapsedBounded ==
    /\ elapsed <= (Retries + 1 + ignored) * Timeout
    /\ kind = "probe" => elapsed <= (Retries + 1) * Timeout

\* A call never gives up early: RequestTimeoutError is raised only after a
\* whole timeout for each of the Retries + 1 transmissions.
NoEarlyTimeout == state = "expired" => elapsed >= (Retries + 1) * Timeout

\* "Per-request timeout in seconds" (docs/python-api.md), with retries: a
\* request is over after Retries + 1 timeouts.
PerRequestTimeout == kind = "request" => elapsed <= (Retries + 1) * Timeout
==============================================================================
