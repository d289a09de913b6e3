------------------------------- MODULE Session -------------------------------
(***************************************************************************)
(* One SnmpSession (session.py) shared by several asyncio tasks: the       *)
(* UdpClient, the RequestDispatcher, the asyncio.Lock and the USM          *)
(* discovery hook behind V2cManager, V3Manager, V2cNotifier and V3Notifier.*)
(*                                                                         *)
(* A step is what a task runs between two points at which it really        *)
(* suspends: the address lookup of UdpClient.open, the wait for the lock,  *)
(* and the wait for a datagram.  Sending and connecting a UDP socket do    *)
(* not suspend.  Any suspended task may be cancelled.                      *)
(***************************************************************************)
EXTENDS Integers, Sequences, SequencesExt

CONSTANTS
    Tasks,            \* the tasks that share the session
    Owners,           \* those that also open and close it
    Retries,          \* RequestDispatcher._retries
    PrepareOnOpen,    \* open() runs UsmModel.prepare()
    PrepareOnUse,     \* the first inform runs UsmModel.prepare() (V3Notifier)
    NoTask,           \* not a task: nobody
    MaxCalls,         \* bound: API calls one task makes
    MaxDatagrams      \* bound: datagrams the peer gets through to us

ASSUME SessionAssumption ==
    /\ Owners \subseteq Tasks
    /\ NoTask \notin Tasks
    /\ Retries \in Nat
    /\ PrepareOnOpen \in BOOLEAN
    /\ PrepareOnUse \in BOOLEAN
    /\ MaxCalls \in Nat
    /\ MaxDatagrams \in Nat

NoSocket == 0
ProbeId == 0          \* what a discovery probe is filed under in sent

VARIABLES
    opened,     \* SnmpSession._opened
    socket,     \* UdpClient._socket: NoSocket or the number of a socket
    created,    \* sockets made so far, numbered 1 .. created
    live,       \* the sockets that have not been closed
    engine,     \* UsmModel.peer_engine_discovered
    lock,       \* the task that holds SnmpSession._lock, or NoTask
    waiters,    \* asyncio.Lock._waiters
    issuer,     \* who prepared request 1, 2, ...; count(1) is at its length + 1
    pc,         \* where each task is suspended
    call,       \* the API call it makes: "request" or "trap"
    reqId,      \* PreparedRequest.request_id of its request
    attempt,    \* retransmissions it has made in the current retry loop
    rsock,      \* the socket it is waiting on
    inbox,      \* the datagram its sock_recv has finished with, or Nothing
    sent,       \* <<socket, id>> of every message that went out and may be answered
    answered,   \* <<task, id>> of every response returned to a caller
    calls,      \* API calls each task has made
    arrived     \* datagrams that came in

client  == <<opened, socket, created, live, engine>>
mutex   == <<lock, waiters>>
local   == <<pc, call, reqId, attempt, rsock>>
history == <<sent, answered, issuer>>
budget  == <<calls, arrived>>
vars    == <<client, mutex, local, inbox, history, budget>>

Waiting == {"probing", "discovering", "receiving"}
Holding == {"discovering", "receiving"}

Nothing  == [type |-> "nothing",  id |-> 0]   \* no datagram yet
Foreign  == [type |-> "foreign",  id |-> 0]   \* unwrap_message returns None
Bad      == [type |-> "bad",      id |-> 0]   \* unwrap_message raises, or no RESPONSE
Report   == [type |-> "report",   id |-> 0]   \* answers a discovery probe
Reply(n) == [type |-> "response", id |-> n]

Datagram == [type : {"nothing", "foreign", "bad", "report", "response"}, id : Nat]

Init ==
    /\ opened = FALSE /\ socket = NoSocket /\ created = 0 /\ live = {}
    /\ engine = FALSE
    /\ lock = NoTask /\ waiters = <<>>
    /\ issuer = <<>> /\ sent = {} /\ answered = {}
    /\ pc = [t \in Tasks |-> "idle"]
    /\ call = [t \in Tasks |-> "request"]
    /\ reqId = [t \in Tasks |-> 0]
    /\ attempt = [t \in Tasks |-> 0]
    /\ rsock = [t \in Tasks |-> NoSocket]
    /\ inbox = [t \in Tasks |-> Nothing]
    /\ calls = [t \in Tasks |-> 0]
    /\ arrived = 0

StartCall(t) ==
    /\ pc[t] = "idle"
    /\ calls[t] < MaxCalls
    /\ calls' = [calls EXCEPT ![t] = @ + 1]
    /\ UNCHANGED arrived

------------------------------------------------------------------------------
(* Steps shared by several handlers.                                        *)

\* mutant: close() drops the socket without closing it
ForgetClient == socket' = NoSocket /\ UNCHANGED <<live, created, engine>>

\* UdpClient.close: nothing to do when _socket is None
CloseClient ==
    /\ socket' = NoSocket
    /\ live' = live \ {socket}
    /\ UNCHANGED <<created, engine>>

\* _client.send puts message n on the current socket and the task waits there
Transmit(t, n, where, k) ==
    /\ socket # NoSocket
    /\ sent' = sent \union {<<socket, n>>}
    /\ pc' = [pc EXCEPT ![t] = where]
    /\ rsock' = [rsock EXCEPT ![t] = socket]
    /\ attempt' = [attempt EXCEPT ![t] = k]
    /\ inbox' = [inbox EXCEPT ![t] = Nothing]

\* mutant: the lock is released on the normal path only
LockKept(t) == lock

\* "async with lock" releases the lock on the way out
LockAfter(t) == IF pc[t] \in Holding THEN NoTask ELSE lock

\* an exception leaves the awaiting call; open() closes the client
Raise(t) ==
    /\ pc' = [pc EXCEPT ![t] = "idle"]
    /\ inbox' = [inbox EXCEPT ![t] = Nothing]
    /\ lock' = LockAfter(t)
    /\ IF pc[t] = "probing"
       THEN CloseClient /\ UNCHANGED opened
       ELSE UNCHANGED client
    /\ UNCHANGED <<waiters, call, reqId, attempt, rsock, history, budget>>

\* prepare_request takes the next id, then the message is sent or send raises;
\* a trap is over once sent
Issue(t, k) ==
    LET n == Len(issuer) + 1 IN
    /\ issuer' = Append(issuer, t)
    /\ reqId' = [reqId EXCEPT ![t] = n]
    /\ call' = [call EXCEPT ![t] = k]
    /\ UNCHANGED answered
    /\ \/ /\ k = "request"
          /\ Transmit(t, n, "receiving", 0)
          /\ lock' = t
       \/ /\ pc' = [pc EXCEPT ![t] = "idle"]
          /\ inbox' = [inbox EXCEPT ![t] = Nothing]
          /\ lock' = NoTask
          /\ UNCHANGED <<rsock, attempt, sent>>

\* UsmModel.prepare under the lock: the probe is sent or send raises
StartDiscovery(t, k) ==
    /\ call' = [call EXCEPT ![t] = k]
    /\ UNCHANGED <<issuer, reqId, answered>>
    /\ \/ /\ Transmit(t, ProbeId, "discovering", 0)
          /\ lock' = t
       \/ /\ pc' = [pc EXCEPT ![t] = "idle"]
          /\ lock' = NoTask
          /\ UNCHANGED <<rsock, attempt, sent, inbox>>

\* the body of "async with self._session.lock"
RunLocked(t, k) ==
    IF k = "request" /\ PrepareOnUse /\ ~engine
    THEN StartDiscovery(t, k)
    ELSE Issue(t, k)

------------------------------------------------------------------------------
(* SnmpSession.open, close and UsmModel.prepare                             *)

\* the session is open
Opened(t, s) ==
    /\ opened' = TRUE
    /\ pc' = [pc EXCEPT ![t] = "idle"]
    /\ socket' = s
    /\ UNCHANGED <<rsock, attempt, sent>>

\* open() past UdpClient.open: prepare() if the security model has it
StartPrepare(t, s) ==
    IF ~PrepareOnOpen
    THEN Opened(t, s)
    ELSE \/ /\ pc' = [pc EXCEPT ![t] = "probing"]
            /\ rsock' = [rsock EXCEPT ![t] = s]
            /\ attempt' = [attempt EXCEPT ![t] = 0]
            /\ sent' = sent \union {<<s, ProbeId>>}
            /\ socket' = s
            /\ UNCHANGED opened
         \/ /\ pc' = [pc EXCEPT ![t] = "idle"]        \* the probe cannot be sent
            /\ socket' = NoSocket
            /\ UNCHANGED <<opened, rsock, attempt, sent>>

\* open(): a no-op on an open session, straight to prepare() when the
\* client has a socket, otherwise the address lookup suspends the task
OpenCall(t) ==
    /\ t \in Owners
    /\ StartCall(t)
    /\ UNCHANGED <<mutex, call, reqId, inbox, answered, issuer, created, engine>>
    /\ \/ /\ opened
          /\ UNCHANGED <<opened, socket, live, pc, rsock, attempt, sent>>
       \/ /\ ~opened /\ socket # NoSocket
          /\ StartPrepare(t, socket)
          /\ live' = IF socket' = NoSocket THEN live \ {socket} ELSE live
       \/ /\ ~opened /\ socket = NoSocket
          /\ pc' = [pc EXCEPT ![t] = "resolving"]
          /\ UNCHANGED <<opened, socket, live, rsock, attempt, sent>>

\* the lookup is done: a socket is made, connected and stored, whatever
\* happened to _socket in the meantime
OpenResolved(t) ==
    /\ pc[t] = "resolving"
    /\ created' = created + 1
    /\ StartPrepare(t, created')
    /\ live' = IF socket' = NoSocket THEN live ELSE live \union {created'}
    /\ UNCHANGED <<engine, mutex, call, reqId, inbox, answered, issuer, budget>>

\* lookup, socket() or connect() fails
OpenFails(t) ==
    /\ pc[t] = "resolving"
    /\ Raise(t)

CloseCall(t) ==
    /\ t \in Owners
    /\ StartCall(t)
    /\ opened' = FALSE
    /\ CloseClient
    /\ UNCHANGED <<mutex, local, inbox, history>>

\* prepare() gets its first datagram: a REPORT tells it the peer engine
ProbeAnswered(t) ==
    /\ pc[t] \in {"probing", "discovering"}
    /\ inbox[t] = Report
    /\ engine' = TRUE
    /\ UNCHANGED <<socket, created, live, waiters, budget>>
    /\ \/ /\ pc[t] = "probing"
          /\ opened' = TRUE
          /\ pc' = [pc EXCEPT ![t] = "idle"]
          /\ inbox' = [inbox EXCEPT ![t] = Nothing]
          /\ UNCHANGED <<lock, call, reqId, attempt, rsock, history>>
       \/ /\ pc[t] = "discovering"
          /\ Issue(t, call[t])
          /\ UNCHANGED opened

\* anything else it gets first is an error
ProbeRejected(t) ==
    /\ pc[t] \in {"probing", "discovering"}
    /\ inbox[t] \notin {Nothing, Report}
    /\ Raise(t)

------------------------------------------------------------------------------
(* get, get_next, get_bulk, send_inform and send_trap                       *)

\* mutant: requests do not take the lock
NoLock == TRUE

\* Lock.acquire succeeds at once only when nobody holds or awaits the lock
LockFree == lock = NoTask /\ waiters = <<>>

RequestCall(t, k) ==
    /\ StartCall(t)
    /\ k = "trap" => ~PrepareOnOpen     \* a V3Notifier traps with a local engine
    /\ UNCHANGED client
    /\ \/ /\ LockFree
          /\ RunLocked(t, k)
          /\ UNCHANGED waiters
       \/ /\ ~LockFree
          /\ waiters' = Append(waiters, t)
          /\ pc' = [pc EXCEPT ![t] = "queued"]
          /\ call' = [call EXCEPT ![t] = k]
          /\ UNCHANGED <<lock, reqId, attempt, rsock, inbox, history>>

\* release() woke the first waiter
LockGranted(t) ==
    /\ pc[t] = "queued"
    /\ lock = NoTask
    /\ waiters # <<>> /\ Head(waiters) = t
    /\ waiters' = Tail(waiters)
    /\ RunLocked(t, call[t])
    /\ UNCHANGED <<client, budget>>

\* what the peer can put on socket s: an answer to anything sent from it,
\* late, repeated or out of order, and datagrams that are none of ours
InFlight(s) ==
    {Foreign, Bad}
    \union {Reply(m[2]) : m \in {x \in sent : x[1] = s /\ x[2] # ProbeId}}
    \union (IF <<s, ProbeId>> \in sent THEN {Report} ELSE {})

\* sock_recv gets a datagram; the task itself runs later
Arrive(t) ==
    /\ pc[t] \in Waiting
    /\ inbox[t] = Nothing
    /\ rsock[t] \in live
    /\ arrived < MaxDatagrams
    /\ arrived' = arrived + 1
    /\ \E d \in InFlight(rsock[t]) : inbox' = [inbox EXCEPT ![t] = d]
    /\ UNCHANGED <<client, mutex, local, history, calls>>

\* mutant: any response will do
AnyResponse(t) == inbox[t].type = "response"

\* a response with the id of the request
Matches(t) == inbox[t] = Reply(reqId[t])

\* it goes to the caller
Answer(t) ==
    /\ pc[t] = "receiving"
    /\ Matches(t)
    /\ answered' = answered \union {<<t, inbox[t].id>>}
    /\ pc' = [pc EXCEPT ![t] = "idle"]
    /\ inbox' = [inbox EXCEPT ![t] = Nothing]
    /\ lock' = NoTask
    /\ UNCHANGED <<client, waiters, call, reqId, attempt, rsock, sent, issuer, budget>>

\* a datagram that is not for this request: receive() again, on the socket
\* the client has now, with the whole timeout
Ignore(t) ==
    /\ pc[t] = "receiving"
    /\ inbox[t] \notin {Nothing, Bad}
    /\ ~Matches(t)
    /\ \/ /\ socket # NoSocket
          /\ rsock' = [rsock EXCEPT ![t] = socket]
          /\ inbox' = [inbox EXCEPT ![t] = Nothing]
          /\ UNCHANGED <<client, mutex, pc, call, reqId, attempt, history, budget>>
       \/ /\ socket = NoSocket
          /\ Raise(t)

Reject(t) ==
    /\ pc[t] = "receiving"
    /\ inbox[t] = Bad
    /\ Raise(t)

\* mutant: one transmission too many
RetryOnceMore(t) == attempt[t] <= Retries

\* the loop over range(retries + 1) has another turn
MayRetry(t) == attempt[t] < Retries

\* wait_for gives up, even on a datagram that has just come in: transmit the
\* same message again on the socket the client has now, or, when the retries
\* are used up or the send fails, raise
ReceiveTimeout(t) ==
    /\ pc[t] \in Waiting
    /\ \/ /\ MayRetry(t)
          /\ Transmit(t, IF pc[t] = "receiving" THEN reqId[t] ELSE ProbeId,
                      pc[t], attempt[t] + 1)
          /\ UNCHANGED <<client, mutex, call, reqId, answered, issuer, budget>>
       \/ Raise(t)

\* the socket reports an error to sock_recv, such as a refused port
ReceiveError(t) ==
    /\ pc[t] \in Waiting
    /\ rsock[t] \in live
    /\ Raise(t)

\* acquire() takes the cancelled waiter out of the queue
LeaveQueue(t) ==
    \E i \in 1 .. Len(waiters) :
        /\ waiters[i] = t
        /\ waiters' = RemoveAt(waiters, i)

\* Task.cancel() wherever the task is suspended
Cancel(t) ==
    \/ /\ pc[t] \in Waiting \union {"resolving"}
       /\ Raise(t)
    \/ /\ pc[t] = "queued"
       /\ LeaveQueue(t)
       /\ pc' = [pc EXCEPT ![t] = "idle"]
       /\ UNCHANGED <<client, lock, call, reqId, attempt, rsock, inbox, history, budget>>

\* every task has made its calls
Finished ==
    /\ \A t \in Tasks : pc[t] = "idle" /\ calls[t] = MaxCalls
    /\ UNCHANGED vars

------------------------------------------------------------------------------
Step(t) ==
    \/ OpenCall(t)      \/ OpenResolved(t)  \/ OpenFails(t)      \/ CloseCall(t)
    \/ ProbeAnswered(t) \/ ProbeRejected(t)
    \/ RequestCall(t, "request") \/ RequestCall(t, "trap")
    \/ LockGranted(t)
    \/ Arrive(t)        \/ Answer(t)        \/ Ignore(t)         \/ Reject(t)
    \/ ReceiveTimeout(t) \/ ReceiveError(t) \/ Cancel(t)

Next == (\E t \in Tasks : Step(t)) \/ Finished

Spec == Init /\ [][Next]_vars

\* The event loop runs every callback that is ready: address lookups end,
\* timers fire and a woken waiter runs.  Nothing is assumed of the peer.
Fairness ==
    \A t \in Tasks :
        /\ WF_vars(OpenResolved(t) \/ OpenFails(t))
        /\ WF_vars(LockGranted(t))
        /\ WF_vars(ReceiveTimeout(t))

FairSpec == Spec /\ Fairness

------------------------------------------------------------------------------
\* The values every variable takes, whatever the tasks and the peer do.
TypeOK ==
    /\ opened \in BOOLEAN
    /\ created \in Nat /\ socket \in 0 .. created
    /\ live \subseteq 1 .. created
    /\ engine \in BOOLEAN
    /\ lock \in Tasks \union {NoTask}
    /\ waiters \in Seq(Tasks)
    /\ issuer \in Seq(Tasks)
    /\ pc \in [Tasks -> {"idle", "resolving", "probing", "queued",
                         "discovering", "receiving"}]
    /\ call \in [Tasks -> {"request", "trap"}]
    /\ reqId \in [Tasks -> Nat]
    /\ attempt \in [Tasks -> 0 .. Retries]
    /\ rsock \in [Tasks -> 0 .. created]
    /\ inbox \in [Tasks -> Datagram]
    /\ sent \subseteq (1 .. created) \X Nat
    /\ answered \subseteq Tasks \X Nat
    /\ calls \in [Tasks -> Nat]
    /\ arrived \in Nat

\* At most one task is between "async with lock" and its release, and it is
\* the one the lock knows: a request is never sent into another's exchange,
\* and no way out of the exchange (answer, error, timeout, cancellation)
\* leaves the lock taken.
LockDiscipline == \A t \in Tasks : lock = t <=> pc[t] \in Holding

\* A response is returned only to the task that prepared the request with
\* that id, whatever late or repeated answers to earlier, abandoned requests
\* (of this or an earlier socket) come in first.
AnswersAreOwn ==
    \A a \in answered : a[2] \in 1 .. Len(issuer) /\ issuer[a[2]] = a[1]

\* While a task waits for a response, the id it waits for is the last one
\* the dispatcher gave out: nobody prepares a request meanwhile.
OutstandingIsNewest ==
    \A t \in Tasks : pc[t] = "receiving" => /\ reqId[t] = Len(issuer)
                                            /\ reqId[t] > 0
                                            /\ issuer[reqId[t]] = t

\* With one task that opens and closes, the session is open exactly when the
\* client has a socket, and every other socket it made has been closed: no
\* failed, cancelled or repeated open() leaves one behind.
SocketsAccountedFor ==
    \A o \in Owners : Owners = {o} =>
        /\ live = {socket} \ {NoSocket}
        /\ pc[o] = "resolving" => ~opened /\ socket = NoSocket
        /\ pc[o] = "probing" => ~opened /\ socket # NoSocket /\ rsock[o] = socket
        /\ pc[o] \notin {"resolving", "probing"} => (opened <=> socket # NoSocket)

Forgotten == live \ {socket}

\* However many tasks open and close the session: a socket that nobody will
\* close is left behind only by an open() that comes back from its address
\* lookup when another open(), overlapping it, has stored a socket; no failure,
\* cancellation or close() of any of them leaves one.
OnlyOverlapsLoseSockets ==
    [][Forgotten' # Forgotten =>
         \E t \in Owners : /\ pc[t] = "resolving" /\ pc'[t] # "resolving"
                           /\ socket # NoSocket]_vars

\* An open session whose security model discovers on open, and a V3Notifier
\* inform in progress, know the peer engine.
EngineKnown ==
    /\ PrepareOnOpen /\ opened => engine
    /\ PrepareOnUse => \A t \in Tasks : pc[t] = "receiving" => engine

\* "A second open() call must be a no-op: prepare() runs exactly once"
\* (tests/test_session_prepare_hook.py): on an open session nobody is still
\* running prepare().
OpenIsIdempotent == opened => \A t \in Tasks : pc[t] # "probing"

\* Seen from the callers the session is Exchange: a request is outstanding
\* from the moment its message is out until its task has its result.
Promise == INSTANCE Exchange WITH
    current <- IF lock # NoTask /\ pc[lock] = "receiving" THEN lock ELSE NoTask,
    issued  <- Len(issuer),
    answers <- answered

ImplementsExchange == Promise!FairSpec

\* Every call ends: with its answer, an error, a timeout or a cancellation,
\* whatever the peer does and whoever closes the session meanwhile.
CallsReturn == \A t \in Tasks : pc[t] # "idle" ~> pc[t] = "idle"
==============================================================================
