---------------------------- MODULE SessionProofs ----------------------------
(* Safety of Session for every set of tasks and owners, any number of       *)
(* retries, and all four combinations of the discovery hooks: types; lock,  *)
(* ids and answers; the refinement; the lock's queue; the peer engine; the  *)
(* sockets of the client.  Each invariant has steps of its own shape.       *)
EXTENDS Session, SequenceLemmas

------------------------------------------------------------------------------
(* Types.                                                                   *)

LEMMA RaiseType ==
    ASSUME TypeOK, NEW t \in Tasks, Raise(t)
    PROVE  TypeOK'
<1>1. pc' = [pc EXCEPT ![t] = "idle"] /\ inbox' = [inbox EXCEPT ![t] = Nothing]
  BY DEF Raise, LockAfter
<1>2. Nothing \in Datagram
  BY DEF Nothing, Datagram
<1>3. lock' \in Tasks \union {NoTask}
  BY DEF Raise, LockAfter, TypeOK
<1>4. UNCHANGED <<waiters, issuer, call, reqId, attempt, rsock, sent, answered, calls, arrived>>
  BY DEF Raise, LockAfter, history, budget
<1>5. /\ opened' = opened /\ created' = created /\ engine' = engine
      /\ socket' \in {socket, NoSocket} /\ live' \subseteq live
  BY DEF Raise, LockAfter, CloseClient, client
<1>6. socket' \in 0 .. created' /\ live' \subseteq 1 .. created'
  BY <1>5 DEF TypeOK, NoSocket
<1> QED
  BY <1>1, <1>2, <1>3, <1>4, <1>5, <1>6 DEF TypeOK

\* what a step that transmits makes of the variables it changes
LEMMA TransmitType ==
    ASSUME TypeOK, NEW t \in Tasks, NEW n \in Nat, NEW where \in Waiting,
           NEW k \in 0 .. Retries, Transmit(t, n, where, k), created' = created
    PROVE  /\ pc' \in [Tasks -> {"idle", "resolving", "probing", "queued",
                                 "discovering", "receiving"}]
           /\ attempt' \in [Tasks -> 0 .. Retries]
           /\ rsock' \in [Tasks -> 0 .. created']
           /\ inbox' \in [Tasks -> Datagram]
           /\ sent' \subseteq (1 .. created') \X Nat
<1>1. socket \in 1 .. created /\ socket \in 0 .. created
  BY DEF Transmit, TypeOK, NoSocket
<1>2. Nothing \in Datagram
  BY DEF Nothing, Datagram
<1>3. sent' \subseteq (1 .. created') \X Nat
  BY <1>1 DEF Transmit, TypeOK
<1> QED
  BY <1>1, <1>2, <1>3 DEF Transmit, TypeOK, Waiting

LEMMA IssueType ==
    ASSUME TypeOK, NEW t \in Tasks, NEW k \in {"request", "trap"}, Issue(t, k),
           UNCHANGED <<socket, created, live>>, opened' \in BOOLEAN,
           engine' \in BOOLEAN, waiters' \in Seq(Tasks),
           calls' \in [Tasks -> Nat], arrived' \in Nat
    PROVE  TypeOK'
<1> DEFINE n == Len(issuer) + 1
<1>1. issuer' \in Seq(Tasks) /\ n \in Nat
  BY DEF Issue, TypeOK
<1>2. reqId' \in [Tasks -> Nat] /\ call' \in [Tasks -> {"request", "trap"}]
  BY <1>1 DEF Issue, TypeOK
<1>3. answered' \subseteq Tasks \X Nat
  BY DEF Issue, TypeOK
<1>4. CASE Transmit(t, n, "receiving", 0) /\ lock' = t
  <2>1. 0 \in 0 .. Retries /\ "receiving" \in Waiting
    BY SessionAssumption DEF Waiting
  <2> HIDE DEF n
  <2>2. lock' \in Tasks \union {NoTask}
    BY <1>4
  <2> QED
    BY <1>1, <1>2, <1>3, <1>4, <2>1, <2>2, TransmitType DEF TypeOK
<1>5. CASE /\ pc' = [pc EXCEPT ![t] = "idle"]
           /\ inbox' = [inbox EXCEPT ![t] = Nothing]
           /\ lock' = NoTask
           /\ UNCHANGED <<rsock, attempt, sent>>
  BY <1>1, <1>2, <1>3, <1>5 DEF TypeOK, Datagram, Nothing
<1> QED
  BY <1>4, <1>5 DEF Issue

LEMMA StartDiscoveryType ==
    ASSUME TypeOK, NEW t \in Tasks, NEW k \in {"request", "trap"}, StartDiscovery(t, k),
           UNCHANGED client, waiters' \in Seq(Tasks),
           calls' \in [Tasks -> Nat], arrived' \in Nat
    PROVE  TypeOK'
<1>1. call' \in [Tasks -> {"request", "trap"}]
  BY DEF StartDiscovery, TypeOK
<1>2. CASE Transmit(t, ProbeId, "discovering", 0) /\ lock' = t
  <2>1. 0 \in 0 .. Retries /\ ProbeId \in Nat /\ "discovering" \in Waiting
    BY SessionAssumption DEF ProbeId, Waiting
  <2>2. lock' \in Tasks \union {NoTask}
    BY <1>2
  <2>3. created' = created
    BY DEF client
  <2>4. /\ pc' \in [Tasks -> {"idle", "resolving", "probing", "queued",
                              "discovering", "receiving"}]
        /\ attempt' \in [Tasks -> 0 .. Retries]
        /\ rsock' \in [Tasks -> 0 .. created']
        /\ inbox' \in [Tasks -> Datagram]
        /\ sent' \subseteq (1 .. created') \X Nat
    BY <1>2, <2>1, <2>3, TransmitType
  <2> QED
    BY <1>1, <2>2, <2>4 DEF StartDiscovery, TypeOK, client
<1>3. CASE /\ pc' = [pc EXCEPT ![t] = "idle"]
           /\ lock' = NoTask
           /\ UNCHANGED <<rsock, attempt, sent, inbox>>
  BY <1>1, <1>3 DEF StartDiscovery, TypeOK, client
<1> QED
  BY <1>2, <1>3 DEF StartDiscovery

LEMMA RunLockedType ==
    ASSUME TypeOK, NEW t \in Tasks, NEW k \in {"request", "trap"}, RunLocked(t, k),
           UNCHANGED client, waiters' \in Seq(Tasks),
           calls' \in [Tasks -> Nat], arrived' \in Nat
    PROVE  TypeOK'
<1>1. CASE StartDiscovery(t, k)
  BY <1>1, StartDiscoveryType
<1>2. CASE Issue(t, k)
  BY <1>2, IssueType DEF TypeOK, client
<1> QED
  BY <1>1, <1>2 DEF RunLocked

LEMMA StartPrepareType ==
    ASSUME TypeOK, NEW t \in Tasks, created' \in {created, created + 1},
           NEW s \in 1 .. created', StartPrepare(t, s)
    PROVE  /\ opened' \in BOOLEAN
           /\ socket' \in 0 .. created'
           /\ pc' \in [Tasks -> {"idle", "resolving", "probing", "queued",
                                 "discovering", "receiving"}]
           /\ attempt' \in [Tasks -> 0 .. Retries]
           /\ rsock' \in [Tasks -> 0 .. created']
           /\ sent' \subseteq (1 .. created') \X Nat
<1>1. created \in Nat /\ created' \in Nat /\ created <= created'
  BY DEF TypeOK
<1>2. /\ rsock \in [Tasks -> 0 .. created']
      /\ sent \subseteq (1 .. created') \X Nat
      /\ s \in 0 .. created' /\ 0 \in 0 .. created'
  BY <1>1 DEF TypeOK
<1>3. 0 \in 0 .. Retries /\ <<s, ProbeId>> \in (1 .. created') \X Nat
  BY SessionAssumption DEF ProbeId
<1>4. opened' \in BOOLEAN /\ socket' \in 0 .. created'
  BY <1>2 DEF StartPrepare, Opened, TypeOK, NoSocket
<1>5. rsock' \in [Tasks -> 0 .. created'] /\ sent' \subseteq (1 .. created') \X Nat
  BY <1>2, <1>3 DEF StartPrepare, Opened
<1> QED
  BY <1>3, <1>4, <1>5 DEF StartPrepare, Opened, TypeOK

LEMMA OpenCallType ==
    ASSUME TypeOK, NEW t \in Tasks, OpenCall(t)
    PROVE  TypeOK'
<1>1. calls' \in [Tasks -> Nat] /\ arrived' \in Nat
  BY DEF OpenCall, StartCall, TypeOK
<1>2. created' = created /\ engine' = engine
  BY DEF OpenCall
<1>3. CASE opened /\ UNCHANGED <<opened, socket, live, pc, rsock, attempt, sent>>
  BY <1>1, <1>2, <1>3 DEF OpenCall, mutex, TypeOK
<1>4. CASE /\ socket # NoSocket
           /\ StartPrepare(t, socket)
           /\ live' = IF socket' = NoSocket THEN live \ {socket} ELSE live
  <2>1. socket \in 1 .. created'
    BY <1>2, <1>4 DEF TypeOK, NoSocket
  <2>2. live' \subseteq 1 .. created'
    BY <1>2, <1>4 DEF TypeOK
  <2> QED
    BY <1>1, <1>2, <1>4, <2>1, <2>2, StartPrepareType DEF OpenCall, mutex, TypeOK
<1>5. CASE /\ pc' = [pc EXCEPT ![t] = "resolving"]
           /\ UNCHANGED <<opened, socket, live, rsock, attempt, sent>>
  BY <1>1, <1>2, <1>5 DEF OpenCall, mutex, TypeOK
<1> QED
  BY <1>3, <1>4, <1>5 DEF OpenCall

LEMMA OpenResolvedType ==
    ASSUME TypeOK, NEW t \in Tasks, OpenResolved(t)
    PROVE  TypeOK'
<1>1. /\ created' = created + 1 /\ created \in Nat
      /\ created' \in 1 .. created' /\ StartPrepare(t, created')
  BY DEF OpenResolved, TypeOK
<1>2. live' \subseteq 1 .. created'
  BY <1>1 DEF OpenResolved, TypeOK
<1>3. /\ opened' \in BOOLEAN
      /\ socket' \in 0 .. created'
      /\ pc' \in [Tasks -> {"idle", "resolving", "probing", "queued",
                            "discovering", "receiving"}]
      /\ attempt' \in [Tasks -> 0 .. Retries]
      /\ rsock' \in [Tasks -> 0 .. created']
      /\ sent' \subseteq (1 .. created') \X Nat
  BY <1>1, StartPrepareType
<1>4. UNCHANGED <<engine, lock, waiters, call, reqId, inbox, answered, issuer, calls, arrived>>
  BY DEF OpenResolved, mutex, budget
<1>5. created' \in Nat
  BY <1>1
<1> QED
  BY <1>2, <1>3, <1>4, <1>5 DEF TypeOK

LEMMA CloseCallType ==
    ASSUME TypeOK, NEW t \in Tasks, CloseCall(t)
    PROVE  TypeOK'
<1>1. calls' \in [Tasks -> Nat] /\ arrived' \in Nat
  BY DEF CloseCall, StartCall, TypeOK
<1>2. /\ created' = created /\ socket' \in 0 .. created' /\ live' \subseteq 1 .. created'
      /\ engine' = engine /\ opened' = FALSE
  BY DEF CloseCall, CloseClient, TypeOK, NoSocket
<1> QED
  BY <1>1, <1>2 DEF CloseCall, mutex, local, history, TypeOK

LEMMA ProbeAnsweredType ==
    ASSUME TypeOK, NEW t \in Tasks, ProbeAnswered(t)
    PROVE  TypeOK'
<1>1. CASE Issue(t, call[t]) /\ UNCHANGED opened
  <2>1. call[t] \in {"request", "trap"}
    BY DEF TypeOK
  <2> QED
    BY <1>1, <2>1, IssueType DEF ProbeAnswered, budget, TypeOK
<1>2. CASE /\ opened' = TRUE
           /\ pc' = [pc EXCEPT ![t] = "idle"]
           /\ inbox' = [inbox EXCEPT ![t] = Nothing]
           /\ UNCHANGED <<lock, call, reqId, attempt, rsock, history>>
  BY <1>2 DEF ProbeAnswered, budget, history, TypeOK, Datagram, Nothing
<1> QED
  BY <1>1, <1>2 DEF ProbeAnswered

LEMMA RequestCallType ==
    ASSUME TypeOK, NEW t \in Tasks, NEW k \in {"request", "trap"}, RequestCall(t, k)
    PROVE  TypeOK'
<1>1. calls' \in [Tasks -> Nat] /\ arrived' \in Nat
  BY DEF RequestCall, LockFree, StartCall, TypeOK
<1>2. CASE RunLocked(t, k) /\ UNCHANGED waiters
  BY <1>1, <1>2, RunLockedType DEF RequestCall, LockFree, TypeOK
<1>3. CASE /\ waiters' = Append(waiters, t)
           /\ pc' = [pc EXCEPT ![t] = "queued"]
           /\ call' = [call EXCEPT ![t] = k]
           /\ UNCHANGED <<lock, reqId, attempt, rsock, inbox, history>>
  <2>1. waiters' \in Seq(Tasks)
    BY <1>3 DEF TypeOK
  <2>2. /\ pc' \in [Tasks -> {"idle", "resolving", "probing", "queued",
                              "discovering", "receiving"}]
        /\ call' \in [Tasks -> {"request", "trap"}]
    BY <1>3 DEF TypeOK
  <2> QED
    BY <1>1, <1>3, <2>1, <2>2 DEF RequestCall, LockFree, client, history, TypeOK
<1> QED
  BY <1>2, <1>3 DEF RequestCall, LockFree

LEMMA LockGrantedType ==
    ASSUME TypeOK, NEW t \in Tasks, LockGranted(t)
    PROVE  TypeOK'
<1>1. waiters' \in Seq(Tasks) /\ call[t] \in {"request", "trap"}
  BY DEF LockGranted, TypeOK
<1> QED
  BY <1>1, RunLockedType DEF LockGranted, budget, TypeOK

LEMMA ArriveType ==
    ASSUME TypeOK, NEW t \in Tasks, Arrive(t)
    PROVE  TypeOK'
<1>1. InFlight(rsock[t]) \subseteq Datagram
  BY DEF InFlight, Foreign, Bad, Report, Reply, Datagram, TypeOK
<1>2. inbox' \in [Tasks -> Datagram] /\ arrived' \in Nat
  BY <1>1 DEF Arrive, TypeOK
<1> QED
  BY <1>2 DEF Arrive, client, mutex, local, history, TypeOK

LEMMA AnswerType ==
    ASSUME TypeOK, NEW t \in Tasks, Answer(t)
    PROVE  TypeOK'
<1>1. inbox[t].id = reqId[t] /\ reqId[t] \in Nat
  BY DEF Answer, Matches, Reply, TypeOK
<1>2. answered' \subseteq Tasks \X Nat
  BY <1>1 DEF Answer, Matches, TypeOK
<1> QED
  BY <1>2 DEF Answer, Matches, client, budget, TypeOK, Datagram, Nothing

LEMMA IgnoreType ==
    ASSUME TypeOK, NEW t \in Tasks, Ignore(t)
    PROVE  TypeOK'
<1>1. CASE Raise(t)
  BY <1>1, RaiseType
<1>2. CASE /\ rsock' = [rsock EXCEPT ![t] = socket]
           /\ inbox' = [inbox EXCEPT ![t] = Nothing]
           /\ UNCHANGED <<client, mutex, pc, call, reqId, attempt, history, budget>>
  BY <1>2 DEF client, mutex, history, budget, TypeOK, Datagram, Nothing
<1> QED
  BY <1>1, <1>2 DEF Ignore, Matches

LEMMA ReceiveTimeoutType ==
    ASSUME TypeOK, NEW t \in Tasks, ReceiveTimeout(t)
    PROVE  TypeOK'
<1> DEFINE n == IF pc[t] = "receiving" THEN reqId[t] ELSE ProbeId
<1>1. CASE Raise(t)
  BY <1>1, RaiseType
<1>2. CASE /\ attempt[t] < Retries
           /\ Transmit(t, n, pc[t], attempt[t] + 1)
           /\ UNCHANGED <<client, mutex, call, reqId, answered, issuer, budget>>
  <2>1. n \in Nat /\ pc[t] \in Waiting /\ attempt[t] + 1 \in 0 .. Retries
    BY <1>2, SessionAssumption DEF ReceiveTimeout, MayRetry, TypeOK, ProbeId
  <2>2. created' = created
    BY <1>2 DEF client
  <2> HIDE DEF n
  <2>3. /\ pc' \in [Tasks -> {"idle", "resolving", "probing", "queued",
                              "discovering", "receiving"}]
        /\ attempt' \in [Tasks -> 0 .. Retries]
        /\ rsock' \in [Tasks -> 0 .. created']
        /\ inbox' \in [Tasks -> Datagram]
        /\ sent' \subseteq (1 .. created') \X Nat
    BY <1>2, <2>1, <2>2, TransmitType
  <2> QED
    BY <1>2, <2>3 DEF client, mutex, budget, TypeOK
<1> QED
  BY <1>1, <1>2 DEF ReceiveTimeout, MayRetry

LEMMA CancelType ==
    ASSUME TypeOK, NEW t \in Tasks, Cancel(t)
    PROVE  TypeOK'
<1>1. CASE Raise(t)
  BY <1>1, RaiseType
<1>2. CASE /\ \E i \in 1 .. Len(waiters) : waiters' = RemoveAt(waiters, i)
           /\ pc' = [pc EXCEPT ![t] = "idle"]
           /\ UNCHANGED <<client, lock, call, reqId, attempt, rsock, inbox, history, budget>>
  <2>1. waiters' \in Seq(Tasks)
    BY <1>2, RemoveAtType DEF TypeOK
  <2> QED
    BY <1>2, <2>1 DEF client, history, budget, TypeOK
<1> QED
  BY <1>1, <1>2 DEF Cancel, LeaveQueue

LEMMA InitType == Init => TypeOK
<1>1. Nothing \in Datagram /\ 0 \in 0 .. Retries
  BY SessionAssumption DEF Nothing, Datagram
<1> SUFFICES ASSUME Init PROVE TypeOK
  OBVIOUS
<1>2. waiters \in Seq(Tasks) /\ issuer \in Seq(Tasks)
  BY DEF Init
<1>3. created \in Nat /\ socket \in 0 .. created /\ arrived \in Nat
  BY DEF Init, NoSocket
<1>4. opened \in BOOLEAN /\ engine \in BOOLEAN
  BY DEF Init
<1>5. /\ live \subseteq 1 .. created
      /\ lock \in Tasks \union {NoTask}
      /\ sent \subseteq (1 .. created) \X Nat
      /\ answered \subseteq Tasks \X Nat
  BY Zenon DEF Init
<1>6. /\ pc \in [Tasks -> {"idle", "resolving", "probing", "queued",
                           "discovering", "receiving"}]
      /\ call \in [Tasks -> {"request", "trap"}]
      /\ reqId \in [Tasks -> Nat]
      /\ attempt \in [Tasks -> 0 .. Retries]
      /\ calls \in [Tasks -> Nat]
  BY <1>1 DEF Init
<1>7. rsock \in [Tasks -> 0 .. created] /\ inbox \in [Tasks -> Datagram]
  BY <1>1 DEF Init, NoSocket
<1> QED
  BY <1>2, <1>3, <1>4, <1>5, <1>6, <1>7 DEF TypeOK

LEMMA TypeStep == TypeOK /\ [Next]_vars => TypeOK'
<1> SUFFICES ASSUME TypeOK, [Next]_vars PROVE TypeOK'
  OBVIOUS
<1>1. ASSUME NEW t \in Tasks, Step(t) PROVE TypeOK'
  <2>1. CASE OpenCall(t)
    BY <2>1, OpenCallType
  <2>2. CASE OpenResolved(t)
    BY <2>2, OpenResolvedType
  <2>3. CASE OpenFails(t) \/ ProbeRejected(t) \/ Reject(t) \/ ReceiveError(t)
    BY <2>3, RaiseType DEF OpenFails, ProbeRejected, Reject, ReceiveError
  <2>4. CASE CloseCall(t)
    BY <2>4, CloseCallType
  <2>5. CASE ProbeAnswered(t)
    BY <2>5, ProbeAnsweredType
  <2>6. CASE RequestCall(t, "request") \/ RequestCall(t, "trap")
    BY <2>6, RequestCallType
  <2>7. CASE LockGranted(t)
    BY <2>7, LockGrantedType
  <2>8. CASE Arrive(t)
    BY <2>8, ArriveType
  <2>9. CASE Answer(t)
    BY <2>9, AnswerType
  <2>10. CASE Ignore(t)
    BY <2>10, IgnoreType
  <2>11. CASE ReceiveTimeout(t)
    BY <2>11, ReceiveTimeoutType
  <2>12. CASE Cancel(t)
    BY <2>12, CancelType
  <2> QED
    BY <1>1, <2>1, <2>2, <2>3, <2>4, <2>5, <2>6, <2>7, <2>8, <2>9, <2>10, <2>11,
       <2>12 DEF Step
<1>2. CASE UNCHANGED vars
  BY <1>2 DEF vars, client, mutex, local, history, budget, TypeOK
<1> QED
  BY <1>1, <1>2 DEF Next, Finished

\* Every variable of the session keeps its type: no number of opens, closes
\* and concurrent calls leaves the client with a socket it never made.
THEOREM TypeCorrect == Spec => []TypeOK
  BY InitType, TypeStep, PTL DEF Spec

------------------------------------------------------------------------------
(* Safety.  All a step can do to the lock, the ids and the answers is one   *)
(* of five things; the invariants and the refinement follow from these.     *)

\* nothing that matters: t moves between states in which it holds no lock
Quiet(t) ==
    /\ UNCHANGED <<lock, issuer, answered, reqId>>
    /\ \A u \in Tasks : /\ pc'[u] \in Holding <=> pc[u] \in Holding
                        /\ pc'[u] = "receiving" <=> pc[u] = "receiving"

\* t prepares a request, having the lock or finding it free
Prepared(t) ==
    /\ lock = NoTask \/ pc[t] = "discovering"
    /\ issuer' = Append(issuer, t)
    /\ reqId' = [reqId EXCEPT ![t] = Len(issuer) + 1]
    /\ answered' = answered
    /\ \/ pc' = [pc EXCEPT ![t] = "receiving"] /\ lock' = t
       \/ pc' = [pc EXCEPT ![t] = "idle"] /\ lock' = NoTask

\* t takes the free lock to discover the peer engine
Discovering(t) ==
    /\ lock = NoTask
    /\ pc' = [pc EXCEPT ![t] = "discovering"]
    /\ lock' = t
    /\ UNCHANGED <<issuer, answered, reqId>>

\* t gives the lock up, with an error
Released(t) ==
    /\ pc[t] \in Holding
    /\ pc' = [pc EXCEPT ![t] = "idle"]
    /\ lock' = NoTask
    /\ UNCHANGED <<issuer, answered, reqId>>

\* t gives the lock up, with its answer
Served(t) ==
    /\ pc[t] = "receiving"
    /\ pc' = [pc EXCEPT ![t] = "idle"]
    /\ lock' = NoTask
    /\ answered' = answered \union {<<t, reqId[t]>>}
    /\ UNCHANGED <<issuer, reqId>>

Shape(t) == Quiet(t) \/ Prepared(t) \/ Discovering(t) \/ Released(t) \/ Served(t)

LEMMA RaiseShape ==
    ASSUME TypeOK, NEW t \in Tasks, Raise(t), pc[t] # "queued"
    PROVE  Shape(t)
<1>1. /\ pc' = [pc EXCEPT ![t] = "idle"]
      /\ UNCHANGED <<issuer, answered, reqId>>
      /\ lock' = IF pc[t] \in Holding THEN NoTask ELSE lock
  BY DEF Raise, LockAfter, history
<1>2. CASE pc[t] \in Holding
  BY <1>1, <1>2 DEF Shape, Released
<1>3. CASE pc[t] \notin Holding
  BY <1>1, <1>3 DEF Shape, Quiet, TypeOK, Holding
<1> QED
  BY <1>2, <1>3

LEMMA IssueShape ==
    ASSUME TypeOK, NEW t \in Tasks, NEW k, Issue(t, k),
           lock = NoTask \/ pc[t] = "discovering"
    PROVE  Prepared(t)
  BY DEF Issue, Prepared, Transmit

LEMMA RunLockedShape ==
    ASSUME TypeOK, NEW t \in Tasks, NEW k, RunLocked(t, k), lock = NoTask,
           pc[t] \notin Holding
    PROVE  Shape(t)
<1>1. CASE Issue(t, k)
  BY <1>1, IssueShape DEF Shape
<1>2. CASE StartDiscovery(t, k)
  <2>1. UNCHANGED <<issuer, answered, reqId>>
    BY <1>2 DEF StartDiscovery
  <2>2. CASE Transmit(t, ProbeId, "discovering", 0) /\ lock' = t
    BY <2>1, <2>2 DEF Transmit, Shape, Discovering
  <2>3. CASE pc' = [pc EXCEPT ![t] = "idle"] /\ lock' = NoTask
    BY <2>1, <2>3 DEF Shape, Quiet, TypeOK, Holding
  <2> QED
    BY <1>2, <2>2, <2>3 DEF StartDiscovery
<1> QED
  BY <1>1, <1>2 DEF RunLocked

LEMMA StartPrepareShape ==
    ASSUME TypeOK, NEW t \in Tasks, NEW s, StartPrepare(t, s), pc[t] \notin Holding,
           UNCHANGED <<lock, issuer, answered, reqId>>
    PROVE  Quiet(t)
<1>1. \/ pc' = [pc EXCEPT ![t] = "idle"]
      \/ pc' = [pc EXCEPT ![t] = "probing"]
  BY DEF StartPrepare, Opened
<1> QED
  BY <1>1 DEF Quiet, TypeOK, Holding

LEMMA StepShape ==
    ASSUME TypeOK, NEW t \in Tasks, Step(t)
    PROVE  Shape(t)
<1>1. CASE OpenCall(t)
  <2>1. pc[t] \notin Holding /\ UNCHANGED <<lock, issuer, answered, reqId>>
    BY <1>1 DEF OpenCall, StartCall, mutex, Holding
  <2>2. CASE StartPrepare(t, socket)
    BY <2>1, <2>2, StartPrepareShape DEF Shape
  <2>3. CASE pc' = [pc EXCEPT ![t] = "resolving"] \/ UNCHANGED pc
    BY <2>1, <2>3 DEF Shape, Quiet, TypeOK, Holding
  <2> QED
    BY <1>1, <2>2, <2>3 DEF OpenCall
<1>2. CASE OpenResolved(t)
  <2>1. pc[t] \notin Holding /\ UNCHANGED <<lock, issuer, answered, reqId>>
    BY <1>2 DEF OpenResolved, mutex, Holding
  <2> QED
    BY <1>2, <2>1, StartPrepareShape DEF OpenResolved, Shape
<1>3. CASE OpenFails(t) \/ ProbeRejected(t) \/ Reject(t) \/ ReceiveError(t)
  BY <1>3, RaiseShape DEF OpenFails, ProbeRejected, Reject, ReceiveError, Waiting
<1>4. CASE CloseCall(t)
  BY <1>4 DEF CloseCall, mutex, local, history, Shape, Quiet
<1>5. CASE ProbeAnswered(t)
  <2>1. CASE pc[t] = "discovering" /\ Issue(t, call[t])
    BY <2>1, IssueShape DEF Shape
  <2>2. CASE /\ pc[t] = "probing"
             /\ pc' = [pc EXCEPT ![t] = "idle"]
             /\ UNCHANGED <<lock, call, reqId, attempt, rsock, history>>
    BY <2>2 DEF history, Shape, Quiet, TypeOK, Holding
  <2> QED
    BY <1>5, <2>1, <2>2 DEF ProbeAnswered
<1>6. ASSUME NEW k, RequestCall(t, k) PROVE Shape(t)
  <2>1. pc[t] \notin Holding
    BY <1>6 DEF RequestCall, LockFree, StartCall, Holding
  <2>2. CASE lock = NoTask /\ RunLocked(t, k)
    BY <2>1, <2>2, RunLockedShape
  <2>3. CASE /\ pc' = [pc EXCEPT ![t] = "queued"]
             /\ UNCHANGED <<lock, reqId, attempt, rsock, inbox, history>>
    BY <2>1, <2>3 DEF history, Shape, Quiet, TypeOK, Holding
  <2> QED
    BY <1>6, <2>2, <2>3 DEF RequestCall, LockFree
<1>7. CASE LockGranted(t)
  BY <1>7, RunLockedShape DEF LockGranted, Holding
<1>8. CASE Arrive(t)
  BY <1>8 DEF Arrive, mutex, local, history, Shape, Quiet
<1>9. CASE Answer(t)
  BY <1>9 DEF Answer, Matches, Reply, Shape, Served
<1>10. CASE Ignore(t)
  <2>1. CASE Raise(t)
    BY <1>10, <2>1, RaiseShape DEF Ignore, Matches
  <2>2. CASE UNCHANGED <<client, mutex, pc, call, reqId, attempt, history, budget>>
    BY <2>2 DEF mutex, history, Shape, Quiet
  <2> QED
    BY <1>10, <2>1, <2>2 DEF Ignore, Matches
<1>11. CASE ReceiveTimeout(t)
  <2>1. CASE Raise(t)
    BY <1>11, <2>1, RaiseShape DEF ReceiveTimeout, MayRetry, Waiting
  <2>2. CASE /\ pc' = [pc EXCEPT ![t] = pc[t]]
             /\ UNCHANGED <<client, mutex, call, reqId, answered, issuer, budget>>
    BY <2>2 DEF mutex, Shape, Quiet, TypeOK
  <2> QED
    BY <1>11, <2>1, <2>2 DEF ReceiveTimeout, MayRetry, Transmit
<1>12. CASE Cancel(t)
  <2>1. CASE pc[t] \in Waiting \union {"resolving"} /\ Raise(t)
    BY <2>1, RaiseShape DEF Waiting
  <2>2. CASE /\ pc[t] = "queued"
             /\ pc' = [pc EXCEPT ![t] = "idle"]
             /\ UNCHANGED <<client, lock, call, reqId, attempt, rsock, inbox, history, budget>>
    BY <2>2 DEF history, Shape, Quiet, TypeOK, Holding
  <2> QED
    BY <1>12, <2>1, <2>2 DEF Cancel, LeaveQueue
<1> QED
  BY <1>1, <1>2, <1>3, <1>4, <1>5, <1>6, <1>7, <1>8, <1>9, <1>10, <1>11, <1>12 DEF Step

------------------------------------------------------------------------------
(* The inductive invariant.  AnswersAreOwn is not inductive alone: an answer*)
(* goes out under reqId[t], which is t's own request because nobody can     *)
(* prepare another while t holds the lock.                                  *)

SafetyInv == TypeOK /\ LockDiscipline /\ OutstandingIsNewest /\ AnswersAreOwn

LEMMA SafetyInit == Init => SafetyInv
<1> SUFFICES ASSUME Init PROVE SafetyInv
  OBVIOUS
<1>1. TypeOK
  BY InitType
<1>2. LockDiscipline
  BY SessionAssumption DEF Init, LockDiscipline, Holding
<1>3. OutstandingIsNewest /\ AnswersAreOwn
  BY DEF Init, OutstandingIsNewest, AnswersAreOwn
<1> QED
  BY <1>1, <1>2, <1>3 DEF SafetyInv

LEMMA SafetyStep ==
    ASSUME SafetyInv, TypeOK', NEW t \in Tasks, Shape(t)
    PROVE  SafetyInv'
<1> USE DEF SafetyInv
<1>1. t # NoTask /\ \A u \in Tasks : u # NoTask
  BY SessionAssumption
<1>2. CASE Quiet(t)
  <2>1. LockDiscipline'
    BY <1>2 DEF Quiet, LockDiscipline
  <2>2. OutstandingIsNewest'
    BY <1>2 DEF Quiet, OutstandingIsNewest
  <2>3. AnswersAreOwn'
    BY <1>2 DEF Quiet, AnswersAreOwn
  <2> QED
    BY <2>1, <2>2, <2>3
<1>3. CASE Prepared(t)
  <2>1. \A u \in Tasks \ {t} : pc[u] \notin Holding
    BY <1>1, <1>3 DEF Prepared, LockDiscipline, Holding
  <2>2. \A u \in Tasks \ {t} : pc'[u] = pc[u]
    BY <1>3 DEF Prepared, TypeOK
  <2>3. LockDiscipline'
    BY <1>1, <1>3, <2>1, <2>2 DEF Prepared, LockDiscipline, TypeOK, Holding
  <2>4. /\ Len(issuer') = Len(issuer) + 1
        /\ issuer'[Len(issuer) + 1] = t
        /\ \A i \in 1 .. Len(issuer) : issuer'[i] = issuer[i]
        /\ Len(issuer) \in Nat /\ issuer' # <<>>
    <3>1. issuer \in Seq(Tasks) /\ issuer' = Append(issuer, t)
      BY <1>3 DEF Prepared, TypeOK
    <3> HIDE DEF SafetyInv
    <3> QED
      BY ONLY <3>1, t \in Tasks, AppendProperties
  <2>5. OutstandingIsNewest'
    <3>1. SUFFICES ASSUME NEW u \in Tasks, pc'[u] = "receiving"
                   PROVE  reqId'[u] = Len(issuer') /\ reqId'[u] > 0 /\ issuer'[reqId'[u]] = u
      BY DEF OutstandingIsNewest
    <3>2. u = t
      BY <2>1, <2>2, <3>1 DEF Holding
    <3>3. reqId'[t] = Len(issuer) + 1
      BY <1>3 DEF Prepared, TypeOK
    <3> QED
      BY <2>4, <3>2, <3>3
  <2>6. AnswersAreOwn'
    <3>1. answered' = answered
      BY <1>3 DEF Prepared
    <3>2. SUFFICES ASSUME NEW a \in answered
                   PROVE  a[2] \in 1 .. Len(issuer') /\ issuer'[a[2]] = a[1]
      BY <3>1 DEF AnswersAreOwn
    <3>3. a[2] \in 1 .. Len(issuer) /\ issuer[a[2]] = a[1]
      BY DEF AnswersAreOwn
    <3> QED
      BY <2>4, <3>3
  <2> QED
    BY <2>3, <2>5, <2>6
<1>4. CASE Discovering(t)
  <2>1. LockDiscipline'
    BY <1>1, <1>4 DEF Discovering, LockDiscipline, TypeOK, Holding
  <2>2. OutstandingIsNewest'
    BY <1>4 DEF Discovering, OutstandingIsNewest, TypeOK
  <2>3. AnswersAreOwn'
    BY <1>4 DEF Discovering, AnswersAreOwn
  <2> QED
    BY <2>1, <2>2, <2>3
<1>5. CASE Released(t)
  <2>1. LockDiscipline'
    BY <1>1, <1>5 DEF Released, LockDiscipline, TypeOK, Holding
  <2>2. OutstandingIsNewest'
    BY <1>5 DEF Released, OutstandingIsNewest, TypeOK
  <2>3. AnswersAreOwn'
    BY <1>5 DEF Released, AnswersAreOwn
  <2> QED
    BY <2>1, <2>2, <2>3
<1>6. CASE Served(t)
  <2>1. LockDiscipline'
    BY <1>1, <1>6 DEF Served, LockDiscipline, TypeOK, Holding
  <2>2. OutstandingIsNewest'
    BY <1>6 DEF Served, OutstandingIsNewest, TypeOK
  <2>3. reqId[t] \in 1 .. Len(issuer) /\ issuer[reqId[t]] = t
    <3>1. /\ reqId[t] = Len(issuer) /\ reqId[t] > 0
          /\ issuer[reqId[t]] = t
      BY <1>6 DEF Served, OutstandingIsNewest
    <3>2. Len(issuer) \in Nat
      BY DEF TypeOK
    <3> QED
      BY <3>1, <3>2
  <2>4. AnswersAreOwn'
    <3>1. answered' = answered \union {<<t, reqId[t]>>} /\ issuer' = issuer
      BY <1>6 DEF Served
    <3>2. SUFFICES ASSUME NEW a \in answered'
                   PROVE  a[2] \in 1 .. Len(issuer) /\ issuer[a[2]] = a[1]
      BY <3>1 DEF AnswersAreOwn
    <3>3. CASE a \in answered
      BY <3>3 DEF AnswersAreOwn
    <3>4. CASE a = <<t, reqId[t]>>
      BY <2>3, <3>4
    <3> QED
      BY <3>1, <3>3, <3>4
  <2> QED
    BY <2>1, <2>2, <2>4
<1> QED
  BY <1>2, <1>3, <1>4, <1>5, <1>6 DEF Shape

LEMMA SafetyInductive == SafetyInv /\ [Next]_vars => SafetyInv'
<1> SUFFICES ASSUME SafetyInv, [Next]_vars PROVE SafetyInv'
  OBVIOUS
<1>1. TypeOK'
  BY TypeStep DEF SafetyInv
<1>2. CASE UNCHANGED vars
  BY <1>1, <1>2 DEF vars, mutex, local, history, SafetyInv, LockDiscipline,
                    OutstandingIsNewest, AnswersAreOwn
<1>3. CASE \E t \in Tasks : Step(t)
  BY <1>1, <1>3, StepShape, SafetyStep DEF SafetyInv
<1> QED
  BY <1>2, <1>3 DEF Next, Finished

\* One task at a time holds the lock and has a request outstanding, the last
\* one prepared, and every response handed to a caller answers the caller's
\* own request (dispatcher.py, session.py, manager and notify clients).
THEOREM Safety == Spec => [](LockDiscipline /\ OutstandingIsNewest /\ AnswersAreOwn)
<1>1. SafetyInv => LockDiscipline /\ OutstandingIsNewest /\ AnswersAreOwn
  BY DEF SafetyInv
<1> QED
  BY SafetyInit, SafetyInductive, <1>1, PTL DEF Spec

\* The lock is held by exactly the task that is in an exchange, whatever way
\* the exchanges before it ended (session.py, dispatcher.py).
THEOREM OneExchange == Spec => []LockDiscipline
  BY Safety, PTL

\* The id a task waits for is the last one given out, and its own
\* (dispatcher.py: prepare_request, execute).
THEOREM NewestOutstanding == Spec => []OutstandingIsNewest
  BY Safety, PTL

\* The same, action by action: everything a task does to the session is a
\* step of Exchange, or invisible to the callers.
THEOREM Refinement == Spec => Promise!Spec
<1> DEFINE cur == IF lock # NoTask /\ pc[lock] = "receiving" THEN lock ELSE NoTask
<1>1. Init => Promise!Init
  BY DEF Init, Promise!Init
<1>2. SafetyInv /\ [Next]_vars => [Promise!Next]_Promise!vars
  <2> SUFFICES ASSUME SafetyInv, [Next]_vars PROVE [Promise!Next]_Promise!vars
    OBVIOUS
  <2> USE DEF SafetyInv
  <2>1. CASE UNCHANGED vars
    BY <2>1 DEF vars, mutex, local, history, Promise!vars
  <2>2. ASSUME NEW t \in Tasks, Shape(t) PROVE [Promise!Next]_Promise!vars
    <3>1. t # NoTask
      BY SessionAssumption
    <3>2. CASE Quiet(t)
      <4>1. lock' = lock /\ issuer' = issuer /\ answered' = answered
        BY <3>2 DEF Quiet
      <4>2. cur' = cur
        BY <3>2, <4>1 DEF Quiet, TypeOK
      <4> QED
        BY <4>1, <4>2 DEF Promise!vars
    <3>3. CASE Prepared(t)
      <4>1. cur = NoTask
        BY <3>1, <3>3 DEF Prepared, LockDiscipline, Holding, TypeOK
      <4>2. Len(issuer') = Len(issuer) + 1 /\ answered' = answered
        BY <3>3 DEF Prepared, TypeOK
      <4>3. cur' \in {t, NoTask}
        BY <3>3 DEF Prepared
      <4> QED
        BY <4>1, <4>2, <4>3 DEF Promise!Next, Promise!Begin, Promise!Pass
    <3>4. CASE Discovering(t)
      <4>1. cur = NoTask /\ cur' = NoTask
        BY <3>1, <3>4 DEF Discovering, TypeOK
      <4> QED
        BY <3>4, <4>1 DEF Discovering, Promise!vars
    <3>5. CASE Released(t)
      <4>1. lock = t /\ cur' = NoTask
        BY <3>5 DEF Released, LockDiscipline
      <4>2. cur \in {t, NoTask}
        BY <4>1
      <4> QED
        BY <3>5, <4>1, <4>2 DEF Released, Promise!vars, Promise!Next, Promise!Abandon
    <3>6. CASE Served(t)
      <4>1. cur = t /\ cur' = NoTask
        BY <3>1, <3>6 DEF Served, LockDiscipline, Holding
      <4>2. reqId[t] = Len(issuer)
        BY <3>6 DEF Served, OutstandingIsNewest
      <4> QED
        BY <3>6, <4>1, <4>2 DEF Served, Promise!Next, Promise!Answered
    <3> QED
      BY <2>2, <3>2, <3>3, <3>4, <3>5, <3>6 DEF Shape
  <2> QED
    BY <2>1, <2>2, StepShape DEF Next, Finished
<1> QED
  BY SafetyInit, SafetyInductive, <1>1, <1>2, PTL DEF Spec, Promise!Spec

------------------------------------------------------------------------------
(* The peer engine.                                                         *)

\* what is known of the engine stays known, a session whose model discovers
\* on open is opened by the discovery, and a V3Notifier's inform goes out
\* once it knows the engine
Knowing(t) ==
    /\ engine => engine'
    /\ PrepareOnOpen /\ opened' => opened \/ engine'
    /\ PrepareOnUse => \A u \in Tasks :
         pc'[u] = "receiving" => pc[u] = "receiving" \/ engine'

LEMMA RaiseKnowing ==
    ASSUME TypeOK, NEW t \in Tasks, Raise(t)
    PROVE  Knowing(t)
<1>1. pc' = [pc EXCEPT ![t] = "idle"] /\ opened' = opened /\ engine' = engine
  BY DEF Raise, CloseClient, client
<1> QED
  BY <1>1 DEF Knowing, TypeOK

LEMMA RunLockedKnowing ==
    ASSUME TypeOK, NEW t \in Tasks, NEW k, RunLocked(t, k), UNCHANGED client
    PROVE  Knowing(t)
<1>1. opened' = opened /\ engine' = engine
  BY DEF client
<1>2. CASE Issue(t, k) /\ ~(k = "request" /\ PrepareOnUse /\ ~engine)
  <2>1. \/ pc' = [pc EXCEPT ![t] = "idle"]
        \/ k = "request" /\ pc' = [pc EXCEPT ![t] = "receiving"]
    BY <1>2 DEF Issue, Transmit
  <2> QED
    BY <1>1, <1>2, <2>1 DEF Knowing, TypeOK
<1>3. CASE StartDiscovery(t, k)
  <2>1. \/ pc' = [pc EXCEPT ![t] = "idle"]
        \/ pc' = [pc EXCEPT ![t] = "discovering"]
    BY <1>3 DEF StartDiscovery, Transmit
  <2> QED
    BY <1>1, <2>1 DEF Knowing, TypeOK
<1> QED
  BY <1>2, <1>3 DEF RunLocked

LEMMA StartPrepareKnowing ==
    ASSUME TypeOK, NEW t \in Tasks, NEW s, StartPrepare(t, s), engine' = engine
    PROVE  Knowing(t)
<1>1. CASE ~PrepareOnOpen
  <2>1. pc' = [pc EXCEPT ![t] = "idle"]
    BY <1>1 DEF StartPrepare, Opened
  <2> QED
    BY <1>1, <2>1 DEF Knowing, TypeOK
<1>2. CASE PrepareOnOpen
  <2>1. /\ opened' = opened
        /\ \/ pc' = [pc EXCEPT ![t] = "probing"]
           \/ pc' = [pc EXCEPT ![t] = "idle"]
    BY <1>2 DEF StartPrepare
  <2> QED
    BY <2>1 DEF Knowing, TypeOK
<1> QED
  BY <1>1, <1>2 DEF StartPrepare

LEMMA StepKnowing ==
    ASSUME TypeOK, NEW t \in Tasks, Step(t)
    PROVE  Knowing(t)
<1>1. ASSUME UNCHANGED <<opened, engine>>,
             NEW x, x # "receiving" \/ x = pc[t], pc' = [pc EXCEPT ![t] = x]
      PROVE  Knowing(t)
  BY <1>1 DEF Knowing, TypeOK
<1>2. CASE OpenCall(t)
  <2>1. CASE StartPrepare(t, socket)
    BY <1>2, <2>1, StartPrepareKnowing DEF OpenCall
  <2>2. CASE UNCHANGED <<opened, pc>>
    BY <1>2, <2>2 DEF OpenCall, Knowing
  <2>3. CASE opened' = opened /\ pc' = [pc EXCEPT ![t] = "resolving"]
    BY <1>1, <1>2, <2>3 DEF OpenCall
  <2> QED
    BY <1>2, <2>1, <2>2, <2>3 DEF OpenCall
<1>3. CASE OpenResolved(t)
  BY <1>3, StartPrepareKnowing DEF OpenResolved
<1>4. CASE OpenFails(t) \/ ProbeRejected(t) \/ Reject(t) \/ ReceiveError(t)
  BY <1>4, RaiseKnowing DEF OpenFails, ProbeRejected, Reject, ReceiveError
<1>5. CASE CloseCall(t)
  BY <1>5 DEF CloseCall, CloseClient, local, Knowing
<1>6. CASE ProbeAnswered(t)
  BY <1>6 DEF ProbeAnswered, Knowing
<1>7. ASSUME NEW k, RequestCall(t, k) PROVE Knowing(t)
  <2>1. UNCHANGED client
    BY <1>7 DEF RequestCall
  <2>2. CASE RunLocked(t, k)
    BY <2>1, <2>2, RunLockedKnowing
  <2>3. CASE pc' = [pc EXCEPT ![t] = "queued"]
    BY <1>1, <2>1, <2>3 DEF client
  <2> QED
    BY <1>7, <2>2, <2>3 DEF RequestCall, LockFree
<1>8. CASE LockGranted(t)
  BY <1>8, RunLockedKnowing DEF LockGranted
<1>9. CASE Arrive(t)
  BY <1>9 DEF Arrive, client, local, Knowing
<1>10. CASE Answer(t)
  BY <1>1, <1>10 DEF Answer, Matches, client
<1>11. CASE Ignore(t)
  <2>1. CASE Raise(t)
    BY <2>1, RaiseKnowing
  <2>2. CASE UNCHANGED <<client, pc>>
    BY <2>2 DEF client, Knowing
  <2> QED
    BY <1>11, <2>1, <2>2 DEF Ignore, Matches
<1>12. CASE ReceiveTimeout(t)
  <2>1. CASE Raise(t)
    BY <2>1, RaiseKnowing
  <2>2. CASE pc' = [pc EXCEPT ![t] = pc[t]] /\ UNCHANGED client
    BY <1>1, <2>2 DEF client
  <2> QED
    BY <1>12, <2>1, <2>2 DEF ReceiveTimeout, MayRetry, Transmit
<1>13. CASE Cancel(t)
  <2>1. CASE Raise(t)
    BY <2>1, RaiseKnowing
  <2>2. CASE pc' = [pc EXCEPT ![t] = "idle"] /\ UNCHANGED client
    BY <1>1, <2>2 DEF client
  <2> QED
    BY <1>13, <2>1, <2>2 DEF Cancel
<1> QED
  BY <1>2, <1>3, <1>4, <1>5, <1>6, <1>7, <1>8, <1>9, <1>10, <1>11, <1>12, <1>13 DEF Step

EngineInv == TypeOK /\ EngineKnown

LEMMA EngineStep == EngineInv /\ [Next]_vars => EngineInv'
<1> SUFFICES ASSUME EngineInv, [Next]_vars PROVE EngineInv'
  OBVIOUS
<1>1. TypeOK'
  BY TypeStep DEF EngineInv
<1>2. CASE UNCHANGED vars
  BY <1>1, <1>2 DEF vars, client, local, EngineInv, EngineKnown
<1>3. ASSUME NEW t \in Tasks, Step(t) PROVE EngineInv'
  <2>1. Knowing(t)
    BY <1>3, StepKnowing DEF EngineInv
  <2>2. EngineKnown'
    BY <2>1 DEF Knowing, EngineInv, EngineKnown
  <2> QED
    BY <1>1, <2>2 DEF EngineInv
<1> QED
  BY <1>2, <1>3 DEF Next, Finished

\* An open session whose model discovers on open, and a V3Notifier waiting for
\* the answer to an inform, know the peer engine (security/usm.py: prepare;
\* notify/client.py: send_inform).
THEOREM EngineBeforeUse == Spec => []EngineKnown
<1>1. Init => EngineInv
  <2>1. Init => EngineKnown
    BY DEF Init, EngineKnown
  <2> QED
    BY <2>1, InitType DEF EngineInv
<1>2. EngineInv => EngineKnown
  BY DEF EngineInv
<1> QED
  BY <1>1, EngineStep, <1>2, PTL DEF Spec
------------------------------------------------------------------------------
(* The sockets of the client.                                               *)

Opening == {"resolving", "probing"}

\* Only a task that opens the session looks addresses up and probes.
OpenersOwn == \A t \in Tasks : pc[t] \in Opening => t \in Owners

SocketInv == TypeOK /\ OpenersOwn /\ SocketsAccountedFor

\* a step that neither enters nor leaves open() and keeps the client as it is;
\* a probe goes out again on the socket the client has
Beside(t) ==
    /\ UNCHANGED <<opened, socket, live>>
    /\ \A u \in Tasks : /\ pc[u] \in Opening \/ pc'[u] \in Opening => pc'[u] = pc[u]
                        /\ rsock'[u] \in {rsock[u], socket}

LEMMA BesideKeeps ==
    ASSUME SocketInv, NEW t \in Tasks, Beside(t)
    PROVE  OpenersOwn' /\ SocketsAccountedFor'
<1>1. OpenersOwn'
  BY DEF SocketInv, OpenersOwn, Beside
<1>2. ASSUME NEW o \in Owners, Owners = {o}
      PROVE  /\ live' = {socket'} \ {NoSocket}
             /\ pc'[o] = "resolving" => ~opened' /\ socket' = NoSocket
             /\ pc'[o] = "probing" => ~opened' /\ socket' # NoSocket /\ rsock'[o] = socket'
             /\ pc'[o] \notin {"resolving", "probing"} => (opened' <=> socket' # NoSocket)
  <2>1. o \in Tasks
    BY SessionAssumption
  <2>2. /\ live = {socket} \ {NoSocket}
        /\ pc[o] = "resolving" => ~opened /\ socket = NoSocket
        /\ pc[o] = "probing" => ~opened /\ socket # NoSocket /\ rsock[o] = socket
        /\ pc[o] \notin {"resolving", "probing"} => (opened <=> socket # NoSocket)
    BY <1>2 DEF SocketInv, SocketsAccountedFor
  <2> QED
    BY <2>1, <2>2 DEF Beside, Opening
<1> QED
  BY <1>1, <1>2 DEF SocketsAccountedFor

LEMMA RunLockedBeside ==
    ASSUME TypeOK, NEW t \in Tasks, NEW k, RunLocked(t, k), UNCHANGED client,
           pc[t] \notin Opening
    PROVE  Beside(t)
<1>1. /\ \E x \in {"idle", "discovering", "receiving"} : pc' = [pc EXCEPT ![t] = x]
      /\ rsock' = rsock \/ rsock' = [rsock EXCEPT ![t] = socket]
  BY DEF RunLocked, StartDiscovery, Issue, Transmit
<1> QED
  BY <1>1 DEF Beside, Opening, client, TypeOK

\* an exception outside open() closes nothing
LEMMA RaiseBeside ==
    ASSUME TypeOK, NEW t \in Tasks, Raise(t), pc[t] \notin Opening
    PROVE  Beside(t)
<1>1. pc' = [pc EXCEPT ![t] = "idle"] /\ rsock' = rsock /\ UNCHANGED client
  BY DEF Raise, Opening
<1> QED
  BY <1>1 DEF Beside, Opening, client, TypeOK

\* open() fails: a probe's socket is closed again
LEMMA RaiseOpening ==
    ASSUME SocketInv, NEW t \in Tasks, Raise(t), pc[t] \in Opening
    PROVE  OpenersOwn' /\ SocketsAccountedFor'
<1> USE DEF SocketInv
<1>1. pc' = [pc EXCEPT ![t] = "idle"] /\ opened' = opened
  BY DEF Raise, client
<1>2. OpenersOwn'
  BY <1>1 DEF OpenersOwn, Opening, TypeOK
<1>3. ASSUME NEW o \in Owners, Owners = {o}
      PROVE  /\ live' = {socket'} \ {NoSocket}
             /\ pc'[o] \notin Opening
             /\ opened' <=> socket' # NoSocket
  <2>1. o = t
    BY <1>3 DEF OpenersOwn
  <2>2. pc'[o] = "idle"
    BY <1>1, <2>1 DEF TypeOK
  <2>3. /\ live = {socket} \ {NoSocket}
        /\ pc[o] = "resolving" => ~opened /\ socket = NoSocket
        /\ pc[o] = "probing" => ~opened /\ socket # NoSocket
    BY <1>3 DEF SocketsAccountedFor
  <2>4. CASE pc[t] = "probing"
    BY <1>1, <2>1, <2>2, <2>3, <2>4 DEF Raise, CloseClient, Opening
  <2>5. CASE pc[t] = "resolving"
    <3>1. UNCHANGED client
      BY <2>5 DEF Raise
    <3> QED
      BY <2>1, <2>2, <2>3, <2>5, <3>1 DEF client, Opening
  <2> QED
    BY <2>4, <2>5 DEF Opening
<1> QED
  BY <1>2, <1>3 DEF SocketsAccountedFor, Opening

LEMMA RaiseSockets ==
    ASSUME SocketInv, NEW t \in Tasks, Raise(t)
    PROVE  OpenersOwn' /\ SocketsAccountedFor'
  BY RaiseOpening, RaiseBeside, BesideKeeps DEF SocketInv

LEMMA OpenCallSockets ==
    ASSUME SocketInv, NEW t \in Tasks, OpenCall(t)
    PROVE  OpenersOwn' /\ SocketsAccountedFor'
<1> USE DEF SocketInv
<1>a. t \in Owners /\ pc[t] = "idle"
  BY DEF OpenCall, StartCall
<1>1. CASE UNCHANGED <<opened, socket, live, pc, rsock, attempt, sent>>
  BY <1>1, BesideKeeps DEF Beside
<1>2. CASE /\ ~opened /\ socket = NoSocket
           /\ pc' = [pc EXCEPT ![t] = "resolving"]
           /\ UNCHANGED <<opened, socket, live, rsock, attempt, sent>>
  <2>1. OpenersOwn'
    BY <1>a, <1>2 DEF OpenersOwn, Opening, TypeOK
  <2>2. ASSUME NEW o \in Owners, Owners = {o}
        PROVE  live' = {socket'} \ {NoSocket} /\ pc'[o] = "resolving"
    BY <1>a, <1>2, <2>2 DEF SocketsAccountedFor, TypeOK
  <2> QED
    BY <1>2, <2>1, <2>2 DEF SocketsAccountedFor
<1>3. CASE ~opened /\ socket # NoSocket /\ StartPrepare(t, socket)
           /\ live' = IF socket' = NoSocket THEN live \ {socket} ELSE live
  <2>1. \E x \in {"idle", "probing"} : pc' = [pc EXCEPT ![t] = x]
    BY <1>3 DEF StartPrepare, Opened
  <2>2. OpenersOwn'
    BY <1>a, <2>1 DEF OpenersOwn, Opening, TypeOK
  <2>3. ASSUME NEW o \in Owners PROVE Owners # {o}
    BY <1>a, <1>3 DEF SocketsAccountedFor
  <2> QED
    BY <2>2, <2>3 DEF SocketsAccountedFor
<1> QED
  BY <1>1, <1>2, <1>3 DEF OpenCall

LEMMA OpenResolvedSockets ==
    ASSUME SocketInv, NEW t \in Tasks, OpenResolved(t)
    PROVE  OpenersOwn' /\ SocketsAccountedFor'
<1> USE DEF SocketInv
<1>1. /\ pc[t] = "resolving" /\ t \in Owners
      /\ created' = created + 1 /\ created \in Nat /\ created' # NoSocket
      /\ StartPrepare(t, created')
      /\ live' = IF socket' = NoSocket THEN live ELSE live \union {created'}
  BY DEF OpenResolved, OpenersOwn, Opening, TypeOK, NoSocket
<1>2. \E x \in {"idle", "probing"} : pc' = [pc EXCEPT ![t] = x]
  BY <1>1 DEF StartPrepare, Opened
<1>3. OpenersOwn'
  BY <1>1, <1>2 DEF OpenersOwn, Opening, TypeOK
<1>4. ASSUME NEW o \in Owners, Owners = {o}
      PROVE  /\ live' = {socket'} \ {NoSocket}
             /\ pc'[o] = "resolving" => ~opened' /\ socket' = NoSocket
             /\ pc'[o] = "probing" => ~opened' /\ socket' # NoSocket /\ rsock'[o] = socket'
             /\ pc'[o] \notin {"resolving", "probing"} => (opened' <=> socket' # NoSocket)
  <2>1. o = t
    BY <1>1, <1>4
  <2>2. live = {} /\ ~opened /\ socket = NoSocket
    BY <1>1, <1>4, <2>1 DEF SocketsAccountedFor
  <2>3. CASE Opened(t, created') /\ ~PrepareOnOpen
    BY <1>1, <2>1, <2>2, <2>3 DEF Opened, TypeOK
  <2>4. CASE PrepareOnOpen
    BY <1>1, <2>1, <2>2, <2>4 DEF StartPrepare, TypeOK
  <2> QED
    BY <1>1, <2>3, <2>4 DEF StartPrepare
<1> QED
  BY <1>3, <1>4 DEF SocketsAccountedFor

LEMMA CloseCallSockets ==
    ASSUME SocketInv, NEW t \in Tasks, CloseCall(t)
    PROVE  OpenersOwn' /\ SocketsAccountedFor'
<1> USE DEF SocketInv
<1>1. /\ t \in Owners /\ pc[t] = "idle" /\ pc' = pc
      /\ opened' = FALSE /\ socket' = NoSocket /\ live' = live \ {socket}
  BY DEF CloseCall, CloseClient, StartCall, local
<1>2. OpenersOwn'
  BY <1>1 DEF OpenersOwn
<1>3. SocketsAccountedFor'
  BY <1>1 DEF SocketsAccountedFor
<1> QED
  BY <1>2, <1>3

LEMMA ProbeAnsweredSockets ==
    ASSUME SocketInv, NEW t \in Tasks, ProbeAnswered(t)
    PROVE  OpenersOwn' /\ SocketsAccountedFor'
<1> USE DEF SocketInv
<1>1. UNCHANGED <<socket, live>>
  BY DEF ProbeAnswered
<1>2. CASE pc[t] = "discovering" /\ Issue(t, call[t]) /\ UNCHANGED opened
  <2>1. /\ \E x \in {"idle", "receiving"} : pc' = [pc EXCEPT ![t] = x]
        /\ rsock' = rsock \/ rsock' = [rsock EXCEPT ![t] = socket]
    BY <1>2 DEF Issue, Transmit
  <2>2. Beside(t)
    BY <1>1, <1>2, <2>1 DEF Beside, Opening, TypeOK
  <2> QED
    BY <2>2, BesideKeeps
<1>3. CASE pc[t] = "probing" /\ opened' = TRUE /\ pc' = [pc EXCEPT ![t] = "idle"]
  <2>1. OpenersOwn'
    BY <1>3 DEF OpenersOwn, Opening, TypeOK
  <2>2. ASSUME NEW o \in Owners, Owners = {o}
        PROVE  live' = {socket'} \ {NoSocket} /\ pc'[o] = "idle" /\ opened' /\ socket' # NoSocket
    <3>1. o = t
      BY <1>3, <2>2 DEF OpenersOwn, Opening
    <3> QED
      BY <1>1, <1>3, <2>2, <3>1 DEF SocketsAccountedFor, TypeOK
  <2> QED
    BY <2>1, <2>2 DEF SocketsAccountedFor
<1> QED
  BY <1>2, <1>3 DEF ProbeAnswered

LEMMA StepSockets ==
    ASSUME SocketInv, NEW t \in Tasks, Step(t)
    PROVE  OpenersOwn' /\ SocketsAccountedFor'
<1> USE DEF SocketInv
<1>1. ASSUME UNCHANGED client, rsock' = rsock, pc[t] \notin Opening,
             NEW x, x \notin Opening, pc' = [pc EXCEPT ![t] = x]
      PROVE  OpenersOwn' /\ SocketsAccountedFor'
  <2>1. Beside(t)
    BY <1>1 DEF Beside, client, TypeOK
  <2> QED
    BY <2>1, BesideKeeps
<1>2. CASE OpenFails(t) \/ ProbeRejected(t) \/ Reject(t) \/ ReceiveError(t)
  BY <1>2, RaiseSockets DEF OpenFails, ProbeRejected, Reject, ReceiveError
<1>3. ASSUME NEW k, RequestCall(t, k) PROVE OpenersOwn' /\ SocketsAccountedFor'
  <2>1. UNCHANGED client /\ pc[t] \notin Opening
    BY <1>3 DEF RequestCall, StartCall, Opening
  <2>2. CASE RunLocked(t, k)
    BY <2>1, <2>2, RunLockedBeside, BesideKeeps
  <2>3. CASE pc' = [pc EXCEPT ![t] = "queued"] /\ rsock' = rsock
    BY <1>1, <2>1, <2>3 DEF Opening
  <2> QED
    BY <1>3, <2>2, <2>3 DEF RequestCall, LockFree
<1>4. CASE LockGranted(t)
  BY <1>4, RunLockedBeside, BesideKeeps DEF LockGranted, Opening
<1>5. CASE Arrive(t)
  BY <1>5, BesideKeeps DEF Arrive, client, local, Beside
<1>6. CASE Answer(t)
  BY <1>1, <1>6 DEF Answer, Matches, Opening
<1>7. CASE Ignore(t)
  <2>1. CASE Raise(t)
    BY <2>1, RaiseSockets
  <2>2. CASE rsock' = [rsock EXCEPT ![t] = socket] /\ UNCHANGED <<client, pc>>
    <3>1. Beside(t)
      BY <2>2 DEF Beside, client, TypeOK
    <3> QED
      BY <3>1, BesideKeeps
  <2> QED
    BY <1>7, <2>1, <2>2 DEF Ignore, Matches
<1>8. CASE ReceiveTimeout(t)
  <2>1. CASE Raise(t)
    BY <2>1, RaiseSockets
  <2>2. CASE /\ rsock' = [rsock EXCEPT ![t] = socket]
             /\ pc' = [pc EXCEPT ![t] = pc[t]]
             /\ UNCHANGED client
    <3>1. Beside(t)
      BY <2>2 DEF Beside, client, TypeOK
    <3> QED
      BY <3>1, BesideKeeps
  <2> QED
    BY <1>8, <2>1, <2>2 DEF ReceiveTimeout, MayRetry, Transmit
<1>9. CASE Cancel(t)
  <2>1. CASE Raise(t)
    BY <2>1, RaiseSockets
  <2>2. CASE /\ pc[t] = "queued" /\ pc' = [pc EXCEPT ![t] = "idle"]
             /\ UNCHANGED <<client, rsock>>
    BY <1>1, <2>2 DEF Opening
  <2> QED
    BY <1>9, <2>1, <2>2 DEF Cancel
<1> QED
  BY <1>2, <1>3, <1>4, <1>5, <1>6, <1>7, <1>8, <1>9, OpenCallSockets,
     OpenResolvedSockets, CloseCallSockets, ProbeAnsweredSockets DEF Step

LEMMA SocketsInit == Init => SocketInv
<1>1. Init => OpenersOwn /\ SocketsAccountedFor
  BY SessionAssumption DEF Init, OpenersOwn, Opening, SocketsAccountedFor
<1> QED
  BY <1>1, InitType DEF SocketInv

LEMMA SocketStep == SocketInv /\ [Next]_vars => SocketInv'
<1> SUFFICES ASSUME SocketInv, [Next]_vars PROVE SocketInv'
  OBVIOUS
<1>1. TypeOK'
  BY TypeStep DEF SocketInv
<1>2. CASE UNCHANGED vars
  BY <1>1, <1>2 DEF vars, client, local, SocketInv, OpenersOwn, SocketsAccountedFor
<1>3. CASE \E t \in Tasks : Step(t)
  BY <1>1, <1>3, StepSockets DEF SocketInv
<1> QED
  BY <1>2, <1>3 DEF Next, Finished

\* As long as one task does all the opening and closing, whatever the others
\* do: the client's socket is the only one not closed, and the session is open
\* exactly when there is one, however many opens failed, were cancelled or were
\* repeated (session.py: open, close; transport/udp.py: UdpClient).
THEOREM NoSocketLost == Spec => []SocketsAccountedFor
<1>1. SocketInv => SocketsAccountedFor
  BY DEF SocketInv
<1> QED
  BY SocketsInit, SocketStep, <1>1, PTL DEF Spec

\* closing the client closes the socket it forgets
LEMMA CloseForgetsNone ==
    ASSUME TypeOK, CloseClient
    PROVE  Forgotten' = Forgotten
  BY DEF TypeOK, CloseClient, Forgotten, NoSocket

LEMMA RaiseForgetsNone ==
    ASSUME TypeOK, NEW t \in Tasks, Raise(t)
    PROVE  Forgotten' = Forgotten
  BY CloseForgetsNone DEF Raise, client, Forgotten

LEMMA OpenCallForgetsNone ==
    ASSUME TypeOK, NEW t \in Tasks, OpenCall(t)
    PROVE  Forgotten' = Forgotten
<1>1. CASE UNCHANGED <<socket, live>>
  BY <1>1 DEF Forgotten
<1>2. CASE /\ socket # NoSocket /\ StartPrepare(t, socket)
           /\ live' = IF socket' = NoSocket THEN live \ {socket} ELSE live
  <2>1. socket' = socket \/ socket' = NoSocket
    BY <1>2 DEF StartPrepare, Opened
  <2> QED
    BY <1>2, <2>1 DEF Forgotten, TypeOK, NoSocket
<1> QED
  BY <1>1, <1>2 DEF OpenCall

\* a lookup that ends when the client has no socket forgets none
LEMMA OpenResolvedForgets ==
    ASSUME TypeOK, NEW t \in Tasks, OpenResolved(t)
    PROVE  /\ socket = NoSocket => Forgotten' = Forgotten
           /\ pc[t] = "resolving" /\ pc'[t] # "resolving"
<1>1. /\ StartPrepare(t, created') /\ created' = created + 1
      /\ live' = IF socket' = NoSocket THEN live ELSE live \union {created'}
      /\ pc[t] = "resolving"
  BY DEF OpenResolved
<1>2. \E x \in {"idle", "probing"} : pc' = [pc EXCEPT ![t] = x]
  BY <1>1 DEF StartPrepare, Opened
<1>3. socket' \in {created', NoSocket}
  BY <1>1 DEF StartPrepare, Opened
<1>4. created' \notin live
  BY <1>1 DEF TypeOK
<1>5. NoSocket \notin live
  BY DEF TypeOK, NoSocket
<1>6. socket = NoSocket => Forgotten' = Forgotten
  BY <1>1, <1>3, <1>4, <1>5 DEF Forgotten
<1> QED
  BY <1>1, <1>2, <1>6 DEF TypeOK

LEMMA StepForgets ==
    ASSUME TypeOK, NEW t \in Tasks, Step(t), ~OpenResolved(t)
    PROVE  Forgotten' = Forgotten
<1>1. CASE UNCHANGED client
  BY <1>1 DEF client, Forgotten
<1>2. CASE OpenCall(t)
  BY <1>2, OpenCallForgetsNone
<1>3. CASE CloseCall(t)
  BY <1>3, CloseForgetsNone DEF CloseCall
<1>4. CASE ProbeAnswered(t)
  BY <1>4 DEF ProbeAnswered, Forgotten
<1>5. CASE Raise(t)
  BY <1>5, RaiseForgetsNone
<1>6. ASSUME NEW k, RequestCall(t, k) PROVE Forgotten' = Forgotten
  BY <1>1, <1>6 DEF RequestCall
<1> QED
  BY <1>1, <1>2, <1>3, <1>4, <1>5, <1>6
     DEF Step, OpenFails, ProbeRejected, LockGranted, Arrive, Answer, Ignore,
         Reject, ReceiveTimeout, ReceiveError, Cancel

\* For any number of tasks that open, close, fail and are cancelled at once:
\* only an open() whose address lookup ends after another open() has stored a
\* socket leaves one that nobody closes (transport/udp.py: UdpClient.open;
\* session.py: open, close).
THEOREM LostOnlyByOverlap == Spec => OnlyOverlapsLoseSockets
<1>a. SocketInv /\ [Next]_vars =>
        [Forgotten' # Forgotten =>
           \E t \in Owners : /\ pc[t] = "resolving" /\ pc'[t] # "resolving"
                             /\ socket # NoSocket]_vars
  <2> SUFFICES ASSUME SocketInv, Next, Forgotten' # Forgotten
               PROVE  \E t \in Owners : /\ pc[t] = "resolving" /\ pc'[t] # "resolving"
                                        /\ socket # NoSocket
    BY DEF Forgotten, vars, client
  <2>1. ~UNCHANGED vars
    BY DEF vars, client, Forgotten
  <2>2. PICK t \in Tasks : Step(t)
    BY <2>1 DEF Next, Finished
  <2>3. OpenResolved(t)
    BY <2>2, StepForgets DEF SocketInv
  <2>4. pc[t] = "resolving" /\ pc'[t] # "resolving" /\ socket # NoSocket
    BY <2>3, OpenResolvedForgets DEF SocketInv
  <2> QED
    BY <2>4 DEF SocketInv, OpenersOwn, Opening
<1>b. Init => SocketInv
  BY SocketsInit
<1> QED
  BY <1>a, <1>b, SocketStep, PTL DEF Spec, OnlyOverlapsLoseSockets
==============================================================================
