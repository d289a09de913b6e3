------------------------------ MODULE UdpServer ------------------------------
(***************************************************************************)
(* UdpServer (transport/udp.py) between one owner, who opens and closes    *)
(* it, and the tasks that receive() from it.  Every open() makes a         *)
(* transport with a queue of its own, numbered 1, 2, ...; the queue is an  *)
(* asyncio.Queue, whose waiting getters are woken one per item, in order,  *)
(* and look again when they run.  The event loop runs one task until it    *)
(* suspends: no other step is taken while running names a task.            *)
(*                                                                         *)
(* The module gives the server's steps; a module that EXTENDS it says what *)
(* the receiving tasks do with an item.                                    *)
(***************************************************************************)
EXTENDS Integers, Sequences, SequencesExt

CONSTANTS
    Consumers,      \* the tasks that receive
    NoTask,         \* none of them
    MaxOpens,       \* bound: transports made
    MaxDatagrams    \* bound: datagrams that come in

ASSUME UdpServerAssumption ==
    /\ NoTask \notin Consumers
    /\ MaxOpens \in Nat
    /\ MaxDatagrams \in Nat

VARIABLES
    transport,   \* UdpServer._transport: 0, or the number of a transport
    opens,       \* transports made so far
    queue,       \* the items of each transport's queue
    getters,     \* who is suspended in get() of each queue, first come first
    woken,       \* who has been woken and not run yet
    late,        \* those of them who were woken in place of a cancelled getter
                 \* when connection_lost had made the owner ready already
    waitsOn,     \* the queue each task is suspended on, or 0
    running,     \* the task the event loop is running, or NoTask
    owner,       \* what the owner is suspended in
    losing,      \* a closed transport whose connection_lost is to be called, or 0
    received     \* datagrams that came in, numbered 1, 2, ...

serverVars == <<transport, opens, queue, getters, woken, late, waitsOn, running,
                owner, losing, received>>

Transports == 1 .. MaxOpens

\* a datagram the task answers, one it passes over, and _ServerClosed
Request(n) == [type |-> "request", n |-> n]
Noise(n)   == [type |-> "noise",   n |-> n]
ServerClosed == [type |-> "closed", n |-> 0]

ServerInit ==
    /\ transport = 0 /\ opens = 0 /\ received = 0
    /\ queue = [g \in Transports |-> <<>>]
    /\ getters = [g \in Transports |-> <<>>]
    /\ woken = {} /\ late = {}
    /\ waitsOn = [c \in Consumers |-> 0]
    /\ running = NoTask
    /\ owner = "idle"
    /\ losing = 0

\* Queue._wakeup_next on queue g
WakeNext(g) ==
    IF getters[g] = <<>>
    THEN UNCHANGED <<getters, woken>>
    ELSE /\ woken' = woken \union {Head(getters[g])}
         /\ getters' = [getters EXCEPT ![g] = Tail(@)]

\* mutant: a LIFO queue
PutInFront(g, item) ==
    /\ queue' = [queue EXCEPT ![g] = <<item>> \o @]
    /\ WakeNext(g)

Put(g, item) ==
    /\ queue' = [queue EXCEPT ![g] = Append(@, item)]
    /\ WakeNext(g)

\* datagram_received, from a peer with an address
DatagramReceived ==
    /\ running = NoTask
    /\ transport # 0
    /\ received < MaxDatagrams
    /\ received' = received + 1
    /\ \E item \in {Request(received'), Noise(received')} : Put(transport, item)
    /\ UNCHANGED <<transport, opens, late, waitsOn, running, owner, losing>>

\* open() on a bound server does nothing, else create_datagram_endpoint
\* suspends the owner
ServerOpen ==
    /\ running = NoTask
    /\ owner = "idle"
    /\ owner' = IF transport # 0 THEN "idle" ELSE "binding"
    /\ UNCHANGED <<transport, opens, queue, getters, woken, late, waitsOn, running, losing, received>>

Bound ==
    /\ running = NoTask
    /\ owner = "binding"
    /\ opens < MaxOpens
    /\ opens' = opens + 1
    /\ transport' = opens'
    /\ owner' = "idle"
    /\ UNCHANGED <<queue, getters, woken, late, waitsOn, running, losing, received>>

BindFails ==
    /\ running = NoTask
    /\ owner = "binding"
    /\ owner' = "idle"
    /\ UNCHANGED <<transport, opens, queue, getters, woken, late, waitsOn, running, losing, received>>

\* close() forgets the transport before it closes it and awaits closed
ServerClose ==
    /\ running = NoTask
    /\ owner = "idle"
    /\ transport' = 0
    /\ IF transport = 0
       THEN UNCHANGED <<owner, losing>>
       ELSE owner' = "closing" /\ losing' = transport
    /\ UNCHANGED <<opens, queue, getters, woken, late, waitsOn, running, received>>

\* mutant: no sentinel
ConnectionLostSilently ==
    /\ running = NoTask
    /\ losing # 0
    /\ losing' = 0
    /\ UNCHANGED <<transport, opens, queue, getters, woken, late, waitsOn, running, owner, received>>

\* connection_lost: the sentinel, then the owner
ConnectionLost ==
    /\ running = NoTask
    /\ losing # 0
    /\ Put(losing, ServerClosed)
    /\ losing' = 0
    /\ UNCHANGED <<transport, opens, late, waitsOn, running, owner, received>>

\* mutant: close() does not await closed
CloseReturnsAtOnce ==
    /\ running = NoTask
    /\ owner = "closing"
    /\ owner' = "idle"
    /\ UNCHANGED <<transport, opens, queue, getters, woken, late, waitsOn, running, losing, received>>

\* the owner runs after whoever the sentinel, or a datagram before it, woke,
\* and before those a cancelled one of them woke in its place
CloseReturns ==
    /\ running = NoTask
    /\ owner = "closing" /\ losing = 0
    /\ woken \subseteq late
    /\ owner' = "idle"
    /\ UNCHANGED <<transport, opens, queue, getters, woken, late, waitsOn, running, losing, received>>

ServerNext ==
    DatagramReceived \/ Bound \/ BindFails \/ ConnectionLost \/ CloseReturns

------------------------------------------------------------------------------
(* Steps of a receiving task.                                               *)

\* c's turn among those woken; the owner suspended in close() of c's queue is
\* ready before c when c is late
Runs(c) ==
    /\ running = NoTask
    /\ c \in woken
    /\ c \in late => ~(owner = "closing" /\ waitsOn[c] = opens)

\* get() finds the queue empty and suspends c
Suspend(c, g) ==
    /\ queue[g] = <<>>
    /\ getters' = [getters EXCEPT ![g] = Append(@, c)]
    /\ woken' = woken \ {c} /\ late' = late \ {c}
    /\ waitsOn' = [waitsOn EXCEPT ![c] = g]
    /\ running' = NoTask
    /\ UNCHANGED <<transport, opens, queue, owner, losing, received>>

\* get() hands c the first item; c goes on running iff it receives again
Take(c, g, more) ==
    /\ queue[g] # <<>>
    /\ queue' = [queue EXCEPT ![g] = Tail(@)]
    /\ woken' = woken \ {c} /\ late' = late \ {c}
    /\ waitsOn' = [waitsOn EXCEPT ![c] = 0]
    /\ running' = IF more THEN c ELSE NoTask
    /\ UNCHANGED <<transport, opens, getters, owner, losing, received>>

\* c is cancelled in get().  When it had been woken it runs in its turn and
\* wakes another getter for the item, who becomes ready behind everybody else:
\* behind the owner too, once the connection of queue g is lost
CancelGet(c) ==
    /\ running = NoTask
    /\ waitsOn[c] # 0
    /\ waitsOn' = [waitsOn EXCEPT ![c] = 0]
    /\ LET g    == waitsOn[c]
           next == Head(getters[g])
           lost == g \notin {transport, losing} IN
       \/ /\ c \notin woken
          /\ getters' = [getters EXCEPT ![g] = RemoveFirst(@, c)]
          /\ UNCHANGED <<woken, late>>
       \/ /\ Runs(c)
          /\ queue[g] = <<>> \/ getters[g] = <<>>
          /\ woken' = woken \ {c} /\ late' = late \ {c}
          /\ UNCHANGED getters
       \/ /\ Runs(c)
          /\ queue[g] # <<>> /\ getters[g] # <<>>
          /\ getters' = [getters EXCEPT ![g] = Tail(@)]
          /\ woken' = (woken \ {c}) \union {next}
          /\ late' = (late \ {c}) \union (IF lost THEN {next} ELSE {})
    /\ UNCHANGED <<transport, opens, queue, running, owner, losing, received>>
==============================================================================
