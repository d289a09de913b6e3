------------------------------ MODULE ServeLoop ------------------------------
(***************************************************************************)
(* V2cResponder.serve and serve_forever (responder/server.py) on a         *)
(* UdpServer: each consumer may run a serve loop while the owner opens,    *)
(* closes and reopens the responder.                                       *)
(***************************************************************************)
EXTENDS UdpServer

CONSTANT MaxCount    \* bound: the counts serve() is called with

ASSUME ServeAssumption == MaxCount \in Nat

VARIABLES
    closed,      \* V2cResponder._closed
    serving,     \* the tasks inside serve()
    count,       \* serve's count, 0 for ever
    handled,     \* serve's handled
    result,      \* how each task's last serve() ended
    replies      \* responses sent, in order: to which request, from which
                 \* queue, through which transport, and by which task

loopVars == <<closed, serving, count, handled, result, replies>>
vars == <<serverVars, loopVars>>

Init ==
    /\ ServerInit
    /\ closed = FALSE
    /\ serving = {}
    /\ count = [c \in Consumers |-> 0]
    /\ handled = [c \in Consumers |-> 0]
    /\ result = [c \in Consumers |-> "none"]
    /\ replies = <<>>

Open  == closed' = FALSE /\ ServerOpen
         /\ UNCHANGED <<serving, count, handled, result, replies>>

\* mutant: close() does not set _closed
CloseUnflagged ==
    ServerClose /\ UNCHANGED <<closed, serving, count, handled, result, replies>>

Close == closed' = TRUE /\ ServerClose
         /\ UNCHANGED <<serving, count, handled, result, replies>>

Serve(c, n) ==
    /\ running = NoTask
    /\ c \notin serving
    /\ serving' = serving \union {c}
    /\ count' = [count EXCEPT ![c] = n]
    /\ handled' = [handled EXCEPT ![c] = 0]
    /\ result' = [result EXCEPT ![c] = "none"]
    /\ running' = c
    /\ UNCHANGED <<closed, replies>>
    /\ UNCHANGED <<transport, opens, queue, getters, woken, late, waitsOn, owner, losing, received>>

\* serve() ends
Return(c, how) ==
    /\ serving' = serving \ {c}
    /\ result' = [result EXCEPT ![c] = how]

\* serve() meets a TransportError: a clean end iff the responder is closed
TransportError(c, where) ==
    /\ Return(c, IF closed THEN "stopped" ELSE where)
    /\ UNCHANGED <<closed, count, handled, replies>>

\* mutant: sendto() on a server that may not be open
ReplyUnchecked(c, n, g) ==
    /\ replies' = Append(replies, [to |-> n, from |-> g, via |-> transport, by |-> c])
    /\ handled' = [handled EXCEPT ![c] = @ + 1]
    /\ UNCHANGED <<closed, count>>

\* handle_request sends the response to request n it took from queue g
Reply(c, n, g) ==
    /\ transport # 0
    /\ replies' = Append(replies, [to |-> n, from |-> g, via |-> transport, by |-> c])
    /\ handled' = [handled EXCEPT ![c] = @ + 1]
    /\ UNCHANGED <<closed, count>>

\* handle_request with the first item of queue g
Handle(c, g) ==
    /\ queue[g] # <<>>
    /\ LET item == Head(queue[g]) IN
       \/ /\ item.type = "noise"
          /\ Take(c, g, TRUE)
          /\ UNCHANGED loopVars
       \/ /\ item.type = "closed"
          /\ Take(c, g, FALSE)
          /\ TransportError(c, "lost")
       \/ /\ item.type = "request"
          /\ handled[c] + 1 # count[c]
          /\ Take(c, g, TRUE)
          /\ Reply(c, item.n, g)
          /\ UNCHANGED <<serving, result>>
       \/ /\ item.type = "request"
          /\ handled[c] + 1 = count[c]
          /\ Take(c, g, FALSE)
          /\ Reply(c, item.n, g)
          /\ Return(c, "done")
       \/ /\ item.type = "request"              \* not open, or an OSError
          /\ Take(c, g, FALSE)
          /\ TransportError(c, "unsent")

\* c calls receive(): the server is not open, has an item, or has none
Receive(c) ==
    /\ running = c
    /\ \/ /\ transport = 0
          /\ TransportError(c, "refused")
          /\ running' = NoTask
          /\ UNCHANGED <<transport, opens, queue, getters, woken, late, waitsOn,
                         owner, losing, received>>
       \/ /\ transport # 0
          /\ Handle(c, transport)
       \/ /\ transport # 0
          /\ Suspend(c, transport)
          /\ UNCHANGED loopVars

\* c was woken and runs: the item may have gone to another task
Resume(c) ==
    /\ Runs(c)
    /\ \/ Handle(c, waitsOn[c])
       \/ Suspend(c, waitsOn[c]) /\ UNCHANGED loopVars

Cancel(c) ==
    /\ CancelGet(c)
    /\ Return(c, "cancelled")
    /\ UNCHANGED <<closed, count, handled, replies>>

Next ==
    \/ Open \/ Close
    \/ ServerNext /\ UNCHANGED loopVars
    \/ \E c \in Consumers :
         \/ \E n \in 0 .. MaxCount : Serve(c, n)
         \/ Receive(c) \/ Resume(c) \/ Cancel(c)

Spec == Init /\ [][Next]_vars

\* A callback that is ready runs after those before it, and a task that runs
\* suspends or ends: it drains a queue nobody fills meanwhile.  The owner and
\* the peer owe nothing.
FairSpec ==
    /\ Spec
    /\ SF_vars(ConnectionLost /\ UNCHANGED loopVars)
    /\ \A c \in Consumers : WF_vars(Receive(c)) /\ SF_vars(Resume(c))

------------------------------------------------------------------------------
\* The values every variable takes; a response always has a transport.
TypeOK ==
    /\ transport \in 0 .. opens
    /\ opens \in 0 .. MaxOpens
    /\ received \in Nat
    /\ queue \in [Transports -> Seq([type : {"request", "noise", "closed"}, n : 0 .. received])]
    /\ getters \in [Transports -> Seq(Consumers)]
    /\ woken \subseteq Consumers /\ late \subseteq woken /\ serving \subseteq Consumers
    /\ waitsOn \in [Consumers -> 0 .. opens]
    /\ running \in Consumers \union {NoTask}
    /\ owner \in {"idle", "binding", "closing"}
    /\ losing \in 0 .. opens
    /\ closed \in BOOLEAN
    /\ result \in [Consumers -> {"none", "done", "stopped", "lost", "unsent",
                                 "refused", "cancelled"}]
    /\ replies \in Seq([to : 1 .. received, from : 1 .. opens, via : 1 .. opens, by : Consumers])

\* Each request is answered at most once, however many tasks serve and however
\* often one is cancelled between being woken and running, and requests are
\* answered in the order they came in; only an answer that leaves through a
\* later transport than its request came in on may come out of order.
AnsweredInOrder ==
    \A i, j \in DOMAIN replies :
        i < j => /\ replies[i].to # replies[j].to
                 /\ replies[j].via = replies[j].from => replies[i].to < replies[j].to

\* A response leaves through the transport its request came in on, not through
\* the one of a later open(), unless the task that sends it was woken in place
\* of a cancelled one after the owner was ready to leave close().
AnsweredOnItsTransport ==
    [][\A i \in DOMAIN replies' \ DOMAIN replies :
          replies'[i].by \notin late => replies'[i].via = replies'[i].from]_vars

\* A task waiting for requests when the owner closes the responder leaves
\* serve() cleanly, even when the owner opens the responder again at once; only
\* one that was woken in place of a cancelled one, after the owner was ready to
\* leave close(), may find the responder open and raise TransportError.
CloseIsNotAnError ==
    [][\A c \in Consumers : result[c] # "lost" /\ result'[c] = "lost" => c \in late]_vars

\* A serve loop that alone waits for requests when the owner closes the
\* responder ends, whatever lies in the queue before the sentinel, unless
\* the owner opens the responder again first.
LoneLoopStops ==
    \A c \in Consumers :
        serving = {c} /\ losing # 0 /\ waitsOn[c] = losing ~> c \notin serving \/ ~closed
==============================================================================
