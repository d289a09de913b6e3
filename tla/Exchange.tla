------------------------------ MODULE Exchange ------------------------------
(***************************************************************************)
(* What an SnmpSession promises the tasks that share it, with no sockets,  *)
(* datagrams, retries or lock queue: requests are issued one at a time     *)
(* under consecutive ids; the next one waits until the current one is      *)
(* over; it is over sooner or later, with at most one answer, its own.     *)
(***************************************************************************)
EXTENDS Integers

CONSTANTS Tasks, NoTask

VARIABLES
    current,    \* the task whose request is outstanding, or NoTask
    issued,     \* how many requests have been issued
    answers     \* <<task, id>> of each answer given

vars == <<current, issued, answers>>

Init == current = NoTask /\ issued = 0 /\ answers = {}

\* t issues the next request and waits for its answer
Begin(t) ==
    /\ current = NoTask
    /\ current' = t
    /\ issued' = issued + 1
    /\ UNCHANGED answers

\* a request that expects no answer, or could not be sent
Pass ==
    /\ current = NoTask
    /\ issued' = issued + 1
    /\ UNCHANGED <<current, answers>>

\* the outstanding request is answered
Answered(t) ==
    /\ current = t
    /\ current' = NoTask
    /\ answers' = answers \union {<<t, issued>>}
    /\ UNCHANGED issued

\* the outstanding request is given up
Abandon(t) ==
    /\ current = t
    /\ current' = NoTask
    /\ UNCHANGED <<issued, answers>>

Next == Pass \/ \E t \in Tasks : Begin(t) \/ Answered(t) \/ Abandon(t)

Spec == Init /\ [][Next]_vars

\* somebody's outstanding request does not stay outstanding
FairSpec == Spec /\ WF_vars(\E t \in Tasks : Answered(t) \/ Abandon(t))
=============================================================================
