-------------------------------- MODULE Walk --------------------------------
(***************************************************************************)
(* walk_subtree (manager/walk.py) against an agent.  The agent is a        *)
(* V2cResponder whose objects its owner changes while the walk is on, or   *)
(* any device at all.  Each request may be answered several times, by the  *)
(* retransmissions of the dispatcher; the first answer to come in counts.  *)
(***************************************************************************)
EXTENDS Responder

CONSTANTS
    Root,              \* the subtree walked
    MaxRepetitions,    \* bound: the max_repetitions walk() is called with
    MaxAnswers,        \* bound: answers to one request, Retries + 1
    MaxVarbinds,       \* bound: varbinds in an answer of a device
    Batches,           \* the items set_objects is called with
    MaxChanges         \* bound: changes to the objects

ASSUME WalkAssumption ==
    /\ Root \in Oid
    /\ MaxRepetitions \in Nat
    /\ MaxAnswers \in Nat
    /\ MaxVarbinds \in Nat
    /\ MaxChanges \in Nat
    /\ \A items \in Batches : items \in Seq((Oid \union {Unresolvable}) \X Value)

VARIABLES
    honest,      \* the agent is a V2cResponder
    bulk,        \* walk()'s bulk: GETBULK, or GETNEXT
    reps,        \* walk()'s max_repetitions
    pc,          \* "idle", "asking", "done" or "failed"
    current,     \* the OID of the next request
    last,        \* last_oid: <<>> for None
    results,     \* the varbinds collected
    answers,     \* answers to the outstanding request
    changes,     \* changes made so far
    held,        \* <<oid, value>> of every object held since the walk began
    stable       \* OIDs of the objects there ever since the walk began

args == <<honest, bulk, reps>>
walkVars == <<pc, current, last, results, answers>>
vars == <<sourceVars, args, walkVars, changes, held, stable>>

Varbind == [oid : Oid, value : Value \union {"endOfMibView"}, reading : {0}]

Init ==
    /\ honest \in BOOLEAN
    /\ SourceInit(IF honest THEN Oid ELSE {})
    /\ bulk = FALSE /\ reps = 0
    /\ pc = "idle" /\ current = Root /\ last = <<>> /\ results = <<>> /\ answers = {}
    /\ changes = 0 /\ held = {} /\ stable = {}

\* walk(root, bulk=b, max_repetitions=n) sends its first request
Start(b, n) ==
    /\ pc = "idle"
    /\ bulk' = b /\ reps' = IF b THEN n ELSE 0
    /\ pc' = "asking"
    /\ held' = {<<o, values[o]>> : o \in Stored}
    /\ stable' = Stored
    /\ UNCHANGED <<sourceVars, honest, current, last, results, answers, changes>>

\* a V2cResponder looks the varbinds up and answers; each transmission is a
\* request of its own to it
RespondHonest ==
    /\ honest /\ pc = "asking"
    /\ Cardinality(answers) < MaxAnswers
    /\ LET found == ResponsePdu(IF bulk THEN "GET_BULK" ELSE "GET_NEXT",
                                <<current>>, 0, reps).varbinds
       IN  /\ answers' = answers \union {Evaluated(found)}
           /\ count' = Advanced(found)
    /\ UNCHANGED <<values, sorted, args, pc, current, last, results, changes, held, stable>>

\* a device answers anything, also with more varbinds than it was asked for;
\* one answer stands for all it may give
RespondAny ==
    /\ ~honest /\ pc = "asking"
    /\ answers = {}
    /\ \E n \in 0 .. MaxVarbinds : \E r \in [1 .. n -> Varbind] : answers' = {r}
    /\ UNCHANGED <<sourceVars, args, pc, current, last, results, changes, held, stable>>

\* mutant: no check that the OIDs increase
AcceptableUnordered(r, i) ==
    /\ r[i].value # "endOfMibView"
    /\ WithinSubtree(Root, r[i].oid)

\* the checks of the inner loop on varbind i, in a response accepted up to it
Acceptable(r, i) ==
    /\ r[i].value # "endOfMibView"
    /\ WithinSubtree(Root, r[i].oid)
    /\ LET before == IF i = 1 THEN last ELSE r[i - 1].oid
       IN  before # <<>> => Before(before, r[i].oid)

\* how many varbinds of response r the loop appends
Accepted(r) ==
    Max({k \in 0 .. Len(r) : \A i \in 1 .. k : Acceptable(r, i)})

\* mutant: a response without varbinds makes the walk ask again
ReceiveEmptyAgain ==
    /\ pc = "asking"
    /\ \E r \in answers :
         LET k == Accepted(r) IN
         /\ results' = results \o SubSeq(r, 1, k)
         /\ last' = IF k = 0 THEN last ELSE r[k].oid
         /\ current' = IF k = 0 THEN current ELSE r[k].oid
         /\ pc' = IF k < Len(r) THEN "done" ELSE "asking"
    /\ answers' = {}
    /\ UNCHANGED <<sourceVars, args, changes, held, stable>>

\* send_pdu returns a response; the walk ends at the first varbind it does
\* not accept, or on a response without varbinds
Receive ==
    /\ pc = "asking"
    /\ \E r \in answers :
         LET k == Accepted(r) IN
         /\ results' = results \o SubSeq(r, 1, k)
         /\ last' = IF k = 0 THEN last ELSE r[k].oid
         /\ current' = IF k = 0 THEN current ELSE r[k].oid
         /\ pc' = IF Len(r) = 0 \/ k < Len(r) THEN "done" ELSE "asking"
    /\ answers' = {}
    /\ UNCHANGED <<sourceVars, args, changes, held, stable>>

\* send_pdu raises; walk() returns nothing
Fail ==
    /\ pc = "asking"
    /\ pc' = "failed"
    /\ results' = <<>> /\ answers' = {}
    /\ UNCHANGED <<sourceVars, args, current, last, changes, held, stable>>

\* the owner of the responder changes its objects
Change ==
    /\ honest
    /\ changes < MaxChanges
    /\ changes' = changes + 1
    /\ \/ \E items \in Batches : SetObjects(items)
       \/ \E o \in Oid : DeleteObject(o)
       \/ Clear
    /\ IF pc = "asking"
       THEN /\ held' = held \union {<<o, values'[o]>> : o \in DOMAIN values'}
            /\ stable' = stable \intersect DOMAIN values'
       ELSE UNCHANGED <<held, stable>>
    /\ UNCHANGED <<args, walkVars>>

Over == pc \in {"done", "failed"} /\ UNCHANGED vars

Next ==
    \/ \E b \in BOOLEAN, n \in 0 .. MaxRepetitions : Start(b, n)
    \/ RespondHonest \/ RespondAny \/ Receive \/ Fail \/ Change \/ Over

Spec == Init /\ [][Next]_vars

\* a request is answered, or the dispatcher gives up on it
FairSpec == Spec /\ WF_vars(Receive \/ Fail)

------------------------------------------------------------------------------
\* The values every variable takes; each answer is a sequence of varbinds.
TypeOK ==
    /\ Stored \subseteq Oid /\ \A o \in Stored : values[o] \in Value
    /\ pc \in {"idle", "asking", "done", "failed"}
    /\ honest \in BOOLEAN /\ bulk \in BOOLEAN /\ reps \in 0 .. MaxRepetitions
    /\ current \in Oid
    /\ \A r \in answers : \A i \in DOMAIN r : r[i].oid \in Oid /\ r[i].reading \in 0 .. count
    /\ last \in Oid \union {<<>>}
    /\ \A i \in DOMAIN results : /\ results[i].oid \in Oid /\ results[i].reading \in 0 .. count
                                 /\ results[i].value \in Value \union {"endOfMibView"}
    /\ count \in Nat
    /\ changes \in 0 .. MaxChanges
    /\ held \subseteq Oid \X Value
    /\ stable \subseteq Oid

\* Whatever the agent answers, the rows of a walk lie in the subtree, in
\* strictly increasing order, none of them an end-of-MIB marker.
RowsIncrease ==
    /\ \A i \in DOMAIN results : /\ WithinSubtree(Root, results[i].oid)
                                 /\ results[i].value # "endOfMibView"
    /\ \A i, j \in DOMAIN results : i < j => Before(results[i].oid, results[j].oid)

\* A finished walk of a V2cResponder has a row for every object of the
\* subtree that was there all along, whatever else was added, changed or
\* deleted between its requests.
StableObjectsFound ==
    pc = "done" /\ honest /\ (bulk => reps > 0) =>
        \A o \in stable : WithinSubtree(Root, o) /\ o # Root =>
            \E i \in DOMAIN results : results[i].oid = o

\* Every row is an object, with a value, the agent held during the walk.
RowsWereHeld ==
    honest => \A i \in DOMAIN results : <<results[i].oid, results[i].value>> \in held

\* The readings of a CounterRule increase from row to row of a walk, within a
\* response and from one to the next, though the same rule may answer for
\* several rows and retransmissions read it too.
ReadingsIncrease ==
    honest => \A i, j \in DOMAIN results :
                  i < j /\ results[i].value = CounterRule /\ results[j].value = CounterRule =>
                      results[i].reading < results[j].reading

\* The responder's GETBULK agrees with the objects it holds, for any pair of
\* targets and any counts, whatever changes led to those objects; and a GET of
\* an OID found by GETNEXT returns the same varbind.
BulkCoversTable ==
    pc = "idle" => \A s, t \in Oid :
        /\ \A n \in -1 .. 3, m \in -1 .. 2 : BulkRowsAreSuccessors(<<s, t>>, n, m)
        /\ LET found == ResponsePdu("GET_NEXT", <<s, t>>, 0, 0).varbinds
               again == ResponsePdu("GET", [i \in 1 .. 2 |-> found[i].oid], 0, 0).varbinds
           IN  \A i \in 1 .. 2 : found[i].value # "endOfMibView" => again[i] = found[i]

\* A walk ends, even against a device that answers at random, as long as the
\* device has finitely many OIDs to offer.
WalkEnds == pc = "asking" ~> pc # "asking"
==============================================================================
