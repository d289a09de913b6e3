----------------------------- MODULE ObjectSource -----------------------------
(***************************************************************************)
(* InMemoryObjectSource (responder/sources.py): a dict from OIDs to values *)
(* and, beside it, the sorted list of its keys that lookup_next searches   *)
(* by bisection.  The owner of the responder changes both while requests   *)
(* are being answered; each method runs without suspending.  A value may   *)
(* be a rule (responder/rules.py), evaluated whenever it is looked up; one *)
(* rule object may stand under several OIDs.                               *)
(***************************************************************************)
EXTENDS Oids, SequencesExt

CONSTANTS
    Oid,         \* the OIDs in play
    Value        \* the values of objects, CounterRule perhaps among them

ASSUME SourceAssumption ==
    /\ \A o \in Oid : o \in Seq(Nat) /\ o # <<>>
    /\ "endOfMibView" \notin Value

VARIABLES
    values,      \* _values: a function from the stored OIDs to values
    sorted,      \* _sorted_oids
    count        \* _current of the CounterRule

sourceVars == <<values, sorted, count>>

\* a source with any objects at all of the OIDs in oids, as the constructor or
\* set_objects leaves it
SourceInit(oids) ==
    /\ sorted \in {s \in UNION {[1 .. n -> oids] : n \in 0 .. Cardinality(oids)} :
                     \A i, j \in DOMAIN s : i < j => Before(s[i], s[j])}
    /\ values \in [{sorted[i] : i \in DOMAIN sorted} -> Value]
    /\ count = 0

CounterRule == "counter"
Unresolvable == <<>>      \* a target normalize_targets raises for

Stored == DOMAIN values

\* mutant: bisect_left
BisectLeft(keys, oid) == Cardinality({i \in 1 .. Len(keys) : Before(keys[i], oid)})

\* bisect_right: how many keys are not after oid
Bisect(keys, oid) == Cardinality({i \in 1 .. Len(keys) : AtMost(keys[i], oid)})

EndOfMibView == [oid |-> <<>>, value |-> "endOfMibView"]

\* lookup_next, with EndOfMibView for None
LookupNext(oid) ==
    LET i == Bisect(sorted, oid) + 1 IN
    IF i > Len(sorted)
    THEN EndOfMibView
    ELSE [oid |-> sorted[i], value |-> values[sorted[i]]]

\* mutant: a response reads a rule once, however many varbinds it fills
ReadOnce(varbinds) ==
    [i \in DOMAIN varbinds |->
        [oid |-> varbinds[i].oid, value |-> varbinds[i].value,
         reading |-> IF varbinds[i].value = CounterRule THEN count ELSE 0]]

RulesBefore(varbinds, n) == Cardinality({i \in 1 .. n - 1 : varbinds[i].value = CounterRule})

\* get_value, called by the lookup behind each varbind in turn
Evaluated(varbinds) ==
    [i \in DOMAIN varbinds |->
        [oid |-> varbinds[i].oid, value |-> varbinds[i].value,
         reading |-> IF varbinds[i].value = CounterRule
                     THEN count + RulesBefore(varbinds, i) ELSE 0]]

\* _current after them
Advanced(varbinds) == count + RulesBefore(varbinds, Len(varbinds) + 1)

\* mutant: the key is inserted again when a value is replaced
InsertKeyAgain(keys, oid) == InsertAt(keys, Bisect(keys, oid) + 1, oid)

\* insort, when the OID is new
InsertKey(keys, oid) ==
    IF Contains(keys, oid) THEN keys ELSE InsertAt(keys, Bisect(keys, oid) + 1, oid)

SetValue(dict, oid, value) ==
    [o \in DOMAIN dict \union {oid} |-> IF o = oid THEN value ELSE dict[o]]

\* the items before the first whose target does not resolve
Applied(items) ==
    LET n == SelectInSeq(items, LAMBDA item : item[1] = Unresolvable)
    IN  IF n = 0 THEN items ELSE SubSeq(items, 1, n - 1)

\* set_object, set_objects: item by item; what was set before a target fails
\* stays
SetObjects(items) ==
    LET done == Applied(items)
        keys[n \in 0 .. Len(done)] ==
            IF n = 0 THEN sorted ELSE InsertKey(keys[n - 1], done[n][1])
        dict[n \in 0 .. Len(done)] ==
            IF n = 0 THEN values ELSE SetValue(dict[n - 1], done[n][1], done[n][2])
    IN  /\ sorted' = keys[Len(done)]
        /\ values' = dict[Len(done)]
        /\ UNCHANGED count

\* delete_object: False, and nothing done, when there is no such object
DeleteObject(oid) ==
    /\ oid \in Stored
    /\ values' = [o \in Stored \ {oid} |-> values[o]]
    /\ sorted' = RemoveFirst(sorted, oid)
    /\ UNCHANGED count

Clear ==
    /\ values' = [o \in {} |-> 0]
    /\ sorted' = <<>>
    /\ UNCHANGED count

\* The list bisection relies on is the dict's keys in strictly increasing
\* order: replacing a value adds no second key, and no change, not even a
\* set_objects that fails half-way, leaves the two out of step.
SourceConsistent ==
    /\ \A o \in Oid : o \in Stored <=> \E i \in 1 .. Len(sorted) : sorted[i] = o
    /\ \A i \in 1 .. Len(sorted) - 1 : Before(sorted[i], sorted[i + 1])
==============================================================================
