------------------------------ MODULE Responder ------------------------------
(***************************************************************************)
(* The requests V2cResponder answers (responder/server.py) from an         *)
(* ObjectSource: which varbinds and which error each response carries.     *)
(***************************************************************************)
EXTENDS ObjectSource

\* mutant: the requested OID with the value of the next object
MislabelledVarbind(oid) ==
    LET match == LookupNext(oid) IN
    IF match = EndOfMibView THEN [oid |-> oid, value |-> "endOfMibView"]
                            ELSE [oid |-> oid, value |-> match.value]

\* mutant: past the last object there is no OID to return
NamelessEnd(oid) == LookupNext(oid)

\* _lookup_next_varbind: past the last object the requested OID comes back
NextVarbind(oid) ==
    LET match == LookupNext(oid) IN
    IF match = EndOfMibView THEN [oid |-> oid, value |-> "endOfMibView"] ELSE match

\* _lookup_exact_varbind
ExactVarbind(oid) ==
    [oid |-> oid, value |-> IF oid \in Stored THEN values[oid] ELSE "noSuchObject"]

\* mutant: every repetition starts from the requested OID
StuckCursor(oid, reps) == [k \in 0 .. reps |-> oid]

\* current_oids of one repeater after each repetition: the last OID found
Cursor(oid, reps) ==
    LET cursor[k \in 0 .. reps] == IF k = 0 THEN oid ELSE NextVarbind(cursor[k - 1]).oid
    IN  cursor

AtLeast0(n) == IF n < 0 THEN 0 ELSE n

\* _build_bulk_varbinds: one varbind for each non-repeater, then, for each
\* repetition, one for each repeater
BulkVarbinds(oids, nonRepeaters, maxRepetitions) ==
    LET reps    == AtLeast0(maxRepetitions)
        split   == Min({AtLeast0(nonRepeaters), Len(oids)})
        width   == Len(oids) - split
        cursors == [j \in 1 .. width |-> Cursor(oids[split + j], reps)]
    IN  [i \in 1 .. split + reps * width |->
           IF i <= split
           THEN NextVarbind(oids[i])
           ELSE LET row    == (i - split - 1) \div width
                    column == ((i - split - 1) % width) + 1
                IN  NextVarbind(cursors[column][row])]

Response(status, index, varbinds) ==
    [errorStatus |-> status, errorIndex |-> index, varbinds |-> varbinds]

Unanswered == Response("none", 0, <<>>)     \* None

\* _build_response_pdu: a SET is refused, at its first varbind if it has one
ResponsePdu(type, oids, nonRepeaters, maxRepetitions) ==
    CASE type = "GET"      -> Response("noError", 0, [i \in DOMAIN oids |-> ExactVarbind(oids[i])])
      [] type = "GET_NEXT" -> Response("noError", 0, [i \in DOMAIN oids |-> NextVarbind(oids[i])])
      [] type = "GET_BULK" -> Response("noError", 0,
                                       BulkVarbinds(oids, nonRepeaters, maxRepetitions))
      [] type = "SET"      -> Response("notWritable", Min({1, Len(oids)}),
                                       [i \in DOMAIN oids |-> [oid |-> oids[i], value |-> "set"]])
      [] OTHER             -> Unanswered

------------------------------------------------------------------------------
(* The MIB view a manager should see.                                       *)

\* the k-th stored object after oid, and what stands in for it past the end
Successor(oid, k) ==
    LET after == {o \in Stored : Before(oid, o)} IN
    IF k <= Cardinality(after)
    THEN LET o == CHOOSE x \in after : Cardinality({y \in after : AtMost(y, x)}) = k
         IN  [oid |-> o, value |-> values[o]]
    ELSE [oid |-> CHOOSE x \in after \union {oid} : \A y \in after : AtMost(y, x),
          value |-> "endOfMibView"]

\* In a GETBULK response the non-repeaters come first, then row k has, for
\* each repeater in turn, the k-th object after it; a repeater that runs out
\* repeats its last OID while the others go on.  Counts out of range are
\* clipped.
BulkRowsAreSuccessors(oids, nonRepeaters, maxRepetitions) ==
    LET split == Min({AtLeast0(nonRepeaters), Len(oids)})
        width == Len(oids) - split
        got   == ResponsePdu("GET_BULK", oids, nonRepeaters, maxRepetitions).varbinds
    IN  /\ Len(got) = split + width * AtLeast0(maxRepetitions)
        /\ \A i \in 1 .. split : got[i] = Successor(oids[i], 1)
        /\ \A k \in 1 .. maxRepetitions, j \in 1 .. width :
               got[split + (k - 1) * width + j] = Successor(oids[split + j], k)
==============================================================================
