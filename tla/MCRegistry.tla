------------------------------ MODULE MCRegistry ------------------------------
(* Two or three files: a scalar and an OBJECT IDENTIFIER at its instance, a  *)
(* column with the scalar's OID, a node above them, types of one name in     *)
(* different modules, and files that are refused.                            *)
EXTENDS Registry, TLC

Raw(n, path, o, k, syntax, enum) ==
    [name |-> n, oid_path |-> path, oid |-> o, kind |-> k, syntax |-> syntax, enum |-> enum,
     fields |-> TRUE]
Json(m, imports, objects, notifications, types) ==
    [module |-> m, generated_by |-> "trishul-smi",
     imports |-> imports, objects |-> objects, notifications |-> notifications, types |-> types]

None      == [t \in {} |-> <<>>]
Scalar    == Raw("x", <<1, 1>>, <<1, 1>>, "scalar", "T", <<>>)
Instance0 == Raw("y", Missing, <<1, 1, 0>>, "OBJECT IDENTIFIER", "", <<>>)
Column    == Raw("x", <<1, 1>>, Missing, "column", "T", 1 :> "one")
Above     == Raw("y", <<1>>, <<1>>, "OBJECT IDENTIFIER", "", <<>>)
Notice    == Raw("z", <<1, 1, 2>>, Missing, "notification", "", <<>>)
NoOid     == Raw("w", <<>>, Missing, "scalar", "", <<>>)

FromB  == <<<<"C", {"U"}>>, <<"B", {"T"}>>>>
FileA  == Json("A", FromB, <<Scalar, Instance0>>, <<>>, None)
FileA2 == Json("A", <<>>, <<Instance0, Scalar>>, <<Notice>>, None)
FileB  == Json("B", <<>>, <<Column, Above>>, <<>>, "T" :> (1 :> "first" @@ 2 :> "second"))
FileC  == Json("C", <<>>, <<NoOid>>, <<Notice>>, "T" :> (2 :> "other"))

WellFormed == {FileA, FileA2, FileB, FileC}
Flawed ==
    {Malformed,
     Unreadable,
     [FileB EXCEPT !.objects = Malformed],
     [FileA EXCEPT !.notifications = Malformed],
     [FileB EXCEPT !.generated_by = "other"],
     [FileB EXCEPT !.types = Malformed],
     [FileB EXCEPT !.imports = Malformed],
     [FileB EXCEPT !.module = Missing],
     [FileA EXCEPT !.objects[2].fields = FALSE],
     [FileA EXCEPT !.objects[1].oid = <<1, 2>>],
     [FileA EXCEPT !.objects[2].oid = Malformed],
     [FileB EXCEPT !.objects[1].oid_path = Malformed]}

MCOid == {<<1>>, <<1, 1>>, <<1, 1, 0>>, <<1, 1, 2>>}
Named == {"A", "B"} \X {"x", "y"}
Dirs(contents, manifests, indexes) ==
    [files : UNION {[S -> contents] : S \in SUBSET {1, 2}}, manifest : manifests, index : indexes]

Manifests == {Missing, Malformed, Unreadable, <<>>, <<1>>, <<2, 1>>, <<1, 2, 1>>, <<1, 3>>, <<Malformed>>}
Sidecars  == UNION {[S -> Named] : S \in SUBSET MCOid}

MCDisks ==
    Dirs({FileA, FileB}, {Missing, <<2, 1>>}, Sidecars)
        \union Dirs(WellFormed, Manifests,
                    {Missing, Malformed, Unreadable, <<1, 1>> :> <<"B", "x">>,
                     <<-1>> :> <<"A", "x">>, <<1, 1, 0>> :> <<"A", "y">>})
        \union Dirs(WellFormed \union Flawed, {Missing, <<2, 1>>}, {Missing})

StaleDisks == Dirs({FileA}, {Missing}, Sidecars)
==============================================================================
