------------------------------- MODULE MCWalk -------------------------------
(* A subtree with an object at its root, two levels below it, and an object *)
(* outside.                                                                 *)
EXTENDS Walk

MCRoot  == <<1>>
MCOid   == {<<1>>, <<1, 1>>, <<1, 1, 1>>, <<2>>}
MCValue == {"x", CounterRule}
Item    == MCOid \X MCValue
MCBatches ==
    {<<item>> : item \in Item}
        \union {<<item, <<Unresolvable, "x">>, <<<<2>>, "x">>>> : item \in Item}
        \union {<<<<<<1, 1>>, "x">>, <<<<1>>, CounterRule>>>>}
=============================================================================
