----------------------------- MODULE MCServeLoop -----------------------------
(* An instance of ServeLoop with two serving tasks.                         *)
EXTENDS ServeLoop

CONSTANTS a, b      \* serving tasks

TwoConsumers == {a, b}
==============================================================================
