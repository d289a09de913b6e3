--------------------------- MODULE MCRequestTimer ---------------------------
(* RequestTimer with a timeout of a few ticks.                              *)
EXTENDS RequestTimer
=============================================================================
