--------------------------- MODULE MCMlfqHistory ----------------------------
(* A small instance of the scheduler on one CPU, with its history variable. *)
EXTENDS MlfqHistory

MCQuantum == [l \in Levels |-> 1]
=============================================================================
