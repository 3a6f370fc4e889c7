------------------------------- MODULE MCLog --------------------------------
(* A small instance of the log. *)
EXTENDS Log
=============================================================================
