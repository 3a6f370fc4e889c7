----------------------------- MODULE MCProcLife -----------------------------
(* Instances of module ProcLife for TLC. *)
EXTENDS ProcLife
=============================================================================
