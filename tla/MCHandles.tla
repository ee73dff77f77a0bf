------------------------------ MODULE MCHandles ------------------------------
(* Handles with small constants for TLC. *)
EXTENDS Handles
=============================================================================
