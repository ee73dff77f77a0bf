--------------------------- MODULE MCTransaction ---------------------------
(* Transaction with small constants for TLC. *)
EXTENDS Transaction
=============================================================================
