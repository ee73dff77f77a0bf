-------------------------- MODULE MCImpersonation --------------------------
(* Impersonation with small constants for TLC. *)
EXTENDS Impersonation, TLC

\* Goroutines, threads and tokens are interchangeable.
MCSymmetry == Permutations(Goroutines) \cup Permutations(Threads) \cup Permutations(Tokens)
=============================================================================
