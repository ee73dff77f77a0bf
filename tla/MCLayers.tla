------------------------------ MODULE MCLayers ------------------------------
(* Layers with small constants for TLC. *)
EXTENDS Layers, TLC

\* What other programs leave: a key without values, one whose Enabled is
\* malformed, one whose Owner is.
MCByHand == {Unset, [Unset EXCEPT !.prec = "1", !.en = "bad"], [Unset EXCEPT !.own = "bad"]}

\* The writers are interchangeable, and so are the names.
MCSymmetry == Permutations(Writers) \cup Permutations(Names)
=============================================================================
