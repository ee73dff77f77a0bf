----------------------------- MODULE MCProbeRead -----------------------------
(* ProbeRead with small constants for TLC. *)
EXTENDS ProbeRead

\* Empty; data larger than the hint; layer name larger than the hint.
MCContents == {[data |-> 0, layer |-> 1], [data |-> 2, layer |-> 1],
               [data |-> 1, layer |-> 2]}
=============================================================================
