---------------------------- MODULE MCEventRing ----------------------------
(* EventRing with small constants for TLC. *)
EXTENDS EventRing

\* Overwritten bytes parse to a refused header, to an older or much newer
\* sequence number, or to a size that is not the event's.
MCGarbage == {[size |-> 1, seq |-> 0, form |-> "bad"],
              [size |-> 1, seq |-> 0, form |-> "good"],
              [size |-> 2, seq |-> 9, form |-> "good"]}
============================================================================
