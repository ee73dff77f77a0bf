---------------------------- MODULE EventStream ----------------------------
(***************************************************************************)
(* What a consumer of one per-CPU KMES ring is promised, with no buffer,   *)
(* cursor or wake-up in sight: events become available under increasing    *)
(* sequence numbers; the consumer is given some of them, each at most once *)
(* and in order; and the running loss count grows by exactly the sequence  *)
(* numbers it was not given between two that it was.  EventRing implements *)
(* this specification.                                                     *)
(***************************************************************************)
EXTENDS Naturals

VARIABLES
    emitted,    \* sequence numbers of the events made available so far
    lastSeq,    \* the most recent one delivered, 0 before the first
    lostEvents  \* the running loss count

streamVars == <<emitted, lastSeq, lostEvents>>

StreamInit == emitted = {} /\ lastSeq = 0 /\ lostEvents = 0

Emit == \E s \in emitted' :
    /\ s > 0 /\ \A t \in emitted : t < s
    /\ emitted' = emitted \cup {s}
    /\ UNCHANGED <<lastSeq, lostEvents>>

\* Events skipped between the previous delivery and s; nothing is known to
\* be missing before the first delivery.
Skipped(s) == IF lastSeq = 0 THEN 0 ELSE s - lastSeq - 1

Deliver == \E s \in emitted :
    /\ s > lastSeq
    /\ lastSeq' = s
    /\ lostEvents' = lostEvents + Skipped(s)
    /\ UNCHANGED emitted

StreamNext == Emit \/ Deliver

StreamSpec == StreamInit /\ [][StreamNext]_streamVars
============================================================================
