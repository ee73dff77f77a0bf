----------------------------- MODULE EventRing -----------------------------
(***************************************************************************)
(* event.Ring: the consumer of one per-CPU KMES ring buffer                *)
(* (src/event/ring.go), running against the kernel that fills it.          *)
(*                                                                         *)
(* Positions are the monotonic byte offsets of the ABI, counted in units   *)
(* of the smallest event.  The kernel writes bytes in position order, and  *)
(* position p shares its memory with p + Cap (the data region is double    *)
(* mapped and addressed with readPos & mask), so the memory is summarised  *)
(* by `wrote', how far the kernel's copying has come: the bytes of         *)
(* position p still read back exactly while wrote <= p + Cap.              *)
(*                                                                         *)
(* Every load and store of shared memory the consumer makes is a step of   *)
(* its own; what it computes between two of them belongs to the step of    *)
(* the first.  The kernel side is external: it is modelled by the protocol *)
(* ring.go relies on (tail moves before bytes are overwritten, write_pos   *)
(* after they are complete, need_wake is looked at after write_pos).       *)
(***************************************************************************)
EXTENDS Integers

CONSTANTS
    Cap,      \* capacity of the data region
    Sizes,    \* event sizes the kernel emits
    Forms,    \* {"good"}, or also "bad": the kernel may write a corrupt event
    Garbage,  \* what a header that was overwritten may parse to
    MaxSeq    \* bound: sequence numbers the kernel hands out

ASSUME CapAssumption     == Cap \in Nat \ {0}
ASSUME SizesAssumption   == Sizes \subseteq 1 .. Cap
ASSUME FormsAssumption   == Forms \subseteq {"good", "bad"}
ASSUME GarbageAssumption == Garbage \subseteq [size : Nat \ {0}, seq : Nat, form : {"good", "bad"}]
ASSUME MaxSeqAssumption  == MaxSeq \in Nat

VARIABLES
    \* The kernel's producer, and the words it shares with the consumer.
    ppc,         \* where the producer is: idle, copy, check, bump, wake
    cur,         \* the event being written
    events,      \* every event published in this buffer (history)
    seq,         \* last sequence number handed out
    wrote,       \* how far bytes have been copied in
    writePos,    \* KMES_PRODUCER_WRITE_POS
    tailPos,     \* KMES_PRODUCER_TAIL_POS
    generation,  \* KMES_PRODUCER_GENERATION
    futex,       \* KMES_PRODUCER_FUTEX_COUNTER
    needWake,    \* the consumer page's need_wake byte
    \* The consumer: the fields of Ring and the locals of its methods.
    cpc,         \* the consumer's next step
    op,          \* the method called: next, read, timeout (final once
                 \* ReadTimeout has done its one wait), or none
    gen,         \* Ring.generation
    readPos,     \* Ring.readPos
    pending,     \* Ring.pending
    lastSeq,     \* Ring.lastSeq
    lostEvents,  \* Ring.lostEvents
    savedTail,   \* Next: savedTail
    ev,          \* Next: what ParseEvent returned
    counter,     \* wait: the futex value loaded
    out,         \* how the last call returned
    \* History, for the properties only.
    firstSeq,    \* sequence number of the first event yielded, 0 before
    yields       \* number of events yielded

kernelVars == <<ppc, cur, events, seq, wrote, writePos, tailPos, generation>>
wakeVars   == <<futex, needWake>>
ringVars   == <<gen, readPos, pending, lastSeq, lostEvents, firstSeq, yields>>
callVars   == <<op, savedTail, ev, counter, out>>
vars == <<kernelVars, wakeVars, cpc, ringVars, callVars>>

Header   == [size : Nat \ {0}, seq : Nat, form : {"good", "bad"}]
Event    == [pos : Nat, size : Nat \ {0}, seq : Nat \ {0}, form : {"good", "bad"}]
NoHeader == [size |-> 1, seq |-> 0, form |-> "bad"]
NoEvent  == [pos |-> 0, size |-> 1, seq |-> 1, form |-> "bad"]
Outcomes == {"none", "empty", "event", "owned", "torn", "generation",
             "interrupted", "corrupt"}

TypeOK ==
    /\ ppc \in {"idle", "copy", "check", "bump", "wake"}
    /\ cur \in Event /\ events \subseteq Event
    /\ seq \in Nat /\ wrote \in Nat /\ writePos \in Nat /\ tailPos \in Nat
    /\ generation \in Nat /\ futex \in Nat /\ needWake \in {0, 1}
    /\ cpc \in {"mapGen", "mapTail", "idle", "loadWrite", "loadGen", "loadTail",
                "parse", "recheck", "skip", "copy", "arm", "armed", "loadFutex",
                "futexWait", "asleep", "disarm", "disarmErr"}
    /\ op \in {"none", "next", "read", "timeout", "final"}
    /\ gen \in Nat /\ readPos \in Nat /\ pending \in Nat
    /\ lastSeq \in Nat /\ lostEvents \in Nat
    /\ savedTail \in Nat /\ ev \in Header /\ counter \in Nat
    /\ out \in Outcomes /\ firstSeq \in Nat /\ yields \in Nat

Init ==
    /\ ppc = "idle" /\ cur = NoEvent /\ events = {} /\ seq = 0
    /\ wrote = 0 /\ writePos = 0 /\ tailPos = 0 /\ generation = 1
    /\ futex = 0 /\ needWake = 0
    /\ cpc = "mapGen" /\ op = "none"
    /\ gen = 0 /\ readPos = 0 /\ pending = 0 /\ lastSeq = 0 /\ lostEvents = 0
    /\ savedTail = 0 /\ ev = NoHeader /\ counter = 0 /\ out = "none"
    /\ firstSeq = 0 /\ yields = 0

-----------------------------------------------------------------------------
(* The kernel's producer.                                                  *)

\* Positions at which an event starts, or the next one will.
Boundaries == {e.pos : e \in events} \cup {writePos}

\* The bytes of position p are still the ones written for p.
Intact(p) == wrote <= p + Cap

\* The tail moves past every event the new one will overwrite, before any
\* byte of it is written.
KmesReserve == \E sz \in Sizes, form \in Forms, b \in Boundaries :
    /\ ppc = "idle" /\ generation = 1 /\ seq < MaxSeq
    /\ b >= tailPos /\ writePos + sz <= b + Cap
    /\ \A c \in Boundaries : c >= tailPos /\ writePos + sz <= c + Cap => b <= c
    /\ ppc' = "copy"
    /\ tailPos' = b
    /\ cur' = [pos |-> writePos, size |-> sz, seq |-> seq + 1, form |-> form]
    /\ UNCHANGED <<events, seq, wrote, writePos, generation,
                   wakeVars, cpc, ringVars, callVars>>

KmesCopy ==
    /\ ppc = "copy" /\ wrote < cur.pos + cur.size
    /\ wrote' = wrote + 1
    /\ UNCHANGED <<ppc, cur, events, seq, writePos, tailPos, generation,
                   wakeVars, cpc, ringVars, callVars>>

KmesPublish ==
    /\ ppc = "copy" /\ wrote = cur.pos + cur.size
    /\ ppc' = "check"
    /\ events' = events \cup {cur}
    /\ seq' = cur.seq
    /\ writePos' = cur.pos + cur.size
    /\ cur' = NoEvent
    /\ UNCHANGED <<wrote, tailPos, generation, wakeVars, cpc, ringVars, callVars>>

\* An event the kernel gives a sequence number and then drops.
KmesDrop ==
    /\ ppc = "idle" /\ generation = 1 /\ seq < MaxSeq
    /\ seq' = seq + 1
    /\ UNCHANGED <<ppc, cur, events, wrote, writePos, tailPos, generation,
                   wakeVars, cpc, ringVars, callVars>>

KmesCheckWake ==
    /\ ppc = "check"
    /\ ppc' = IF needWake = 1 THEN "bump" ELSE "idle"
    /\ UNCHANGED <<cur, events, seq, wrote, writePos, tailPos, generation,
                   wakeVars, cpc, ringVars, callVars>>

KmesBump ==
    /\ ppc = "bump"
    /\ ppc' = "wake" /\ futex' = futex + 1
    /\ UNCHANGED <<cur, events, seq, wrote, writePos, tailPos, generation,
                   needWake, cpc, ringVars, callVars>>

\* FUTEX_WAKE: a consumer asleep on the word returns 0 from its wait.
KmesWake ==
    /\ ppc = "wake"
    /\ ppc' = "idle"
    /\ cpc' = IF cpc = "asleep" THEN "disarm" ELSE cpc
    /\ UNCHANGED <<cur, events, seq, wrote, writePos, tailPos, generation,
                   wakeVars, ringVars, callVars>>

\* A resize retires this buffer: nothing more is written to it, and its
\* consumers are notified.
KmesResize ==
    /\ ppc = "idle" /\ generation = 1
    /\ generation' = 2 /\ ppc' = "bump"
    /\ UNCHANGED <<cur, events, seq, wrote, writePos, tailPos,
                   wakeVars, cpc, ringVars, callVars>>

Kernel == \/ KmesReserve \/ KmesCopy \/ KmesPublish \/ KmesDrop
          \/ KmesCheckWake \/ KmesBump \/ KmesWake \/ KmesResize

-----------------------------------------------------------------------------
(* mapRing: the words the consumer starts from.                            *)

MapGeneration ==
    /\ cpc = "mapGen"
    /\ gen' = generation /\ cpc' = "mapTail"
    /\ UNCHANGED <<kernelVars, wakeVars, readPos, pending, lastSeq, lostEvents,
                   firstSeq, yields, callVars>>

MapTail ==
    /\ cpc = "mapTail"
    /\ readPos' = tailPos /\ cpc' = "idle"
    /\ UNCHANGED <<kernelVars, wakeVars, gen, pending, lastSeq, lostEvents,
                   firstSeq, yields, callVars>>

-----------------------------------------------------------------------------
(* Next, one shared-memory access at a time.                               *)

\* Next's first lines: step over the event the previous call yielded.
StepOver_Forgets == UNCHANGED readPos /\ pending' = 0
StepOver == readPos' = readPos + pending /\ pending' = 0

\* A call of Next, Read or ReadTimeout.
Call(m) ==
    /\ cpc = "idle"
    /\ op' = m /\ out' = "none" /\ cpc' = "loadWrite"
    /\ StepOver
    /\ UNCHANGED <<kernelVars, wakeVars, gen, lastSeq, lostEvents, firstSeq, yields,
                   savedTail, ev, counter>>

\* The locals of one turn of Next's loop die with it.
LoopLocalsDie == savedTail' = 0 /\ ev' = NoHeader

Return(how) ==
    /\ cpc' = "idle" /\ op' = "none" /\ out' = how
    /\ LoopLocalsDie

Loop == cpc' = "loadWrite" /\ LoopLocalsDie /\ UNCHANGED <<op, counter, out>>

NextAvailable ==
    /\ cpc = "loadWrite" /\ readPos < writePos
    /\ cpc' = "loadTail"
    /\ UNCHANGED <<kernelVars, wakeVars, ringVars, callVars>>

NextDrained ==
    /\ cpc = "loadWrite" /\ readPos >= writePos
    /\ cpc' = "loadGen"
    /\ UNCHANGED <<kernelVars, wakeVars, ringVars, callVars>>

NextGenerationChanged ==
    /\ cpc = "loadGen" /\ generation # gen
    /\ Return("generation")
    /\ UNCHANGED <<kernelVars, wakeVars, ringVars, counter>>

\* Nothing to yield: Next returns, Read waits, ReadTimeout waits once.
WaitNext_Always == op \in {"read", "timeout", "final"}
WaitNext == op \in {"read", "timeout"}

NextEmpty ==
    /\ cpc = "loadGen" /\ generation = gen
    /\ IF WaitNext THEN cpc' = "arm" /\ UNCHANGED callVars
                   ELSE Return("empty") /\ UNCHANGED counter
    /\ UNCHANGED <<kernelVars, wakeVars, ringVars>>

\* Lapped: events at the cursor were overwritten, resume at the tail.
LappedTo == tailPos

NextLapped ==
    /\ cpc = "loadTail" /\ readPos < tailPos
    /\ readPos' = LappedTo
    /\ Loop
    /\ UNCHANGED <<kernelVars, wakeVars, gen, pending, lastSeq, lostEvents,
                   firstSeq, yields>>

NextInWindow ==
    /\ cpc = "loadTail" /\ readPos >= tailPos
    /\ savedTail' = tailPos /\ cpc' = "parse"
    /\ UNCHANGED <<kernelVars, wakeVars, ringVars, op, ev, counter, out>>

\* wire.ParseEvent over the bytes at the cursor: the event written there
\* while its bytes are intact, anything once they are being overwritten.
Parsed == IF Intact(readPos) /\ \E e \in events : e.pos = readPos
          THEN {[size |-> e.size, seq |-> e.seq, form |-> e.form] :
                    e \in {x \in events : x.pos = readPos}}
          ELSE Garbage

NextParse ==
    /\ cpc = "parse"
    /\ ev' \in Parsed /\ cpc' = "recheck"
    /\ UNCHANGED <<kernelVars, wakeVars, ringVars, op, savedTail, counter, out>>

\* The torn-read check: did the tail lap the cursor while parsing?
TornRead_StaleTail == tailPos > savedTail /\ readPos < savedTail
TornRead == tailPos > savedTail /\ readPos < tailPos

NextTorn ==
    /\ cpc = "recheck" /\ TornRead
    /\ Loop
    /\ UNCHANGED <<kernelVars, wakeVars, ringVars>>

NextUnparseable ==
    /\ cpc = "recheck" /\ ~TornRead /\ ev.form = "bad"
    /\ cpc' = "skip"
    /\ UNCHANGED <<kernelVars, wakeVars, ringVars, callVars>>

\* Events overwritten or dropped since the last one yielded.
Gap_IncludesThis(s) == IF lastSeq # 0 /\ s > lastSeq + 1 THEN s - lastSeq ELSE 0
Gap(s) == IF lastSeq # 0 /\ s > lastSeq + 1 THEN s - lastSeq - 1 ELSE 0

NextYield ==
    /\ cpc = "recheck" /\ ~TornRead /\ ev.form = "good"
    /\ lostEvents' = lostEvents + Gap(ev.seq)
    /\ lastSeq' = ev.seq
    /\ pending' = ev.size
    /\ firstSeq' = IF firstSeq = 0 THEN ev.seq ELSE firstSeq
    /\ yields' = yields + 1
    /\ IF op = "next" THEN Return("event")
       ELSE cpc' = "copy" /\ LoopLocalsDie /\ UNCHANGED <<op, out>>
    /\ UNCHANGED <<kernelVars, wakeVars, gen, readPos, counter>>

\* Unparseable but not torn: skip to the oldest surviving event if the
\* cursor can move, else surface the error.
NextSkipCorrupt ==
    /\ cpc = "skip" /\ tailPos > readPos
    /\ readPos' = tailPos
    /\ Loop
    /\ UNCHANGED <<kernelVars, wakeVars, gen, pending, lastSeq, lostEvents,
                   firstSeq, yields>>

NextCorrupt ==
    /\ cpc = "skip" /\ tailPos <= readPos
    /\ Return("corrupt")
    /\ UNCHANGED <<kernelVars, wakeVars, ringVars, counter>>

\* ownedFrom: Read and ReadTimeout copy the borrowed event out.
CopyOut ==
    /\ cpc = "copy"
    /\ Return(IF Intact(readPos) THEN "owned" ELSE "torn")
    /\ UNCHANGED <<kernelVars, wakeVars, ringVars, counter>>

-----------------------------------------------------------------------------
(* wait and futexWait.                                                     *)

SetNeedWake ==
    /\ cpc = "arm"
    /\ needWake' = 1 /\ cpc' = "armed"
    /\ UNCHANGED <<kernelVars, futex, ringVars, callVars>>

\* The re-check after arming: a late write means there is no need to sleep.
WaitLateWrite ==
    /\ cpc = "armed"
    /\ cpc' = IF writePos # readPos THEN "disarm" ELSE "loadFutex"
    /\ UNCHANGED <<kernelVars, wakeVars, ringVars, callVars>>

WaitLoadFutex ==
    /\ cpc = "loadFutex"
    /\ counter' = futex /\ cpc' = "futexWait"
    /\ UNCHANGED <<kernelVars, wakeVars, ringVars, op, savedTail, ev, out>>

\* FUTEX_WAIT compares and sleeps atomically; EAGAIN when the word moved.
FutexWait ==
    /\ cpc = "futexWait"
    /\ cpc' = IF futex = counter THEN "asleep" ELSE "disarm"
    /\ counter' = 0
    /\ UNCHANGED <<kernelVars, wakeVars, ringVars, op, savedTail, ev, out>>

\* ETIMEDOUT, only for a wait with a timeout.
FutexTimeout ==
    /\ cpc = "asleep" /\ op = "timeout"
    /\ cpc' = "disarm"
    /\ UNCHANGED <<kernelVars, wakeVars, ringVars, callVars>>

\* A signal: EINTR is not retried.  Any other errno of futexWait (its default
\* case) ends the call the same way, and is this step too.
FutexInterrupted ==
    /\ cpc = "asleep"
    /\ cpc' = "disarmErr"
    /\ UNCHANGED <<kernelVars, wakeVars, ringVars, callVars>>

\* The wait is over: Read and ReadTimeout call Next again.
ClearNeedWake ==
    /\ cpc = "disarm"
    /\ needWake' = 0 /\ cpc' = "loadWrite"
    /\ op' = IF op = "timeout" THEN "final" ELSE op
    /\ StepOver
    /\ UNCHANGED <<kernelVars, futex, gen, lastSeq, lostEvents, firstSeq, yields,
                   savedTail, ev, counter, out>>

InterruptedReturn ==
    /\ cpc = "disarmErr"
    /\ needWake' = 0
    /\ Return("interrupted")
    /\ UNCHANGED <<kernelVars, futex, ringVars, counter>>

-----------------------------------------------------------------------------
Calls == \E m \in {"next", "read", "timeout"} : Call(m)

\* The steps of a consumer inside a call, the kernel's timer included.
Running ==
    \/ MapGeneration \/ MapTail
    \/ NextAvailable \/ NextDrained \/ NextGenerationChanged \/ NextEmpty
    \/ NextLapped \/ NextInWindow \/ NextParse \/ NextTorn \/ NextUnparseable
    \/ NextYield \/ NextSkipCorrupt \/ NextCorrupt \/ CopyOut
    \/ SetNeedWake \/ WaitLateWrite \/ WaitLoadFutex \/ FutexWait
    \/ FutexTimeout \/ ClearNeedWake \/ InterruptedReturn

Next == Kernel \/ Calls \/ Running \/ FutexInterrupted

Spec == Init /\ [][Next]_vars

\* A goroutine in a call keeps running and a timer fires; an emission or a
\* resize the kernel has begun is completed.  Nothing forces a call, a new
\* emission or a signal.
Fairness ==
    /\ WF_vars(Running)
    /\ WF_vars(KmesCopy \/ KmesPublish \/ KmesCheckWake \/ KmesBump \/ KmesWake)

FairSpec == Spec /\ Fairness

-----------------------------------------------------------------------------
(* Properties.                                                             *)

\* Next never hands out a torn event: whatever the kernel overwrites while
\* the cursor is being read, the header fields yielded are exactly those of
\* a well-formed event the kernel published at the cursor
\* (the tail re-check of Ring.Next).
NeverTorn ==
    pending # 0 =>
        \E e \in events : /\ e.pos = readPos /\ e.size = pending
                          /\ e.seq = lastSeq /\ e.form = "good"

\* The cursor always rests where an event starts (or the next one will),
\* through stepping over, lapping and skipping of corrupt events.
CursorOnBoundary == readPos \in Boundaries

\* LostEvents is exact from the first event on: what was yielded and what
\* was counted lost add up to the sequence numbers covered.
LossAccounting ==
    IF lastSeq = 0 THEN yields = 0 /\ lostEvents = 0
    ELSE yields + lostEvents + firstSeq = lastSeq + 1

\* An error from Next means that the kernel really published a corrupt
\* event at the cursor: a read torn by lapping never surfaces as one.
CorruptIsReal ==
    out = "corrupt" => \E e \in events : e.pos = readPos /\ e.form = "bad"

\* Outside a wait the wake request is withdrawn, whichever way the wait
\* ended, so that the kernel does not go on notifying nobody.
DisarmedOutsideWait ==
    needWake = 1 => cpc \in {"armed", "loadFutex", "futexWait", "asleep", "disarm", "disarmErr"}

\* ReadTimeout always comes back, whatever the producer does meanwhile.
TimeoutReturns == (op \in {"timeout", "final"}) ~> (op = "none")

\* The ring implements the abstract stream: events are delivered in order
\* and at most once, and every gap is counted.
Stream == INSTANCE EventStream WITH emitted <- {e.seq : e \in events}
ImplementsStream == Stream!StreamSpec

\* Read's comment: "Read blocks until an event is available, then returns
\* it": with an event in the buffer a Read does not stay blocked.
ReadReturns == (op = "read" /\ readPos < writePos) ~> (op = "none")

-----------------------------------------------------------------------------
(* The inductive invariant behind the safety properties.                   *)

\* Events tile the positions up to writePos, in sequence order, and the
\* kernel never overwrites at or above its tail.
KernelInv ==
    /\ \A e \in events : /\ e.pos + e.size <= writePos
                         /\ e.pos + e.size \in Boundaries
                         /\ e.seq <= seq
    /\ \A e, f \in events : /\ e.pos = f.pos => e = f
                            /\ e.pos < f.pos => e.seq < f.seq
    /\ tailPos \in Boundaries
    /\ writePos <= tailPos + Cap
    /\ ppc # "copy" => wrote = writePos
    /\ ppc = "copy" => /\ cur.pos = writePos /\ cur.seq = seq + 1
                       /\ wrote <= cur.pos + cur.size
                       /\ cur.pos + cur.size <= tailPos + Cap

\* What was parsed is what the kernel wrote at the cursor.
Genuine == \E e \in events :
    e.pos = readPos /\ ev = [size |-> e.size, seq |-> e.seq, form |-> e.form]

\* Inside Next: the cursor is at an event not yet known to be lapped, and
\* a parse that is not genuine has been betrayed by the tail.
CallInv ==
    /\ cpc \in {"loadTail", "parse", "recheck", "skip"} => readPos < writePos
    /\ cpc \in {"parse", "recheck", "skip"} => savedTail <= readPos
    /\ cpc \in {"recheck", "skip"} => Genuine \/ tailPos > readPos
    /\ cpc = "skip" => ev.form = "bad"
    /\ cpc # "idle" => out = "none"
    /\ pending # 0 => cpc \in {"idle", "copy"}
    /\ cpc \in {"mapGen", "mapTail"} => lastSeq = 0

\* The last event yielded lies before the place Next will resume at.
YieldInv ==
    /\ lastSeq = 0 <=> firstSeq = 0
    /\ lastSeq # 0 => \E e \in events :
                         e.seq = lastSeq /\ e.pos + e.size <= readPos + pending

\* Everything Ring.Next relies on between two of its memory accesses: the
\* kernel's protocol, the position of the cursor, and what a parse in
\* flight is worth.
IInv == /\ TypeOK /\ KernelInv /\ CursorOnBoundary /\ CallInv /\ YieldInv
        /\ NeverTorn /\ LossAccounting /\ CorruptIsReal /\ DisarmedOutsideWait
============================================================================
