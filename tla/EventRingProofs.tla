-------------------------- MODULE EventRingProofs --------------------------
(***************************************************************************)
(* Proofs about EventRing, for every capacity, set of event sizes and      *)
(* garbage.                                                                *)
(***************************************************************************)
EXTENDS EventRing, TLAPS

USE CapAssumption, SizesAssumption, FormsAssumption, GarbageAssumption, MaxSeqAssumption

\* One step of the kernel or of the consumer keeps every type.
LEMMA TypeStep == TypeOK /\ [Next]_vars => TypeOK'
<1> SUFFICES ASSUME TypeOK, [Next]_vars PROVE TypeOK'
  OBVIOUS
<1> USE DEF TypeOK, kernelVars, wakeVars, ringVars, callVars
<1>1. CASE Kernel
  <2>1. CASE KmesReserve
    <3> PICK sz \in Sizes, form \in Forms, b \in Boundaries :
          /\ tailPos' = b
          /\ cur' = [pos |-> writePos, size |-> sz, seq |-> seq + 1, form |-> form]
      BY <2>1 DEF KmesReserve
    <3>1. b \in Nat /\ sz \in Nat \ {0} /\ form \in {"good", "bad"}
      BY DEF Boundaries, Event
    <3>2. cur' \in Event
      BY <3>1 DEF Event
    <3> QED BY <2>1, <3>1, <3>2 DEF KmesReserve
  <2>2. CASE KmesCopy
    BY <2>2 DEF KmesCopy
  <2>3. CASE KmesPublish
    BY <2>3 DEF KmesPublish, Event, NoEvent
  <2>4. CASE KmesDrop
    BY <2>4 DEF KmesDrop
  <2>5. CASE KmesCheckWake
    BY <2>5 DEF KmesCheckWake
  <2>6. CASE KmesBump
    BY <2>6 DEF KmesBump
  <2>7. CASE KmesWake
    BY <2>7 DEF KmesWake
  <2>8. CASE KmesResize
    BY <2>8 DEF KmesResize
  <2> QED BY <1>1, <2>1, <2>2, <2>3, <2>4, <2>5, <2>6, <2>7, <2>8 DEF Kernel
<1>2. CASE Calls
  <2> PICK m \in {"next", "read", "timeout"} : Call(m)
    BY <1>2 DEF Calls
  <2> QED BY DEF Call, StepOver, Outcomes
<1>3. CASE Running
  <2> USE DEF Return, Loop, LoopLocalsDie, NoHeader, Header, Outcomes
  <2>1. CASE MapGeneration \/ MapTail
    BY <2>1 DEF MapGeneration, MapTail
  <2>2. CASE NextAvailable \/ NextDrained \/ NextGenerationChanged
    BY <2>2 DEF NextAvailable, NextDrained, NextGenerationChanged
  <2>3. CASE NextEmpty
    BY <2>3 DEF NextEmpty
  <2>4. CASE NextLapped \/ NextInWindow
    BY <2>4 DEF NextLapped, NextInWindow, LappedTo
  <2>5. CASE NextParse
    BY <2>5 DEF NextParse, Parsed, Event
  <2>6. CASE NextTorn \/ NextUnparseable
    BY <2>6 DEF NextTorn, NextUnparseable
  <2>7. CASE NextYield
    BY <2>7 DEF NextYield, Gap
  <2>8. CASE NextSkipCorrupt \/ NextCorrupt \/ CopyOut
    BY <2>8 DEF NextSkipCorrupt, NextCorrupt, CopyOut
  <2>9. CASE SetNeedWake \/ WaitLateWrite \/ WaitLoadFutex
    BY <2>9 DEF SetNeedWake, WaitLateWrite, WaitLoadFutex
  <2>10. CASE FutexWait \/ FutexTimeout
    BY <2>10 DEF FutexWait, FutexTimeout
  <2>11. CASE ClearNeedWake \/ InterruptedReturn
    BY <2>11 DEF ClearNeedWake, StepOver, InterruptedReturn
  <2> QED BY <1>3, <2>1, <2>2, <2>3, <2>4, <2>5, <2>6, <2>7, <2>8, <2>9, <2>10, <2>11
          DEF Running
<1>4. CASE FutexInterrupted
  BY <1>4 DEF FutexInterrupted
<1>5. CASE UNCHANGED vars
  BY <1>5 DEF vars
<1> QED BY <1>1, <1>2, <1>3, <1>4, <1>5 DEF Next

\* Every variable of the ring and of the kernel it reads keeps its type.
THEOREM TypeCorrect == Spec => []TypeOK
<1>1. Init => TypeOK
  BY DEF Init, TypeOK, NoEvent, NoHeader, Event, Header, Outcomes
<1> QED BY <1>1, TypeStep, PTL DEF Spec

-----------------------------------------------------------------------------
\* The kernel and the consumer write disjoint sets of variables, except
\* for the wake-up that ends a sleep.
LEMMA ConsumerKeepsKernel ==
  Calls \/ Running \/ FutexInterrupted => UNCHANGED kernelVars
<1>1. Calls => UNCHANGED kernelVars
  BY DEF Calls, Call
<1>2. FutexInterrupted => UNCHANGED kernelVars
  BY DEF FutexInterrupted
<1>3. Running => UNCHANGED kernelVars
  BY DEF Running, MapGeneration, MapTail, NextAvailable, NextDrained,
         NextGenerationChanged, NextEmpty, NextLapped, NextInWindow, NextParse,
         NextTorn, NextUnparseable, NextYield, NextSkipCorrupt, NextCorrupt,
         CopyOut, SetNeedWake, WaitLateWrite, WaitLoadFutex, FutexWait,
         FutexTimeout, ClearNeedWake, InterruptedReturn
<1> QED BY <1>1, <1>2, <1>3

LEMMA KernelKeepsRing ==
  Kernel => /\ UNCHANGED <<ringVars, callVars, needWake>>
            /\ cpc' = cpc \/ (cpc = "asleep" /\ cpc' = "disarm")
BY DEF Kernel, KmesReserve, KmesCopy, KmesPublish, KmesDrop, KmesCheckWake,
       KmesBump, KmesWake, KmesResize, wakeVars

\* The kernel only ever adds events and moves its positions forward.
LEMMA KernelGrows ==
  TypeOK /\ KernelInv /\ Kernel =>
    /\ events \subseteq events'
    /\ Boundaries \subseteq Boundaries'
    /\ tailPos <= tailPos'
    /\ writePos <= writePos'
<1> SUFFICES ASSUME TypeOK, KernelInv, Kernel
             PROVE  /\ events \subseteq events'
                    /\ Boundaries \subseteq Boundaries'
                    /\ tailPos <= tailPos' /\ writePos <= writePos'
  OBVIOUS
<1>1. CASE KmesReserve
  BY <1>1 DEF KmesReserve, Boundaries, TypeOK, Event
<1>2. CASE KmesPublish
  BY <1>2 DEF KmesPublish, Boundaries, TypeOK, Event, KernelInv
<1>3. CASE KmesCopy \/ KmesDrop \/ KmesCheckWake \/ KmesBump \/ KmesWake \/ KmesResize
  BY <1>3 DEF KmesCopy, KmesDrop, KmesCheckWake, KmesBump, KmesWake, KmesResize,
              Boundaries, TypeOK
<1> QED BY <1>1, <1>2, <1>3 DEF Kernel

\* The kernel's protocol is preserved.
LEMMA KernelInvStep == TypeOK /\ KernelInv /\ [Next]_vars => KernelInv'
<1> SUFFICES ASSUME TypeOK, KernelInv, [Next]_vars PROVE KernelInv'
  OBVIOUS
<1>1. CASE UNCHANGED kernelVars
  BY <1>1 DEF KernelInv, kernelVars, Boundaries
<1>2. CASE KmesReserve
  <2> PICK sz \in Sizes, form \in Forms, b \in Boundaries :
        /\ ppc = "idle" /\ b >= tailPos /\ writePos + sz <= b + Cap
        /\ ppc' = "copy" /\ tailPos' = b
        /\ cur' = [pos |-> writePos, size |-> sz, seq |-> seq + 1, form |-> form]
        /\ UNCHANGED <<events, seq, wrote, writePos>>
    BY <1>2 DEF KmesReserve
  <2>1. b \in Nat /\ sz \in Nat
    BY DEF Boundaries, TypeOK, Event
  <2>2. Boundaries' = Boundaries
    BY DEF Boundaries
  <2> QED BY <2>1, <2>2 DEF KernelInv, TypeOK
<1>3. CASE KmesCopy
  BY <1>3 DEF KmesCopy, KernelInv, Boundaries, TypeOK, Event
<1>4. CASE KmesPublish
  <2> USE <1>4 DEF KmesPublish
  <2>1. /\ cur \in Event /\ cur.pos = writePos /\ cur.seq = seq + 1
        /\ events' = events \cup {cur} /\ seq' = seq + 1
        /\ writePos' = writePos + cur.size
    BY DEF KernelInv, TypeOK
  <2>2. \A e \in events : e.pos + e.size <= writePos /\ e.seq <= seq /\ e.pos < writePos
    BY DEF KernelInv, TypeOK, Event
  <2>3. Boundaries' = Boundaries \cup {writePos'}
    BY <2>1 DEF Boundaries
  <2>4. \A e \in events' : /\ e.pos + e.size <= writePos'
                           /\ e.pos + e.size \in Boundaries'
                           /\ e.seq <= seq'
    BY <2>1, <2>2, <2>3 DEF KernelInv, TypeOK, Event
  <2>5. \A e, f \in events' : /\ e.pos = f.pos => e = f
                              /\ e.pos < f.pos => e.seq < f.seq
    BY <2>1, <2>2 DEF KernelInv, TypeOK, Event
  <2> QED BY <2>1, <2>3, <2>4, <2>5 DEF KernelInv, TypeOK, Event
<1>5. CASE KmesDrop
  BY <1>5 DEF KmesDrop, KernelInv, Boundaries, TypeOK, Event
<1>6. CASE KmesCheckWake \/ KmesBump \/ KmesWake \/ KmesResize
  BY <1>6 DEF KmesCheckWake, KmesBump, KmesWake, KmesResize, KernelInv, Boundaries
<1> QED BY <1>1, <1>2, <1>3, <1>4, <1>5, <1>6, ConsumerKeepsKernel
        DEF Next, Kernel, vars, kernelVars

-----------------------------------------------------------------------------
(* The consumer's half of the inductive invariant.                         *)

RingInv == /\ CursorOnBoundary /\ CallInv /\ YieldInv /\ NeverTorn
           /\ LossAccounting /\ CorruptIsReal /\ DisarmedOutsideWait

\* Whatever the kernel does while the consumer is between two memory
\* accesses, what the consumer knows stays true: it rests on facts that only
\* grow (events, boundaries, the tail).
LEMMA KernelKeepsRingInv == IInv /\ Kernel => RingInv'
<1> SUFFICES ASSUME IInv, Kernel PROVE RingInv'
  OBVIOUS
<1> USE DEF IInv, kernelVars, wakeVars, ringVars, callVars
<1>1. /\ UNCHANGED <<gen, readPos, pending, lastSeq, lostEvents, firstSeq, yields>>
      /\ UNCHANGED <<op, savedTail, ev, counter, out, needWake>>
      /\ cpc' = cpc \/ (cpc = "asleep" /\ cpc' = "disarm")
  BY KernelKeepsRing
<1>2. /\ events \subseteq events' /\ Boundaries \subseteq Boundaries'
      /\ tailPos <= tailPos' /\ writePos <= writePos'
      /\ tailPos \in Nat /\ tailPos' \in Nat /\ writePos \in Nat /\ writePos' \in Nat
      /\ readPos \in Nat
  BY KernelGrows, TypeStep DEF TypeOK, Next
<1>3. CursorOnBoundary'
  BY <1>1, <1>2 DEF CursorOnBoundary
<1>4. CallInv'
  <2>1. Genuine => Genuine'
    BY <1>1, <1>2 DEF Genuine
  <2> QED BY <1>1, <1>2, <2>1 DEF CallInv
<1>5. YieldInv'
  BY <1>1, <1>2 DEF YieldInv
<1>6. NeverTorn'
  BY <1>1, <1>2 DEF NeverTorn
<1>7. LossAccounting' /\ CorruptIsReal' /\ DisarmedOutsideWait'
  BY <1>1, <1>2 DEF LossAccounting, CorruptIsReal, DisarmedOutsideWait
<1> QED BY <1>3, <1>4, <1>5, <1>6, <1>7 DEF RingInv

\* The bytes at a position at or above the tail are intact, because the
\* kernel moves its tail before it overwrites.
LEMMA AboveTailIntact ==
  ASSUME TypeOK, KernelInv, tailPos <= readPos PROVE Intact(readPos)
BY DEF TypeOK, KernelInv, Intact, Event

\* Below write_pos, the cursor rests on a published event.
LEMMA CursorOnEvent ==
  ASSUME CursorOnBoundary, TypeOK, readPos < writePos
  PROVE  \E e \in events : e.pos = readPos
BY DEF CursorOnBoundary, Boundaries, TypeOK

\* A parse that passes the torn-read check is genuine.
LEMMA NotTornGenuine ==
  ASSUME TypeOK, CallInv, cpc = "recheck", ~TornRead PROVE Genuine
BY DEF TypeOK, CallInv, TornRead

\* An event at the cursor has a larger sequence number than any event that
\* ends at or before the cursor.
LEMMA LaterIsLarger ==
  ASSUME TypeOK, KernelInv, NEW e \in events, NEW f \in events,
         e.pos + e.size <= f.pos
  PROVE  e.seq < f.seq
<1>1. e.pos \in Nat /\ e.size \in Nat \ {0} /\ f.pos \in Nat
  BY DEF TypeOK, Event
<1> QED BY <1>1 DEF KernelInv

\* Stepping over the yielded event lands on the next boundary.
LEMMA StepOverLands ==
  ASSUME TypeOK, KernelInv, CursorOnBoundary, NeverTorn
  PROVE  readPos + pending \in Boundaries
<1>1. CASE pending = 0
  BY <1>1 DEF TypeOK, CursorOnBoundary
<1>2. CASE pending # 0
  BY <1>2 DEF NeverTorn, KernelInv
<1> QED BY <1>1, <1>2

\* A call of Next, or a wait that ended, steps over the pending event: the
\* cursor moves to the next boundary and the event is behind it.
LEMMA StepOverKeeps ==
  ASSUME IInv, StepOver, UNCHANGED <<kernelVars, lastSeq, firstSeq, yields, lostEvents>>
  PROVE  CursorOnBoundary' /\ YieldInv' /\ NeverTorn' /\ LossAccounting'
<1> USE DEF IInv, kernelVars, StepOver
<1>1. Boundaries' = Boundaries
  BY DEF Boundaries
<1>2. CursorOnBoundary'
  BY <1>1, StepOverLands DEF CursorOnBoundary
<1>3. YieldInv'
  <2>1. readPos' + pending' = readPos + pending
    BY DEF TypeOK
  <2> QED BY <2>1 DEF YieldInv
<1>4. NeverTorn' /\ LossAccounting'
  BY DEF NeverTorn, LossAccounting
<1> QED BY <1>2, <1>3, <1>4

\* The consumer's steps that touch neither the cursor nor the accounting
\* keep everything that is said about them.
LEMMA QuietKeeps ==
  ASSUME IInv, UNCHANGED <<kernelVars, ringVars>>
  PROVE  CursorOnBoundary' /\ YieldInv' /\ NeverTorn' /\ LossAccounting'
BY DEF IInv, kernelVars, ringVars, Boundaries, CursorOnBoundary, YieldInv,
       NeverTorn, LossAccounting

\* A jump of the cursor to the tail (lapped, or corrupt and skippable) lands
\* on a boundary and never goes back over an event already yielded.
LEMMA JumpKeeps ==
  ASSUME IInv, pending = 0, readPos < tailPos, readPos' = tailPos,
         UNCHANGED <<kernelVars, pending, lastSeq, firstSeq, yields, lostEvents>>
  PROVE  CursorOnBoundary' /\ YieldInv' /\ NeverTorn' /\ LossAccounting'
<1> USE DEF IInv, kernelVars
<1>1. CursorOnBoundary'
  BY DEF CursorOnBoundary, Boundaries, KernelInv
<1>2. YieldInv'
  <2>1. \A e \in events : e.pos + e.size <= readPos => e.pos + e.size <= tailPos
    BY DEF TypeOK, Event
  <2> QED BY <2>1 DEF YieldInv, TypeOK
<1>3. NeverTorn' /\ LossAccounting'
  BY DEF NeverTorn, LossAccounting
<1> QED BY <1>1, <1>2, <1>3

\* An event that passes the torn-read check is later than the last one
\* yielded.
LEMMA YieldIsLater ==
  ASSUME IInv, cpc = "recheck", ~TornRead, lastSeq # 0
  PROVE  lastSeq < ev.seq
<1> USE DEF IInv
<1> PICK f \in events : /\ f.pos = readPos
                        /\ ev = [size |-> f.size, seq |-> f.seq, form |-> f.form]
  BY NotTornGenuine DEF Genuine
<1> PICK e \in events : e.seq = lastSeq /\ e.pos + e.size <= readPos + pending
  BY DEF YieldInv
<1>1. pending = 0
  BY DEF CallInv
<1>2. e.pos + e.size <= f.pos
  BY <1>1 DEF TypeOK, Event
<1> QED BY <1>2, LaterIsLarger

\* The heart of Ring.Next: the event it yields is the one published at the
\* cursor, is later than every event yielded before, and the gap between
\* the two is what the loss count grows by.
LEMMA YieldKeeps ==
  ASSUME IInv, NextYield
  PROVE  CursorOnBoundary' /\ YieldInv' /\ NeverTorn' /\ LossAccounting'
<1> USE DEF IInv, kernelVars, NextYield
<1> PICK f \in events : /\ f.pos = readPos
                        /\ ev = [size |-> f.size, seq |-> f.seq, form |-> f.form]
  BY NotTornGenuine DEF Genuine
<1>1. /\ f.seq = ev.seq /\ f.size = ev.size /\ f.form = "good"
      /\ f.seq \in Nat \ {0} /\ f.size \in Nat \ {0} /\ f \in events'
  BY DEF TypeOK, Event
<1>3. lastSeq # 0 => lastSeq < ev.seq
  BY YieldIsLater
<1>4. CursorOnBoundary'
  BY DEF CursorOnBoundary, Boundaries
<1>5. YieldInv'
  <2>1. (lastSeq = 0 <=> firstSeq = 0)'
    BY <1>1 DEF YieldInv
  <2>2. f.seq = lastSeq' /\ f.pos + f.size <= readPos' + pending'
    BY <1>1 DEF TypeOK
  <2> QED BY <1>1, <2>1, <2>2 DEF YieldInv
<1>6. NeverTorn'
  BY <1>1 DEF NeverTorn
<1>7. LossAccounting'
  <2>1. CASE lastSeq = 0
    BY <1>1, <2>1 DEF LossAccounting, YieldInv, Gap, TypeOK
  <2>2. CASE lastSeq # 0
    <3>1. Gap(ev.seq) = ev.seq - lastSeq - 1
      BY <1>1, <1>3, <2>2 DEF Gap, TypeOK
    <3> QED BY <1>1, <1>3, <2>2, <3>1 DEF LossAccounting, YieldInv, TypeOK
  <2> QED BY <2>1, <2>2
<1> QED BY <1>4, <1>5, <1>6, <1>7

\* Every step of the consumer keeps the cursor, the accounting and the
\* worth of what was yielded.
LEMMA ConsumerKeepsCursor ==
  IInv /\ (Calls \/ Running \/ FutexInterrupted) =>
    CursorOnBoundary' /\ YieldInv' /\ NeverTorn' /\ LossAccounting'
<1> SUFFICES ASSUME IInv, Calls \/ Running \/ FutexInterrupted
             PROVE  CursorOnBoundary' /\ YieldInv' /\ NeverTorn' /\ LossAccounting'
  OBVIOUS
<1>1. CASE Calls
  BY <1>1, StepOverKeeps DEF Calls, Call
<1>2. CASE ClearNeedWake
  BY <1>2, StepOverKeeps DEF ClearNeedWake
<1>3. CASE MapGeneration
  BY <1>3 DEF MapGeneration, IInv, kernelVars, Boundaries, CursorOnBoundary,
              YieldInv, NeverTorn, LossAccounting
<1>4. CASE MapTail
  <2> USE <1>4 DEF MapTail, IInv, kernelVars
  <2>1. pending = 0 /\ lastSeq = 0
    BY DEF CallInv
  <2> QED BY <2>1 DEF CursorOnBoundary, Boundaries, KernelInv, YieldInv, NeverTorn,
                      LossAccounting
<1>5. CASE NextLapped
  <2>1. pending = 0
    BY <1>5 DEF NextLapped, IInv, CallInv
  <2> QED BY <1>5, <2>1, JumpKeeps DEF NextLapped, LappedTo
<1>6. CASE NextSkipCorrupt
  <2>1. pending = 0 /\ readPos < tailPos
    BY <1>6 DEF NextSkipCorrupt, IInv, CallInv, TypeOK
  <2> QED BY <1>6, <2>1, JumpKeeps DEF NextSkipCorrupt
<1>7. CASE NextYield
  BY <1>7, YieldKeeps
<1>8. CASE UNCHANGED <<kernelVars, ringVars>>
  BY <1>8, QuietKeeps
<1> QED
  BY <1>1, <1>2, <1>3, <1>4, <1>5, <1>6, <1>7, <1>8
  DEF Running, FutexInterrupted, NextAvailable, NextDrained, NextGenerationChanged,
      NextEmpty, NextInWindow, NextParse, NextTorn, NextUnparseable, NextCorrupt,
      CopyOut, SetNeedWake, WaitLateWrite, WaitLoadFutex, FutexWait, FutexTimeout,
      InterruptedReturn

\* Every step of the consumer keeps what a call in flight knows: a parse is
\* genuine or the tail has given it away, and only a genuine corrupt event
\* is reported.
LEMMA ConsumerKeepsCall ==
  IInv /\ (Calls \/ Running \/ FutexInterrupted) =>
    CallInv' /\ CorruptIsReal' /\ DisarmedOutsideWait'
<1> SUFFICES ASSUME IInv, Calls \/ Running \/ FutexInterrupted
             PROVE  CallInv' /\ CorruptIsReal' /\ DisarmedOutsideWait'
  OBVIOUS
<1> USE DEF IInv, kernelVars, wakeVars, ringVars, callVars, Return, Loop, LoopLocalsDie,
            CallInv, CorruptIsReal, DisarmedOutsideWait
<1>1. CASE Calls
  BY <1>1 DEF Calls, Call, StepOver
<1>2. CASE FutexInterrupted
  BY <1>2 DEF FutexInterrupted
<1>3. CASE MapGeneration \/ MapTail
  BY <1>3 DEF MapGeneration, MapTail
<1>4. CASE NextAvailable \/ NextDrained \/ NextGenerationChanged \/ NextEmpty
  BY <1>4 DEF NextAvailable, NextDrained, NextGenerationChanged, NextEmpty
<1>5. CASE NextLapped \/ NextTorn \/ NextSkipCorrupt
  BY <1>5 DEF NextLapped, NextTorn, NextSkipCorrupt
<1>6. CASE NextInWindow
  BY <1>6 DEF NextInWindow, TypeOK
<1>7. CASE NextParse
  <2> USE <1>7 DEF NextParse
  <2>1. Genuine' \/ tailPos > readPos
    <3>1. CASE tailPos > readPos
      BY <3>1
    <3>2. CASE ~(tailPos > readPos)
      <4>1. Intact(readPos) /\ \E e \in events : e.pos = readPos
        BY <3>2, AboveTailIntact, CursorOnEvent DEF TypeOK
      <4> QED BY <4>1 DEF Parsed, Genuine
    <3> QED BY <3>1, <3>2
  <2> QED BY <2>1
<1>8. CASE NextUnparseable
  BY <1>8 DEF NextUnparseable, Genuine
<1>9. CASE NextYield
  BY <1>9 DEF NextYield
<1>10. CASE NextCorrupt
  <2>1. Genuine
    BY <1>10 DEF NextCorrupt, TypeOK
  <2>2. \E e \in events : e.pos = readPos /\ e.form = "bad"
    BY <1>10, <2>1 DEF NextCorrupt, Genuine
  <2> QED BY <1>10, <2>2 DEF NextCorrupt
<1>11. CASE CopyOut
  BY <1>11 DEF CopyOut
<1>12. CASE SetNeedWake \/ WaitLateWrite \/ WaitLoadFutex
  BY <1>12 DEF SetNeedWake, WaitLateWrite, WaitLoadFutex
<1>13. CASE FutexWait \/ FutexTimeout \/ InterruptedReturn
  BY <1>13 DEF FutexWait, FutexTimeout, InterruptedReturn
<1>14. CASE ClearNeedWake
  BY <1>14 DEF ClearNeedWake, StepOver
<1> QED BY <1>1, <1>2, <1>3, <1>4, <1>5, <1>6, <1>7, <1>8, <1>9, <1>10, <1>11, <1>12,
           <1>13, <1>14 DEF Running

-----------------------------------------------------------------------------
(* The inductive invariant, and what follows from it.                      *)

LEMMA InvStep == IInv /\ [Next]_vars => IInv'
<1> SUFFICES ASSUME IInv, [Next]_vars PROVE IInv'
  OBVIOUS
<1>1. TypeOK' /\ KernelInv'
  BY TypeStep, KernelInvStep DEF IInv
<1>2. RingInv'
  <2>1. CASE Kernel
    BY <2>1, KernelKeepsRingInv
  <2>2. CASE Calls \/ Running \/ FutexInterrupted
    BY <2>2, ConsumerKeepsCursor, ConsumerKeepsCall DEF RingInv
  <2>3. CASE UNCHANGED vars
    BY <2>3 DEF vars, kernelVars, wakeVars, ringVars, callVars, RingInv, IInv,
                CursorOnBoundary, Boundaries, CallInv, Genuine, YieldInv, NeverTorn,
                LossAccounting, CorruptIsReal, DisarmedOutsideWait
  <2> QED BY <2>1, <2>2, <2>3 DEF Next
<1> QED BY <1>1, <1>2 DEF IInv, RingInv

LEMMA InvInit == Init => IInv
<1> SUFFICES ASSUME Init PROVE IInv
  OBVIOUS
<1>1. TypeOK
  BY DEF Init, TypeOK, NoEvent, NoHeader, Event, Header, Outcomes
<1>2. KernelInv /\ CursorOnBoundary
  BY DEF Init, KernelInv, CursorOnBoundary, Boundaries
<1>3. CallInv /\ YieldInv /\ NeverTorn /\ LossAccounting /\ CorruptIsReal
      /\ DisarmedOutsideWait
  BY DEF Init, CallInv, YieldInv, NeverTorn, LossAccounting, CorruptIsReal,
         DisarmedOutsideWait
<1> QED BY <1>1, <1>2, <1>3 DEF IInv

\* Everything Ring.Next relies on between two memory accesses holds in every
\* reachable state, for every capacity, event size and number of events.
THEOREM Invariance == Spec => []IInv
BY InvInit, InvStep, PTL DEF Spec

\* Ring.Next never yields a torn event: its torn-read check is sufficient.
THEOREM NextNeverTorn == Spec => []NeverTorn
<1>1. IInv => NeverTorn
  BY DEF IInv
<1> QED BY <1>1, Invariance, PTL

\* LostEvents accounts exactly for the sequence numbers not yielded.
THEOREM LossIsExact == Spec => []LossAccounting
<1>1. IInv => LossAccounting
  BY DEF IInv
<1> QED BY <1>1, Invariance, PTL

\* An error from Next is never the product of a race with the kernel.
THEOREM CorruptionIsReal == Spec => []CorruptIsReal
<1>1. IInv => CorruptIsReal
  BY DEF IInv
<1> QED BY <1>1, Invariance, PTL

-----------------------------------------------------------------------------
(* The ring implements the abstract stream.                                *)

LEMMA KernelImplements == IInv /\ Kernel => [Stream!StreamNext]_Stream!streamVars
<1> SUFFICES ASSUME IInv, Kernel PROVE [Stream!StreamNext]_Stream!streamVars
  OBVIOUS
<1>1. UNCHANGED <<lastSeq, lostEvents>>
  BY KernelKeepsRing DEF ringVars
<1>2. CASE KmesPublish
  <2>1. /\ cur \in Event /\ events \subseteq Event /\ cur.seq = seq + 1 /\ seq \in Nat
        /\ events' = events \cup {cur} /\ \A e \in events : e.seq <= seq
    BY <1>2 DEF KmesPublish, IInv, TypeOK, KernelInv
  <2>2. /\ cur.seq > 0 /\ \A t \in {e.seq : e \in events} : t < cur.seq
        /\ {e.seq : e \in events'} = {e.seq : e \in events} \cup {cur.seq}
    BY <2>1 DEF Event
  <2> QED BY <1>1, <2>2 DEF Stream!StreamNext, Stream!Emit
<1>3. CASE ~KmesPublish
  <2>1. UNCHANGED events
    BY <1>3 DEF Kernel, KmesReserve, KmesCopy, KmesDrop, KmesCheckWake, KmesBump,
                KmesWake, KmesResize
  <2> QED BY <1>1, <2>1 DEF Stream!streamVars
<1> QED BY <1>2, <1>3

LEMMA YieldImplements == IInv /\ NextYield => Stream!Deliver
<1> SUFFICES ASSUME IInv, NextYield PROVE Stream!Deliver
  OBVIOUS
<1> USE DEF IInv, kernelVars, NextYield
<1> PICK f \in events : /\ f.pos = readPos
                        /\ ev = [size |-> f.size, seq |-> f.seq, form |-> f.form]
  BY NotTornGenuine DEF Genuine
<1>1. f.seq = ev.seq /\ f.seq \in Nat \ {0}
  BY DEF TypeOK, Event
<1>2. lastSeq < ev.seq
  BY <1>1, YieldIsLater DEF TypeOK
<1>3. Gap(ev.seq) = Stream!Skipped(ev.seq)
  BY <1>1, <1>2 DEF Gap, Stream!Skipped, TypeOK
<1> QED BY <1>1, <1>2, <1>3 DEF Stream!Deliver, TypeOK

\* What a consumer is promised (EventStream) is what Ring delivers: in
\* order, at most once, every gap counted.
THEOREM RingImplementsStream == Spec => ImplementsStream
<1>1. Init => Stream!StreamInit
  BY DEF Init, Stream!StreamInit
<1>2. IInv /\ [Next]_vars => [Stream!StreamNext]_Stream!streamVars
  <2> SUFFICES ASSUME IInv, [Next]_vars PROVE [Stream!StreamNext]_Stream!streamVars
    OBVIOUS
  <2>1. CASE Kernel
    BY <2>1, KernelImplements
  <2>2. CASE NextYield
    BY <2>2, YieldImplements DEF Stream!StreamNext
  <2>3. CASE UNCHANGED <<events, lastSeq, lostEvents>>
    BY <2>3 DEF Stream!streamVars
  <2>4. CASE Calls \/ FutexInterrupted
    BY <2>3, <2>4 DEF Calls, Call, FutexInterrupted, kernelVars, ringVars
  <2>5. CASE Running /\ ~NextYield
    BY <2>3, <2>5
    DEF Running, MapGeneration, MapTail, NextAvailable, NextDrained,
        NextGenerationChanged, NextEmpty, NextLapped, NextInWindow, NextParse,
        NextTorn, NextUnparseable, NextSkipCorrupt, NextCorrupt, CopyOut, SetNeedWake,
        WaitLateWrite, WaitLoadFutex, FutexWait, FutexTimeout, ClearNeedWake,
        InterruptedReturn, kernelVars, ringVars
  <2>6. CASE UNCHANGED vars
    BY <2>3, <2>6 DEF vars, kernelVars, ringVars
  <2> QED BY <2>1, <2>2, <2>4, <2>5, <2>6 DEF Next
<1> QED BY <1>1, <1>2, Invariance, PTL DEF Spec, ImplementsStream, Stream!StreamSpec
============================================================================
