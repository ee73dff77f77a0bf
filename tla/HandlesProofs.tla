--------------------------- MODULE HandlesProofs ---------------------------
(* Proofs about Handles, for any number of goroutines, handles, CPUs,      *)
(* descriptors and mappings.                                               *)
EXTENDS Handles, TLAPS

USE TableAssumption, CpuAssumption

HandleSet == {None, Closed} \cup [kind : Kinds, fd : Fds, base : Maps \cup {NoMap}]

\* HeldIsOwn and NoLeak, descriptors and mappings apart.
FdInv ==
    /\ \A g, h \in Goroutines, i, j \in Places :
         /\ FdAt(g, i) # NoFd => table[FdAt(g, i)] = KindAt(g, i)
         /\ FdAt(g, i) # NoFd /\ FdAt(g, i) = FdAt(h, j) => g = h /\ i = j
    /\ \A f \in Fds : table[f] # "free" => \E g \in Goroutines, i \in Places : FdAt(g, i) = f
BaseInv ==
    /\ \A g, h \in Goroutines, i, j \in Places :
         /\ BaseAt(g, i) # NoMap => BaseAt(g, i) \in mapped
         /\ BaseAt(g, i) # NoMap /\ BaseAt(g, i) = BaseAt(h, j) => g = h /\ i = j
    /\ \A b \in mapped : \E g \in Goroutines, i \in Places : BaseAt(g, i) = b

\* The two statements about who holds what, regrouped by resource.
LEMMA Apart == HeldIsOwn /\ NoLeak => FdInv /\ BaseInv
  BY DEF HeldIsOwn, NoLeak, FdInv, BaseInv
\* And back, in the next state.
LEMMA Together == ASSUME FdInv', BaseInv' PROVE HeldIsOwn' /\ NoLeak'
  BY DEF HeldIsOwn, NoLeak, FdInv, BaseInv

-----------------------------------------------------------------------------
(* What a change of one holder does to the invariant.                      *)

\* The view of everyone but place i of goroutine g stays.
OtherFds(g, i) == \A h \in Goroutines, j \in Places : h # g \/ j # i =>
    FdAt(h, j)' = FdAt(h, j) /\ KindAt(h, j)' = KindAt(h, j)
OtherBases(g, i) == \A h \in Goroutines, j \in Places : h # g \/ j # i => BaseAt(h, j)' = BaseAt(h, j)

\* What a place can hold: a closed or absent object holds nothing.
LEMMA Views ==
  ASSUME TypeOK, NEW g \in Goroutines, NEW i \in Places
  PROVE  /\ FdAt(g, i) \in Fds \cup {NoFd} /\ BaseAt(g, i) \in Maps \cup {NoMap}
         /\ FdAt(g, i) # NoFd => KindAt(g, i) \in Kinds
         /\ KindAt(g, i) \in {"none", "closed"} => FdAt(g, i) = NoFd /\ BaseAt(g, i) = NoMap
  <1>1. CASE i = NoSlot BY <1>1 DEF TypeOK, FdAt, BaseAt, KindAt, Kinds
  <1>2. CASE i # NoSlot
    <2>1. i \in Slots BY <1>2 DEF Places
    <2>2. hnd[g][i] \in {None, Closed} \cup [kind : Kinds, fd : Fds, base : Maps \cup {NoMap}]
      BY <2>1 DEF TypeOK
    <2>3. CASE hnd[g][i] \in {None, Closed}
      BY <1>2, <2>3 DEF FdAt, BaseAt, KindAt, None, Closed
    <2>4. CASE hnd[g][i] \in [kind : Kinds, fd : Fds, base : Maps \cup {NoMap}]
      BY <1>2, <2>4 DEF FdAt, BaseAt, KindAt, Kinds
    <2>5. QED BY <2>2, <2>3, <2>4
  <1>3. QED BY <1>1, <1>2

\* -1 is no descriptor.
LEMMA NoFdNotFd == NoFd \notin Fds
  BY DEF NoFd, Fds
\* Nor nil a mapping.
LEMMA NoMapNotMap == NoMap \notin Maps
  BY DEF NoMap, Maps
\* Nor 0 a slot.
LEMMA NoSlotNotSlot == NoSlot \notin Slots
  BY DEF NoSlot, Slots

\* A place that held nothing takes a number that was free (an open).
LEMMA TakeFd ==
  ASSUME TypeOK, FdInv, NEW g \in Goroutines, NEW i \in Places, NEW f \in Fds, NEW k \in Kinds,
         table[f] = "free", table' = [table EXCEPT ![f] = k],
         FdAt(g, i) = NoFd, FdAt(g, i)' = f, KindAt(g, i)' = k, OtherFds(g, i)
  PROVE  FdInv'
  <1>1. table \in [Fds -> Kinds \cup {"free"}] BY DEF TypeOK
  <1>2. \A h \in Goroutines, j \in Places : FdAt(h, j) # f /\ FdAt(h, j) \in Fds \cup {NoFd}
                                             /\ (FdAt(h, j) # NoFd => KindAt(h, j) \in Kinds)
    BY Views, NoFdNotFd DEF FdInv, Kinds
  <1>3. ASSUME NEW a \in Goroutines, NEW b \in Places, FdAt(a, b)' # NoFd
        PROVE  table'[FdAt(a, b)'] = KindAt(a, b)'
    BY <1>1, <1>2, <1>3 DEF FdInv, OtherFds
  <1>4. ASSUME NEW a \in Goroutines, NEW b \in Places, NEW c \in Goroutines, NEW d \in Places,
               FdAt(a, b)' # NoFd, FdAt(a, b)' = FdAt(c, d)'
        PROVE  a = c /\ b = d
    BY <1>2, <1>4 DEF FdInv, OtherFds
  <1>5. ASSUME NEW e \in Fds, table'[e] # "free"
        PROVE  \E a \in Goroutines, b \in Places : FdAt(a, b)' = e
    <2>1. CASE e = f BY <2>1
    <2>2. CASE e # f
      <3>1. table[e] # "free" BY <1>1, <1>5, <2>2
      <3>2. PICK a \in Goroutines, b \in Places : FdAt(a, b) = e BY <3>1 DEF FdInv
      <3>3. a # g \/ b # i BY <3>2, NoFdNotFd
      <3>4. FdAt(a, b)' = e BY <3>2, <3>3 DEF OtherFds
      <3>5. QED BY <3>4
    <2>3. QED BY <2>1, <2>2
  <1>6. QED BY <1>3, <1>4, <1>5 DEF FdInv

\* A place gives its number back and forgets it in the same step (a close).
LEMMA GiveFd ==
  ASSUME TypeOK, FdInv, NEW g \in Goroutines, NEW i \in Places,
         Release(FdAt(g, i)), FdAt(g, i)' = NoFd, OtherFds(g, i)
  PROVE  FdInv'
  <1>1. table \in [Fds -> Kinds \cup {"free"}] BY DEF TypeOK
  <1>2. \A e \in Fds : table'[e] = IF e = FdAt(g, i) THEN "free" ELSE table[e]
    BY DEF Release
  <1>3. ASSUME NEW a \in Goroutines, NEW b \in Places, FdAt(a, b)' # NoFd
        PROVE  table'[FdAt(a, b)'] = KindAt(a, b)'
    <2>1. a # g \/ b # i BY <1>3
    <2>2. FdAt(a, b)' = FdAt(a, b) /\ KindAt(a, b)' = KindAt(a, b) BY <2>1 DEF OtherFds
    <2>3. FdAt(a, b) \in Fds BY <1>3, <2>2, Views
    <2>4. FdAt(a, b) # FdAt(g, i) BY <1>3, <2>1, <2>2 DEF FdInv
    <2>5. QED BY <1>2, <1>3, <2>2, <2>3, <2>4 DEF FdInv
  <1>4. ASSUME NEW a \in Goroutines, NEW b \in Places, NEW c \in Goroutines, NEW d \in Places,
               FdAt(a, b)' # NoFd, FdAt(a, b)' = FdAt(c, d)'
        PROVE  a = c /\ b = d
    BY <1>4 DEF FdInv, OtherFds
  <1>5. ASSUME NEW e \in Fds, table'[e] # "free"
        PROVE  \E a \in Goroutines, b \in Places : FdAt(a, b)' = e
    <2>1. e # FdAt(g, i) /\ table[e] # "free" BY <1>2, <1>5
    <2>2. PICK a \in Goroutines, b \in Places : FdAt(a, b) = e BY <2>1 DEF FdInv
    <2>3. a # g \/ b # i BY <2>1, <2>2
    <2>4. FdAt(a, b)' = e BY <2>2, <2>3 DEF OtherFds
    <2>5. QED BY <2>4
  <1>6. QED BY <1>3, <1>4, <1>5 DEF FdInv

\* A step that moves no descriptor.
LEMMA KeepFds ==
  ASSUME FdInv, table' = table,
         \A g \in Goroutines, i \in Places : /\ FdAt(g, i)' = FdAt(g, i)
                                             /\ FdAt(g, i) # NoFd => KindAt(g, i)' = KindAt(g, i)
  PROVE  FdInv'
  BY DEF FdInv

\* AttachAll's local descriptor goes into the Ring object.
LEMMA MoveFd ==
  ASSUME TypeOK, FdInv, NEW g \in Goroutines, NEW s \in Slots, table' = table,
         FdAt(g, s) = NoFd, FdAt(g, NoSlot)' = NoFd, FdAt(g, s)' = FdAt(g, NoSlot),
         KindAt(g, s)' = "ring",
         \A h \in Goroutines, j \in Places : h # g \/ j \notin {s, NoSlot} =>
            FdAt(h, j)' = FdAt(h, j) /\ KindAt(h, j)' = KindAt(h, j)
  PROVE  FdInv'
  <1>1. s \in Places /\ NoSlot \in Places /\ s # NoSlot BY NoSlotNotSlot DEF Places
  <1>2. KindAt(g, NoSlot) = "ring" BY DEF KindAt
  <1>3. ASSUME NEW a \in Goroutines, NEW b \in Places, FdAt(a, b)' # NoFd
        PROVE  table'[FdAt(a, b)'] = KindAt(a, b)'
    BY <1>1, <1>2, <1>3 DEF FdInv
  <1>4. ASSUME NEW a \in Goroutines, NEW b \in Places, NEW c \in Goroutines, NEW d \in Places,
               FdAt(a, b)' # NoFd, FdAt(a, b)' = FdAt(c, d)'
        PROVE  a = c /\ b = d
    BY <1>1, <1>4 DEF FdInv
  <1>5. ASSUME NEW e \in Fds, table'[e] # "free"
        PROVE  \E a \in Goroutines, b \in Places : FdAt(a, b)' = e
    <2>1. PICK a \in Goroutines, b \in Places : FdAt(a, b) = e BY <1>5 DEF FdInv
    <2>2. CASE a = g /\ b = NoSlot BY <1>1, <2>1, <2>2
    <2>3. CASE a # g \/ b # NoSlot
      <3>1. a # g \/ b \notin {s, NoSlot} BY <2>1, <2>3, NoFdNotFd
      <3>2. QED BY <2>1, <3>1
    <2>4. QED BY <2>2, <2>3
  <1>6. QED BY <1>3, <1>4, <1>5 DEF FdInv

\* The same for mappings.
LEMMA TakeBase ==
  ASSUME TypeOK, BaseInv, NEW g \in Goroutines, NEW i \in Places, NEW m \in Maps \ mapped,
         mapped' = mapped \cup {m}, BaseAt(g, i) = NoMap, BaseAt(g, i)' = m, OtherBases(g, i)
  PROVE  BaseInv'
  <1>1. \A h \in Goroutines, j \in Places : BaseAt(h, j) # m
    BY NoMapNotMap DEF BaseInv
  <1>2. ASSUME NEW a \in Goroutines, NEW b \in Places, BaseAt(a, b)' # NoMap
        PROVE  BaseAt(a, b)' \in mapped'
    BY <1>2 DEF BaseInv, OtherBases
  <1>3. ASSUME NEW a \in Goroutines, NEW b \in Places, NEW c \in Goroutines, NEW d \in Places,
               BaseAt(a, b)' # NoMap, BaseAt(a, b)' = BaseAt(c, d)'
        PROVE  a = c /\ b = d
    BY <1>1, <1>3 DEF BaseInv, OtherBases
  <1>4. ASSUME NEW e \in mapped'
        PROVE  \E a \in Goroutines, b \in Places : BaseAt(a, b)' = e
    <2>1. CASE e = m BY <2>1
    <2>2. CASE e \in mapped
      <3>1. PICK a \in Goroutines, b \in Places : BaseAt(a, b) = e BY <2>2 DEF BaseInv
      <3>2. a # g \/ b # i BY <2>2, <3>1, NoMapNotMap DEF TypeOK
      <3>3. BaseAt(a, b)' = e BY <3>1, <3>2 DEF OtherBases
      <3>4. QED BY <3>3
    <2>3. QED BY <1>4, <2>1, <2>2
  <1>5. QED BY <1>2, <1>3, <1>4 DEF BaseInv

\* munmap, forgotten in the same step.
LEMMA GiveBase ==
  ASSUME TypeOK, BaseInv, NEW g \in Goroutines, NEW i \in Places,
         Munmap(BaseAt(g, i)), BaseAt(g, i)' = NoMap, OtherBases(g, i)
  PROVE  BaseInv'
  <1>1. mapped' = mapped \ {BaseAt(g, i)} BY DEF Munmap
  <1>2. ASSUME NEW a \in Goroutines, NEW b \in Places, BaseAt(a, b)' # NoMap
        PROVE  BaseAt(a, b)' \in mapped'
    <2>1. a # g \/ b # i BY <1>2
    <2>2. BaseAt(a, b)' = BaseAt(a, b) BY <2>1 DEF OtherBases
    <2>3. BaseAt(a, b) # BaseAt(g, i) BY <1>2, <2>1, <2>2 DEF BaseInv
    <2>4. QED BY <1>1, <1>2, <2>2, <2>3 DEF BaseInv
  <1>3. ASSUME NEW a \in Goroutines, NEW b \in Places, NEW c \in Goroutines, NEW d \in Places,
               BaseAt(a, b)' # NoMap, BaseAt(a, b)' = BaseAt(c, d)'
        PROVE  a = c /\ b = d
    BY <1>3 DEF BaseInv, OtherBases
  <1>4. ASSUME NEW e \in mapped'
        PROVE  \E a \in Goroutines, b \in Places : BaseAt(a, b)' = e
    <2>1. PICK a \in Goroutines, b \in Places : BaseAt(a, b) = e BY <1>1, <1>4 DEF BaseInv
    <2>2. a # g \/ b # i BY <1>1, <1>4, <2>1
    <2>3. BaseAt(a, b)' = e BY <2>1, <2>2 DEF OtherBases
    <2>4. QED BY <2>3
  <1>5. QED BY <1>2, <1>3, <1>4 DEF BaseInv

\* A step that moves no mapping.
LEMMA KeepBases ==
  ASSUME BaseInv, mapped' = mapped,
         \A g \in Goroutines, i \in Places : BaseAt(g, i)' = BaseAt(g, i)
  PROVE  BaseInv'
  BY DEF BaseInv

\* AttachAll's local mapping goes into the Ring object.
LEMMA MoveBase ==
  ASSUME BaseInv, NEW g \in Goroutines, NEW s \in Slots, mapped \subseteq Maps, mapped' = mapped,
         BaseAt(g, s) = NoMap, BaseAt(g, NoSlot)' = NoMap, BaseAt(g, s)' = BaseAt(g, NoSlot),
         \A h \in Goroutines, j \in Places : h # g \/ j \notin {s, NoSlot} =>
            BaseAt(h, j)' = BaseAt(h, j)
  PROVE  BaseInv'
  <1>1. s \in Places /\ NoSlot \in Places /\ s # NoSlot BY NoSlotNotSlot DEF Places
  <1>2. ASSUME NEW a \in Goroutines, NEW b \in Places, BaseAt(a, b)' # NoMap
        PROVE  BaseAt(a, b)' \in mapped'
    BY <1>1, <1>2 DEF BaseInv
  <1>3. ASSUME NEW a \in Goroutines, NEW b \in Places, NEW c \in Goroutines, NEW d \in Places,
               BaseAt(a, b)' # NoMap, BaseAt(a, b)' = BaseAt(c, d)'
        PROVE  a = c /\ b = d
    BY <1>1, <1>3 DEF BaseInv
  <1>4. ASSUME NEW e \in mapped'
        PROVE  \E a \in Goroutines, b \in Places : BaseAt(a, b)' = e
    <2>1. PICK a \in Goroutines, b \in Places : BaseAt(a, b) = e BY <1>4 DEF BaseInv
    <2>2. CASE a = g /\ b = NoSlot BY <1>1, <2>1, <2>2
    <2>3. CASE a # g \/ b # NoSlot
      <3>1. a # g \/ b \notin {s, NoSlot} BY <1>4, <2>1, <2>3, NoMapNotMap
      <3>2. QED BY <2>1, <3>1
    <2>4. QED BY <2>2, <2>3
  <1>5. QED BY <1>2, <1>3, <1>4 DEF BaseInv

-----------------------------------------------------------------------------
(* What the steps do to the holders.                                       *)

\* A handle object of one slot is replaced, and no other.
LEMMA PutAt ==
  ASSUME TypeOK, NEW g \in Goroutines, NEW s \in Slots, NEW x, Put(g, s, x)
  PROVE  /\ hnd'[g][s] = x
         /\ \A h \in Goroutines, t \in Slots : h # g \/ t # s => hnd'[h][t] = hnd[h][t]
  BY DEF TypeOK, Put

\* The replacement keeps the type of the objects.
LEMMA PutType ==
  ASSUME TypeOK, NEW g \in Goroutines, NEW s \in Slots, NEW x \in HandleSet, Put(g, s, x)
  PROVE  hnd' \in [Goroutines -> [Slots -> HandleSet]]
  <1>1. hnd \in [Goroutines -> [Slots -> HandleSet]] BY DEF TypeOK, HandleSet
  <1>2. QED BY <1>1 DEF Put

\* A handle object changes: everyone else's view stays.
LEMMA PutOthers ==
  ASSUME TypeOK, NEW g \in Goroutines, NEW s \in Slots, NEW x, Put(g, s, x)
  PROVE  /\ fd' = fd => OtherFds(g, s)
         /\ base' = base => OtherBases(g, s)
         /\ FdAt(g, s)' = x.fd /\ KindAt(g, s)' = x.kind /\ BaseAt(g, s)' = x.base
  <1>1. s # NoSlot BY NoSlotNotSlot
  <1>2. \A h \in Goroutines, t \in Slots : h # g \/ t # s => hnd'[h][t] = hnd[h][t] BY PutAt
  <1>3. ASSUME fd' = fd PROVE OtherFds(g, s)
    BY <1>2, <1>3 DEF OtherFds, FdAt, KindAt, Places
  <1>4. ASSUME base' = base PROVE OtherBases(g, s)
    BY <1>2, <1>4 DEF OtherBases, BaseAt, Places
  <1>5. hnd'[g][s] = x BY PutAt
  <1>6. FdAt(g, s)' = x.fd /\ KindAt(g, s)' = x.kind /\ BaseAt(g, s)' = x.base
    BY <1>1, <1>5 DEF FdAt, KindAt, BaseAt
  <1>7. QED BY <1>3, <1>4, <1>6

\* A step that touches neither the kernel nor any holder.
LEMMA Quiet ==
  ASSUME IInv, UNCHANGED <<table, mapped, hnd, fd, base>>
  PROVE  HeldIsOwn' /\ NoLeak'
  <1>1. FdInv /\ BaseInv BY Apart DEF IInv
  <1>2. \A g \in Goroutines, i \in Places :
          FdAt(g, i)' = FdAt(g, i) /\ KindAt(g, i)' = KindAt(g, i) /\ BaseAt(g, i)' = BaseAt(g, i)
    BY DEF FdAt, KindAt, BaseAt
  <1>3. FdInv' BY <1>1, <1>2, KeepFds
  <1>4. BaseInv' BY <1>1, <1>2, KeepBases
  <1>5. QED BY <1>3, <1>4, Together

\* A new handle object takes a free descriptor.
LEMMA Opened ==
  ASSUME IInv, NEW g \in Goroutines, NEW s \in Slots, NEW k \in Kinds,
         NewHandle(g, s, k), UNCHANGED <<mapped, fd, base>>
  PROVE  /\ HeldIsOwn' /\ NoLeak'
         /\ table' \in [Fds -> Kinds \cup {"free"}]
         /\ hnd' \in [Goroutines -> [Slots -> HandleSet]]
         /\ hnd'[g][s].kind = k /\ hnd'[g][s].base = NoMap
  <1> USE DEF IInv
  <1>1. PICK f \in Fds : Alloc(k, f) /\ Put(g, s, Handle(k, f, NoMap)) BY DEF NewHandle
  <1>2. s \in Places /\ s # NoSlot BY NoSlotNotSlot DEF Places
  <1>3. hnd[g][s] = None BY DEF NewHandle, NewSlot
  <1>4. FdAt(g, s) = NoFd /\ BaseAt(g, s) = NoMap BY <1>2, <1>3 DEF FdAt, BaseAt, None
  <1>5. OtherFds(g, s) /\ OtherBases(g, s) /\ FdAt(g, s)' = f /\ KindAt(g, s)' = k /\ BaseAt(g, s)' = NoMap
    BY <1>1, PutOthers DEF Handle
  <1>6. FdInv' BY <1>1, <1>2, <1>4, <1>5, TakeFd, Apart DEF Alloc
  <1>7. \A h \in Goroutines, j \in Places : BaseAt(h, j)' = BaseAt(h, j) BY <1>4, <1>5 DEF OtherBases
  <1>8. BaseInv' BY <1>7, KeepBases, Apart
  <1>9. table' \in [Fds -> Kinds \cup {"free"}] BY <1>1 DEF Alloc, TypeOK
  <1>10. Handle(k, f, NoMap) \in HandleSet BY DEF Handle, HandleSet
  <1>11. hnd' \in [Goroutines -> [Slots -> HandleSet]] BY <1>1, <1>10, PutType
  <1>12. hnd'[g][s] = Handle(k, f, NoMap) BY <1>1, PutAt
  <1>13. QED BY <1>6, <1>8, <1>9, <1>11, <1>12, Together DEF Handle

\* close leaves a table.
LEMMA ReleaseType ==
  ASSUME TypeOK, NEW f, Release(f) PROVE table' \in [Fds -> Kinds \cup {"free"}]
  BY DEF TypeOK, Release

\* A handle object gives its descriptor back, and is closed or dropped.
LEMMA Dropped ==
  ASSUME IInv, NEW g \in Goroutines, NEW s \in Slots, NEW x \in {None, Closed},
         Release(hnd[g][s].fd), Put(g, s, x), hnd[g][s].base = NoMap, UNCHANGED <<mapped, fd, base>>
  PROVE  /\ HeldIsOwn' /\ NoLeak'
         /\ table' \in [Fds -> Kinds \cup {"free"}]
         /\ hnd' \in [Goroutines -> [Slots -> HandleSet]]
  <1> USE DEF IInv
  <1>1. s \in Places /\ s # NoSlot BY NoSlotNotSlot DEF Places
  <1>2. x.fd = NoFd /\ x.base = NoMap BY DEF None, Closed
  <1>3. FdAt(g, s) = hnd[g][s].fd /\ BaseAt(g, s) = NoMap BY <1>1 DEF FdAt, BaseAt
  <1>4. OtherFds(g, s) /\ OtherBases(g, s) /\ FdAt(g, s)' = NoFd /\ BaseAt(g, s)' = NoMap
    BY <1>2, PutOthers
  <1>5. FdInv' BY <1>1, <1>3, <1>4, GiveFd, Apart
  <1>6. \A h \in Goroutines, j \in Places : BaseAt(h, j)' = BaseAt(h, j) BY <1>3, <1>4 DEF OtherBases
  <1>7. BaseInv' BY <1>6, KeepBases, Apart
  <1>8. hnd' \in [Goroutines -> [Slots -> HandleSet]] BY PutType DEF HandleSet
  <1>9. QED BY <1>5, <1>7, <1>8, Together, ReleaseType

-----------------------------------------------------------------------------
(* Every step preserves the invariant.  First those that only move on in a  *)
(* call.                                                                   *)

\* Moving on in a call, with what is held held.
LEMMA QuietStep ==
  ASSUME IInv, NEW g \in Goroutines,
         \/ Retry(g) \/ StatusKnown(g) \/ AttachAll(g) \/ AttachEnd(g) \/ AttachFails(g)
         \/ MapFails(g) \/ CheckBad(g) \/ UndoNext(g) \/ UndoDone(g)
         \/ \E s \in Slots : RingClose(g, s)
  PROVE  IInv'
  <1> USE DEF IInv, Goto, Leave
  <1>1. CASE Retry(g)
    <2>1. TypeOK' BY <1>1 DEF TypeOK, Retry
    <2>2. CallInv' BY <1>1 DEF CallInv, CallOf, Retry
    <2>3. QED BY <1>1, <2>1, <2>2, Quiet DEF Retry
  <1>2. CASE StatusKnown(g)
    <2>1. TypeOK' BY <1>2 DEF TypeOK, StatusKnown
    <2>2. CallInv' BY <1>2 DEF TypeOK, CallInv, CallOf, StatusKnown
    <2>3. QED BY <1>2, <2>1, <2>2, Quiet DEF StatusKnown
  <1>3. CASE AttachAll(g)
    <2>1. TypeOK' BY <1>3 DEF TypeOK, AttachAll
    <2>2. CallInv' BY <1>3 DEF TypeOK, CallInv, CallOf, AttachAll
    <2>3. QED BY <1>3, <2>1, <2>2, Quiet DEF AttachAll
  <1>4. CASE AttachEnd(g)
    <2>1. TypeOK' BY <1>4 DEF TypeOK, AttachEnd
    <2>2. CallInv' BY <1>4 DEF TypeOK, CallInv, CallOf, AttachEnd
    <2>3. QED BY <1>4, <2>1, <2>2, Quiet DEF AttachEnd
  <1>5. CASE AttachFails(g)
    <2>1. TypeOK' BY <1>5 DEF TypeOK, AttachFails
    <2>2. CallInv' BY <1>5 DEF TypeOK, CallInv, CallOf, AttachFails
    <2>3. QED BY <1>5, <2>1, <2>2, Quiet DEF AttachFails
  <1>6. CASE MapFails(g)
    <2>1. TypeOK' BY <1>6 DEF TypeOK, MapFails
    <2>2. CallInv' BY <1>6 DEF TypeOK, CallInv, CallOf, MapFails
    <2>3. QED BY <1>6, <2>1, <2>2, Quiet DEF MapFails
  <1>7. CASE CheckBad(g)
    <2>1. TypeOK' BY <1>7 DEF TypeOK, CheckBad
    <2>2. CallInv' BY <1>7 DEF TypeOK, CallInv, CallOf, CheckBad
    <2>3. QED BY <1>7, <2>1, <2>2, Quiet DEF CheckBad
  <1>8. CASE UndoNext(g)
    <2>1. Head(rings[g]) \in Slots BY <1>8 DEF TypeOK, UndoNext
    <2>2. TypeOK' BY <1>8, <2>1 DEF TypeOK, UndoNext
    <2>3. CallInv' BY <1>8, <2>1 DEF TypeOK, CallInv, CallOf, UndoNext
    <2>4. QED BY <1>8, <2>2, <2>3, Quiet DEF UndoNext
  <1>9. CASE UndoDone(g)
    <2>1. TypeOK' BY <1>9 DEF TypeOK, UndoDone
    <2>2. CallInv' BY <1>9 DEF TypeOK, CallInv, CallOf, UndoDone
    <2>3. QED BY <1>9, <2>1, <2>2, Quiet DEF UndoDone
  <1>10. CASE \E s \in Slots : RingClose(g, s)
    <2>1. PICK s \in Slots : RingClose(g, s) BY <1>10
    <2>2. TypeOK' BY <2>1 DEF TypeOK, RingClose
    <2>3. CallInv' BY <2>1 DEF TypeOK, CallInv, CallOf, RingClose
    <2>4. QED BY <2>1, <2>2, <2>3, Quiet DEF RingClose
  <1>11. QED BY <1>1, <1>2, <1>3, <1>4, <1>5, <1>6, <1>7, <1>8, <1>9, <1>10

-----------------------------------------------------------------------------
(* Tokens, keys and files.                                                 *)

\* A goroutine that is in no call changes one of its handle objects.
LEMMA IdleCalls ==
  ASSUME IInv, NEW g \in Goroutines, NEW s \in Slots, NEW x, Put(g, s, x),
         x.kind # "ring" => x.base = NoMap,
         pc[g] = "idle", UNCHANGED <<pc, fd, base, cur>>
  PROVE  CallInv'
  <1>1. hnd'[g][s] = x /\ \A h \in Goroutines, t \in Slots : h # g \/ t # s => hnd'[h][t] = hnd[h][t]
    BY PutAt DEF IInv
  <1>2. QED BY <1>1 DEF IInv, CallInv, CallOf

\* Tokens and keys are opened.
LEMMA OpenStep ==
  ASSUME IInv, NEW g \in Goroutines, NEW s \in Slots,
         OpenToken(g, s) \/ OpenKey(g, s) \/ CreateKey(g, s) \/ \E r \in Slots : Derive(g, r, s)
  PROVE  IInv'
  <1>1. PICK k \in {"token", "key"} : NewHandle(g, s, k) /\ UNCHANGED <<mapped, signals, pc, rings, fd, base, cur>>
    BY DEF OpenToken, OpenKey, CreateKey, Derive
  <1>2. /\ HeldIsOwn' /\ NoLeak'
        /\ table' \in [Fds -> Kinds \cup {"free"}] /\ hnd' \in [Goroutines -> [Slots -> HandleSet]]
    BY <1>1, Opened DEF Kinds
  <1>3. TypeOK' BY <1>1, <1>2 DEF IInv, TypeOK, HandleSet
  <1>4. PICK f \in Fds : Put(g, s, Handle(k, f, NoMap)) BY <1>1 DEF NewHandle
  <1>5. CallInv' BY <1>1, <1>4, IdleCalls DEF Handle, NewHandle
  <1>6. QED BY <1>2, <1>3, <1>5 DEF IInv

\* A file is opened, its status still to be looked at.
LEMMA OpenAtStep ==
  ASSUME IInv, NEW g \in Goroutines, NEW s \in Slots, OpenAt(g, s)
  PROVE  IInv'
  <1> USE DEF IInv
  <1>1. NewHandle(g, s, "file") /\ UNCHANGED <<mapped, signals, rings, fd, base>> BY DEF OpenAt
  <1>2. /\ HeldIsOwn' /\ NoLeak'
        /\ table' \in [Fds -> Kinds \cup {"free"}] /\ hnd' \in [Goroutines -> [Slots -> HandleSet]]
        /\ hnd'[g][s].kind = "file" /\ hnd'[g][s].base = NoMap
    BY <1>1, Opened DEF Kinds
  <1>3. TypeOK' BY <1>1, <1>2 DEF OpenAt, Goto, TypeOK, HandleSet
  <1>4. \A h \in Goroutines, t \in Slots : h # g \/ t # s => hnd'[h][t] = hnd[h][t]
    BY <1>1, PutAt DEF NewHandle
  <1>5. pc' = [pc EXCEPT ![g] = "status"] /\ cur' = [cur EXCEPT ![g] = s] /\ pc[g] = "idle"
    BY DEF OpenAt, Goto, NewHandle
  <1>6. ASSUME NEW h \in Goroutines PROVE CallOf(h)'
    <2>1. CASE h = g
      <3>1. pc'[g] = "status" /\ cur'[g] = s BY <1>5 DEF TypeOK
      <3>2. fd'[g] = NoFd /\ base'[g] = NoMap BY <1>1, <1>5 DEF CallInv, CallOf
      <3>3. \A t \in Slots : hnd'[g][t].kind # "ring" => hnd'[g][t].base = NoMap
        BY <1>2, <1>4 DEF CallInv, CallOf
      <3>4. QED BY <1>2, <2>1, <3>1, <3>2, <3>3 DEF CallOf
    <2>2. CASE h # g
      <3>1. pc'[h] = pc[h] /\ cur'[h] = cur[h] BY <1>5, <2>2 DEF TypeOK
      <3>2. \A t \in Slots : hnd'[h][t] = hnd[h][t] BY <1>4, <2>2
      <3>3. CallOf(h) BY DEF CallInv
      <3>4. QED BY <1>1, <3>1, <3>2, <3>3 DEF CallOf
    <2>3. QED BY <2>1, <2>2
  <1>7. CallInv' BY <1>6 DEF CallInv
  <1>8. QED BY <1>2, <1>3, <1>7

\* A file with an unknown status is closed and dropped.
LEMMA StatusStep ==
  ASSUME IInv, NEW g \in Goroutines, StatusUnknown(g)
  PROVE  IInv'
  <1> USE DEF IInv
  <1>1. PICK s \in Slots : s = cur[g] BY DEF CallInv, CallOf, StatusUnknown
  <1>2. /\ Release(hnd[g][s].fd) /\ Put(g, s, None) /\ pc[g] = "status"
        /\ UNCHANGED <<mapped, signals, rings, fd, base>>
        /\ pc' = [pc EXCEPT ![g] = "idle"] /\ cur' = [cur EXCEPT ![g] = NoSlot]
    BY <1>1 DEF StatusUnknown, Goto, Leave
  <1>3. hnd[g][s].base = NoMap BY <1>1, <1>2 DEF CallInv, CallOf
  <1>4. /\ HeldIsOwn' /\ NoLeak'
        /\ table' \in [Fds -> Kinds \cup {"free"}] /\ hnd' \in [Goroutines -> [Slots -> HandleSet]]
    BY <1>2, <1>3, Dropped
  <1>5. TypeOK' BY <1>2, <1>4 DEF TypeOK, HandleSet
  <1>6. hnd'[g][s] = None /\ \A h \in Goroutines, t \in Slots : h # g \/ t # s => hnd'[h][t] = hnd[h][t]
    BY <1>2, PutAt
  <1>7. CallInv' BY <1>2, <1>6 DEF TypeOK, CallInv, CallOf, None
  <1>8. QED BY <1>4, <1>5, <1>7

\* A token, file or key is closed.
LEMMA CloseStep ==
  ASSUME IInv, NEW g \in Goroutines, NEW s \in Slots,
         TokenClose(g, s) \/ FileClose(g, s) \/ KeyClose(g, s)
  PROVE  IInv'
  <1> USE DEF IInv
  <1>1. PICK k \in {"token", "file", "key"} : CloseHandle(g, s, k)
    BY DEF TokenClose, FileClose, KeyClose
  <1>2. hnd[g][s].base = NoMap BY <1>1 DEF CloseHandle, CallInv, CallOf
  <1>3. /\ HeldIsOwn' /\ NoLeak'
        /\ table' \in [Fds -> Kinds \cup {"free"}] /\ hnd' \in [Goroutines -> [Slots -> HandleSet]]
    BY <1>1, <1>2, Dropped DEF CloseHandle
  <1>4. TypeOK' BY <1>1, <1>3 DEF CloseHandle, TypeOK, HandleSet
  <1>5. CallInv' BY <1>1, IdleCalls DEF CloseHandle, Closed
  <1>6. QED BY <1>3, <1>4, <1>5

\* A closed handle is dropped.
LEMMA ForgetStep ==
  ASSUME IInv, NEW g \in Goroutines, NEW s \in Slots, Forget(g, s)
  PROVE  IInv'
  <1> USE DEF IInv
  <1>1. Put(g, s, None) /\ hnd[g][s] = Closed /\ UNCHANGED <<table, mapped, fd, base>> BY DEF Forget
  <1>2. s \in Places /\ s # NoSlot BY NoSlotNotSlot DEF Places
  <1>3. FdAt(g, s) = NoFd /\ BaseAt(g, s) = NoMap BY <1>1, <1>2 DEF FdAt, BaseAt, Closed
  <1>4. OtherFds(g, s) /\ OtherBases(g, s) /\ FdAt(g, s)' = NoFd /\ BaseAt(g, s)' = NoMap
    BY <1>1, PutOthers DEF None
  <1>5. \A h \in Goroutines, j \in Places :
          /\ FdAt(h, j)' = FdAt(h, j) /\ BaseAt(h, j)' = BaseAt(h, j)
          /\ FdAt(h, j) # NoFd => KindAt(h, j)' = KindAt(h, j)
    BY <1>3, <1>4 DEF OtherFds, OtherBases
  <1>6. FdInv' BY <1>1, <1>5, KeepFds, Apart
  <1>7. BaseInv' BY <1>1, <1>5, KeepBases, Apart
  <1>8. hnd' \in [Goroutines -> [Slots -> HandleSet]] BY <1>1, PutType DEF HandleSet
  <1>9. TypeOK' BY <1>8 DEF Forget, TypeOK, HandleSet
  <1>10. CallInv' BY <1>1, IdleCalls DEF Forget, None
  <1>11. QED BY <1>6, <1>7, <1>9, <1>10, Together

-----------------------------------------------------------------------------
(* Rings.                                                                  *)

\* AttachAll's local variables change: every handle object's view stays.
LEMMA LocalOthers ==
  ASSUME TypeOK, NEW g \in Goroutines, hnd' = hnd
  PROVE  /\ NoSlot \in Places
         /\ FdAt(g, NoSlot) = fd[g] /\ KindAt(g, NoSlot) = "ring" /\ BaseAt(g, NoSlot) = base[g]
         /\ FdAt(g, NoSlot)' = fd'[g] /\ KindAt(g, NoSlot)' = "ring" /\ BaseAt(g, NoSlot)' = base'[g]
         /\ \A x : fd' = [fd EXCEPT ![g] = x] => OtherFds(g, NoSlot)
         /\ \A x : base' = [base EXCEPT ![g] = x] => OtherBases(g, NoSlot)
         /\ fd' = fd => \A h \in Goroutines, j \in Places :
                          FdAt(h, j)' = FdAt(h, j) /\ KindAt(h, j)' = KindAt(h, j)
         /\ base' = base => \A h \in Goroutines, j \in Places : BaseAt(h, j)' = BaseAt(h, j)
  <1>1. ASSUME NEW x, fd' = [fd EXCEPT ![g] = x] PROVE OtherFds(g, NoSlot)
    BY <1>1 DEF TypeOK, OtherFds, FdAt, KindAt
  <1>2. ASSUME NEW x, base' = [base EXCEPT ![g] = x] PROVE OtherBases(g, NoSlot)
    BY <1>2 DEF TypeOK, OtherBases, BaseAt
  <1>3. QED BY <1>1, <1>2 DEF FdAt, KindAt, BaseAt, Places

\* attach: the local variable takes a free descriptor.
LEMMA AttachGotStep ==
  ASSUME IInv, NEW g \in Goroutines, AttachGot(g)
  PROVE  IInv'
  <1> USE DEF IInv
  <1>1. PICK f \in Fds : Alloc("ring", f) /\ fd' = [fd EXCEPT ![g] = f] BY DEF AttachGot
  <1>2. /\ pc[g] = "attach" /\ pc' = [pc EXCEPT ![g] = "map"]
        /\ UNCHANGED <<mapped, signals, hnd, rings, base, cur>>
    BY DEF AttachGot, Goto
  <1>3. fd[g] = NoFd /\ fd'[g] = f BY <1>1, <1>2 DEF CallInv, CallOf, TypeOK
  <1>4. OtherFds(g, NoSlot) BY <1>1, <1>2, LocalOthers
  <1>5. FdInv'
    <2>1. /\ NoSlot \in Places /\ FdAt(g, NoSlot) = NoFd
          /\ FdAt(g, NoSlot)' = f /\ KindAt(g, NoSlot)' = "ring"
      BY <1>2, <1>3, LocalOthers
    <2>2. table[f] = "free" /\ table' = [table EXCEPT ![f] = "ring"] BY <1>1 DEF Alloc
    <2>3. "ring" \in Kinds BY DEF Kinds
    <2>4. FdInv BY Apart
    <2>5. QED BY <1>4, <2>1, <2>2, <2>3, <2>4, TakeFd
  <1>6. BaseInv' BY <1>2, LocalOthers, KeepBases, Apart
  <1>7. table' \in [Fds -> Kinds \cup {"free"}] BY <1>1 DEF Alloc, TypeOK, Kinds
  <1>8. TypeOK' BY <1>1, <1>2, <1>7 DEF TypeOK
  <1>9. CallInv' BY <1>1, <1>2, NoFdNotFd DEF TypeOK, CallInv, CallOf
  <1>10. QED BY <1>5, <1>6, <1>8, <1>9, Together

\* mapRing: the local variable takes a new mapping.
LEMMA MapGotStep ==
  ASSUME IInv, NEW g \in Goroutines, MapGot(g)
  PROVE  IInv'
  <1> USE DEF IInv
  <1>1. PICK m \in Maps \ mapped : mapped' = mapped \cup {m} /\ base' = [base EXCEPT ![g] = m]
    BY DEF MapGot
  <1>2. /\ pc[g] = "map" /\ pc' = [pc EXCEPT ![g] = "check"]
        /\ UNCHANGED <<table, signals, hnd, rings, fd, cur>>
    BY DEF MapGot, Goto
  <1>3. base[g] = NoMap /\ base'[g] = m BY <1>1, <1>2 DEF CallInv, CallOf, TypeOK
  <1>4. OtherBases(g, NoSlot) BY <1>1, <1>2, LocalOthers
  <1>5. BaseInv' BY <1>1, <1>2, <1>3, <1>4, LocalOthers, TakeBase, Apart
  <1>6. FdInv' BY <1>2, LocalOthers, KeepFds, Apart
  <1>7. TypeOK' BY <1>1, <1>2 DEF TypeOK
  <1>8. CallInv' BY <1>1, <1>2 DEF TypeOK, CallInv, CallOf
  <1>9. QED BY <1>5, <1>6, <1>7, <1>8, Together

\* The Ring object takes both from the local variables.
LEMMA CheckGoodStep ==
  ASSUME IInv, NEW g \in Goroutines, NEW s \in Slots, CheckGood(g, s)
  PROVE  IInv'
  <1> USE DEF IInv
  <1>1. /\ pc[g] = "check" /\ hnd[g][s] = None /\ Put(g, s, Handle("ring", fd[g], base[g]))
        /\ rings' = [rings EXCEPT ![g] = Append(rings[g], s)]
        /\ fd' = [fd EXCEPT ![g] = NoFd] /\ base' = [base EXCEPT ![g] = NoMap]
        /\ pc' = [pc EXCEPT ![g] = "attach"] /\ UNCHANGED <<table, mapped, signals, cur>>
    BY DEF CheckGood, NewSlot, Goto
  <1>2. s # NoSlot /\ s \in Places BY NoSlotNotSlot DEF Places
  <1>3. FdAt(g, s) = NoFd /\ BaseAt(g, s) = NoMap BY <1>1, <1>2 DEF FdAt, BaseAt, None
  <1>4. fd'[g] = NoFd /\ base'[g] = NoMap BY <1>1 DEF TypeOK
  <1>5. FdAt(g, NoSlot)' = NoFd /\ BaseAt(g, NoSlot)' = NoMap BY <1>4 DEF FdAt, BaseAt
  <1>6. FdAt(g, NoSlot) = fd[g] /\ BaseAt(g, NoSlot) = base[g] BY DEF FdAt, BaseAt
  <1>7. FdAt(g, s)' = fd[g] /\ KindAt(g, s)' = "ring" /\ BaseAt(g, s)' = base[g]
    BY <1>1, PutOthers DEF Handle
  <1>8. hnd'[g][s] = Handle("ring", fd[g], base[g])
          /\ \A h \in Goroutines, t \in Slots : h # g \/ t # s => hnd'[h][t] = hnd[h][t]
    BY <1>1, PutAt
  <1>9. \A h \in Goroutines : h # g => fd'[h] = fd[h] /\ base'[h] = base[h] BY <1>1 DEF TypeOK
  <1>10. ASSUME NEW h \in Goroutines, NEW j \in Places, h # g \/ j \notin {s, NoSlot}
         PROVE  /\ FdAt(h, j)' = FdAt(h, j) /\ KindAt(h, j)' = KindAt(h, j)
                /\ BaseAt(h, j)' = BaseAt(h, j)
    BY <1>2, <1>8, <1>9, <1>10 DEF FdAt, KindAt, BaseAt, Places
  <1>11. FdInv' BY <1>1, <1>3, <1>5, <1>6, <1>7, <1>10, MoveFd, Apart
  <1>12. BaseInv' BY <1>1, <1>3, <1>5, <1>6, <1>7, <1>10, MoveBase, Apart DEF TypeOK
  <1>13. fd[g] \in Fds BY <1>1 DEF CallInv, CallOf, TypeOK
  <1>14. Handle("ring", fd[g], base[g]) \in HandleSet
    BY <1>13 DEF Handle, HandleSet, TypeOK, Kinds
  <1>15. hnd' \in [Goroutines -> [Slots -> HandleSet]] BY <1>1, <1>14, PutType
  <1>16. rings' \in [Goroutines -> Seq(Slots)] BY <1>1 DEF TypeOK
  <1>17. TypeOK' BY <1>1, <1>15, <1>16 DEF TypeOK, HandleSet
  <1>18. ASSUME NEW h \in Goroutines PROVE CallOf(h)'
    <2>1. CASE h = g
      <3>1. pc'[g] = "attach" BY <1>1 DEF TypeOK
      <3>2. \A t \in Slots : hnd'[g][t].kind # "ring" => hnd'[g][t].base = NoMap
        BY <1>8 DEF CallInv, CallOf, Handle
      <3>3. QED BY <1>4, <2>1, <3>1, <3>2 DEF CallOf
    <2>2. CASE h # g
      <3>1. pc'[h] = pc[h] /\ cur'[h] = cur[h] BY <1>1, <2>2 DEF TypeOK
      <3>2. \A t \in Slots : hnd'[h][t] = hnd[h][t] BY <1>8, <2>2
      <3>3. CallOf(h) BY DEF CallInv
      <3>4. QED BY <1>9, <2>2, <3>1, <3>2, <3>3 DEF CallOf
    <2>3. QED BY <2>1, <2>2
  <1>19. CallInv' BY <1>18 DEF CallInv
  <1>20. QED BY <1>11, <1>12, <1>17, <1>19, Together

\* mapRing gives the mapping of a bad ring back.
LEMMA UnmapBadStep ==
  ASSUME IInv, NEW g \in Goroutines, UnmapBad(g)
  PROVE  IInv'
  <1> USE DEF IInv
  <1>1. /\ pc[g] = "unmap" /\ Munmap(base[g]) /\ base' = [base EXCEPT ![g] = NoMap]
        /\ pc' = [pc EXCEPT ![g] = "closefd"] /\ UNCHANGED <<table, signals, hnd, rings, fd, cur>>
    BY DEF UnmapBad, Goto
  <1>2. base'[g] = NoMap BY <1>1 DEF TypeOK
  <1>3. OtherBases(g, NoSlot) BY <1>1, LocalOthers
  <1>4. BaseInv' BY <1>1, <1>2, <1>3, LocalOthers, GiveBase, Apart
  <1>5. FdInv' BY <1>1, LocalOthers, KeepFds, Apart
  <1>6. TypeOK' BY <1>1 DEF TypeOK, Munmap
  <1>7. CallInv' BY <1>1 DEF TypeOK, CallInv, CallOf
  <1>8. QED BY <1>4, <1>5, <1>6, <1>7, Together

\* mapRing gives the descriptor of a bad ring back.
LEMMA CloseFdStep ==
  ASSUME IInv, NEW g \in Goroutines, CloseFd(g)
  PROVE  IInv'
  <1> USE DEF IInv
  <1>1. /\ pc[g] = "closefd" /\ Release(fd[g]) /\ fd' = [fd EXCEPT ![g] = NoFd]
        /\ pc' = [pc EXCEPT ![g] = "undo"] /\ UNCHANGED <<mapped, signals, hnd, rings, base, cur>>
    BY DEF CloseFd, Goto
  <1>2. fd'[g] = NoFd BY <1>1 DEF TypeOK
  <1>3. OtherFds(g, NoSlot) BY <1>1, LocalOthers
  <1>4. FdInv' BY <1>1, <1>2, <1>3, LocalOthers, GiveFd, Apart
  <1>5. BaseInv' BY <1>1, LocalOthers, KeepBases, Apart
  <1>6. table' \in [Fds -> Kinds \cup {"free"}] BY <1>1, ReleaseType
  <1>7. TypeOK' BY <1>1, <1>6 DEF TypeOK
  <1>8. CallInv' BY <1>1 DEF TypeOK, CallInv, CallOf
  <1>9. QED BY <1>4, <1>5, <1>7, <1>8, Together

\* Ring.Close: munmap, and the object's base is nil.
LEMMA RingUnmapStep ==
  ASSUME IInv, NEW g \in Goroutines, RingUnmap(g)
  PROVE  IInv'
  <1> USE DEF IInv
  <1>1. PICK s \in Slots : s = cur[g] BY DEF CallInv, CallOf, RingUnmap
  <1>2. /\ pc[g] = "munmap" /\ Munmap(hnd[g][s].base)
        /\ hnd' = [hnd EXCEPT ![g][s].base = NoMap]
        /\ pc' = [pc EXCEPT ![g] = "close"] /\ UNCHANGED <<table, signals, rings, fd, base, cur>>
    BY <1>1 DEF RingUnmap, Goto
  <1>3. hnd \in [Goroutines -> [Slots -> HandleSet]] BY DEF TypeOK, HandleSet
  <1> DEFINE x == [hnd[g][s] EXCEPT !.base = NoMap]
  <1>4. hnd[g][s] \in HandleSet BY <1>3
  <1>5. /\ x \in HandleSet /\ x.base = NoMap
        /\ x.fd = hnd[g][s].fd /\ x.kind = hnd[g][s].kind
    <2>1. CASE hnd[g][s] \in {None, Closed} BY <2>1 DEF HandleSet, None, Closed
    <2>2. CASE hnd[g][s] \in [kind : Kinds, fd : Fds, base : Maps \cup {NoMap}]
      BY <2>2 DEF HandleSet
    <2>3. QED BY <1>4, <2>1, <2>2 DEF HandleSet
  <1>6. Put(g, s, x) BY <1>2 DEF Put
  <1> HIDE DEF x
  <1>7. s # NoSlot /\ s \in Places BY NoSlotNotSlot DEF Places
  <1>8. FdAt(g, s) = hnd[g][s].fd /\ KindAt(g, s) = hnd[g][s].kind /\ BaseAt(g, s) = hnd[g][s].base
    BY <1>7 DEF FdAt, KindAt, BaseAt
  <1>9. /\ OtherFds(g, s) /\ OtherBases(g, s)
        /\ FdAt(g, s)' = FdAt(g, s) /\ KindAt(g, s)' = KindAt(g, s) /\ BaseAt(g, s)' = NoMap
    BY <1>2, <1>5, <1>6, <1>8, PutOthers
  <1>10. \A h \in Goroutines, j \in Places : FdAt(h, j)' = FdAt(h, j) /\ KindAt(h, j)' = KindAt(h, j)
    BY <1>9 DEF OtherFds
  <1>11. FdInv' BY <1>2, <1>10, KeepFds, Apart
  <1>12. BaseInv' BY <1>2, <1>7, <1>8, <1>9, GiveBase, Apart
  <1>13. hnd' \in [Goroutines -> [Slots -> HandleSet]] BY <1>5, <1>6, PutType
  <1>14. mapped' \subseteq Maps BY <1>2 DEF TypeOK, Munmap
  <1>15. TypeOK' BY <1>2, <1>13, <1>14 DEF TypeOK, HandleSet
  <1>16. hnd'[g][s] = x /\ \A h \in Goroutines, t \in Slots : h # g \/ t # s => hnd'[h][t] = hnd[h][t]
    BY <1>6, PutAt
  <1>17. ASSUME NEW h \in Goroutines PROVE CallOf(h)'
    <2>1. CASE h = g
      <3>1. pc'[g] = "close" /\ cur'[g] = s BY <1>1, <1>2 DEF TypeOK
      <3>2. fd'[g] = NoFd /\ base'[g] = NoMap BY <1>2 DEF CallInv, CallOf
      <3>3. \A t \in Slots : hnd'[g][t].kind # "ring" => hnd'[g][t].base = NoMap
        BY <1>5, <1>16 DEF CallInv, CallOf
      <3>4. QED BY <1>5, <1>16, <2>1, <3>1, <3>2, <3>3 DEF CallOf
    <2>2. CASE h # g
      <3>1. pc'[h] = pc[h] /\ cur'[h] = cur[h] BY <1>2, <2>2 DEF TypeOK
      <3>2. \A t \in Slots : hnd'[h][t] = hnd[h][t] BY <1>16, <2>2
      <3>3. CallOf(h) BY DEF CallInv
      <3>4. QED BY <1>2, <3>1, <3>2, <3>3 DEF CallOf
    <2>3. QED BY <2>1, <2>2
  <1>18. CallInv' BY <1>17 DEF CallInv
  <1>19. QED BY <1>11, <1>12, <1>15, <1>18, Together

\* Ring.Close: close, and back to the owner or to AttachAll.
LEMMA RingCloseFdStep ==
  ASSUME IInv, NEW g \in Goroutines, RingCloseFd(g)
  PROVE  IInv'
  <1> USE DEF IInv
  <1>1. PICK s \in Slots : s = cur[g] BY DEF CallInv, CallOf, RingCloseFd
  <1>2. /\ pc[g] = "close" /\ Release(hnd[g][s].fd) /\ UNCHANGED <<mapped, signals, fd, base>>
        /\ cur' = [cur EXCEPT ![g] = NoSlot]
    BY <1>1 DEF RingCloseFd, Leave
  <1>3. PICK x \in {None, Closed}, l \in {"idle", "undo"} :
          Put(g, s, x) /\ pc' = [pc EXCEPT ![g] = l]
    BY <1>1 DEF RingCloseFd, Goto
  <1>4. rings' \in [Goroutines -> Seq(Slots)]
    <2>1. CASE rings[g] = <<>> BY <2>1 DEF RingCloseFd, TypeOK
    <2>2. CASE rings[g] # <<>>
      <3>1. rings[g] \in Seq(Slots) BY DEF TypeOK
      <3>2. Tail(rings[g]) \in Seq(Slots) BY <2>2, <3>1
      <3>3. rings' = [rings EXCEPT ![g] = Tail(rings[g])] BY <2>2 DEF RingCloseFd
      <3>4. QED BY <3>2, <3>3 DEF TypeOK
    <2>3. QED BY <2>1, <2>2
  <1>5. hnd[g][s].base = NoMap BY <1>1, <1>2 DEF CallInv, CallOf
  <1>6. /\ HeldIsOwn' /\ NoLeak'
        /\ table' \in [Fds -> Kinds \cup {"free"}] /\ hnd' \in [Goroutines -> [Slots -> HandleSet]]
    BY <1>2, <1>3, <1>5, Dropped
  <1>7. TypeOK' BY <1>2, <1>3, <1>4, <1>6 DEF TypeOK, HandleSet
  <1>8. hnd'[g][s] = x /\ \A h \in Goroutines, t \in Slots : h # g \/ t # s => hnd'[h][t] = hnd[h][t]
    BY <1>3, PutAt
  <1>9. ASSUME NEW h \in Goroutines PROVE CallOf(h)'
    <2>1. CASE h = g
      <3>1. pc'[g] \in {"idle", "undo"} BY <1>3 DEF TypeOK
      <3>2. fd'[g] = NoFd /\ base'[g] = NoMap BY <1>2 DEF CallInv, CallOf
      <3>3. \A t \in Slots : hnd'[g][t].kind # "ring" => hnd'[g][t].base = NoMap
        BY <1>8 DEF CallInv, CallOf, None, Closed
      <3>4. QED BY <2>1, <3>1, <3>2, <3>3 DEF CallOf
    <2>2. CASE h # g
      <3>1. pc'[h] = pc[h] /\ cur'[h] = cur[h] BY <1>2, <1>3, <2>2 DEF TypeOK
      <3>2. \A t \in Slots : hnd'[h][t] = hnd[h][t] BY <1>8, <2>2
      <3>3. CallOf(h) BY DEF CallInv
      <3>4. QED BY <1>2, <3>1, <3>2, <3>3 DEF CallOf
    <2>3. QED BY <2>1, <2>2
  <1>10. CallInv' BY <1>9 DEF CallInv
  <1>11. QED BY <1>6, <1>7, <1>10

-----------------------------------------------------------------------------
(* The theorems.                                                           *)

\* A process begins with an empty table, no mapping and no handle.
LEMMA InitInv == Init => IInv
  <1> SUFFICES ASSUME Init PROVE IInv OBVIOUS
  <1>1. TypeOK BY DEF Init, TypeOK, Kinds
  <1>2. \A g \in Goroutines, i \in Places : FdAt(g, i) = NoFd /\ BaseAt(g, i) = NoMap
    BY DEF Init, FdAt, BaseAt, None, Places
  <1>3. HeldIsOwn /\ NoLeak BY <1>2 DEF HeldIsOwn, NoLeak, Init
  <1>4. CallInv BY DEF CallInv, CallOf, Init, None
  <1>5. QED BY <1>1, <1>3, <1>4 DEF IInv

\* Every step of every goroutine preserves the invariant.
LEMMA NextInv == IInv /\ [Next]_vars => IInv'
  <1> SUFFICES ASSUME IInv, [Next]_vars PROVE IInv' OBVIOUS
  <1>1. CASE UNCHANGED vars
    <2>1. TypeOK' /\ CallInv' BY <1>1 DEF vars, IInv, TypeOK, CallInv, CallOf
    <2>2. QED BY <1>1, <2>1, Quiet DEF vars, IInv
  <1>2. CASE Next
    <2>1. PICK g \in Goroutines :
            \/ AttachStep(g) \/ AttachAll(g) \/ Retry(g) \/ StatusKnown(g) \/ StatusUnknown(g)
            \/ \E s \in Slots :
                 \/ OpenToken(g, s) \/ (\E t \in Slots : Derive(g, s, t)) \/ TokenClose(g, s)
                 \/ OpenKey(g, s) \/ CreateKey(g, s) \/ KeyClose(g, s)
                 \/ OpenAt(g, s) \/ FileClose(g, s) \/ Forget(g, s) \/ RingClose(g, s)
      BY <1>2 DEF Next
    <2>2. CASE AttachStep(g)
      BY <2>2, QuietStep, AttachGotStep, MapGotStep, CheckGoodStep, UnmapBadStep, CloseFdStep,
         RingUnmapStep, RingCloseFdStep DEF AttachStep
    <2>3. CASE AttachAll(g) \/ Retry(g) \/ StatusKnown(g) BY <2>3, QuietStep
    <2>4. CASE StatusUnknown(g) BY <2>4, StatusStep
    <2>5. ASSUME NEW s \in Slots,
                 \/ OpenToken(g, s) \/ (\E t \in Slots : Derive(g, s, t)) \/ TokenClose(g, s)
                 \/ OpenKey(g, s) \/ CreateKey(g, s) \/ KeyClose(g, s)
                 \/ OpenAt(g, s) \/ FileClose(g, s) \/ Forget(g, s) \/ RingClose(g, s)
          PROVE  IInv'
      BY <2>5, QuietStep, OpenStep, OpenAtStep, CloseStep, ForgetStep
    <2>6. QED BY <2>1, <2>2, <2>3, <2>4, <2>5
  <1>3. QED BY <1>1, <1>2

\* Types, ownership and what a goroutine holds at each point of a call, always.
THEOREM Invariance == Spec => []IInv
  BY InitInv, NextInv, PTL DEF Spec

\* A handle's descriptor is open, of its kind, and no one else's, whatever the
\* goroutines open, close and fail to open: no Close reaches another's number.
THEOREM HandlesAreOwn == Spec => []HeldIsOwn
  <1>1. IInv => HeldIsOwn BY DEF IInv
  <1>2. QED BY <1>1, Invariance, PTL

\* On every error path of AttachAll, mapRing and OpenAt too, what the kernel
\* handed out is held by someone who can give it back.
THEOREM NothingLeaks == Spec => []NoLeak
  <1>1. IInv => NoLeak BY DEF IInv
  <1>2. QED BY <1>1, Invariance, PTL
=============================================================================
