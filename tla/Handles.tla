------------------------------ MODULE Handles ------------------------------
(***************************************************************************)
(* The handles of the library: rings (src/event/ring.go), tokens           *)
(* (src/token), files (src/files/files.go) and registry keys               *)
(* (src/registry/registry.go).  Each wraps a descriptor that it must give  *)
(* back, on every path and only once: the kernel hands a number that was   *)
(* given back to the next open, of any goroutine.                          *)
(*                                                                         *)
(* Every system call is a step.  A Go object is a slot of its goroutine;   *)
(* nothing finalises an object, so that one dropped while it still holds   *)
(* a descriptor or a mapping leaks it.  An open that the kernel refuses,   *)
(* and a method of a closed handle (EBADF), change nothing and are left to *)
(* stuttering.  Goroutines do not share handles, as ring.go:58 asks.       *)
(***************************************************************************)
EXTENDS Integers, Sequences, FiniteSets

CONSTANTS
    Goroutines,
    NSlots,     \* per goroutine, the handle objects it can have
    NFds,       \* size of the descriptor table
    NMaps,      \* how many mappings the address space has room for
    NCpus,      \* CPUs, hence rings
    MaxSignals  \* bound: system calls interrupted

ASSUME TableAssumption == NFds \in Nat /\ NMaps \in Nat
ASSUME CpuAssumption   == NSlots \in Nat /\ NCpus \in Nat /\ MaxSignals \in Nat

Kinds == {"ring", "token", "file", "key"}
Fds   == 0 .. NFds - 1
Maps  == 1 .. NMaps
NoFd  == -1
NoMap == 0
Slots == 1 .. NSlots
NoSlot == 0

\* A slot without object, and an object that was closed: its descriptor is -1,
\* a ring's base nil.
None   == [kind |-> "none", fd |-> NoFd, base |-> NoMap]
Closed == [kind |-> "closed", fd |-> NoFd, base |-> NoMap]
Handle(k, fd, b) == [kind |-> k, fd |-> fd, base |-> b]

VARIABLES
    \* The kernel's, per process.
    table,    \* what each descriptor refers to, or "free"
    mapped,   \* the mappings that exist
    signals,  \* interruptions still to come
    \* The goroutines.
    pc,       \* where each is in a call of the library
    hnd,      \* its handle objects
    rings,    \* AttachAll's slice, of slots
    fd,       \* the descriptor AttachAll got and no object holds yet
    base,     \* the mapping mapRing got and no object holds yet
    cur       \* the handle that Close or OpenAt is working on

kernelVars == <<table, mapped, signals>>
vars == <<table, mapped, signals, pc, hnd, rings, fd, base, cur>>

TypeOK ==
    /\ table \in [Fds -> Kinds \cup {"free"}]
    /\ mapped \subseteq Maps
    /\ signals \in 0 .. MaxSignals
    /\ pc \in [Goroutines -> {"idle", "attach", "map", "check", "unmap", "closefd", "undo",
                              "munmap", "close", "status"}]
    /\ hnd \in [Goroutines -> [Slots -> {None, Closed}
                                 \cup [kind : Kinds, fd : Fds, base : Maps \cup {NoMap}]]]
    /\ rings \in [Goroutines -> Seq(Slots)]
    /\ fd \in [Goroutines -> Fds \cup {NoFd}]
    /\ base \in [Goroutines -> Maps \cup {NoMap}]
    /\ cur \in [Goroutines -> Slots \cup {NoSlot}]

Init ==
    /\ table = [f \in Fds |-> "free"] /\ mapped = {} /\ signals = MaxSignals
    /\ pc = [g \in Goroutines |-> "idle"]
    /\ hnd = [g \in Goroutines |-> [s \in Slots |-> None]]
    /\ rings = [g \in Goroutines |-> <<>>]
    /\ fd = [g \in Goroutines |-> NoFd] /\ base = [g \in Goroutines |-> NoMap]
    /\ cur = [g \in Goroutines |-> NoSlot]

-----------------------------------------------------------------------------
(* The kernel (external).                                                  *)

\* An open takes the lowest free number.
Alloc(k, f) ==
    /\ f \in Fds /\ table[f] = "free"
    /\ \A e \in Fds : e < f => table[e] # "free"
    /\ table' = [table EXCEPT ![f] = k]

\* close(2): the number is free again, even when an error is returned.  EBADF
\* for -1.
Release(f) == table' = [e \in Fds |-> IF e = f THEN "free" ELSE table[e]]

Munmap(b) == mapped' = mapped \ {b}

-----------------------------------------------------------------------------
(* Opening and closing tokens, files and keys.                             *)

Goto(g, l) == pc' = [pc EXCEPT ![g] = l]
Leave(g) == cur' = [cur EXCEPT ![g] = NoSlot]
\* The slot of a new object; which one does not matter.
NewSlot(g, s) == hnd[g][s] = None /\ \A t \in 1 .. s - 1 : hnd[g][t] # None
Put(g, s, h) == hnd' = [hnd EXCEPT ![g][s] = h]

\* Retry: an interrupted call has done nothing, and is issued again.
Retry(g) ==
    /\ pc[g] = "attach" /\ signals > 0
    /\ signals' = signals - 1
    /\ UNCHANGED <<table, mapped, pc, hnd, rings, fd, base, cur>>

\* A call that returns a descriptor, and the object around it.  Nothing is left
\* behind when the call fails.
NewHandle_IgnoresError(g, s, k) ==
    /\ pc[g] = "idle" /\ NewSlot(g, s)
    /\ Put(g, s, Handle(k, NoFd, NoMap))
    /\ UNCHANGED table
NewHandle(g, s, k) ==
    /\ pc[g] = "idle" /\ NewSlot(g, s)
    /\ \E f \in Fds : Alloc(k, f) /\ Put(g, s, Handle(k, f, NoMap))

\* OpenSelf, OpenProcess, OpenThread, OpenPeer, Create.
OpenToken(g, s) ==
    /\ NewHandle(g, s, "token")
    /\ UNCHANGED <<mapped, signals, pc, rings, fd, base, cur>>

\* Duplicate, Restrict, LinkedToken: a second token from the token in s.
Derive(g, s, t) ==
    /\ hnd[g][s].kind = "token" /\ NewHandle(g, t, "token")
    /\ UNCHANGED <<mapped, signals, pc, rings, fd, base, cur>>

\* registry.Open; Key.OpenSubkey with an open key.
OpenKey(g, s) ==
    /\ NewHandle(g, s, "key")
    /\ UNCHANGED <<mapped, signals, pc, rings, fd, base, cur>>

\* CreateOptions.Call, from Create or Key.CreateSubkey.
CreateKey(g, s) ==
    /\ NewHandle(g, s, "key")
    /\ UNCHANGED <<mapped, signals, pc, rings, fd, base, cur>>

\* OpenAt: the kernel has opened the file and written a status...
OpenAt(g, s) ==
    /\ NewHandle(g, s, "file")
    /\ cur' = [cur EXCEPT ![g] = s] /\ Goto(g, "status")
    /\ UNCHANGED <<mapped, signals, rings, fd, base>>

\* ... that is one of the four known, or else the handle is closed and dropped.
StatusKnown(g) ==
    /\ pc[g] = "status" /\ Goto(g, "idle") /\ Leave(g)
    /\ UNCHANGED <<table, mapped, signals, hnd, rings, fd, base>>
StatusUnknown(g) ==
    /\ pc[g] = "status" /\ Goto(g, "idle") /\ Leave(g)
    /\ Release(hnd[g][cur[g]].fd) /\ Put(g, cur[g], None)
    /\ UNCHANGED <<mapped, signals, rings, fd, base>>

\* Close: at most once to the kernel, since the field is -1 afterwards, whatever
\* close returned.
CloseHandle_KeepsNumber(g, s, k) ==
    /\ pc[g] = "idle" /\ hnd[g][s].kind = k
    /\ Release(hnd[g][s].fd)
    /\ UNCHANGED <<mapped, signals, pc, hnd, rings, fd, base, cur>>
CloseHandle(g, s, k) ==
    /\ pc[g] = "idle" /\ hnd[g][s].kind = k
    /\ Release(hnd[g][s].fd) /\ Put(g, s, Closed)
    /\ UNCHANGED <<mapped, signals, pc, rings, fd, base, cur>>

TokenClose(g, s) == CloseHandle(g, s, "token")
FileClose(g, s)  == CloseHandle(g, s, "file")
KeyClose(g, s)   == CloseHandle(g, s, "key")

\* A closed handle is forgotten by its owner.
Forget(g, s) ==
    /\ pc[g] = "idle" /\ hnd[g][s] = Closed /\ Put(g, s, None)
    /\ UNCHANGED <<table, mapped, signals, pc, rings, fd, base, cur>>

-----------------------------------------------------------------------------
(* AttachAll, attach and mapRing.                                          *)

AttachAll(g) ==
    /\ pc[g] = "idle" /\ Cardinality({s \in Slots : hnd[g][s] = None}) >= NCpus
    /\ Goto(g, "attach") /\ rings' = [rings EXCEPT ![g] = <<>>]
    /\ UNCHANGED <<table, mapped, signals, hnd, fd, base, cur>>

\* attach(cpuID): a descriptor for the next CPU.
AttachGot(g) ==
    /\ pc[g] = "attach" /\ Len(rings[g]) < NCpus
    /\ \E f \in Fds : Alloc("ring", f) /\ fd' = [fd EXCEPT ![g] = f]
    /\ Goto(g, "map")
    /\ UNCHANGED <<mapped, signals, hnd, rings, base, cur>>

\* EINVAL: there is no such CPU, and the rings are returned (none is an error).
AttachEnd(g) ==
    /\ pc[g] = "attach" /\ Len(rings[g]) = NCpus
    /\ Goto(g, "idle") /\ rings' = [rings EXCEPT ![g] = <<>>]
    /\ UNCHANGED <<table, mapped, signals, hnd, fd, base, cur>>

\* Any other error: a full table, a missing privilege.
AttachFails_Returns(g) ==
    /\ pc[g] = "attach" /\ Len(rings[g]) < NCpus
    /\ Goto(g, "idle") /\ rings' = [rings EXCEPT ![g] = <<>>]
    /\ hnd' = [hnd EXCEPT ![g] = [s \in Slots |-> IF \E i \in 1 .. Len(rings[g]) : rings[g][i] = s
                                                  THEN None ELSE hnd[g][s]]]
    /\ UNCHANGED <<table, mapped, signals, fd, base, cur>>
AttachFails_Stuck(g) ==
    /\ pc[g] = "attach" /\ Len(rings[g]) < NCpus
    /\ UNCHANGED vars
AttachFails(g) ==
    /\ pc[g] = "attach" /\ Len(rings[g]) < NCpus
    /\ Goto(g, "undo")
    /\ UNCHANGED <<table, mapped, signals, hnd, rings, fd, base, cur>>

\* mapRing: mmap.
MapGot(g) ==
    /\ pc[g] = "map"
    /\ \E b \in Maps \ mapped :
         /\ \A c \in Maps \ mapped : b <= c
         /\ mapped' = mapped \cup {b} /\ base' = [base EXCEPT ![g] = b]
    /\ Goto(g, "check")
    /\ UNCHANGED <<table, signals, hnd, rings, fd, cur>>
MapFails(g) ==
    /\ pc[g] = "map" /\ Goto(g, "closefd")
    /\ UNCHANGED <<table, mapped, signals, hnd, rings, fd, base, cur>>

\* The magic and the version are right, and the Ring object takes the
\* descriptor and the mapping; AttachAll appends it.
CheckGood(g, s) ==
    /\ pc[g] = "check" /\ NewSlot(g, s)
    /\ Put(g, s, Handle("ring", fd[g], base[g]))
    /\ rings' = [rings EXCEPT ![g] = Append(@, s)]
    /\ fd' = [fd EXCEPT ![g] = NoFd] /\ base' = [base EXCEPT ![g] = NoMap]
    /\ Goto(g, "attach")
    /\ UNCHANGED <<table, mapped, signals, cur>>
CheckBad(g) ==
    /\ pc[g] = "check" /\ Goto(g, "unmap")
    /\ UNCHANGED <<table, mapped, signals, hnd, rings, fd, base, cur>>
UnmapBad(g) ==
    /\ pc[g] = "unmap" /\ Munmap(base[g]) /\ base' = [base EXCEPT ![g] = NoMap]
    /\ Goto(g, "closefd")
    /\ UNCHANGED <<table, signals, hnd, rings, fd, cur>>

\* mapRing closes the descriptor it was given, and AttachAll the rings before it.
CloseFd(g) ==
    /\ pc[g] = "closefd" /\ Release(fd[g]) /\ fd' = [fd EXCEPT ![g] = NoFd]
    /\ Goto(g, "undo")
    /\ UNCHANGED <<mapped, signals, hnd, rings, base, cur>>

\* for _, r := range rings { r.Close() }, then the error is returned.
UndoNext(g) ==
    /\ pc[g] = "undo" /\ rings[g] # <<>>
    /\ cur' = [cur EXCEPT ![g] = Head(rings[g])] /\ Goto(g, "munmap")
    /\ UNCHANGED <<table, mapped, signals, hnd, rings, fd, base>>
UndoDone(g) ==
    /\ pc[g] = "undo" /\ rings[g] = <<>> /\ Goto(g, "idle")
    /\ UNCHANGED <<table, mapped, signals, hnd, rings, fd, base, cur>>

\* Ring.Close, by the owner: base is nil once it has been closed.
RingClose(g, s) ==
    /\ pc[g] = "idle" /\ hnd[g][s].kind = "ring" /\ hnd[g][s].base # NoMap
    /\ cur' = [cur EXCEPT ![g] = s] /\ Goto(g, "munmap")
    /\ UNCHANGED <<table, mapped, signals, hnd, rings, fd, base>>
RingUnmap(g) ==
    /\ pc[g] = "munmap" /\ Munmap(hnd[g][cur[g]].base)
    /\ hnd' = [hnd EXCEPT ![g][cur[g]].base = NoMap]
    /\ Goto(g, "close")
    /\ UNCHANGED <<table, signals, rings, fd, base, cur>>

\* The descriptor, and back: to the owner, or to AttachAll's next ring, which
\* drops the object.
RingCloseFd(g) ==
    /\ pc[g] = "close" /\ Release(hnd[g][cur[g]].fd)
    /\ IF rings[g] = <<>>
       THEN /\ Put(g, cur[g], Closed) /\ Goto(g, "idle")
            /\ UNCHANGED rings
       ELSE /\ Put(g, cur[g], None) /\ Goto(g, "undo")
            /\ rings' = [rings EXCEPT ![g] = Tail(@)]
    /\ Leave(g) /\ UNCHANGED <<mapped, signals, fd, base>>

-----------------------------------------------------------------------------

AttachStep(g) ==
    \/ AttachGot(g) \/ AttachEnd(g) \/ AttachFails(g) \/ MapGot(g) \/ MapFails(g)
    \/ (\E s \in Slots : CheckGood(g, s)) \/ CheckBad(g) \/ UnmapBad(g) \/ CloseFd(g)
    \/ UndoNext(g) \/ UndoDone(g) \/ RingUnmap(g) \/ RingCloseFd(g)

Next == \E g \in Goroutines :
    \/ AttachStep(g) \/ AttachAll(g) \/ Retry(g) \/ StatusKnown(g) \/ StatusUnknown(g)
    \/ \E s \in Slots :
         \/ OpenToken(g, s) \/ (\E t \in Slots : Derive(g, s, t)) \/ TokenClose(g, s)
         \/ OpenKey(g, s) \/ CreateKey(g, s) \/ KeyClose(g, s)
         \/ OpenAt(g, s) \/ FileClose(g, s) \/ Forget(g, s) \/ RingClose(g, s)

Spec == Init /\ [][Next]_vars

\* A goroutine inside a call goes on: the scheduler is fair, and signals end.
Fairness == \A g \in Goroutines : WF_vars(AttachStep(g))
FairSpec == Spec /\ Fairness

-----------------------------------------------------------------------------
(* Properties.                                                             *)

\* Where a descriptor or a mapping may be held: in a handle object or, inside
\* AttachAll, in the local variable, which is place NoSlot.
Places == Slots \cup {NoSlot}
FdAt(g, i)   == IF i = NoSlot THEN fd[g] ELSE hnd[g][i].fd
KindAt(g, i) == IF i = NoSlot THEN "ring" ELSE hnd[g][i].kind
BaseAt(g, i) == IF i = NoSlot THEN base[g] ELSE hnd[g][i].base

\* Whatever fails half-way (an attach, a mapping, a ring of another format, a
\* status nobody knows), each descriptor and each mapping that exists is still
\* held by someone who can give it back.
NoLeak ==
    /\ \A f \in Fds : table[f] # "free" => \E g \in Goroutines, i \in Places : FdAt(g, i) = f
    /\ \A b \in mapped : \E g \in Goroutines, i \in Places : BaseAt(g, i) = b

\* A descriptor in a handle is the one the handle opened: it is open, of the
\* handle's kind, and no one else's.  Close being called twice, or an error path
\* closing what was closed, would give it to another.  So for mappings.
HeldIsOwn == \A g, h \in Goroutines, i, j \in Places :
    /\ FdAt(g, i) # NoFd => table[FdAt(g, i)] = KindAt(g, i)
    /\ FdAt(g, i) # NoFd /\ FdAt(g, i) = FdAt(h, j) => g = h /\ i = j
    /\ BaseAt(g, i) # NoMap => BaseAt(g, i) \in mapped
    /\ BaseAt(g, i) # NoMap /\ BaseAt(g, i) = BaseAt(h, j) => g = h /\ i = j

\* What a goroutine has at each point of a call.
CallOf(g) ==
    /\ pc[g] \in {"map", "check", "unmap", "closefd"} <=> fd[g] # NoFd
    /\ pc[g] \in {"check", "unmap"} \/ base[g] = NoMap
    /\ pc[g] \in {"munmap", "close", "status"} => cur[g] \in Slots
    /\ pc[g] = "close" => hnd[g][cur[g]].base = NoMap
    /\ pc[g] = "status" => hnd[g][cur[g]].kind = "file"
    /\ \A s \in Slots : hnd[g][s].kind # "ring" => hnd[g][s].base = NoMap
CallInv == \A g \in Goroutines : CallOf(g)

\* The inductive invariant: every descriptor and mapping has one holder, who
\* knows about it wherever it is in a call.
IInv == TypeOK /\ HeldIsOwn /\ NoLeak /\ CallInv

\* AttachAll returns, with the rings or with an error after closing each.
AttachReturns == \A g \in Goroutines : pc[g] = "attach" ~> pc[g] = "idle"
=============================================================================
