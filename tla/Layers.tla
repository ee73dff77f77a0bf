------------------------------- MODULE Layers -------------------------------
(***************************************************************************)
(* registry/layers (src/registry/layers/layers.go): layer management over  *)
(* the keys below Machine\System\Registry\Layers, by clients that list     *)
(* layers while others create, change and delete them.                     *)
(*                                                                         *)
(* Every kernel call is a step.  Builder.Call is one step: Transaction     *)
(* shows that its Transact happens entirely or not at all, and Create's    *)
(* key and values are all enlisted in it.  The registry is external: the   *)
(* children of a key are enumerated by position in some order, a new key   *)
(* takes any place in it, a handle of a deleted key is dead, and any call  *)
(* of a client may be refused.  Programs that do not use this package may  *)
(* leave a layer without its values, or with malformed ones.               *)
(***************************************************************************)
EXTENDS Naturals, FiniteSets, SequencesExt

CONSTANTS
    Names,       \* layer names other than base
    Precedences, \* as texts, to tell them from "unset" and "bad"; "0" is the role tier
    ByHand,      \* the values other programs leave in a layer's key
    Listers,     \* clients that call List
    Writers,     \* clients that create, change and delete
    MaxOps       \* bound: writes and deletions that take effect

Base == "base"
ASSUME NamesAssumption ==
    /\ Base \notin Names /\ IsFiniteSet(Names)
    /\ "0" \in Precedences /\ Precedences \cap {"unset", "bad"} = {}
ASSUME OpsAssumption   == MaxOps \in Nat

AllLayers == Names \cup {Base}

\* What a key holds of a layer.  unset: no value, or one of another type than
\* Get asks for; bad: bytes that Decode refuses for the type they claim.  Of
\* Owner only that is kept.
Metadata == [prec : Precedences \cup {"unset", "bad"}, en : {"on", "off", "unset", "bad"},
             own : {"ok", "bad"}]
ASSUME ByHandAssumption == ByHand \subseteq Metadata

KeyOf(i, v) == [id |-> i, prec |-> v.prec, en |-> v.en, own |-> v.own]
Unset == [prec |-> "unset", en |-> "unset", own |-> "ok"]
Absent == KeyOf(0, Unset)

VARIABLES
    \* The registry.
    key,      \* each layer's key: its identity (0: no key) and its values
    order,    \* the keys in the order they are enumerated
    ops,      \* writes and deletions so far, also the next identity
    \* Writers.
    wpc,      \* idle, write
    whandle,  \* the key SetPrecedence, SetEnabled or Delete has opened
    \* Listers: List, Subkeys and Get.
    lpc,      \* idle, enum, open, prec, en, owner, done, failed
    index,    \* the next child to enumerate, or to get
    subs,     \* what Subkeys returned so far
    handle,   \* Get's key: a name and an identity
    info,     \* the Info Get is filling in
    out,      \* the Infos List returns, by name
    err,      \* why List failed: none, gone, malformed, refused
    \* History, for the properties: since List began, or since Get opened.
    stayed,   \* layers that existed all along the enumeration
    events,   \* which of created, deleted happened during the enumeration,
              \* and deletedLater for a deletion since List began
    had       \* the values the layer being read has had

kernelVars == <<key, order, ops>>
writerVars == <<wpc, whandle>>
listVars   == <<lpc, index, subs, handle, info, out, err>>
vars == <<kernelVars, writerVars, listVars, stayed, events, had>>

Present(n) == key[n].id # 0
Keys == {Absent} \cup [id : Nat \ {0}, prec : Precedences \cup {"unset", "bad"},
                       en : {"on", "off", "unset", "bad"}, own : {"ok", "bad"}]
KeyHandles == [name : AllLayers, id : Nat]
NoHandle == [name |-> Base, id |-> 0]
Default_Disabled(n) == [name |-> n, prec |-> "0", en |-> "off"]
Default(n) == [name |-> n, prec |-> "0", en |-> "on"]

TypeOK ==
    /\ key \in [AllLayers -> Keys] /\ order \in Seq(AllLayers) /\ ops \in Nat
    /\ wpc \in [Writers -> {"idle", "write"}] /\ whandle \in [Writers -> KeyHandles]
    /\ lpc \in [Listers -> {"idle", "enum", "open", "prec", "en", "owner", "done", "failed"}]
    /\ index \in [Listers -> Nat]
    /\ subs \in [Listers -> Seq(AllLayers)] /\ out \in [Listers -> Seq(AllLayers)]
    /\ handle \in [Listers -> KeyHandles]
    /\ info \in [Listers -> [name : AllLayers, prec : Precedences, en : {"on", "off"}]]
    /\ err \in [Listers -> {"none", "gone", "malformed", "refused"}]
    /\ stayed \in [Listers -> SUBSET AllLayers]
    /\ events \in [Listers -> SUBSET {"created", "deleted", "deletedLater"}]
    /\ had \in [Listers -> SUBSET Keys]

Init ==
    /\ \E there \in SUBSET Names :
         /\ key = [n \in AllLayers |->
                     IF n \in there \cup {Base}
                     THEN [id |-> 1, prec |-> "0", en |-> IF n = Base THEN "on" ELSE "off", own |-> "ok"]
                     ELSE Absent]
         /\ order \in SetToSeqs({n \in AllLayers : n \in there \cup {Base}})
    /\ ops = 1
    /\ wpc = [w \in Writers |-> "idle"] /\ whandle = [w \in Writers |-> NoHandle]
    /\ lpc = [l \in Listers |-> "idle"] /\ index = [l \in Listers |-> 0]
    /\ subs = [l \in Listers |-> <<>>] /\ out = [l \in Listers |-> <<>>]
    /\ handle = [l \in Listers |-> NoHandle] /\ info = [l \in Listers |-> Default(Base)]
    /\ err = [l \in Listers |-> "none"]
    /\ stayed = [l \in Listers |-> {}] /\ events = [l \in Listers |-> {}]
    /\ had = [l \in Listers |-> {}]

-----------------------------------------------------------------------------
(* The registry (external).                                                *)

Live(h) == h.id # 0 /\ key[h.name].id = h.id

\* A key of n with values v takes a place among the children.
PutKey(n, v) ==
    /\ key' = [key EXCEPT ![n] = v]
    /\ IF Present(n) THEN order' = order
       ELSE \E i \in 1 .. Len(order) + 1 : order' = InsertAt(order, i, n)

DropKey(n) ==
    /\ key' = [key EXCEPT ![n] = Absent]
    /\ \E i \in 1 .. Len(order) : order[i] = n /\ order' = RemoveAt(order, i)

\* What the listers' history notes of a change to n.
Note(n) ==
    /\ stayed' = [l \in Listers |-> IF lpc[l] = "enum" /\ key'[n].id = 0
                                     THEN stayed[l] \ {n} ELSE stayed[l]]
    /\ events' = [l \in Listers |-> events[l] \cup
                    (IF lpc[l] = "enum" /\ ~Present(n) THEN {"created"} ELSE {}) \cup
                    (IF lpc[l] = "enum" /\ key'[n].id = 0 THEN {"deleted"} ELSE {}) \cup
                    (IF lpc[l] # "idle" /\ key'[n].id = 0 THEN {"deletedLater"} ELSE {})]
    /\ had' = [l \in Listers |-> IF Live(handle[l]) /\ handle[l].name = n
                                  THEN had[l] \cup {key'[n]} ELSE had[l]]

Commit(n) == ops <= MaxOps /\ ops' = ops + 1 /\ Note(n) /\ UNCHANGED listVars

-----------------------------------------------------------------------------
(* Builder.Call, SetPrecedence, SetEnabled, Delete.                        *)

\* guardReserved: a name that folds to base is refused before the kernel is
\* asked; all such names are Base here.
guardReserved(n) == n # Base

\* The key's identity: the one it has, or a new one.
Identity(n) == IF Present(n) THEN key[n].id ELSE ops + 1

\* Builder.Call: the key, created or opened, and both values, in a transaction.
CreateValues(n, p, e) == KeyOf(Identity(n), [prec |-> p, en |-> e, own |-> key[n].own])

Create(w, n, p, e) ==
    /\ wpc[w] = "idle" /\ guardReserved(n)
    /\ PutKey(n, CreateValues(n, p, e)) /\ Commit(n)
    /\ UNCHANGED writerVars

\* Another program writes below the Layers key (external): Base too, and
\* nothing keeps it from leaving a layer half-formed.
HandWrite(w, n, v) ==
    /\ wpc[w] = "idle" /\ PutKey(n, KeyOf(Identity(n), v)) /\ Commit(n)
    /\ UNCHANGED writerVars

\* SetPrecedence, SetEnabled and Delete open the layer's key and write to it;
\* what they write is chosen when they do.
OpenForWrite(w, n) ==
    /\ wpc[w] = "idle" /\ guardReserved(n) /\ Present(n)
    /\ whandle' = [whandle EXCEPT ![w] = [name |-> n, id |-> key[n].id]]
    /\ wpc' = [wpc EXCEPT ![w] = "write"]
    /\ UNCHANGED <<kernelVars, listVars, stayed, events, had>>

WriteEnds(w) == wpc' = [wpc EXCEPT ![w] = "idle"] /\ whandle' = [whandle EXCEPT ![w] = NoHandle]

Holds(w, n) == wpc[w] = "write" /\ n = whandle[w].name /\ Live(whandle[w])

SetPrecedence(w, n, p) ==
    Holds(w, n) /\ PutKey(n, [key[n] EXCEPT !.prec = p]) /\ Commit(n) /\ WriteEnds(w)

SetEnabled(w, n, e) ==
    Holds(w, n) /\ PutKey(n, [key[n] EXCEPT !.en = e]) /\ Commit(n) /\ WriteEnds(w)

Delete(w, n) == Holds(w, n) /\ DropKey(n) /\ Commit(n) /\ WriteEnds(w)

\* The key is gone, or the kernel refuses (EPERM, EIO).
WriteFails(w) ==
    /\ wpc[w] = "write" /\ WriteEnds(w)
    /\ UNCHANGED <<kernelVars, listVars, stayed, events, had>>

-----------------------------------------------------------------------------
(* List: Subkeys, then Get of every name.                                  *)

Keep(l) == UNCHANGED <<kernelVars, writerVars>> /\ l \in Listers

ListBegin(l) ==
    /\ lpc[l] = "idle" /\ Keep(l)
    /\ lpc' = [lpc EXCEPT ![l] = "enum"]
    /\ stayed' = [stayed EXCEPT ![l] = {n \in AllLayers : Present(n)}]
    /\ UNCHANGED <<index, subs, handle, info, out, err, events, had>>

\* enumSubkeyAt(index): a child, or past the last one.
SubkeyAt(l) ==
    /\ lpc[l] = "enum" /\ index[l] < Len(order) /\ Keep(l)
    /\ subs' = [subs EXCEPT ![l] = Append(@, order[index[l] + 1])]
    /\ index' = [index EXCEPT ![l] = @ + 1]
    /\ UNCHANGED <<lpc, handle, info, out, err, stayed, events, had>>

PastLast_EarlyStop(l) == index[l] + 1 >= Len(order)
PastLast(l) == index[l] >= Len(order)
SubkeysEnd(l) ==
    /\ lpc[l] = "enum" /\ PastLast(l) /\ Keep(l)
    /\ lpc' = [lpc EXCEPT ![l] = "open"] /\ index' = [index EXCEPT ![l] = 1]
    /\ UNCHANGED <<subs, handle, info, out, err, stayed, events, had>>

\* Get: open the key of the next name.
GetOpen(l) == index[l] <= Len(subs[l]) /\ LET n == subs[l][index[l]] IN
    /\ lpc[l] = "open" /\ Present(n) /\ Keep(l)
    /\ handle' = [handle EXCEPT ![l] = [name |-> n, id |-> key[n].id]]
    /\ info' = [info EXCEPT ![l] = Default(n)] /\ had' = [had EXCEPT ![l] = {key[n]}]
    /\ lpc' = [lpc EXCEPT ![l] = "prec"]
    /\ UNCHANGED <<index, subs, out, err, stayed, events>>

\* What ends a List with an error; the Infos it has are dropped with it.
Fail(l, e) ==
    /\ lpc' = [lpc EXCEPT ![l] = "failed"] /\ err' = [err EXCEPT ![l] = e] /\ Keep(l)
    /\ UNCHANGED <<index, subs, handle, info, out, stayed, events, had>>

\* An open of a layer that is gone (ENOENT) fails List as a whole.
GetOpenFails_Skips(l) == index[l] <= Len(subs[l]) /\ LET n == subs[l][index[l]] IN
    /\ lpc[l] = "open" /\ ~Present(n) /\ Keep(l) /\ index' = [index EXCEPT ![l] = @ + 1]
    /\ UNCHANGED <<lpc, subs, handle, info, out, err, stayed, events, had>>
GetOpenFails(l) ==
    /\ lpc[l] = "open" /\ index[l] <= Len(subs[l]) /\ ~Present(subs[l][index[l]])
    /\ Fail(l, "gone")

\* TryQueryValue through Get's handle.  ENOENT leaves the default, of an absent
\* value or of a key deleted since; so does a value of another type.
Found(l) == IF Live(handle[l]) THEN key[handle[l].name] ELSE Absent

ReadPrecedence(l) ==
    /\ lpc[l] = "prec" /\ Found(l).prec # "bad" /\ Keep(l) /\ lpc' = [lpc EXCEPT ![l] = "en"]
    /\ info' = IF Found(l).prec # "unset" THEN [info EXCEPT ![l].prec = Found(l).prec] ELSE info
    /\ UNCHANGED <<index, subs, handle, out, err, stayed, events, had>>

ReadEnabled(l) ==
    /\ lpc[l] = "en" /\ Found(l).en # "bad" /\ Keep(l) /\ lpc' = [lpc EXCEPT ![l] = "owner"]
    /\ info' = IF Found(l).en # "unset" THEN [info EXCEPT ![l].en = Found(l).en] ELSE info
    /\ UNCHANGED <<index, subs, handle, out, err, stayed, events, had>>

\* The owner, which is kept if it is a SID, and Get returns its Info to List.
ReadOwner(l) ==
    /\ lpc[l] = "owner" /\ Found(l).own # "bad" /\ Keep(l)
    /\ out' = [out EXCEPT ![l] = Append(@, info[l].name)] /\ index' = [index EXCEPT ![l] = @ + 1]
    /\ lpc' = [lpc EXCEPT ![l] = "open"] /\ handle' = [handle EXCEPT ![l] = NoHandle]
    /\ info' = [info EXCEPT ![l] = Default(Base)] /\ had' = [had EXCEPT ![l] = {}]
    /\ UNCHANGED <<subs, err, stayed, events>>

\* A value that Decode refuses is an error of TryQueryValue, and of Get.
ReadMalformed(l) ==
    /\ \/ lpc[l] = "prec" /\ Found(l).prec = "bad"
       \/ lpc[l] = "en" /\ Found(l).en = "bad"
       \/ lpc[l] = "owner" /\ Found(l).own = "bad"
    /\ Fail(l, "malformed")

\* Any call may fail for reasons of the kernel's own (EACCES, EIO, or ERANGE
\* throughout): the open of the Layers key, an enumeration, an open, a read.
CallRefused(l) ==
    /\ \/ lpc[l] \in {"idle", "enum", "prec", "en", "owner"}
       \/ lpc[l] = "open" /\ index[l] <= Len(subs[l])
    /\ Fail(l, "refused")

ListEnd(l) ==
    /\ lpc[l] = "open" /\ index[l] > Len(subs[l]) /\ Keep(l)
    /\ lpc' = [lpc EXCEPT ![l] = "done"]
    /\ UNCHANGED <<index, subs, handle, info, out, err, stayed, events, had>>

-----------------------------------------------------------------------------
ListStep(l) ==
    \/ ListBegin(l) \/ SubkeyAt(l) \/ SubkeysEnd(l) \/ GetOpen(l) \/ GetOpenFails(l)
    \/ ReadPrecedence(l) \/ ReadEnabled(l) \/ ReadOwner(l) \/ ReadMalformed(l)
    \/ CallRefused(l) \/ ListEnd(l)

WriteStep(w) ==
    \/ WriteFails(w)
    \/ \E n \in AllLayers :
          \/ \E p \in Precedences, e \in {"on", "off"} : Create(w, n, p, e)
          \/ \E v \in ByHand : HandWrite(w, n, v)
          \/ OpenForWrite(w, n) \/ Delete(w, n)
          \/ \E p \in Precedences : SetPrecedence(w, n, p)
          \/ \E e \in {"on", "off"} : SetEnabled(w, n, e)

Next == (\E l \in Listers : ListStep(l)) \/ (\E w \in Writers : WriteStep(w))

Spec == Init /\ [][Next]_vars

-----------------------------------------------------------------------------
(* Properties.                                                             *)

Listed(l) == ToSet(subs[l])
Enumerated(l) == lpc[l] \in {"open", "prec", "en", "owner", "done"}

\* Subkeys misses a layer that was there all along only if another one was
\* deleted during the enumeration, and names one twice only if one was created.
EnumerationExact == \A l \in Listers : Enumerated(l) =>
    /\ "deleted" \notin events[l] => stayed[l] \subseteq Listed(l)
    /\ "created" \notin events[l] =>
         \A i, j \in 1 .. Len(subs[l]) : subs[l][i] = subs[l][j] => i = j

\* What Get makes of a value, given the default for one that is not there.
Means(value, default) == IF value = "unset" THEN default ELSE value

\* Each field of an Info is what its layer said at some moment since Get opened
\* its key: a value it had, the default if it had none or the layer was deleted
\* then; never a value of a layer created under that name since.  The fields may
\* be of different moments: the Info is no snapshot (layers.go:30) of a layer
\* that others change.
FieldsCurrent == \A l \in Listers : lpc[l] = "owner" =>
    /\ \E v \in had[l] : info[l].prec = Means(v.prec, "0")
    /\ \E v \in had[l] : info[l].en = Means(v.en, "on")

Malformed(v) == v.prec = "bad" \/ v.en = "bad" \/ v.own = "bad"

\* List fails as a whole for one layer.  If for one that does not exist, layers
\* were deleted after List began; if for a value that cannot be decoded, the
\* layer it was reading had one; otherwise a call was refused.  A List that
\* succeeds has one Info for every name Subkeys returned.
ListFailsForCause == \A l \in Listers :
    /\ lpc[l] = "failed" /\ err[l] = "gone" => "deletedLater" \in events[l]
    /\ lpc[l] = "failed" /\ err[l] = "malformed" => \E v \in had[l] : Malformed(v)
    /\ lpc[l] = "failed" => err[l] # "none"
    /\ lpc[l] = "done" => out[l] = subs[l]

-----------------------------------------------------------------------------
(* The inductive invariant.                                                *)

\* The children of the Layers key are the keys that exist, each once; the next
\* identity is none of theirs.
OrderInv ==
    /\ \A n \in AllLayers : key[n].id <= ops
    /\ \A i, j \in 1 .. Len(order) : order[i] = order[j] => i = j
    /\ \A n \in AllLayers : Present(n) <=> \E i \in 1 .. Len(order) : order[i] = n

\* An enumeration in progress.  Creations only move children up, so that one
\* below the index has been seen; deletions only move them down, so that one at
\* the index or above has not.
EnumInv(l) == lpc[l] = "enum" =>
    /\ \A n \in stayed[l] : Present(n)
    /\ "deleted" \notin events[l] =>
         \A i \in 1 .. Len(order) : order[i] \in stayed[l] /\ i <= index[l] => order[i] \in Listed(l)
    /\ "created" \notin events[l] =>
         /\ \A i \in 1 .. Len(order) : order[i] \in Listed(l) => i <= index[l]
         /\ \A i, j \in 1 .. Len(subs[l]) : subs[l][i] = subs[l][j] => i = j

\* A List in progress has the Infos of the names before its index, and a name
\* whose layer is gone since has been deleted since.
ListInv(l) ==
    /\ lpc[l] = "idle" => index[l] = 0 /\ subs[l] = <<>> /\ events[l] = {}
    /\ lpc[l] \in {"idle", "enum"} => out[l] = <<>>
    /\ lpc[l] \in {"open", "prec", "en", "owner"} =>
         /\ index[l] \in 1 .. Len(subs[l]) + 1 /\ Len(out[l]) = index[l] - 1
         /\ \A i \in 1 .. index[l] - 1 : out[l][i] = subs[l][i]
    /\ lpc[l] \in {"prec", "en", "owner"} =>
         index[l] <= Len(subs[l]) /\ info[l].name = subs[l][index[l]] /\ handle[l].id # 0
    /\ lpc[l] \in {"idle", "enum", "open"} => handle[l].id = 0
    /\ "deletedLater" \notin events[l] => \A n \in Listed(l) : Present(n)

\* A handle of Get reads what is in had, or its key was deleted since; and so
\* do the fields it has read.  One it has not read yet has its default.
GetInv(l) ==
    /\ handle[l].id <= ops
    /\ handle[l].id # 0 => Found(l) \in had[l]
    /\ lpc[l] = "prec" => info[l].prec = "0"
    /\ lpc[l] \in {"prec", "en"} => info[l].en = "on"
    /\ lpc[l] \in {"en", "owner"} => \E v \in had[l] : info[l].prec = Means(v.prec, "0")
    /\ lpc[l] = "owner" => \E v \in had[l] : info[l].en = Means(v.en, "on")

IInv ==
    /\ TypeOK /\ OrderInv
    /\ \A l \in Listers : EnumInv(l) /\ ListInv(l) /\ GetInv(l)
    /\ EnumerationExact /\ ListFailsForCause
=============================================================================
