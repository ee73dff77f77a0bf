------------------------------ MODULE ProbeRead ------------------------------
(***************************************************************************)
(* The two-pass reads of libp: ask how large a kernel object is, then      *)
(* fetch it into a buffer of that size, while the object keeps changing.   *)
(*                                                                         *)
(*   Readers   the registry's reads (src/registry/read.go: Info, Security, *)
(*             queryValueIn, valuesIn, enumSubkeyAt), which regrow and     *)
(*             retry, followed by SetValueIf (write.go)                    *)
(*   Probers   token.Query and sd.GetSD: one probe, one fetch              *)
(*   Mounters  files.GetMountPolicy followed by SetMountPolicy             *)
(*                                                                         *)
(* The kernel is external.  Each version of the object has a data part and *)
(* a second variable-length part, the winning layer's name; only their     *)
(* sizes matter.  The version number is the sequence of a value and the    *)
(* generation of a mount policy, without their wrap at 2^64 and 2^32.      *)
(***************************************************************************)
EXTENDS Naturals, Sequences

CONSTANTS
    Readers, Probers, Mounters,
    Contents,         \* the contents the object may take
    Hint,             \* dataCapHint, nameCapHint, sdCapHint
    MaxProbeRetries,  \* maxProbeRetries
    MaxChanges        \* bound: versions of the object

ASSUME ContentsAssumption == Contents \subseteq [data : Nat, layer : Nat]
ASSUME HintAssumption     == Hint \in Nat
ASSUME RetriesAssumption  == MaxProbeRetries \in Nat \ {0}
ASSUME ChangesAssumption  == MaxChanges \in Nat
ASSUME KindsAssumption    == Readers \cap Probers = {} /\ Mounters \cap (Readers \cup Probers) = {}

VARIABLES
    content,   \* the versions of the object, the last one current
    pc,        \* idle, try, fetch, set, done
    tries,     \* Readers: attempts made
    buf,       \* the buffers, by size
    sized,     \* the version the buffers were sized by, 0 for the hint
    start,     \* the version at which the call began
    got,       \* what the read returned: versions of header and data, data's length
    result     \* none, ok, erange (the object outran the read), err, wrote

vars == <<content, pc, tries, buf, sized, start, got, result>>

Callers == Readers \cup Probers \cup Mounters
Ver == Len(content)
Now == content[Ver]
NoBuffer == [data |-> 0, layer |-> 0]
Nothing == [header |-> 0, data |-> 0, len |-> 0]

TypeOK ==
    /\ content \in Seq(Contents) /\ Ver \in 1 .. MaxChanges + 1
    /\ pc \in [Callers -> {"idle", "try", "fetch", "set", "done"}]
    /\ tries \in [Callers -> 0 .. MaxProbeRetries]
    /\ buf \in [Callers -> [data : Nat, layer : Nat]]
    /\ sized \in [Callers -> Nat] /\ start \in [Callers -> Nat]
    /\ got \in [Callers -> [header : Nat, data : Nat, len : Nat]]
    /\ result \in [Callers -> {"none", "ok", "erange", "err", "wrote"}]

Init ==
    /\ \E c \in Contents : content = <<c>>
    /\ pc = [c \in Callers |-> "idle"] /\ tries = [c \in Callers |-> 0]
    /\ buf = [c \in Callers |-> NoBuffer]
    /\ sized = [c \in Callers |-> 0] /\ start = [c \in Callers |-> 0]
    /\ got = [c \in Callers |-> Nothing] /\ result = [c \in Callers |-> "none"]

-----------------------------------------------------------------------------
(* Steps shared by the reads.                                              *)

\* Another process writes the object.
Change == \E c \in Contents :
    /\ Ver <= MaxChanges
    /\ content' = Append(content, c)
    /\ UNCHANGED <<pc, tries, buf, sized, start, got, result>>

Size(c, b, v) == buf' = [buf EXCEPT ![c] = b] /\ sized' = [sized EXCEPT ![c] = v]

\* A read returns g and outcome r; its buffers and counter are gone.
Return(c, g, r, next) ==
    /\ got' = [got EXCEPT ![c] = g] /\ result' = [result EXCEPT ![c] = r]
    /\ pc' = [pc EXCEPT ![c] = next]
    /\ Size(c, NoBuffer, 0) /\ tries' = [tries EXCEPT ![c] = 0]
    /\ UNCHANGED <<content, start>>

\* Any call into the kernel may fail for a reason of its own, and Decode may
\* refuse what was read.
CallFails(c) == pc[c] \in {"try", "fetch", "set"} /\ Return(c, Nothing, "err", "done")

\* What a fetch into the current buffers returns: the object as it is now,
\* cut to the length the kernel reported.
Sliced_WholeBuffer(c) == [header |-> Ver, data |-> Ver, len |-> buf[c].data]
Sliced(c) == [header |-> Ver, data |-> Ver, len |-> Now.data]

-----------------------------------------------------------------------------
(* registry reads: try, and on ERANGE regrow every buffer and try again.   *)

ReadBegin(c) ==
    /\ pc[c] = "idle" /\ pc' = [pc EXCEPT ![c] = "try"]
    /\ start' = [start EXCEPT ![c] = Ver]
    /\ Size(c, [data |-> Hint, layer |-> Hint], 0)
    /\ UNCHANGED <<content, tries, got, result>>

Fits(c) == Now.data <= buf[c].data /\ Now.layer <= buf[c].layer

TriesLeft(c) == tries[c] < MaxProbeRetries

ReadOK(c) ==
    /\ pc[c] = "try" /\ TriesLeft(c) /\ Fits(c)
    /\ Return(c, Sliced(c), "ok", "set")

\* The sizes the buffers are made with after an ERANGE.
Regrown_OneBuffer(c) == [data |-> Now.data, layer |-> buf[c].layer]
Regrown(c) == [data |-> Now.data, layer |-> Now.layer]

ReadRegrow(c) ==
    /\ pc[c] = "try" /\ TriesLeft(c) /\ ~Fits(c)
    /\ tries' = [tries EXCEPT ![c] = @ + 1] /\ Size(c, Regrown(c), Ver)
    /\ UNCHANGED <<content, pc, start, got, result>>

ReadGivesUp(c) ==
    /\ pc[c] = "try" /\ tries[c] = MaxProbeRetries
    /\ Return(c, Nothing, "erange", "done")

-----------------------------------------------------------------------------
(* Query and GetSD: a probe for the size, then one fetch.                  *)

Probe(c) ==
    /\ pc[c] = "idle" /\ start' = [start EXCEPT ![c] = Ver]
    /\ IF Now.data = 0
       THEN /\ got' = [got EXCEPT ![c] = Sliced(c)]
            /\ result' = [result EXCEPT ![c] = "ok"] /\ pc' = [pc EXCEPT ![c] = "done"]
            /\ UNCHANGED <<buf, sized>>
       ELSE /\ Size(c, [data |-> Now.data, layer |-> 0], Ver)
            /\ pc' = [pc EXCEPT ![c] = "fetch"] /\ UNCHANGED <<got, result>>
    /\ UNCHANGED <<content, tries>>

FetchOK(c) ==
    /\ pc[c] = "fetch" /\ Now.data <= buf[c].data
    /\ Return(c, Sliced(c), "ok", "done")

\* The object grew: the kernel refuses, or, as Query and GetSD check, reports
\* more than the buffer holds.
FetchGrew(c) ==
    /\ pc[c] = "fetch" /\ Now.data > buf[c].data
    /\ Return(c, Nothing, "erange", "done")

-----------------------------------------------------------------------------
(* GetMountPolicy, SetMountPolicy, SetValueIf.                             *)

\* Kind and generation are the probe's.
MountProbe(c) ==
    /\ pc[c] = "idle" /\ start' = [start EXCEPT ![c] = Ver]
    /\ got' = [got EXCEPT ![c] = [header |-> Ver, data |-> Ver, len |-> 0]]
    /\ Size(c, [data |-> Now.data, layer |-> 0], Ver)
    /\ IF Now.data = 0
       THEN pc' = [pc EXCEPT ![c] = "set"] /\ result' = [result EXCEPT ![c] = "ok"]
       ELSE pc' = [pc EXCEPT ![c] = "fetch"] /\ UNCHANGED result
    /\ UNCHANGED <<content, tries>>

\* The whole buffer becomes the template, whatever length the fetch reports: a
\* template that shrank is padded, and one that grew is cut short unless the
\* kernel refuses the call, for GetMountPolicy does not look.
MountFetched_LatestGeneration(c) == [header |-> Ver, data |-> Ver, len |-> buf[c].data]
MountFetched(c) == [header |-> got[c].header, data |-> Ver, len |-> buf[c].data]
MountFetchOK(c) ==
    /\ pc[c] = "fetch"
    /\ Return(c, MountFetched(c), "ok", "set")

\* The version a conditional write names, and the kernel's check of it.  The
\* kernel checks the entry of the layer written to, and the sequence read is
\* that of the winning layer's entry: one layer is modelled, where they agree.
Expected_Unconditional(c) == Ver
Expected(c) == got[c].header
Accepted(c) == Expected(c) = Ver

SetOK(c) == \E new \in Contents :
    /\ pc[c] = "set" /\ Accepted(c) /\ Ver <= MaxChanges
    /\ c \in Mounters => new.data = got[c].len
    /\ content' = Append(content, new)
    /\ pc' = [pc EXCEPT ![c] = "done"] /\ result' = [result EXCEPT ![c] = "wrote"]
    /\ UNCHANGED <<tries, buf, sized, start, got>>

SetStale(c) ==
    /\ pc[c] = "set" /\ ~Accepted(c)
    /\ Return(c, got[c], "err", "done")

\* The caller looks at what it read and writes nothing.
NoSet(c) == pc[c] = "set" /\ Return(c, got[c], "ok", "done")

-----------------------------------------------------------------------------
ReaderStep(c)  == ReadBegin(c) \/ ReadOK(c) \/ ReadRegrow(c) \/ ReadGivesUp(c)
ProberStep(c)  == Probe(c) \/ FetchOK(c) \/ FetchGrew(c)
MounterStep(c) == MountProbe(c) \/ MountFetchOK(c) \/ FetchGrew(c)
SetStep(c)     == SetOK(c) \/ SetStale(c) \/ NoSet(c)

Next ==
    \/ Change
    \/ \E c \in Readers : ReaderStep(c) \/ SetStep(c)
    \/ \E c \in Probers : ProberStep(c)
    \/ \E c \in Mounters : MounterStep(c) \/ SetStep(c)
    \/ \E c \in Callers : CallFails(c)

Spec == Init /\ [][Next]_vars

-----------------------------------------------------------------------------
(* Properties.                                                             *)

\* What a registry read, Query or GetSD returned is one version of the object,
\* whole and of the right length, that was current at some point of the call.
Whole == \A c \in Readers \cup Probers : result[c] \in {"ok", "wrote"} =>
    LET g == got[c] IN
    /\ g.header = g.data /\ g.data \in start[c] .. Ver
    /\ g.len = content[g.data].data

\* A read reports that the object outran it only if it did: for the registry
\* reads it changed at least maxProbeRetries - 1 times during the call, for the
\* single probes at least once.
ErangeIsReal == \A c \in Callers : result[c] = "erange" =>
    IF c \in Readers THEN Ver >= start[c] + MaxProbeRetries - 1 ELSE Ver > start[c]

\* A write conditional on what was read, SetValueIf with the hit's sequence, in
\* the layer the hit came from, or SetMountPolicy with the generation, replaces
\* exactly the version that was read, whole: nothing written in between is lost,
\* and no mixture of two versions, nor a padded or truncated template, is ever
\* written back.
NoLostUpdate == [][\A c \in Callers : result'[c] = "wrote" /\ result[c] # "wrote" =>
    got[c] = [header |-> Ver, data |-> Ver, len |-> Now.data]]_vars

-----------------------------------------------------------------------------
(* The inductive invariant behind them, caller by caller.                  *)

\* Versions in play exist, and a call in progress began at one.
VersionInv(c) ==
    /\ sized[c] <= Ver /\ start[c] <= Ver /\ got[c].header <= Ver /\ got[c].data <= Ver
    /\ pc[c] # "idle" => start[c] >= 1
    /\ pc[c] \in {"idle", "try", "fetch"} => result[c] = "none"
    /\ pc[c] = "set" => result[c] = "ok"

\* After a retry the buffers fit the version they were sized by, and every
\* retry after the first was forced by a newer version.
ReaderInv(c) == c \in Readers =>
    /\ pc[c] # "fetch"
    /\ pc[c] # "try" => tries[c] = 0
    /\ pc[c] = "try" /\ tries[c] > 0 =>
          /\ sized[c] >= start[c] + tries[c] - 1
          /\ buf[c] = content[sized[c]]

\* A single probe sizes the buffer by the version the call began at.
ProbeInv(c) == c \in Probers \cup Mounters =>
    /\ pc[c] # "try"
    /\ pc[c] = "fetch" => buf[c].data = content[start[c]].data
    /\ pc[c] = "fetch" /\ c \in Mounters => got[c].header = start[c]

\* What is about to be written: the header is not newer than the data, and if
\* they are of one version the length is that version's.
SetInv(c) == pc[c] = "set" =>
    /\ got[c].header >= 1 /\ got[c].header <= got[c].data
    /\ got[c].header = got[c].data => got[c].len = content[got[c].data].data

WholeAt(c) == c \in Readers \cup Probers /\ result[c] \in {"ok", "wrote"} =>
    /\ got[c].header = got[c].data
    /\ start[c] <= got[c].data /\ got[c].len = content[got[c].data].data

ErangeAt(c) == result[c] = "erange" =>
    /\ c \in Readers => Ver >= start[c] + MaxProbeRetries - 1
    /\ c \notin Readers => Ver > start[c]

CallInv(c) == VersionInv(c) /\ ReaderInv(c) /\ ProbeInv(c) /\ SetInv(c)
              /\ WholeAt(c) /\ ErangeAt(c)

IInv == TypeOK /\ \A c \in Callers : CallInv(c)
=============================================================================
