--------------------------- MODULE ProbeReadProofs ---------------------------
(***************************************************************************)
(* Proofs about ProbeRead, for any number of callers, any contents, any    *)
(* hint and any number of retries.                                         *)
(***************************************************************************)
EXTENDS ProbeRead, TLAPS

USE ContentsAssumption, HintAssumption, RetriesAssumption, ChangesAssumption, KindsAssumption

\* What every step leaves of the other callers.
SameAt(d) == /\ pc'[d] = pc[d] /\ tries'[d] = tries[d] /\ buf'[d] = buf[d]
             /\ sized'[d] = sized[d] /\ start'[d] = start[d] /\ got'[d] = got[d]
             /\ result'[d] = result[d]

\* The object stays, or gains a version.
Grows == content' = content \/ \E x \in Contents : content' = Append(content, x)

\* No caller but c moves.
Only(c) == \A d \in Callers \ {c} : SameAt(d)

\* A new version leaves the older ones alone.
LEMMA Growth ==
    ASSUME TypeOK, Grows
    PROVE  /\ content' \in Seq(Contents) /\ Ver' \in Nat /\ Ver \in Nat /\ Ver >= 1 /\ Ver' >= Ver
           /\ \A i \in 1 .. Ver : content'[i] = content[i]
           /\ \A i \in 1 .. Ver : content[i] \in Contents
           /\ Now \in Contents /\ Now.data \in Nat /\ Now.layer \in Nat
  <1>0. content \in Seq(Contents) /\ Ver \in 1 .. MaxChanges + 1
    BY DEF TypeOK
  <1>a. Ver \in Nat /\ Ver >= 1
    BY <1>0
  <1>b. \A i \in 1 .. Ver : content[i] \in Contents
    BY <1>0 DEF Ver
  <1>c. Now \in Contents /\ Now.data \in Nat /\ Now.layer \in Nat
    BY <1>a, <1>b DEF Now
  <1>1. CASE content' = content
    BY <1>1, <1>0, <1>a, <1>b, <1>c DEF Ver
  <1>2. CASE \E x \in Contents : content' = Append(content, x)
    <2>1. PICK x \in Contents : content' = Append(content, x)
      BY <1>2
    <2>2. content' \in Seq(Contents) /\ Len(content') = Len(content) + 1
      BY <2>1, <1>0
    <2>3. \A i \in 1 .. Len(content) : content'[i] = content[i]
      BY <2>1, <1>0
    <2>4. QED BY <2>2, <2>3, <1>a, <1>b, <1>c DEF Ver
  <1>3. QED BY <1>1, <1>2 DEF Grows

\* A step of another caller, or of another process, keeps a caller's invariant.
LEMMA Frame ==
    ASSUME TypeOK, Grows, NEW d \in Callers, CallInv(d), SameAt(d)
    PROVE  CallInv(d)'
  <1>1. /\ Ver' \in Nat /\ Ver \in Nat /\ Ver' >= Ver
        /\ \A i \in 1 .. Ver : content'[i] = content[i]
    BY Growth
  <1>2. /\ tries[d] \in Nat /\ sized[d] \in Nat /\ start[d] \in Nat
        /\ got[d].header \in Nat /\ got[d].data \in Nat
    BY DEF TypeOK
  <1>3. VersionInv(d)'
    BY <1>1, <1>2 DEF CallInv, VersionInv, SameAt
  <1>4. ReaderInv(d)'
    <2>1. CASE d \in Readers /\ pc[d] = "try" /\ tries[d] > 0
      <3>1. sized[d] \in 1 .. Ver
        BY <1>1, <1>2, <2>1 DEF CallInv, VersionInv, ReaderInv
      <3>2. QED BY <1>1, <2>1, <3>1 DEF CallInv, ReaderInv, SameAt
    <2>2. QED BY <2>1 DEF CallInv, ReaderInv, SameAt
  <1>5. ProbeInv(d)'
    <2>1. CASE d \in Probers \cup Mounters /\ pc[d] = "fetch"
      <3>1. start[d] \in 1 .. Ver
        BY <1>1, <1>2, <2>1 DEF CallInv, VersionInv
      <3>2. QED BY <1>1, <2>1, <3>1 DEF CallInv, ProbeInv, SameAt
    <2>2. QED BY <2>1 DEF CallInv, ProbeInv, SameAt
  <1>6. SetInv(d)'
    <2>1. CASE pc[d] = "set"
      <3>1. got[d].data \in 1 .. Ver
        BY <1>1, <1>2, <2>1 DEF CallInv, VersionInv, SetInv
      <3>2. QED BY <1>1, <2>1, <3>1 DEF CallInv, SetInv, SameAt
    <2>2. QED BY <2>1 DEF SetInv, SameAt
  <1>7. WholeAt(d)'
    <2>1. CASE d \in Readers \cup Probers /\ result[d] \in {"ok", "wrote"}
      <3>1. got[d].data \in 1 .. Ver
        BY <1>1, <1>2, <2>1 DEF CallInv, VersionInv, WholeAt
      <3>2. QED BY <1>1, <2>1, <3>1 DEF CallInv, WholeAt, SameAt
    <2>2. QED BY <2>1 DEF WholeAt, SameAt
  <1>8. ErangeAt(d)'
    BY <1>1, <1>2 DEF CallInv, ErangeAt, SameAt
  <1>9. QED BY <1>3, <1>4, <1>5, <1>6, <1>7, <1>8 DEF CallInv

\* What a return changes.
LEMMA ReturnStep ==
    ASSUME TypeOK, NEW c \in Callers, NEW g \in [header : Nat, data : Nat, len : Nat],
           NEW r \in {"none", "ok", "erange", "err", "wrote"},
           NEW next \in {"idle", "try", "fetch", "set", "done"}, Return(c, g, r, next)
    PROVE  /\ TypeOK' /\ content' = content /\ Only(c)
           /\ pc'[c] = next /\ got'[c] = g /\ result'[c] = r /\ start'[c] = start[c]
           /\ tries'[c] = 0 /\ sized'[c] = 0
  <1>1. \A d \in Callers \ {c} : SameAt(d)
    BY DEF TypeOK, Return, Size, SameAt
  <1>2. TypeOK'
    <2>1. NoBuffer \in [data : Nat, layer : Nat] /\ 0 \in 0 .. MaxProbeRetries
      BY DEF NoBuffer
    <2>2. content' = content /\ Ver' = Ver
      BY DEF Return, Ver
    <2>3. /\ pc' \in [Callers -> {"idle", "try", "fetch", "set", "done"}]
          /\ result' \in [Callers -> {"none", "ok", "erange", "err", "wrote"}]
          /\ got' \in [Callers -> [header : Nat, data : Nat, len : Nat]]
      BY DEF TypeOK, Return
    <2>4. /\ tries' \in [Callers -> 0 .. MaxProbeRetries]
          /\ buf' \in [Callers -> [data : Nat, layer : Nat]]
          /\ sized' \in [Callers -> Nat] /\ start' \in [Callers -> Nat]
      BY <2>1 DEF TypeOK, Return, Size
    <2>5. QED BY <2>2, <2>3, <2>4 DEF TypeOK
  <1>3. content' = content /\ Only(c)
    BY <1>1 DEF Return, Only
  <1>4. pc'[c] = next /\ got'[c] = g /\ result'[c] = r
    BY DEF TypeOK, Return
  <1>5. start'[c] = start[c] /\ tries'[c] = 0 /\ sized'[c] = 0
    BY DEF TypeOK, Return, Size
  <1>6. QED BY <1>2, <1>3, <1>4, <1>5

\* A step that names a caller keeps the invariant if it keeps that caller's.
LEMMA OneCaller ==
    ASSUME IInv, NEW c \in Callers, TypeOK', Grows, Only(c), CallInv(c)'
    PROVE  IInv'
  <1>1. \A d \in Callers : CallInv(d)'
    <2>1. TAKE d \in Callers
    <2>2. CASE d = c
      BY <2>2
    <2>3. CASE d # c
      BY <2>3, Frame DEF IInv, Only
    <2>4. QED BY <2>2, <2>3
  <1>2. QED BY <1>1 DEF IInv

\* A call that fails returns nothing.
LEMMA FailStep ==
    ASSUME IInv, NEW c \in Callers, CallFails(c)
    PROVE  IInv'
  <1>1. Return(c, Nothing, "err", "done") /\ pc[c] # "idle"
    BY DEF CallFails
  <1>2. Nothing \in [header : Nat, data : Nat, len : Nat]
    BY DEF Nothing
  <1>3. /\ TypeOK' /\ content' = content /\ Only(c)
        /\ pc'[c] = "done" /\ got'[c] = Nothing /\ result'[c] = "err" /\ start'[c] = start[c]
        /\ tries'[c] = 0 /\ sized'[c] = 0
    BY <1>1, <1>2, ReturnStep DEF IInv
  <1>4. Grows /\ Ver' = Ver /\ Ver \in Nat
    BY <1>3, Growth DEF Grows, Ver, IInv
  <1>5. CallInv(c)'
    BY <1>1, <1>3, <1>4 DEF IInv, CallInv, VersionInv, ReaderInv, ProbeInv, SetInv, WholeAt,
       ErangeAt, Nothing
  <1>6. QED BY <1>3, <1>4, <1>5, OneCaller

\* The registry reads: the buffers of a retry fit the version they were sized
\* by, so every further ERANGE takes a newer version.
LEMMA ReaderSteps ==
    ASSUME IInv, NEW c \in Readers, ReaderStep(c)
    PROVE  IInv'
  <1>0. c \in Callers /\ TypeOK /\ CallInv(c) /\ c \notin Probers \cup Mounters
    BY DEF IInv, Callers
  <1>t. /\ pc[c] \in {"idle", "try", "fetch", "set", "done"} /\ tries[c] \in 0 .. MaxProbeRetries
        /\ tries[c] \in Nat /\ sized[c] \in Nat /\ start[c] \in Nat
        /\ buf[c] \in [data : Nat, layer : Nat]
    BY <1>0 DEF TypeOK
  <1>v. /\ Ver \in Nat /\ Ver >= 1 /\ Now \in Contents /\ Now.data \in Nat /\ Now.layer \in Nat
        /\ \A i \in 1 .. Ver : content[i] \in Contents
    <2>1. SUFFICES ASSUME TRUE PROVE \A i \in 1 .. Ver : content[i] \in Contents
      BY <1>0 DEF TypeOK, Now, Ver
    <2>2. QED BY <1>0 DEF TypeOK, Ver
  <1>1. CASE ReadBegin(c)
    <2>1. TypeOK' /\ content' = content /\ Only(c)
      <3>1. Only(c)
        BY <1>0, <1>1 DEF TypeOK, ReadBegin, Size, Only, SameAt
      <3>2. QED BY <3>1, <1>0, <1>1, <1>v DEF TypeOK, ReadBegin, Size, Ver
    <2>2. /\ pc[c] = "idle" /\ pc'[c] = "try" /\ start'[c] = Ver /\ sized'[c] = 0
          /\ tries'[c] = tries[c] /\ got'[c] = got[c] /\ result'[c] = result[c] /\ Ver' = Ver
      BY <1>0, <1>1 DEF TypeOK, ReadBegin, Size, Ver
    <2>3. tries[c] = 0
      BY <2>2, <1>0 DEF CallInv, ReaderInv
    <2>4. CallInv(c)'
      BY <1>0, <1>v, <2>1, <2>2, <2>3 DEF CallInv, VersionInv, ReaderInv, ProbeInv, SetInv,
         WholeAt, ErangeAt
    <2>5. QED BY <1>0, <2>1, <2>4, OneCaller DEF Grows
  <1>2. CASE ReadOK(c)
    <2>1. Return(c, Sliced(c), "ok", "set") /\ pc[c] = "try"
      BY <1>2 DEF ReadOK
    <2>2. Sliced(c) \in [header : Nat, data : Nat, len : Nat]
      BY <1>v DEF Sliced
    <2>3. /\ TypeOK' /\ content' = content /\ Only(c)
          /\ pc'[c] = "set" /\ got'[c] = Sliced(c) /\ result'[c] = "ok" /\ start'[c] = start[c]
          /\ tries'[c] = 0 /\ sized'[c] = 0
      BY <1>0, <2>1, <2>2, ReturnStep
    <2>4. Ver' = Ver
      BY <2>3 DEF Ver
    <2>5. /\ got'[c].header = Ver /\ got'[c].data = Ver /\ got'[c].len = content[Ver].data
      BY <2>3 DEF Sliced, Now
    <2>6. CallInv(c)'
      BY <1>0, <1>t, <1>v, <2>1, <2>3, <2>4, <2>5 DEF CallInv, VersionInv, ReaderInv, ProbeInv,
         SetInv, WholeAt, ErangeAt
    <2>7. QED BY <1>0, <2>3, <2>6, OneCaller DEF Grows
  <1>3. CASE ReadRegrow(c)
    <2>1. TypeOK' /\ content' = content /\ Only(c)
      <3>1. Only(c)
        BY <1>0, <1>3 DEF TypeOK, ReadRegrow, Size, Only, SameAt
      <3>2. tries[c] + 1 \in 0 .. MaxProbeRetries
        BY <1>3, <1>t DEF ReadRegrow, TriesLeft
      <3>3. QED BY <3>1, <3>2, <1>0, <1>3, <1>v DEF TypeOK, ReadRegrow, Size, Ver, Regrown
    <2>2. /\ pc[c] = "try" /\ pc'[c] = "try" /\ start'[c] = start[c] /\ sized'[c] = Ver
          /\ tries'[c] = tries[c] + 1 /\ got'[c] = got[c] /\ result'[c] = result[c] /\ Ver' = Ver
          /\ buf'[c] = [data |-> Now.data, layer |-> Now.layer] /\ ~Fits(c)
      BY <1>0, <1>3 DEF TypeOK, ReadRegrow, Size, Ver, Regrown
    <2>3. buf'[c] = content[Ver]
      <3>1. Now = [data |-> Now.data, layer |-> Now.layer]
        BY <1>v
      <3>2. QED BY <3>1, <2>2 DEF Now
    <2>4. Ver >= start[c] + tries[c]
      <3>1. CASE tries[c] = 0
        BY <3>1, <1>0, <1>t, <1>v DEF CallInv, VersionInv
      <3>2. CASE tries[c] > 0
        <4>1. sized[c] >= start[c] + tries[c] - 1 /\ buf[c] = content[sized[c]] /\ sized[c] <= Ver
          BY <3>2, <2>2, <1>0 DEF CallInv, ReaderInv, VersionInv
        <4>2. sized[c] # Ver
          BY <4>1, <2>2, <1>v DEF Fits, Now
        <4>3. QED BY <4>1, <4>2, <1>t, <1>v
      <3>3. QED BY <3>1, <3>2, <1>t
    <2>5. CallInv(c)'
      BY <1>0, <1>t, <1>v, <2>1, <2>2, <2>3, <2>4 DEF CallInv, VersionInv, ReaderInv, ProbeInv,
         SetInv, WholeAt, ErangeAt
    <2>6. QED BY <1>0, <2>1, <2>5, OneCaller DEF Grows
  <1>4. CASE ReadGivesUp(c)
    <2>1. Return(c, Nothing, "erange", "done") /\ pc[c] = "try" /\ tries[c] = MaxProbeRetries
      BY <1>4 DEF ReadGivesUp
    <2>2. Nothing \in [header : Nat, data : Nat, len : Nat]
      BY DEF Nothing
    <2>3. /\ TypeOK' /\ content' = content /\ Only(c)
          /\ pc'[c] = "done" /\ got'[c] = Nothing /\ result'[c] = "erange" /\ start'[c] = start[c]
          /\ tries'[c] = 0 /\ sized'[c] = 0
      BY <1>0, <2>1, <2>2, ReturnStep
    <2>4. Ver' = Ver
      BY <2>3 DEF Ver
    <2>5. Ver >= start[c] + MaxProbeRetries - 1
      BY <1>0, <1>t, <1>v, <2>1 DEF CallInv, ReaderInv, VersionInv
    <2>6. CallInv(c)'
      BY <1>0, <1>t, <1>v, <2>1, <2>3, <2>4, <2>5 DEF CallInv, VersionInv, ReaderInv, ProbeInv,
         SetInv, WholeAt, ErangeAt, Nothing
    <2>7. QED BY <1>0, <2>3, <2>6, OneCaller DEF Grows
  <1>5. QED BY <1>1, <1>2, <1>3, <1>4 DEF ReaderStep

\* Query, GetSD and GetMountPolicy: a fetch that does not fit has seen a newer
\* version than the probe; one of the probe's version has its length.
LEMMA ProbeSteps ==
    ASSUME IInv, NEW c \in Probers \cup Mounters,
           \/ c \in Probers /\ (Probe(c) \/ FetchOK(c))
           \/ c \in Mounters /\ (MountProbe(c) \/ MountFetchOK(c))
           \/ FetchGrew(c)
    PROVE  IInv'
  <1>0. c \in Callers /\ TypeOK /\ CallInv(c) /\ c \notin Readers
    BY DEF IInv, Callers
  <1>t. /\ pc[c] \in {"idle", "try", "fetch", "set", "done"} /\ start[c] \in Nat
        /\ sized[c] \in Nat /\ buf[c] \in [data : Nat, layer : Nat] /\ buf[c].data \in Nat
        /\ got[c] \in [header : Nat, data : Nat, len : Nat]
    BY <1>0 DEF TypeOK
  <1>v. /\ Ver \in Nat /\ Ver >= 1 /\ Now \in Contents /\ Now.data \in Nat
    BY <1>0 DEF TypeOK, Now, Ver
  <1>f. pc[c] = "fetch" =>
          /\ start[c] \in 1 .. Ver /\ buf[c].data = content[start[c]].data
          /\ c \in Mounters => got[c].header = start[c]
    BY <1>0, <1>t, <1>v DEF CallInv, VersionInv, ProbeInv
  <1>1. CASE c \in Probers /\ Probe(c) /\ Now.data = 0
    <2>1. TypeOK' /\ content' = content /\ Only(c)
      <3>1. Only(c)
        BY <1>0, <1>1 DEF TypeOK, Probe, Only, SameAt
      <3>2. Sliced(c) \in [header : Nat, data : Nat, len : Nat]
        BY <1>v DEF Sliced
      <3>3. /\ content' = content /\ Ver' = Ver /\ tries' = tries /\ buf' = buf /\ sized' = sized
            /\ start' \in [Callers -> Nat] /\ got' \in [Callers -> [header : Nat, data : Nat, len : Nat]]
        <4>1. /\ content' = content /\ tries' = tries /\ buf' = buf /\ sized' = sized
              /\ start' = [start EXCEPT ![c] = Ver] /\ got' = [got EXCEPT ![c] = Sliced(c)]
          BY <1>1 DEF Probe
        <4>2. Ver' = Ver
          BY <4>1 DEF Ver
        <4>3. QED BY <4>1, <4>2, <3>2, <1>0, <1>v DEF TypeOK
      <3>4. /\ pc' \in [Callers -> {"idle", "try", "fetch", "set", "done"}]
            /\ result' \in [Callers -> {"none", "ok", "erange", "err", "wrote"}]
        BY <1>0, <1>1 DEF TypeOK, Probe
      <3>5. QED BY <3>1, <3>3, <3>4, <1>0 DEF TypeOK
    <2>2. /\ pc'[c] = "done" /\ start'[c] = Ver /\ sized'[c] = sized[c] /\ result'[c] = "ok"
          /\ got'[c] = Sliced(c) /\ Ver' = Ver
      BY <1>0, <1>1 DEF TypeOK, Probe, Ver
    <2>3. got'[c].header = Ver /\ got'[c].data = Ver /\ got'[c].len = content[Ver].data
      BY <2>2 DEF Sliced, Now
    <2>4. CallInv(c)'
      BY <1>0, <1>t, <1>v, <2>1, <2>2, <2>3 DEF CallInv, VersionInv, ReaderInv, ProbeInv, SetInv,
         WholeAt, ErangeAt
    <2>5. QED BY <1>0, <2>1, <2>4, OneCaller DEF Grows
  <1>2. CASE c \in Probers /\ Probe(c) /\ Now.data # 0
    <2>1. TypeOK' /\ content' = content /\ Only(c)
      <3>1. Only(c)
        BY <1>0, <1>2 DEF TypeOK, Probe, Size, Only, SameAt
      <3>2. /\ content' = content /\ Ver' = Ver /\ tries' = tries /\ got' = got /\ result' = result
            /\ start' \in [Callers -> Nat] /\ sized' \in [Callers -> Nat]
            /\ buf' \in [Callers -> [data : Nat, layer : Nat]]
        <4>1. /\ content' = content /\ tries' = tries /\ got' = got /\ result' = result
              /\ start' = [start EXCEPT ![c] = Ver] /\ sized' = [sized EXCEPT ![c] = Ver]
              /\ buf' = [buf EXCEPT ![c] = [data |-> Now.data, layer |-> 0]]
          BY <1>2 DEF Probe, Size
        <4>2. Ver' = Ver
          BY <4>1 DEF Ver
        <4>3. [data |-> Now.data, layer |-> 0] \in [data : Nat, layer : Nat]
          BY <1>v
        <4>4. QED BY <4>1, <4>2, <4>3, <1>0, <1>v DEF TypeOK
      <3>3. pc' \in [Callers -> {"idle", "try", "fetch", "set", "done"}]
        <4>1. pc' = [pc EXCEPT ![c] = "fetch"]
          BY <1>2 DEF Probe
        <4>2. QED BY <4>1, <1>0 DEF TypeOK
      <3>4. QED BY <3>1, <3>2, <3>3, <1>0 DEF TypeOK
    <2>2. /\ pc[c] = "idle" /\ pc'[c] = "fetch" /\ start'[c] = Ver /\ sized'[c] = Ver
          /\ result'[c] = result[c] /\ got'[c] = got[c] /\ Ver' = Ver
          /\ buf'[c].data = content[Ver].data
      BY <1>0, <1>2 DEF TypeOK, Probe, Size, Ver, Now
    <2>3. CallInv(c)'
      BY <1>0, <1>2, <1>v, <2>1, <2>2, KindsAssumption DEF CallInv, VersionInv, ReaderInv, ProbeInv,
         SetInv, WholeAt, ErangeAt
    <2>4. QED BY <1>0, <2>1, <2>3, OneCaller DEF Grows
  <1>3. CASE c \in Probers /\ FetchOK(c)
    <2>1. Return(c, Sliced(c), "ok", "done") /\ pc[c] = "fetch"
      BY <1>3 DEF FetchOK
    <2>2. Sliced(c) \in [header : Nat, data : Nat, len : Nat]
      BY <1>v DEF Sliced
    <2>3. /\ TypeOK' /\ content' = content /\ Only(c)
          /\ pc'[c] = "done" /\ got'[c] = Sliced(c) /\ result'[c] = "ok" /\ start'[c] = start[c]
          /\ tries'[c] = 0 /\ sized'[c] = 0
      BY <1>0, <2>1, <2>2, ReturnStep
    <2>4. Ver' = Ver
      BY <2>3 DEF Ver
    <2>5. got'[c].header = Ver /\ got'[c].data = Ver /\ got'[c].len = content[Ver].data
      BY <2>3 DEF Sliced, Now
    <2>6. CallInv(c)'
      BY <1>0, <1>f, <1>v, <2>1, <2>3, <2>4, <2>5 DEF CallInv, VersionInv, ReaderInv, ProbeInv,
         SetInv, WholeAt, ErangeAt
    <2>7. QED BY <1>0, <2>3, <2>6, OneCaller DEF Grows
  <1>4. CASE FetchGrew(c)
    <2>1. Return(c, Nothing, "erange", "done") /\ pc[c] = "fetch" /\ Now.data > buf[c].data
      BY <1>4 DEF FetchGrew
    <2>2. Nothing \in [header : Nat, data : Nat, len : Nat]
      BY DEF Nothing
    <2>3. /\ TypeOK' /\ content' = content /\ Only(c)
          /\ pc'[c] = "done" /\ got'[c] = Nothing /\ result'[c] = "erange" /\ start'[c] = start[c]
          /\ tries'[c] = 0 /\ sized'[c] = 0
      BY <1>0, <2>1, <2>2, ReturnStep
    <2>4. Ver' = Ver
      BY <2>3 DEF Ver
    <2>5. start[c] # Ver
      BY <1>f, <1>t, <1>v, <2>1 DEF Now
    <2>6. Ver > start[c]
      BY <1>f, <1>v, <2>1, <2>5
    <2>7. CallInv(c)'
      BY <1>0, <1>f, <1>v, <2>1, <2>3, <2>4, <2>6 DEF CallInv, VersionInv, ReaderInv, ProbeInv,
         SetInv, WholeAt, ErangeAt, Nothing
    <2>8. QED BY <1>0, <2>3, <2>7, OneCaller DEF Grows
  <1>5. CASE c \in Mounters /\ MountProbe(c)
    <2>1. TypeOK' /\ content' = content /\ Only(c)
      <3>1. Only(c)
        BY <1>0, <1>5 DEF TypeOK, MountProbe, Size, Only, SameAt
      <3>2. [header |-> Ver, data |-> Ver, len |-> 0] \in [header : Nat, data : Nat, len : Nat]
        BY <1>v
      <3>3. pc' \in [Callers -> {"idle", "try", "fetch", "set", "done"}]
            /\ result' \in [Callers -> {"none", "ok", "erange", "err", "wrote"}]
        BY <1>0, <1>5 DEF TypeOK, MountProbe
      <3>4. QED BY <3>1, <3>2, <3>3, <1>0, <1>5, <1>v DEF TypeOK, MountProbe, Size, Ver
    <2>2. /\ pc[c] = "idle" /\ start'[c] = Ver /\ sized'[c] = Ver /\ Ver' = Ver
          /\ got'[c] = [header |-> Ver, data |-> Ver, len |-> 0]
          /\ buf'[c].data = content[Ver].data
          /\ \/ pc'[c] = "set" /\ result'[c] = "ok" /\ content[Ver].data = 0
             \/ pc'[c] = "fetch" /\ result'[c] = result[c]
      BY <1>0, <1>5 DEF TypeOK, MountProbe, Size, Ver, Now
    <2>3. CallInv(c)'
      BY <1>0, <1>5, <1>v, <2>1, <2>2, KindsAssumption DEF CallInv, VersionInv, ReaderInv, ProbeInv,
         SetInv, WholeAt, ErangeAt
    <2>4. QED BY <1>0, <2>1, <2>3, OneCaller DEF Grows
  <1>6. CASE c \in Mounters /\ MountFetchOK(c)
    <2>1. Return(c, MountFetched(c), "ok", "set") /\ pc[c] = "fetch"
      BY <1>6 DEF MountFetchOK
    <2>2. MountFetched(c) \in [header : Nat, data : Nat, len : Nat]
      BY <1>t, <1>v DEF MountFetched
    <2>3. /\ TypeOK' /\ content' = content /\ Only(c)
          /\ pc'[c] = "set" /\ got'[c] = MountFetched(c) /\ result'[c] = "ok" /\ start'[c] = start[c]
          /\ tries'[c] = 0 /\ sized'[c] = 0
      BY <1>0, <2>1, <2>2, ReturnStep
    <2>4. Ver' = Ver
      BY <2>3 DEF Ver
    <2>5. got'[c].header = start[c] /\ got'[c].data = Ver /\ got'[c].len = content[start[c]].data
      BY <2>1, <2>3, <1>6, <1>f DEF MountFetched
    <2>6. CallInv(c)'
      BY <1>0, <1>6, <1>f, <1>v, <2>1, <2>3, <2>4, <2>5, KindsAssumption DEF CallInv, VersionInv,
         ReaderInv, ProbeInv, SetInv, WholeAt, ErangeAt
    <2>7. QED BY <1>0, <2>3, <2>6, OneCaller DEF Grows
  <1>7. QED BY <1>1, <1>2, <1>3, <1>4, <1>5, <1>6

\* The conditional writes.
LEMMA SetSteps ==
    ASSUME IInv, NEW c \in Callers, SetStep(c)
    PROVE  IInv'
  <1>0. TypeOK /\ CallInv(c)
    BY DEF IInv
  <1>t. /\ start[c] \in Nat /\ sized[c] \in Nat /\ tries[c] \in Nat
        /\ got[c] \in [header : Nat, data : Nat, len : Nat]
    BY <1>0 DEF TypeOK
  <1>v. Ver \in Nat /\ Ver >= 1
    BY <1>0 DEF TypeOK
  <1>s. pc[c] = "set" /\ result[c] = "ok"
    BY <1>0 DEF SetStep, SetOK, SetStale, NoSet, CallInv, VersionInv
  <1>g. got[c].data \in 1 .. Ver
    BY <1>0, <1>t, <1>v, <1>s DEF CallInv, VersionInv, SetInv
  <1>1. CASE SetOK(c)
    <2>1. PICK new \in Contents : content' = Append(content, new)
      BY <1>1 DEF SetOK
    <2>2. Grows /\ Ver <= MaxChanges
      BY <1>1, <2>1 DEF Grows, SetOK
    <2>3. Ver' = Ver + 1 /\ \A i \in 1 .. Ver : content'[i] = content[i]
      BY <1>0, <2>1 DEF TypeOK, Ver
    <2>4. TypeOK' /\ Only(c)
      <3>1. Only(c)
        BY <1>0, <1>1 DEF TypeOK, SetOK, Only, SameAt
      <3>2. content' \in Seq(Contents) /\ Ver' \in 1 .. MaxChanges + 1
        BY <1>0, <1>v, <2>1, <2>2, <2>3 DEF TypeOK
      <3>3. QED BY <3>1, <3>2, <1>0, <1>1 DEF TypeOK, SetOK
    <2>5. /\ pc'[c] = "done" /\ result'[c] = "wrote" /\ start'[c] = start[c] /\ got'[c] = got[c]
          /\ sized'[c] = sized[c] /\ tries'[c] = tries[c]
      BY <1>0, <1>1 DEF TypeOK, SetOK
    <2>6. CallInv(c)'
      BY <1>0, <1>t, <1>v, <1>s, <1>g, <2>3, <2>5 DEF CallInv, VersionInv, ReaderInv, ProbeInv,
         SetInv, WholeAt, ErangeAt
    <2>7. QED BY <2>2, <2>4, <2>6, OneCaller
  <1>2. CASE SetStale(c) \/ NoSet(c)
    <2>1. PICK r \in {"ok", "err"} : Return(c, got[c], r, "done")
      BY <1>2 DEF SetStale, NoSet
    <2>2. /\ TypeOK' /\ content' = content /\ Only(c)
          /\ pc'[c] = "done" /\ got'[c] = got[c] /\ result'[c] = r /\ start'[c] = start[c]
          /\ tries'[c] = 0 /\ sized'[c] = 0
      BY <1>0, <1>t, <2>1, ReturnStep
    <2>3. Ver' = Ver
      BY <2>2 DEF Ver
    <2>4. CallInv(c)'
      BY <1>0, <1>t, <1>v, <1>s, <2>2, <2>3 DEF CallInv, VersionInv, ReaderInv, ProbeInv,
         SetInv, WholeAt, ErangeAt
    <2>5. QED BY <2>2, <2>4, OneCaller DEF Grows
  <1>3. QED BY <1>1, <1>2 DEF SetStep

\* The inductive invariant holds of every behaviour.
THEOREM Invariance == Spec => []IInv
  <1>1. Init => IInv
    <2>1. SUFFICES ASSUME Init PROVE IInv
      OBVIOUS
    <2>2. PICK x \in Contents : content = <<x>>
      BY <2>1 DEF Init
    <2>3. content \in Seq(Contents) /\ Ver = 1
      BY <2>2 DEF Ver
    <2>4. TypeOK
      BY <2>1, <2>3 DEF Init, TypeOK, NoBuffer, Nothing
    <2>5. ASSUME NEW c \in Callers PROVE CallInv(c)
      BY <2>1, <2>3 DEF Init, CallInv, VersionInv, ReaderInv, ProbeInv, SetInv, WholeAt, ErangeAt,
         Nothing
    <2>6. QED BY <2>4, <2>5 DEF IInv
  <1>2. IInv /\ [Next]_vars => IInv'
    <2>1. SUFFICES ASSUME IInv, [Next]_vars PROVE IInv'
      OBVIOUS
    <2>2. CASE Change
      <3>1. PICK x \in Contents : content' = Append(content, x) /\ Ver <= MaxChanges
        BY <2>2 DEF Change
      <3>2. Grows /\ \A d \in Callers : SameAt(d)
        BY <2>2, <3>1 DEF Grows, Change, SameAt
      <3>3. content' \in Seq(Contents) /\ Ver' \in 1 .. MaxChanges + 1
        BY <2>1, <3>1 DEF IInv, TypeOK, Ver
      <3>4. TypeOK'
        BY <2>1, <2>2, <3>3 DEF IInv, TypeOK, Change
      <3>5. QED BY <2>1, <3>2, <3>4, Frame DEF IInv
    <2>3. CASE \E c \in Readers : ReaderStep(c) \/ SetStep(c)
      BY <2>1, <2>3, ReaderSteps, SetSteps DEF Callers
    <2>4. CASE \E c \in Probers : ProberStep(c)
      BY <2>1, <2>4, ProbeSteps DEF ProberStep
    <2>5. CASE \E c \in Mounters : MounterStep(c) \/ SetStep(c)
      BY <2>1, <2>5, ProbeSteps, SetSteps DEF MounterStep, Callers
    <2>6. CASE \E c \in Callers : CallFails(c)
      BY <2>1, <2>6, FailStep
    <2>7. CASE UNCHANGED vars
      <3>1. Grows /\ (\A d \in Callers : SameAt(d))
        BY <2>7 DEF vars, Grows, SameAt
      <3>2. TypeOK'
        BY <2>1, <2>7 DEF IInv, TypeOK, vars, Ver
      <3>3. QED BY <2>1, <3>1, <3>2, Frame DEF IInv
    <2>8. QED BY <2>1, <2>2, <2>3, <2>4, <2>5, <2>6, <2>7 DEF Next
  <1>3. QED BY <1>1, <1>2, PTL DEF Spec

\* Every registry read, Query and GetSD that succeeds returns one version of
\* the object, whole, that was current during the call.
THEOREM ReadsAreWhole == Spec => []Whole
  <1>1. IInv => Whole
    <2>1. SUFFICES ASSUME IInv, NEW c \in Readers \cup Probers, result[c] \in {"ok", "wrote"}
                   PROVE  /\ got[c].header = got[c].data /\ got[c].data \in start[c] .. Ver
                          /\ got[c].len = content[got[c].data].data
      BY DEF Whole
    <2>2. c \in Callers /\ TypeOK /\ VersionInv(c) /\ WholeAt(c)
      BY <2>1 DEF IInv, CallInv, Callers
    <2>3. got[c].data \in Nat /\ start[c] \in Nat /\ Ver \in Nat
      BY <2>2 DEF TypeOK
    <2>4. QED BY <2>1, <2>2, <2>3 DEF VersionInv, WholeAt
  <1>2. QED BY <1>1, Invariance, PTL

\* A read gives up on ERANGE only if the object really outran it.
THEOREM GivesUpOnlyWhenOutrun == Spec => []ErangeIsReal
  <1>1. IInv => ErangeIsReal
    BY DEF IInv, CallInv, ErangeAt, ErangeIsReal
  <1>2. QED BY <1>1, Invariance, PTL

\* A conditional write replaces exactly the version its caller had read.
THEOREM ConditionalWrites == Spec => NoLostUpdate
  <1>1. IInv /\ [Next]_vars =>
          [\A c \in Callers : result'[c] = "wrote" /\ result[c] # "wrote" =>
             got[c] = [header |-> Ver, data |-> Ver, len |-> Now.data]]_vars
    <2>1. SUFFICES ASSUME IInv, Next, NEW c \in Callers, result'[c] = "wrote", result[c] # "wrote"
                   PROVE  got[c] = [header |-> Ver, data |-> Ver, len |-> Now.data]
      OBVIOUS
    <2>2. SetOK(c)
      <3>1. result \in [Callers -> {"none", "ok", "erange", "err", "wrote"}]
        BY <2>1 DEF IInv, TypeOK
      <3>2. ~Change
        BY <2>1 DEF Change
      <3>3. ASSUME NEW d \in Callers PROVE ~CallFails(d) /\ ~SetStale(d) /\ ~NoSet(d)
        BY <2>1, <3>1 DEF CallFails, SetStale, NoSet, Return
      <3>4. ASSUME NEW d \in Callers PROVE ~ReaderStep(d)
        BY <2>1, <3>1 DEF ReaderStep, ReadBegin, ReadOK, ReadRegrow, ReadGivesUp, Return
      <3>5. ASSUME NEW d \in Callers PROVE ~FetchOK(d) /\ ~FetchGrew(d) /\ ~MountFetchOK(d)
        BY <2>1, <3>1 DEF FetchOK, FetchGrew, MountFetchOK, Return
      <3>6. ASSUME NEW d \in Callers PROVE ~Probe(d) /\ ~MountProbe(d)
        <4>1. \A x \in {"ok"} : result' # [result EXCEPT ![d] = x]
          BY <2>1, <3>1
        <4>2. result' # result
          BY <2>1
        <4>3. QED BY <4>1, <4>2 DEF Probe, MountProbe
      <3>7. PICK d \in Callers : SetOK(d)
        BY <2>1, <3>2, <3>3, <3>4, <3>5, <3>6 DEF Next, ProberStep, MounterStep, SetStep, Callers
      <3>8. d = c
        BY <2>1, <3>7 DEF SetOK, IInv, TypeOK
      <3>9. QED BY <3>7, <3>8
    <2>3. got[c].header = Ver /\ pc[c] = "set"
      BY <2>2 DEF SetOK, Accepted, Expected
    <2>4. /\ got[c] \in [header : Nat, data : Nat, len : Nat] /\ got[c].header \in Nat
          /\ got[c].data \in Nat /\ Ver \in Nat
      BY <2>1 DEF IInv, TypeOK
    <2>5. got[c].data <= Ver /\ got[c].header <= got[c].data
      BY <2>1, <2>3 DEF IInv, CallInv, VersionInv, SetInv
    <2>6. got[c].data = Ver
      BY <2>3, <2>4, <2>5
    <2>7. got[c].len = content[Ver].data
      BY <2>1, <2>3, <2>6 DEF IInv, CallInv, SetInv
    <2>8. QED BY <2>3, <2>4, <2>6, <2>7 DEF Now
  <1>2. QED BY <1>1, Invariance, PTL DEF Spec, NoLostUpdate
=============================================================================
