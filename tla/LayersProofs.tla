--------------------------- MODULE LayersProofs ---------------------------
(* Proofs about Layers, for any number of listing and writing clients, any *)
(* finite set of names and any number of changes.                          *)
(*                                                                         *)
(* IInv is inductive.  Its heart is EnumInv: Subkeys asks for children by  *)
(* position while others move them, and what it has seen is below its      *)
(* index as long as children only move up, what it has not at or above the *)
(* index as long as they only move down.                                   *)
EXTENDS Layers, SequenceTheorems, FiniteSetTheorems, TLAPS

-----------------------------------------------------------------------------
(* What an insertion and a removal do to positions.                        *)

\* A child takes place i: those before it stay, those from i on move up by one.
LEMMA Inserted ==
  ASSUME NEW S, NEW s \in Seq(S), NEW i \in 1 .. Len(s) + 1, NEW e \in S,
         NEW t, t = InsertAt(s, i, e)
  PROVE  /\ t \in Seq(S) /\ Len(t) = Len(s) + 1
         /\ \A j \in 1 .. i - 1 : t[j] = s[j]
         /\ t[i] = e
         /\ \A j \in i .. Len(s) : t[j + 1] = s[j]
  <1> DEFINE a == SubSeq(s, 1, i - 1)
             b == SubSeq(s, i, Len(s))
             c == a \o <<e>>
  <1>1. i \in Int /\ Len(s) \in Nat OBVIOUS
  <1>2. a \in Seq(S) /\ Len(a) = i - 1 /\ \A j \in 1 .. i - 1 : a[j] = s[j]
    BY <1>1, SubSeqProperties
  <1>3. /\ b \in Seq(S) /\ Len(b) = Len(s) - i + 1
        /\ \A j \in 1 .. Len(s) - i + 1 : b[j] = s[i + j - 1]
    BY <1>1, SubSeqProperties
  <1>4. t = c \o b BY DEF InsertAt
  <1> HIDE DEF a, b
  <1>5. c \in Seq(S) /\ Len(c) = i /\ (\A j \in 1 .. i - 1 : c[j] = s[j]) /\ c[i] = e
    BY <1>2
  <1> HIDE DEF c
  <1>6. t \in Seq(S) BY <1>3, <1>4, <1>5
  <1>7. Len(t) = Len(s) + 1 BY <1>1, <1>3, <1>4, <1>5
  <1>8. \A j \in 1 .. i - 1 : t[j] = s[j] BY <1>1, <1>3, <1>4, <1>5
  <1>9. t[i] = e BY <1>1, <1>3, <1>4, <1>5
  <1>10. ASSUME NEW j \in i .. Len(s) PROVE t[j + 1] = s[j]
    <2>1. j + 1 - i \in 1 .. Len(s) - i + 1 /\ i + (j + 1 - i) - 1 = j BY <1>1
    <2>2. b[j + 1 - i] = s[j] BY <1>3, <2>1
    <2>3. t[j + 1] = b[j + 1 - i] BY <1>1, <1>3, <1>4, <1>5
    <2>4. QED BY <2>2, <2>3
  <1>11. QED BY <1>6, <1>7, <1>8, <1>9, <1>10

\* The child at place i goes: those before it stay, those after it move down.
LEMMA Removed ==
  ASSUME NEW S, NEW s \in Seq(S), NEW i \in 1 .. Len(s), NEW t, t = RemoveAt(s, i)
  PROVE  /\ t \in Seq(S) /\ Len(t) = Len(s) - 1
         /\ \A j \in 1 .. i - 1 : t[j] = s[j]
         /\ \A j \in i .. Len(s) - 1 : t[j] = s[j + 1]
  <1> DEFINE a == SubSeq(s, 1, i - 1)
             b == SubSeq(s, i + 1, Len(s))
  <1>1. i \in Int /\ Len(s) \in Nat OBVIOUS
  <1>2. a \in Seq(S) /\ Len(a) = i - 1 /\ \A j \in 1 .. i - 1 : a[j] = s[j]
    BY <1>1, SubSeqProperties
  <1>3. /\ b \in Seq(S) /\ Len(b) = Len(s) - i
        /\ \A j \in 1 .. Len(s) - i : b[j] = s[i + j]
    <2>1. \A j \in i + 1 .. Len(s) : s[j] \in S BY <1>1
    <2>2. /\ b \in Seq(S) /\ Len(b) = IF i + 1 <= Len(s) THEN Len(s) - (i + 1) + 1 ELSE 0
          /\ \A j \in 1 .. Len(s) - (i + 1) + 1 : b[j] = s[i + 1 + j - 1]
      BY <1>1, <2>1, SubSeqProperties
    <2>3. \A j \in 1 .. Len(s) - i : b[j] = s[i + j]
      <3> TAKE j \in 1 .. Len(s) - i
      <3>1. j \in 1 .. Len(s) - (i + 1) + 1 /\ i + 1 + j - 1 = i + j BY <1>1
      <3>2. QED BY <2>2, <3>1
    <2>4. Len(b) = Len(s) - i
      <3>1. CASE i + 1 <= Len(s) BY <1>1, <2>2, <3>1
      <3>2. CASE i = Len(s) BY <1>1, <2>2, <3>2
      <3>3. QED BY <1>1, <3>1, <3>2
    <2>5. QED BY <2>2, <2>3, <2>4
  <1>4. t = a \o b BY DEF RemoveAt
  <1> HIDE DEF a, b
  <1>5. t \in Seq(S) BY <1>2, <1>3, <1>4
  <1>6. Len(t) = Len(s) - 1
    <2>1. Len(t) = Len(a) + Len(b) BY <1>2, <1>3, <1>4, ConcatProperties
    <2>2. QED BY <1>1, <1>2, <1>3, <2>1
  <1>7. \A j \in 1 .. i - 1 : t[j] = s[j] BY <1>1, <1>2, <1>3, <1>4
  <1>8. ASSUME NEW j \in i .. Len(s) - 1 PROVE t[j] = s[j + 1]
    <2>1. j - (i - 1) \in 1 .. Len(s) - i /\ i + (j - (i - 1)) = j + 1 BY <1>1
    <2>2. b[j - (i - 1)] = s[j + 1] BY <1>3, <2>1
    <2>3. t[j] = b[j - (i - 1)] BY <1>1, <1>2, <1>3, <1>4
    <2>4. QED BY <2>2, <2>3
  <1>9. QED BY <1>5, <1>6, <1>7, <1>8

-----------------------------------------------------------------------------
(* Initial states.                                                         *)

\* A sequence of all of S without repetition, as Init takes one.
LEMMA Enumerations ==
  ASSUME NEW S, IsFiniteSet(S), NEW s \in SetToSeqs(S)
  PROVE  /\ s \in Seq(S) /\ Len(s) = Cardinality(S)
         /\ \A i, j \in 1 .. Len(s) : s[i] = s[j] => i = j
         /\ \A n \in S : \E i \in 1 .. Len(s) : s[i] = n
  <1> DEFINE c == Cardinality(S)
  <1>1. c \in Nat BY FS_CardinalityType
  <1>2. s \in [1 .. c -> S] /\ \A i, j \in 1 .. c : i # j => s[i] # s[j] BY DEF SetToSeqs
  <1>3. Cardinality(1 .. c) = c BY <1>1, FS_Interval
  <1>4. s \in Injection(1 .. c, S) BY <1>2 DEF Injection, IsInjective
  <1>5. s \in Surjection(1 .. c, S) BY <1>3, <1>4, FS_Injection
  <1>6. \A n \in S : \E i \in 1 .. c : s[i] = n BY <1>5 DEF Surjection
  <1>7. s \in Seq(S) BY <1>1, <1>2
  <1>8. Len(s) = c BY <1>1, <1>2
  <1>9. QED BY <1>2, <1>6, <1>7, <1>8

\* The initial states: some layers, enumerated in any order, and nothing listed.
LEMMA InitInv == Init => IInv
  <1> SUFFICES ASSUME Init PROVE IInv OBVIOUS
  <1>1. PICK there \in SUBSET Names :
          /\ key = [n \in AllLayers |->
                     IF n \in there \cup {Base}
                     THEN [id |-> 1, prec |-> "0", en |-> IF n = Base THEN "on" ELSE "off", own |-> "ok"]
                     ELSE Absent]
          /\ order \in SetToSeqs({n \in AllLayers : n \in there \cup {Base}})
    BY DEF Init
  <1> DEFINE S == {n \in AllLayers : n \in there \cup {Base}}
  <1>2. S \in SUBSET AllLayers /\ IsFiniteSet(S)
    <2>1. IsFiniteSet(AllLayers) BY NamesAssumption, FS_AddElement DEF AllLayers
    <2>2. QED BY <2>1, FS_Subset
  <1>3. /\ order \in Seq(S)
        /\ \A i, j \in 1 .. Len(order) : order[i] = order[j] => i = j
        /\ \A n \in S : \E i \in 1 .. Len(order) : order[i] = n
    <2>1. order \in SetToSeqs(S) BY <1>1
    <2> HIDE DEF S
    <2>2. QED BY <1>2, <2>1, Enumerations
  <1>4. order \in Seq(AllLayers) BY <1>2, <1>3, SeqMonotonic
  <1>5. key \in [AllLayers -> Keys] BY <1>1, NamesAssumption DEF Keys
  <1>6. \A n \in AllLayers : Present(n) <=> n \in S BY <1>1 DEF Present, Absent, KeyOf
  <1>7. OrderInv
    <2>1. \A n \in AllLayers : key[n].id <= ops BY <1>1 DEF Init, Absent, KeyOf
    <2>2. QED BY <1>3, <1>4, <1>6, <2>1 DEF OrderInv
  <1>8. TypeOK
    BY <1>4, <1>5, NamesAssumption DEF Init, TypeOK, KeyHandles, NoHandle, Default, AllLayers
  <1>9. \A l \in Listers : EnumInv(l) /\ ListInv(l) /\ GetInv(l)
    BY DEF Init, EnumInv, ListInv, GetInv, NoHandle, Listed, ToSet
  <1>10. EnumerationExact /\ ListFailsForCause
    BY DEF Init, EnumerationExact, ListFailsForCause, Enumerated
  <1>11. QED BY <1>7, <1>8, <1>9, <1>10 DEF IInv

-----------------------------------------------------------------------------
(* The invariant, lister by lister.                                        *)

Exact(l) == Enumerated(l) =>
    /\ "deleted" \notin events[l] => stayed[l] \subseteq Listed(l)
    /\ "created" \notin events[l] =>
         \A i, j \in 1 .. Len(subs[l]) : subs[l][i] = subs[l][j] => i = j
Fails(l) ==
    /\ lpc[l] = "failed" /\ err[l] = "gone" => "deletedLater" \in events[l]
    /\ lpc[l] = "failed" /\ err[l] = "malformed" => \E v \in had[l] : Malformed(v)
    /\ lpc[l] = "failed" => err[l] # "none"
    /\ lpc[l] = "done" => out[l] = subs[l]
LInv(l) == EnumInv(l) /\ ListInv(l) /\ GetInv(l) /\ Exact(l) /\ Fails(l)

\* IInv is about each lister by itself.
LEMMA ByLister == IInv <=> TypeOK /\ OrderInv /\ \A l \in Listers : LInv(l)
  BY DEF IInv, LInv, Exact, Fails, EnumerationExact, ListFailsForCause
\* The same of the next state.
LEMMA ByListerNext == IInv' <=> TypeOK' /\ OrderInv' /\ \A l \in Listers : LInv(l)'
  BY DEF IInv, LInv, Exact, Fails, EnumerationExact, ListFailsForCause

\* Everything that is lister k's stays.
Same(k) ==
    /\ lpc'[k] = lpc[k] /\ index'[k] = index[k] /\ subs'[k] = subs[k] /\ handle'[k] = handle[k]
    /\ info'[k] = info[k] /\ out'[k] = out[k] /\ err'[k] = err[k]
    /\ stayed'[k] = stayed[k] /\ events'[k] = events[k] /\ had'[k] = had[k]

\* A lister that a step leaves alone keeps its part of the invariant.
LEMMA Untouched ==
  ASSUME NEW k \in Listers, LInv(k), Same(k), UNCHANGED <<key, order, ops>>
  PROVE  LInv(k)'
  <1>1. EnumInv(k)' BY DEF Same, LInv, EnumInv, Listed, Present
  <1>2. ListInv(k)' BY DEF Same, LInv, ListInv, Listed, Present
  <1>3. GetInv(k)' BY DEF Same, LInv, GetInv, Found, Live
  <1>4. Exact(k)' /\ Fails(k)' BY DEF Same, LInv, Exact, Fails, Enumerated, Listed
  <1>5. QED BY <1>1, <1>2, <1>3, <1>4 DEF LInv

\* A step of lister l alone: what is left to show is about l.
LEMMA OneLister ==
  ASSUME IInv, NEW l \in Listers, UNCHANGED <<key, order, ops>>,
         \A k \in Listers : k # l => Same(k), LInv(l)', TypeOK'
  PROVE  IInv'
  <1>1. \A k \in Listers : LInv(k)' BY ByLister, Untouched
  <1>2. OrderInv' BY DEF IInv, OrderInv, Present
  <1>3. QED BY <1>1, <1>2, ByListerNext

-----------------------------------------------------------------------------
(* The steps of List.                                                      *)

\* The enumeration begins: nothing is listed, and all that exists may stay.
LEMMA ListBeginStep ==
  ASSUME IInv, NEW l \in Listers, ListBegin(l)
  PROVE  IInv'
  <1>1. /\ UNCHANGED <<key, order, ops, wpc, whandle, index, subs, handle, info, out, err, events, had>>
        /\ lpc[l] = "idle" /\ lpc' = [lpc EXCEPT ![l] = "enum"]
        /\ stayed' = [stayed EXCEPT ![l] = {n \in AllLayers : Present(n)}]
    BY DEF ListBegin, Keep, kernelVars, writerVars
  <1>2. TypeOK /\ LInv(l) BY ByLister DEF IInv
  <1>3. lpc'[l] = "enum" /\ stayed'[l] = {n \in AllLayers : Present(n)} BY <1>1, <1>2 DEF TypeOK
  <1>4. TypeOK' BY <1>1, <1>2 DEF TypeOK
  <1>5. index[l] = 0 /\ subs[l] = <<>> /\ events[l] = {} /\ out[l] = <<>> /\ handle[l].id = 0
    BY <1>1, <1>2 DEF LInv, ListInv
  <1>6. Listed(l)' = {} BY <1>1, <1>5 DEF Listed, ToSet
  <1>7. EnumInv(l)' BY <1>1, <1>2, <1>3, <1>5, <1>6 DEF EnumInv, Present, TypeOK
  <1>8. ListInv(l)' BY <1>1, <1>3, <1>5, <1>6 DEF ListInv
  <1>9. GetInv(l)' BY <1>1, <1>2, <1>3, <1>5 DEF GetInv, LInv
  <1>10. Exact(l)' /\ Fails(l)' BY <1>3 DEF Exact, Fails, Enumerated
  <1>11. \A k \in Listers : k # l => Same(k) BY <1>1, <1>2 DEF Same, TypeOK
  <1>12. QED BY <1>1, <1>4, <1>7, <1>8, <1>9, <1>10, <1>11, OneLister DEF LInv

\* The child at the index: not listed before unless one was created.
LEMMA SubkeyAtStep ==
  ASSUME IInv, NEW l \in Listers, SubkeyAt(l)
  PROVE  IInv'
  <1> DEFINE n == order[index[l] + 1]
  <1>1. /\ UNCHANGED <<key, order, ops, wpc, whandle, lpc, handle, info, out, err, stayed, events, had>>
        /\ lpc[l] = "enum" /\ index[l] < Len(order)
        /\ subs' = [subs EXCEPT ![l] = Append(subs[l], n)]
        /\ index' = [index EXCEPT ![l] = index[l] + 1]
    BY DEF SubkeyAt, Keep, kernelVars, writerVars
  <1>2. TypeOK /\ LInv(l) /\ OrderInv BY ByLister
  <1>3. index[l] \in Nat /\ subs[l] \in Seq(AllLayers) /\ order \in Seq(AllLayers) BY <1>2 DEF TypeOK
  <1>4. index[l] + 1 \in 1 .. Len(order) /\ n \in AllLayers BY <1>1, <1>3
  <1>5. Present(n) BY <1>2, <1>4 DEF OrderInv
  <1> HIDE DEF n
  <1>6. index'[l] = index[l] + 1 /\ subs'[l] = Append(subs[l], n) BY <1>1, <1>2 DEF TypeOK
  <1>7. TypeOK' BY <1>1, <1>2, <1>3, <1>4 DEF TypeOK
  <1>8. Len(subs'[l]) = Len(subs[l]) + 1 /\ subs'[l][Len(subs[l]) + 1] = n
          /\ \A j \in 1 .. Len(subs[l]) : subs'[l][j] = subs[l][j]
    BY <1>3, <1>4, <1>6
  <1>9. Listed(l)' = Listed(l) \cup {n}
    <2>1. DOMAIN subs[l] = 1 .. Len(subs[l]) /\ DOMAIN subs'[l] = 1 .. Len(subs[l]) + 1
      BY <1>3, <1>4, <1>6, <1>8
    <2>2. Len(subs[l]) \in Nat BY <1>3
    <2>3. \A j \in 1 .. Len(subs[l]) + 1 : j \in 1 .. Len(subs[l]) \/ j = Len(subs[l]) + 1 BY <2>2
    <2>4. 1 .. Len(subs[l]) \subseteq 1 .. Len(subs[l]) + 1 /\ Len(subs[l]) + 1 \in 1 .. Len(subs[l]) + 1
      BY <2>2
    <2>5. QED BY <1>8, <2>1, <2>3, <2>4 DEF Listed, ToSet
  <1>10. EnumInv(l)'
    <2>1. \A m \in stayed'[l] : Present(m)' BY <1>1, <1>2 DEF LInv, EnumInv, Present
    <2>2. ASSUME "deleted" \notin events'[l], NEW i \in 1 .. Len(order), order[i] \in stayed[l],
                 i <= index[l] + 1
          PROVE  order[i] \in Listed(l)'
      <3>1. CASE i = index[l] + 1 BY <1>9, <3>1 DEF n
      <3>2. CASE i <= index[l]
        BY <1>1, <1>2, <1>9, <2>2, <3>2 DEF LInv, EnumInv
      <3>3. QED BY <1>3, <2>2, <3>1, <3>2
    <2>3. ASSUME "created" \notin events'[l], NEW i \in 1 .. Len(order), order[i] \in Listed(l)'
          PROVE  i <= index[l] + 1
      <3>1. CASE order[i] = n
        <4>1. i = index[l] + 1 BY <1>2, <1>4, <3>1 DEF OrderInv, n
        <4>2. QED BY <1>3, <4>1
      <3>2. CASE order[i] \in Listed(l)
        <4>1. i <= index[l] BY <1>1, <1>2, <2>3, <3>2 DEF LInv, EnumInv
        <4>2. QED BY <1>3, <4>1
      <3>3. QED BY <1>9, <2>3, <3>1, <3>2
    <2>4. ASSUME "created" \notin events'[l]
          PROVE  \A i, j \in 1 .. Len(subs'[l]) : subs'[l][i] = subs'[l][j] => i = j
      <3>1. n \notin Listed(l)
        <4>1. n \in Listed(l) => index[l] + 1 <= index[l]
          BY <1>1, <1>2, <1>4, <2>4 DEF LInv, EnumInv, n
        <4>2. QED BY <1>3, <4>1
      <3>2. \A i \in 1 .. Len(subs[l]) : subs[l][i] # n BY <1>3, <3>1 DEF Listed, ToSet
      <3>3. \A i, j \in 1 .. Len(subs[l]) : subs[l][i] = subs[l][j] => i = j
        BY <1>1, <1>2, <2>4 DEF LInv, EnumInv
      <3>4. \A j \in 1 .. Len(subs'[l]) : j \in 1 .. Len(subs[l]) \/ j = Len(subs[l]) + 1
        BY <1>3, <1>8
      <3>5. QED BY <1>8, <3>2, <3>3, <3>4
    <2>5. QED BY <1>1, <1>6, <2>1, <2>2, <2>3, <2>4 DEF EnumInv
  <1>11. ListInv(l)' BY <1>1, <1>2, <1>5, <1>9 DEF LInv, ListInv, Present
  <1>12. GetInv(l)' BY <1>1, <1>2 DEF LInv, GetInv, Found, Live
  <1>13. Exact(l)' /\ Fails(l)' BY <1>1 DEF Exact, Fails, Enumerated
  <1>14. \A k \in Listers : k # l => Same(k) BY <1>1, <1>2 DEF Same, TypeOK
  <1>15. QED BY <1>1, <1>7, <1>10, <1>11, <1>12, <1>13, <1>14, OneLister DEF LInv

\* The index is past the last child, so that every layer that stayed is below it.
LEMMA SubkeysEndStep ==
  ASSUME IInv, NEW l \in Listers, SubkeysEnd(l)
  PROVE  IInv'
  <1>1. /\ UNCHANGED <<key, order, ops, wpc, whandle, subs, handle, info, out, err, stayed, events, had>>
        /\ lpc[l] = "enum" /\ index[l] >= Len(order)
        /\ lpc' = [lpc EXCEPT ![l] = "open"] /\ index' = [index EXCEPT ![l] = 1]
    BY DEF SubkeysEnd, PastLast, Keep, kernelVars, writerVars
  <1>2. TypeOK /\ LInv(l) /\ OrderInv BY ByLister
  <1>3. index[l] \in Nat /\ subs[l] \in Seq(AllLayers) /\ order \in Seq(AllLayers)
          /\ stayed[l] \subseteq AllLayers
    BY <1>2 DEF TypeOK
  <1>4. lpc'[l] = "open" /\ index'[l] = 1 BY <1>1, <1>2 DEF TypeOK
  <1>5. TypeOK' BY <1>1, <1>2 DEF TypeOK
  <1>6. Exact(l)'
    <2>1. ASSUME "deleted" \notin events[l], NEW n \in stayed[l] PROVE n \in Listed(l)
      <3>1. Present(n) BY <1>1, <1>2, <2>1 DEF LInv, EnumInv
      <3>2. PICK i \in 1 .. Len(order) : order[i] = n BY <1>2, <1>3, <2>1, <3>1 DEF OrderInv
      <3>3. i <= index[l] BY <1>1, <1>3
      <3>4. QED BY <1>1, <1>2, <2>1, <3>2, <3>3 DEF LInv, EnumInv
    <2>2. "created" \notin events[l] =>
            \A i, j \in 1 .. Len(subs[l]) : subs[l][i] = subs[l][j] => i = j
      BY <1>1, <1>2 DEF LInv, EnumInv
    <2>3. QED BY <1>1, <2>1, <2>2 DEF Exact, Listed
  <1>7. ListInv(l)'
    <2>1. out[l] = <<>> /\ handle[l].id = 0 BY <1>1, <1>2 DEF LInv, ListInv
    <2>2. 1 \in 1 .. Len(subs[l]) + 1 /\ Len(out[l]) = 1 - 1 /\ 1 .. 1 - 1 = {} BY <1>3, <2>1
    <2>3. "deletedLater" \notin events[l] => \A n \in Listed(l) : Present(n)
      BY <1>2 DEF LInv, ListInv
    <2>4. QED BY <1>1, <1>4, <2>1, <2>2, <2>3 DEF ListInv, Listed, Present
  <1>8. GetInv(l)' BY <1>1, <1>2, <1>4 DEF LInv, GetInv, Found, Live
  <1>9. EnumInv(l)' /\ Fails(l)' BY <1>4 DEF EnumInv, Fails
  <1>10. \A k \in Listers : k # l => Same(k) BY <1>1, <1>2 DEF Same, TypeOK
  <1>11. QED BY <1>1, <1>5, <1>6, <1>7, <1>8, <1>9, <1>10, OneLister DEF LInv

\* After the enumeration its result stands, whatever else a step of List does.
LEMMA ExactStays ==
  ASSUME NEW l \in Listers, LInv(l), Enumerated(l) \/ lpc'[l] = "failed",
         subs'[l] = subs[l], stayed'[l] = stayed[l], events'[l] = events[l], lpc'[l] # "enum"
  PROVE  Exact(l)' /\ EnumInv(l)'
  BY DEF LInv, Exact, EnumInv, Enumerated, Listed

\* Get opens the key: what it holds is the first value it had.
LEMMA GetOpenStep ==
  ASSUME IInv, NEW l \in Listers, GetOpen(l)
  PROVE  IInv'
  <1> DEFINE n == subs[l][index[l]]
             h == [name |-> n, id |-> key[n].id]
  <1>1. /\ UNCHANGED <<key, order, ops, wpc, whandle, index, subs, out, err, stayed, events>>
        /\ lpc[l] = "open" /\ index[l] <= Len(subs[l]) /\ Present(n)
        /\ handle' = [handle EXCEPT ![l] = h] /\ info' = [info EXCEPT ![l] = Default(n)]
        /\ had' = [had EXCEPT ![l] = {key[n]}] /\ lpc' = [lpc EXCEPT ![l] = "prec"]
    BY DEF GetOpen, Keep, kernelVars, writerVars
  <1>2. TypeOK /\ LInv(l) BY ByLister DEF IInv
  <1>3. index[l] \in 1 .. Len(subs[l]) + 1 /\ Len(out[l]) = index[l] - 1
          /\ (\A i \in 1 .. index[l] - 1 : out[l][i] = subs[l][i])
          /\ ("deletedLater" \notin events[l] => \A m \in Listed(l) : Present(m))
    BY <1>1, <1>2 DEF LInv, ListInv
  <1>4. subs[l] \in Seq(AllLayers) BY <1>2 DEF TypeOK
  <1>5. n \in AllLayers BY <1>1, <1>3, <1>4
  <1>6. key[n] \in Keys /\ key[n].id \in Nat /\ key[n].id # 0
    BY <1>1, <1>2, <1>5 DEF TypeOK, Keys, Present, Absent, KeyOf
  <1>7. h \in KeyHandles /\ h.name = n /\ h.id = key[n].id BY <1>5, <1>6 DEF KeyHandles
  <1>8. Default(n) \in [name : AllLayers, prec : Precedences, en : {"on", "off"}] /\ Default(n).name = n
    BY <1>5, NamesAssumption DEF Default
  <1> HIDE DEF h
  <1>9. TypeOK'
    BY <1>1, <1>2, <1>6, <1>7, <1>8 DEF TypeOK
  <1>10. lpc'[l] = "prec" /\ handle'[l] = h /\ info'[l] = Default(n) /\ had'[l] = {key[n]}
    BY <1>1, <1>2 DEF TypeOK
  <1>id. key[n].id <= ops BY <1>5 DEF IInv, OrderInv
  <1>11. ListInv(l)' BY <1>1, <1>3, <1>6, <1>7, <1>8, <1>10 DEF ListInv, Listed, Present
  <1>12. GetInv(l)' BY <1>1, <1>5, <1>6, <1>7, <1>10, <1>id DEF GetInv, Found, Live, Default
  <1>13. Exact(l)' /\ EnumInv(l)' BY <1>1, <1>2, <1>10, ExactStays DEF Enumerated
  <1>14. Fails(l)' BY <1>10 DEF Fails
  <1>15. \A k \in Listers : k # l => Same(k) BY <1>1, <1>2 DEF Same, TypeOK
  <1>16. QED BY <1>1, <1>9, <1>11, <1>12, <1>13, <1>14, <1>15, OneLister DEF LInv

\* What Get's handle shows is a key's values, or none.
LEMMA FoundIsKey ==
  ASSUME TypeOK, NEW l \in Listers
  PROVE  /\ Found(l) \in Keys /\ Found(l).prec \in Precedences \cup {"unset", "bad"}
         /\ Found(l).en \in {"on", "off", "unset", "bad"}
  <1>1. handle[l].name \in AllLayers BY DEF TypeOK, KeyHandles
  <1>2. key[handle[l].name] \in Keys BY <1>1 DEF TypeOK
  <1>3. Found(l) \in Keys BY <1>2 DEF Found, Keys
  <1>4. QED BY <1>3 DEF Keys, Absent, KeyOf, Unset

\* List ends: on a name whose layer is gone, on a malformed value, on a call
\* that is refused, or when no name is left.
LEMMA OverStep ==
  ASSUME IInv, NEW l \in Listers,
         GetOpenFails(l) \/ ReadMalformed(l) \/ CallRefused(l) \/ ListEnd(l)
  PROVE  IInv'
  <1>1. UNCHANGED <<key, order, ops, wpc, whandle, index, subs, handle, info, out, stayed, events, had>>
    BY DEF GetOpenFails, ReadMalformed, CallRefused, Fail, ListEnd, Keep, kernelVars, writerVars
  <1>2. PICK pc \in {"failed", "done"}, e \in {"none", "gone", "malformed", "refused"} :
          /\ lpc' = [lpc EXCEPT ![l] = pc] /\ err' = [err EXCEPT ![l] = e]
          /\ pc = "done" => lpc[l] = "open" /\ ListEnd(l)
          /\ pc = "failed" => e # "none" /\ lpc[l] # "done"
          /\ e = "gone" /\ pc = "failed" => GetOpenFails(l)
          /\ e = "malformed" /\ pc = "failed" => ReadMalformed(l)
    <2>1. TypeOK BY DEF IInv
    <2>2. CASE GetOpenFails(l) BY <2>2 DEF GetOpenFails, Fail
    <2>3. CASE ReadMalformed(l) BY <2>3 DEF ReadMalformed, Fail
    <2>4. CASE CallRefused(l) BY <2>4 DEF CallRefused, Fail
    <2>5. CASE ListEnd(l)
      <3>1. err' = [err EXCEPT ![l] = err[l]] /\ err[l] \in {"none", "gone", "malformed", "refused"}
        BY <2>1, <2>5 DEF ListEnd, TypeOK
      <3>2. QED BY <2>5, <3>1 DEF ListEnd
    <2>6. QED BY <2>2, <2>3, <2>4, <2>5
  <1>3. TypeOK /\ LInv(l) BY ByLister DEF IInv
  <1>4. lpc'[l] = pc /\ err'[l] = e BY <1>2, <1>3 DEF TypeOK
  <1>5. TypeOK' BY <1>1, <1>2, <1>3 DEF TypeOK
  <1>6. subs[l] \in Seq(AllLayers) /\ out[l] \in Seq(AllLayers) BY <1>3 DEF TypeOK
  <1>7. Fails(l)'
    <2>1. ASSUME GetOpenFails(l) PROVE "deletedLater" \in events[l]
      <3>1. lpc[l] = "open" /\ index[l] <= Len(subs[l]) /\ ~Present(subs[l][index[l]])
        BY <2>1 DEF GetOpenFails
      <3>2. index[l] \in 1 .. Len(subs[l]) BY <1>3, <1>6, <3>1 DEF LInv, ListInv
      <3>3. subs[l][index[l]] \in Listed(l) BY <1>6, <3>2 DEF Listed, ToSet
      <3>4. QED BY <1>3, <3>1, <3>3 DEF LInv, ListInv
    <2>2. ASSUME ReadMalformed(l) PROVE \E v \in had[l] : Malformed(v)
      <3>1. lpc[l] \in {"prec", "en", "owner"} /\ Malformed(Found(l))
        BY <2>2 DEF ReadMalformed, Malformed
      <3>2. handle[l].id # 0 BY <1>3, <3>1 DEF LInv, ListInv
      <3>3. Found(l) \in had[l] BY <1>3, <3>2 DEF LInv, GetInv
      <3>4. QED BY <3>1, <3>3
    <2>3. ASSUME ListEnd(l), lpc[l] = "open" PROVE out[l] = subs[l]
      <3>1. index[l] > Len(subs[l]) BY <2>3 DEF ListEnd
      <3>2. index[l] \in 1 .. Len(subs[l]) + 1 /\ Len(out[l]) = index[l] - 1
              /\ \A i \in 1 .. index[l] - 1 : out[l][i] = subs[l][i]
        BY <1>3, <2>3 DEF LInv, ListInv
      <3>3. Len(subs[l]) \in Nat BY <1>6
      <3>4. index[l] - 1 = Len(subs[l]) BY <3>1, <3>2, <3>3
      <3>5. QED BY <1>6, <3>2, <3>4, SeqEqual
    <2>4. CASE pc = "failed" BY <1>1, <1>2, <1>4, <2>1, <2>2, <2>4 DEF Fails
    <2>5. CASE pc = "done" BY <1>1, <1>2, <1>4, <2>3, <2>5 DEF Fails
    <2>6. QED BY <1>2, <2>4, <2>5
  <1>8. ListInv(l)' BY <1>1, <1>3, <1>4 DEF LInv, ListInv, Listed, Present
  <1>9. GetInv(l)' BY <1>1, <1>3, <1>4 DEF LInv, GetInv, Found, Live
  <1>10. Exact(l)' /\ EnumInv(l)'
    BY <1>1, <1>2, <1>3, <1>4, ExactStays DEF Enumerated
  <1>11. \A k \in Listers : k # l => Same(k) BY <1>1, <1>2, <1>3 DEF Same, TypeOK
  <1>12. QED BY <1>1, <1>5, <1>7, <1>8, <1>9, <1>10, <1>11, OneLister DEF LInv

\* A field read is what its layer says at that moment, and stands in had; where
\* it says nothing the default stands, which the field had until now.
LEMMA ReadStep ==
  ASSUME IInv, NEW l \in Listers, ReadPrecedence(l) \/ ReadEnabled(l)
  PROVE  IInv'
  <1>1. UNCHANGED <<key, order, ops, wpc, whandle, index, subs, handle, out, err, stayed, events, had>>
    BY DEF ReadPrecedence, ReadEnabled, Keep, kernelVars, writerVars
  <1>2. TypeOK /\ LInv(l) BY ByLister DEF IInv
  <1> DEFINE v == Found(l)
             Infos == [name : AllLayers, prec : Precedences, en : {"on", "off"}]
             Pcs == {"idle", "enum", "open", "prec", "en", "owner", "done", "failed"}
  <1>3. v.prec \in Precedences \cup {"unset", "bad"} /\ v.en \in {"on", "off", "unset", "bad"}
    BY <1>2, FoundIsKey
  <1>4. lpc[l] \in {"prec", "en"} /\ handle[l].id # 0 BY <1>2 DEF LInv, ListInv, ReadPrecedence, ReadEnabled
  <1>5. v \in had[l] BY <1>2, <1>4 DEF LInv, GetInv
  <1>6. /\ lpc[l] = "prec" => info[l].prec = "0"
        /\ info[l].en = "on"
        /\ lpc[l] = "en" => \E u \in had[l] : info[l].prec = Means(u.prec, "0")
    BY <1>2, <1>4 DEF LInv, GetInv
  <1>7. info \in [Listers -> Infos] /\ lpc \in [Listers -> Pcs] BY <1>2 DEF TypeOK
  <1> HIDE DEF v, Infos, Pcs
  <1>8. /\ lpc'[l] \in {"en", "owner"} /\ info'[l].name = info[l].name
        /\ lpc' \in [Listers -> Pcs] /\ info' \in [Listers -> Infos]
        /\ \A k \in Listers : k # l => lpc'[k] = lpc[k] /\ info'[k] = info[k]
        /\ \E u \in had[l] : info'[l].prec = Means(u.prec, "0")
        /\ lpc'[l] = "en" => info'[l].en = "on"
        /\ lpc'[l] = "owner" => \E u \in had[l] : info'[l].en = Means(u.en, "on")
    <2>1. CASE ReadPrecedence(l)
      <3>1. /\ lpc[l] = "prec" /\ lpc' = [lpc EXCEPT ![l] = "en"] /\ v.prec # "bad"
            /\ info' = IF v.prec # "unset" THEN [info EXCEPT ![l].prec = v.prec] ELSE info
        BY <2>1 DEF ReadPrecedence, v
      <3>2. lpc'[l] = "en" /\ (\A k \in Listers : k # l => lpc'[k] = lpc[k]) /\ lpc' \in [Listers -> Pcs]
        BY <1>7, <3>1 DEF Pcs
      <3>3. CASE v.prec = "unset"
        <4>1. info' = info /\ info[l].prec = Means(v.prec, "0") BY <1>6, <3>1, <3>3 DEF Means
        <4>2. QED BY <1>5, <1>6, <1>7, <3>2, <4>1
      <3>4. CASE v.prec # "unset"
        <4>1. info' = [info EXCEPT ![l].prec = v.prec] /\ v.prec \in Precedences
          BY <1>3, <3>1, <3>4
        <4>2. /\ info'[l].prec = v.prec /\ info'[l].en = info[l].en /\ info'[l].name = info[l].name
              /\ info' \in [Listers -> Infos] /\ \A k \in Listers : k # l => info'[k] = info[k]
          BY <1>7, <4>1 DEF Infos
        <4>3. v.prec = Means(v.prec, "0") BY <3>4 DEF Means
        <4>4. QED BY <1>5, <1>6, <3>2, <4>2, <4>3
      <3>5. QED BY <3>3, <3>4
    <2>2. CASE ReadEnabled(l)
      <3>1. /\ lpc[l] = "en" /\ lpc' = [lpc EXCEPT ![l] = "owner"] /\ v.en # "bad"
            /\ info' = IF v.en # "unset" THEN [info EXCEPT ![l].en = v.en] ELSE info
        BY <2>2 DEF ReadEnabled, v
      <3>2. lpc'[l] = "owner" /\ (\A k \in Listers : k # l => lpc'[k] = lpc[k]) /\ lpc' \in [Listers -> Pcs]
        BY <1>7, <3>1 DEF Pcs
      <3>3. \E u \in had[l] : info[l].prec = Means(u.prec, "0") BY <1>6, <3>1
      <3>4. CASE v.en = "unset"
        <4>1. info' = info /\ info[l].en = Means(v.en, "on") BY <1>6, <3>1, <3>4 DEF Means
        <4>2. QED BY <1>5, <1>7, <3>2, <3>3, <4>1
      <3>5. CASE v.en # "unset"
        <4>1. info' = [info EXCEPT ![l].en = v.en] /\ v.en \in {"on", "off"}
          BY <1>3, <3>1, <3>5
        <4>2. /\ info'[l].en = v.en /\ info'[l].prec = info[l].prec /\ info'[l].name = info[l].name
              /\ info' \in [Listers -> Infos] /\ \A k \in Listers : k # l => info'[k] = info[k]
          BY <1>7, <4>1 DEF Infos
        <4>3. v.en = Means(v.en, "on") BY <3>5 DEF Means
        <4>4. QED BY <1>5, <3>2, <3>3, <4>2, <4>3
      <3>6. QED BY <3>4, <3>5
    <2>3. QED BY <2>1, <2>2
  <1>9. TypeOK' BY <1>1, <1>2, <1>8 DEF TypeOK, Infos, Pcs
  <1>10. ListInv(l)' BY <1>1, <1>2, <1>4, <1>8 DEF LInv, ListInv, Listed, Present
  <1>11. GetInv(l)' BY <1>1, <1>2, <1>8 DEF LInv, GetInv, Found, Live
  <1>12. Exact(l)' /\ EnumInv(l)' BY <1>1, <1>2, <1>4, <1>8, ExactStays DEF Enumerated
  <1>13. Fails(l)' BY <1>8 DEF Fails
  <1>14. \A k \in Listers : k # l => Same(k) BY <1>1, <1>8 DEF Same
  <1>15. QED BY <1>1, <1>9, <1>10, <1>11, <1>12, <1>13, <1>14, OneLister DEF LInv

\* Get returns, and its Info is the next of the result.
LEMMA ReadOwnerStep ==
  ASSUME IInv, NEW l \in Listers, ReadOwner(l)
  PROVE  IInv'
  <1>1. /\ UNCHANGED <<key, order, ops, wpc, whandle, subs, err, stayed, events>>
        /\ lpc[l] = "owner" /\ lpc' = [lpc EXCEPT ![l] = "open"]
        /\ out' = [out EXCEPT ![l] = Append(out[l], info[l].name)]
        /\ index' = [index EXCEPT ![l] = index[l] + 1]
        /\ handle' = [handle EXCEPT ![l] = NoHandle]
        /\ info' = [info EXCEPT ![l] = Default(Base)] /\ had' = [had EXCEPT ![l] = {}]
    BY DEF ReadOwner, Keep, kernelVars, writerVars
  <1>2. TypeOK /\ LInv(l) BY ByLister DEF IInv
  <1>3. /\ index[l] \in 1 .. Len(subs[l]) + 1 /\ Len(out[l]) = index[l] - 1
        /\ \A i \in 1 .. index[l] - 1 : out[l][i] = subs[l][i]
        /\ index[l] <= Len(subs[l]) /\ info[l].name = subs[l][index[l]]
        /\ "deletedLater" \notin events[l] => \A n \in Listed(l) : Present(n)
    BY <1>1, <1>2 DEF LInv, ListInv
  <1>4. /\ subs[l] \in Seq(AllLayers) /\ out[l] \in Seq(AllLayers) /\ info[l].name \in AllLayers
        /\ Len(subs[l]) \in Nat /\ index[l] \in Nat
    BY <1>2 DEF TypeOK
  <1>5. NoHandle \in KeyHandles /\ NoHandle.id = 0
          /\ Default(Base) \in [name : AllLayers, prec : Precedences, en : {"on", "off"}]
    BY NamesAssumption DEF NoHandle, KeyHandles, Default, AllLayers
  <1>6. TypeOK' BY <1>1, <1>2, <1>4, <1>5 DEF TypeOK
  <1>7. /\ lpc'[l] = "open" /\ out'[l] = Append(out[l], info[l].name) /\ index'[l] = index[l] + 1
        /\ handle'[l] = NoHandle
    BY <1>1, <1>2 DEF TypeOK
  <1>8. ListInv(l)'
    <2>1. index'[l] \in 1 .. Len(subs[l]) + 1 BY <1>3, <1>4, <1>7
    <2>2. Len(out'[l]) = index'[l] - 1 BY <1>3, <1>4, <1>7
    <2>3. ASSUME NEW i \in 1 .. index'[l] - 1 PROVE out'[l][i] = subs[l][i]
      <3>1. CASE i = index[l] BY <1>3, <1>4, <1>7, <3>1
      <3>2. CASE i \in 1 .. index[l] - 1
        <4>1. i \in 1 .. Len(out[l]) BY <1>3, <3>2
        <4>2. out'[l][i] = out[l][i] BY <1>4, <1>7, <4>1
        <4>3. QED BY <1>3, <3>2, <4>2
      <3>3. i \in 1 .. (index[l] + 1) - 1 BY <1>7
      <3>4. i = index[l] \/ i \in 1 .. index[l] - 1 BY <1>4, <3>3
      <3>5. QED BY <3>1, <3>2, <3>4
    <2>4. QED BY <1>1, <1>3, <1>5, <1>7, <2>1, <2>2, <2>3 DEF ListInv, Listed, Present
  <1>9. GetInv(l)'
    <2>1. ops \in Nat /\ ops' = ops BY <1>1, <1>2 DEF TypeOK
    <2>2. QED BY <1>5, <1>7, <2>1 DEF GetInv
  <1>10. Exact(l)' /\ EnumInv(l)' BY <1>1, <1>2, <1>7, ExactStays DEF Enumerated
  <1>11. Fails(l)' BY <1>7 DEF Fails
  <1>12. \A k \in Listers : k # l => Same(k) BY <1>1, <1>2 DEF Same, TypeOK
  <1>13. QED BY <1>1, <1>6, <1>8, <1>9, <1>10, <1>11, <1>12, OneLister DEF LInv

-----------------------------------------------------------------------------
(* What others write.                                                      *)

\* What a commit on n does to lister k.
LEMMA Noted ==
  ASSUME TypeOK, NEW n \in AllLayers, Commit(n), NEW k \in Listers
  PROVE  /\ lpc'[k] = lpc[k] /\ index'[k] = index[k] /\ subs'[k] = subs[k] /\ handle'[k] = handle[k]
         /\ info'[k] = info[k] /\ out'[k] = out[k] /\ err'[k] = err[k]
         /\ stayed'[k] = IF lpc[k] = "enum" /\ key'[n].id = 0 THEN stayed[k] \ {n} ELSE stayed[k]
         /\ events[k] \subseteq events'[k]
         /\ lpc[k] = "enum" /\ ~Present(n) => "created" \in events'[k]
         /\ lpc[k] = "enum" /\ key'[n].id = 0 => "deleted" \in events'[k]
         /\ lpc[k] # "idle" /\ key'[n].id = 0 => "deletedLater" \in events'[k]
         /\ lpc[k] # "enum" => /\ "created" \in events'[k] <=> "created" \in events[k]
                               /\ "deleted" \in events'[k] <=> "deleted" \in events[k]
         /\ lpc[k] = "idle" => events'[k] = events[k]
         /\ had'[k] = IF Live(handle[k]) /\ handle[k].name = n THEN had[k] \cup {key'[n]} ELSE had[k]
  <1>1. UNCHANGED <<lpc, index, subs, handle, info, out, err>> BY DEF Commit, listVars
  <1>2. /\ stayed'[k] = IF lpc[k] = "enum" /\ key'[n].id = 0 THEN stayed[k] \ {n} ELSE stayed[k]
        /\ had'[k] = IF Live(handle[k]) /\ handle[k].name = n THEN had[k] \cup {key'[n]} ELSE had[k]
    BY DEF Commit, Note
  <1>3. events'[k] = events[k] \cup
                    (IF lpc[k] = "enum" /\ ~Present(n) THEN {"created"} ELSE {}) \cup
                    (IF lpc[k] = "enum" /\ key'[n].id = 0 THEN {"deleted"} ELSE {}) \cup
                    (IF lpc[k] # "idle" /\ key'[n].id = 0 THEN {"deletedLater"} ELSE {})
    BY DEF Commit, Note
  <1>4. QED BY <1>1, <1>2, <1>3

\* The types after a commit.
LEMMA CommitType ==
  ASSUME TypeOK, NEW n \in AllLayers, Commit(n), key' \in [AllLayers -> Keys], order' \in Seq(AllLayers),
         wpc' \in [Writers -> {"idle", "write"}], whandle' \in [Writers -> KeyHandles]
  PROVE  TypeOK'
  <1>1. UNCHANGED <<lpc, index, subs, handle, info, out, err>> /\ ops' = ops + 1 BY DEF Commit, listVars
  <1>2. stayed' \in [Listers -> SUBSET AllLayers] BY DEF TypeOK, Commit, Note
  <1>3. events' \in [Listers -> SUBSET {"created", "deleted", "deletedLater"}]
    BY DEF TypeOK, Commit, Note
  <1>4. had' \in [Listers -> SUBSET Keys] BY DEF TypeOK, Commit, Note
  <1>5. QED BY <1>1, <1>2, <1>3, <1>4 DEF TypeOK

\* The parts about a result and a failure do not look at the registry.
LEMMA ResultsStand ==
  ASSUME TypeOK, NEW n \in AllLayers, Commit(n), NEW k \in Listers, LInv(k)
  PROVE  Exact(k)' /\ Fails(k)'
  <1>1. lpc'[k] = lpc[k] /\ subs'[k] = subs[k] /\ out'[k] = out[k] /\ events[k] \subseteq events'[k]
          /\ err'[k] = err[k] /\ had[k] \subseteq had'[k]
    BY Noted
  <1>2. Fails(k)' BY <1>1 DEF LInv, Fails, Malformed
  <1>3. CASE lpc[k] = "enum" BY <1>1, <1>2, <1>3 DEF Exact, Enumerated
  <1>4. CASE lpc[k] # "enum"
    <2>1. stayed'[k] = stayed[k] BY <1>4, Noted
    <2>2. /\ "created" \in events'[k] <=> "created" \in events[k]
          /\ "deleted" \in events'[k] <=> "deleted" \in events[k]
      BY <1>4, Noted
    <2>3. Listed(k)' = Listed(k) BY <1>1 DEF Listed
    <2>4. Enumerated(k)' <=> Enumerated(k) BY <1>1 DEF Enumerated
    <2>5. Exact(k)' BY <1>1, <2>1, <2>2, <2>3, <2>4 DEF LInv, Exact
    <2>6. QED BY <1>2, <2>5
  <1>5. QED BY <1>3, <1>4

\* The fields read so far stay among the values had, which only grow.
LEMMA FieldsStand ==
  ASSUME TypeOK, NEW n \in AllLayers, Commit(n), NEW k \in Listers, LInv(k),
         handle[k].id # 0 => Found(k)' \in had'[k]
  PROVE  GetInv(k)'
  <1>1. had[k] \subseteq had'[k] /\ lpc'[k] = lpc[k] /\ info'[k] = info[k] /\ handle'[k] = handle[k]
    BY Noted
  <1>2. ops \in Nat /\ ops' = ops + 1 /\ handle[k].id \in Nat BY DEF TypeOK, Commit, KeyHandles
  <1>3. QED BY <1>1, <1>2 DEF LInv, GetInv

\* A key is created, or values of one that exists are written.
LEMMA PutStep ==
  ASSUME IInv, NEW n \in AllLayers, NEW v \in Keys, v.id # 0, Present(n) => v.id = key[n].id,
         ~Present(n) => v.id = ops + 1,
         PutKey(n, v), Commit(n),
         wpc' \in [Writers -> {"idle", "write"}], whandle' \in [Writers -> KeyHandles]
  PROVE  IInv'
  <1>1. TypeOK /\ OrderInv BY ByLister
  <1>2. key' = [key EXCEPT ![n] = v] BY DEF PutKey
  <1>3. key' \in [AllLayers -> Keys] /\ key'[n] = v /\ \A m \in AllLayers : m # n => key'[m] = key[m]
    BY <1>1, <1>2 DEF TypeOK
  <1>4. order \in Seq(AllLayers) /\ Len(order) \in Nat BY <1>1 DEF TypeOK
  <1>5. key'[n].id # 0 BY <1>3
  <1>6. \A m \in AllLayers : Present(m)' <=> Present(m) \/ m = n BY <1>3 DEF Present
  <1>ids. ops \in Nat /\ ops' = ops + 1 /\ \A m \in AllLayers : key[m].id <= ops /\ key[m].id \in Nat
    BY <1>1 DEF TypeOK, Keys, Absent, KeyOf, OrderInv, Commit
  <1>idsNext. \A m \in AllLayers : key'[m].id <= ops' BY <1>3, <1>ids
  <1>7. CASE Present(n)
    <2>1. order' = order BY <1>7 DEF PutKey
    <2>2. TypeOK' BY <1>1, <1>3, <1>4, <2>1, CommitType
    <2>3. OrderInv' BY <1>1, <1>6, <1>7, <1>idsNext, <2>1 DEF OrderInv
    <2>4. ASSUME NEW k \in Listers PROVE LInv(k)'
      <3>1. LInv(k) BY ByLister
      <3>2. /\ lpc'[k] = lpc[k] /\ index'[k] = index[k] /\ subs'[k] = subs[k] /\ handle'[k] = handle[k]
            /\ info'[k] = info[k] /\ out'[k] = out[k] /\ stayed'[k] = stayed[k] /\ events[k] \subseteq events'[k]
            /\ lpc[k] = "idle" => events'[k] = events[k]
        BY <1>1, <1>5, Noted
      <3>3. stayed[k] \subseteq AllLayers /\ Listed(k) \subseteq AllLayers /\ Listed(k)' = Listed(k)
        BY <1>1, <3>2 DEF TypeOK, Listed, ToSet
      <3>4. EnumInv(k)' BY <1>6, <2>1, <3>1, <3>2, <3>3 DEF LInv, EnumInv
      <3>5. ListInv(k)' BY <1>6, <3>1, <3>2, <3>3 DEF LInv, ListInv
      <3>6. handle[k].name \in AllLayers BY <1>1 DEF TypeOK, KeyHandles
      <3>7. GetInv(k)'
        <4>1. had'[k] = IF Live(handle[k]) /\ handle[k].name = n THEN had[k] \cup {key'[n]} ELSE had[k]
          BY <1>1, Noted
        <4>2. ASSUME handle[k].id # 0
              PROVE  Found(k)' \in had'[k]
          BY <1>3, <1>7, <3>1, <3>2, <3>6, <4>1, <4>2 DEF LInv, GetInv, Found, Live
        <4>3. QED BY <1>1, <3>1, <4>2, FieldsStand
      <3>8. QED BY <1>1, <3>1, <3>4, <3>5, <3>7, ResultsStand DEF LInv
    <2>5. QED BY <2>2, <2>3, <2>4, ByListerNext
  <1>8. CASE ~Present(n)
    <2>1. PICK i \in 1 .. Len(order) + 1 : order' = InsertAt(order, i, n) BY <1>8 DEF PutKey
    <2>2. /\ order' \in Seq(AllLayers) /\ Len(order') = Len(order) + 1
          /\ \A j \in 1 .. i - 1 : order'[j] = order[j]
          /\ order'[i] = n
          /\ \A j \in i .. Len(order) : order'[j + 1] = order[j]
      BY <1>4, <2>1, Inserted
    <2>3. ASSUME NEW j \in 1 .. Len(order')
          PROVE  \/ j \in 1 .. i - 1 /\ j \in 1 .. Len(order) /\ order'[j] = order[j]
                 \/ j = i /\ order'[j] = n
                 \/ j > i /\ j - 1 \in 1 .. Len(order) /\ order'[j] = order[j - 1]
      <3>1. CASE j < i BY <1>4, <2>2, <2>3, <3>1
      <3>2. CASE j = i BY <2>2, <3>2
      <3>3. CASE j > i
        <4>1. j - 1 \in i .. Len(order) /\ (j - 1) + 1 = j BY <1>4, <2>2, <2>3, <3>3
        <4>2. order'[j] = order[j - 1] BY <2>2, <4>1
        <4>3. QED BY <1>4, <3>3, <4>1, <4>2
      <3>4. QED BY <1>4, <3>1, <3>2, <3>3
    <2>4. \A j \in 1 .. Len(order) : order[j] # n BY <1>1, <1>8 DEF OrderInv
    <2>5. TypeOK' BY <1>1, <1>3, <2>2, CommitType
    <2>6. OrderInv'
      <3>1. ASSUME NEW a \in 1 .. Len(order'), NEW b \in 1 .. Len(order'), order'[a] = order'[b]
            PROVE  a = b
        <4>1. \A x, y \in 1 .. Len(order) : order[x] = order[y] => x = y BY <1>1 DEF OrderInv
        <4>2. a \in Int /\ b \in Int /\ i \in Int BY <1>4, <2>2
        <4>3. CASE a < i
          <5>1. a \in 1 .. Len(order) /\ order'[a] = order[a] BY <2>3, <4>2, <4>3
          <5>2. CASE b < i
            <6>1. b \in 1 .. Len(order) /\ order'[b] = order[b] BY <2>3, <4>2, <5>2
            <6>2. QED BY <3>1, <4>1, <5>1, <6>1
          <5>3. CASE b = i BY <2>2, <2>4, <3>1, <5>1, <5>3
          <5>4. CASE b > i
            <6>1. b - 1 \in 1 .. Len(order) /\ order'[b] = order[b - 1] BY <2>3, <4>2, <5>4
            <6>2. a = b - 1 BY <3>1, <4>1, <5>1, <6>1
            <6>3. QED BY <4>2, <4>3, <5>4, <6>2
          <5>5. QED BY <4>2, <5>2, <5>3, <5>4
        <4>4. CASE a = i
          <5>1. order'[b] = n BY <2>2, <3>1, <4>4
          <5>2. QED BY <2>3, <2>4, <4>4, <5>1
        <4>5. CASE a > i
          <5>1. a - 1 \in 1 .. Len(order) /\ order'[a] = order[a - 1] BY <2>3, <4>2, <4>5
          <5>2. CASE b < i
            <6>1. b \in 1 .. Len(order) /\ order'[b] = order[b] BY <2>3, <4>2, <5>2
            <6>2. b = a - 1 BY <3>1, <4>1, <5>1, <6>1
            <6>3. QED BY <4>2, <4>5, <5>2, <6>2
          <5>3. CASE b = i BY <2>2, <2>4, <3>1, <5>1, <5>3
          <5>4. CASE b > i
            <6>1. b - 1 \in 1 .. Len(order) /\ order'[b] = order[b - 1] BY <2>3, <4>2, <5>4
            <6>2. a - 1 = b - 1 BY <3>1, <4>1, <5>1, <6>1
            <6>3. QED BY <4>2, <6>2
          <5>5. QED BY <4>2, <5>2, <5>3, <5>4
        <4>6. QED BY <4>2, <4>3, <4>4, <4>5
      <3>2. ASSUME NEW m \in AllLayers PROVE Present(m)' <=> \E j \in 1 .. Len(order') : order'[j] = m
        <4>1. ASSUME Present(m)' PROVE \E j \in 1 .. Len(order') : order'[j] = m
          <5>1. CASE m = n
            <6>1. i \in 1 .. Len(order') BY <1>4, <2>2
            <6>2. QED BY <2>2, <5>1, <6>1
          <5>2. CASE m # n
            <6>1. PICK a \in 1 .. Len(order) : order[a] = m BY <1>1, <1>6, <4>1, <5>2 DEF OrderInv
            <6>2. CASE a < i
              <7>1. a \in 1 .. i - 1 /\ a \in 1 .. Len(order') BY <1>4, <2>2, <6>2
              <7>2. QED BY <2>2, <6>1, <7>1
            <6>3. CASE a >= i
              <7>1. a \in i .. Len(order) /\ a + 1 \in 1 .. Len(order') BY <1>4, <2>2, <6>3
              <7>2. QED BY <2>2, <6>1, <7>1
            <6>4. QED BY <1>4, <6>2, <6>3
          <5>3. QED BY <5>1, <5>2
        <4>2. ASSUME NEW j \in 1 .. Len(order'), order'[j] = m PROVE Present(m)'
          <5>1. m = n \/ \E a \in 1 .. Len(order) : order[a] = m BY <2>3, <4>2
          <5>2. QED BY <1>1, <1>6, <5>1 DEF OrderInv
        <4>3. QED BY <4>1, <4>2
      <3>3. QED BY <1>idsNext, <3>1, <3>2 DEF OrderInv
    <2>7. ASSUME NEW k \in Listers PROVE LInv(k)'
      <3>1. LInv(k) BY ByLister
      <3>2. /\ lpc'[k] = lpc[k] /\ index'[k] = index[k] /\ subs'[k] = subs[k] /\ handle'[k] = handle[k]
            /\ info'[k] = info[k] /\ out'[k] = out[k] /\ stayed'[k] = stayed[k] /\ events[k] \subseteq events'[k]
            /\ lpc[k] = "enum" => "created" \in events'[k]
            /\ lpc[k] = "idle" => events'[k] = events[k]
        BY <1>1, <1>8, <1>5, Noted
      <3>3. stayed[k] \subseteq AllLayers /\ Listed(k) \subseteq AllLayers /\ Listed(k)' = Listed(k)
              /\ index[k] \in Nat
        BY <1>1, <3>2 DEF TypeOK, Listed, ToSet
      <3>4. EnumInv(k)'
        <4> SUFFICES ASSUME lpc[k] = "enum" PROVE EnumInv(k)' BY <3>2 DEF EnumInv
        <4>1. \A m \in stayed[k] : Present(m)' BY <1>6, <3>1, <3>3 DEF LInv, EnumInv
        <4>2. ASSUME "deleted" \notin events'[k], NEW j \in 1 .. Len(order'),
                     order'[j] \in stayed[k], j <= index[k]
              PROVE  order'[j] \in Listed(k)
          <5>1. order'[j] # n BY <1>8, <3>1, <4>2 DEF LInv, EnumInv
          <5>2. PICK a \in 1 .. Len(order) : a <= j /\ order'[j] = order[a]
            BY <1>4, <2>3, <5>1
          <5>3. a <= index[k] BY <1>4, <3>3, <4>2, <5>2
          <5>4. QED BY <3>1, <3>2, <4>2, <5>2, <5>3 DEF LInv, EnumInv
        <4>3. QED BY <3>2, <3>3, <4>1, <4>2 DEF EnumInv
      <3>5. ListInv(k)' BY <1>6, <3>1, <3>2, <3>3 DEF LInv, ListInv
      <3>6. handle[k].name \in AllLayers BY <1>1 DEF TypeOK, KeyHandles
      <3>7. GetInv(k)'
        <4>1. had'[k] = IF Live(handle[k]) /\ handle[k].name = n THEN had[k] \cup {key'[n]} ELSE had[k]
          BY <1>1, Noted
        <4>2. ASSUME handle[k].id # 0
              PROVE  Found(k)' \in had'[k]
          <5>1. ~Live(handle[k])' \/ handle[k].name # n
            <6>1. handle[k].id <= ops /\ handle[k].id \in Nat BY <1>1, <3>1 DEF LInv, GetInv, TypeOK, KeyHandles
            <6>2. v.id = ops + 1 BY <1>8
            <6>3. v.id # handle[k].id BY <1>ids, <6>1, <6>2
            <6>4. QED BY <1>3, <3>2, <6>3 DEF Live
          <5>2. Found(k)' = Found(k)
            BY <1>3, <1>8, <3>2, <3>6, <4>2, <5>1 DEF Found, Live, Present
          <5>3. QED BY <3>1, <4>1, <4>2, <5>2 DEF LInv, GetInv
        <4>3. QED BY <1>1, <3>1, <4>2, FieldsStand
      <3>8. QED BY <1>1, <3>1, <3>4, <3>5, <3>7, ResultsStand DEF LInv
    <2>8. QED BY <2>5, <2>6, <2>7, ByListerNext
  <1>9. QED BY <1>7, <1>8

\* A key is deleted: the children after it move down, and with them all that the
\* listers know of positions; a deletion is noted wherever it may be missed.
LEMMA DropStep ==
  ASSUME IInv, NEW n \in AllLayers, DropKey(n), Commit(n),
         wpc' \in [Writers -> {"idle", "write"}], whandle' \in [Writers -> KeyHandles]
  PROVE  IInv'
  <1>1. TypeOK /\ OrderInv BY ByLister
  <1>2. key' = [key EXCEPT ![n] = Absent] BY DEF DropKey
  <1>3. /\ key' \in [AllLayers -> Keys] /\ key'[n] = Absent
        /\ \A m \in AllLayers : m # n => key'[m] = key[m]
    BY <1>1, <1>2 DEF TypeOK, Keys
  <1>4. key'[n].id = 0 BY <1>3 DEF Absent, KeyOf
  <1>5. order \in Seq(AllLayers) /\ Len(order) \in Nat BY <1>1 DEF TypeOK
  <1>6. PICK i \in 1 .. Len(order) : order[i] = n /\ order' = RemoveAt(order, i) BY DEF DropKey
  <1>7. /\ order' \in Seq(AllLayers) /\ Len(order') = Len(order) - 1
        /\ \A j \in 1 .. i - 1 : order'[j] = order[j]
        /\ \A j \in i .. Len(order) - 1 : order'[j] = order[j + 1]
    <2>1. order' = RemoveAt(order, i) BY <1>6
    <2>2. i \in 1 .. Len(order) OBVIOUS
    <2>3. QED BY ONLY <1>5, <2>1, <2>2, Removed
  <1>8. Present(n) BY <1>1, <1>6 DEF OrderInv
  <1>9. \A m \in AllLayers : Present(m)' <=> Present(m) /\ m # n BY <1>3, <1>4 DEF Present
  <1>10. \A x, y \in 1 .. Len(order) : order[x] = order[y] => x = y BY <1>1 DEF OrderInv
  <1>11. i \in Int BY <1>5
  <1>12. ASSUME NEW j \in 1 .. Len(order')
         PROVE  /\ j < i => j \in 1 .. Len(order) /\ order'[j] = order[j]
                /\ j >= i => j + 1 \in 1 .. Len(order) /\ order'[j] = order[j + 1]
    <2>1. j \in 1 .. Len(order) - 1 BY <1>7
    <2>2. CASE j < i
      <3>1. j \in 1 .. i - 1 /\ j \in 1 .. Len(order) BY <1>5, <1>11, <2>1, <2>2
      <3>2. QED BY <1>7, <1>11, <2>1, <2>2, <3>1
    <2>3. CASE j >= i
      <3>1. j \in i .. Len(order) - 1 /\ j + 1 \in 1 .. Len(order) BY <1>5, <1>11, <2>1, <2>3
      <3>2. QED BY <1>7, <1>11, <2>1, <2>3, <3>1
    <2>4. QED BY <1>11, <2>1, <2>2, <2>3
  <1>13. ASSUME NEW a \in 1 .. Len(order), a # i
         PROVE  \E j \in 1 .. Len(order') : order'[j] = order[a] /\ (a < i => j = a) /\ (a > i => j = a - 1)
    <2>1. CASE a < i
      <3>1. a \in 1 .. Len(order') /\ a \in 1 .. i - 1 BY <1>5, <1>7, <1>11, <2>1
      <3>2. QED BY <1>7, <1>11, <2>1, <3>1
    <2>2. CASE a > i
      <3>1. a - 1 \in 1 .. Len(order') /\ a - 1 \in i .. Len(order) - 1 /\ (a - 1) + 1 = a
        BY <1>5, <1>7, <1>11, <2>2
      <3>2. order'[a - 1] = order[a] BY <1>7, <3>1
      <3>3. QED BY <1>11, <2>2, <3>1, <3>2
    <2>3. QED BY <1>11, <1>13, <2>1, <2>2
  <1>14. TypeOK' BY <1>1, <1>3, <1>7, CommitType
  <1>15. OrderInv'
    <2>1. ASSUME NEW a \in 1 .. Len(order'), NEW b \in 1 .. Len(order'), order'[a] = order'[b]
          PROVE  a = b
      <3>1. a \in Int /\ b \in Int BY <1>5, <1>7
      <3>2. CASE a < i
        <4>1. a \in 1 .. Len(order) /\ order'[a] = order[a] BY <1>12, <3>2
        <4>2. CASE b < i BY <1>10, <1>12, <2>1, <4>1, <4>2
        <4>3. CASE b >= i
          <5>1. b + 1 \in 1 .. Len(order) /\ order'[b] = order[b + 1] BY <1>12, <4>3
          <5>2. a = b + 1 BY <1>10, <2>1, <4>1, <5>1
          <5>3. QED BY <1>11, <3>1, <3>2, <4>3, <5>2
        <4>4. QED BY <1>11, <3>1, <4>2, <4>3
      <3>3. CASE a >= i
        <4>1. a + 1 \in 1 .. Len(order) /\ order'[a] = order[a + 1] BY <1>12, <3>3
        <4>2. CASE b < i
          <5>1. b \in 1 .. Len(order) /\ order'[b] = order[b] BY <1>12, <4>2
          <5>2. b = a + 1 BY <1>10, <2>1, <4>1, <5>1
          <5>3. QED BY <1>11, <3>1, <3>3, <4>2, <5>2
        <4>3. CASE b >= i
          <5>1. b + 1 \in 1 .. Len(order) /\ order'[b] = order[b + 1] BY <1>12, <4>3
          <5>2. a + 1 = b + 1 BY <1>10, <2>1, <4>1, <5>1
          <5>3. QED BY <3>1, <5>2
        <4>4. QED BY <1>11, <3>1, <4>2, <4>3
      <3>4. QED BY <1>11, <3>1, <3>2, <3>3
    <2>2. ASSUME NEW m \in AllLayers PROVE Present(m)' <=> \E j \in 1 .. Len(order') : order'[j] = m
      <3>1. ASSUME Present(m)' PROVE \E j \in 1 .. Len(order') : order'[j] = m
        <4>1. PICK a \in 1 .. Len(order) : order[a] = m BY <1>1, <1>9, <3>1 DEF OrderInv
        <4>2. a # i BY <1>6, <1>9, <3>1, <4>1
        <4>3. QED BY <1>13, <4>1, <4>2
      <3>2. ASSUME NEW j \in 1 .. Len(order'), order'[j] = m PROVE Present(m)'
        <4>1. PICK a \in 1 .. Len(order) : a # i /\ order[a] = m
          <5>1. j \in Int BY <1>5, <1>7
          <5>2. CASE j < i BY <1>11, <1>12, <3>2, <5>1, <5>2
          <5>3. CASE j >= i
            <6>1. j + 1 \in 1 .. Len(order) /\ order'[j] = order[j + 1] BY <1>12, <5>3
            <6>2. j + 1 # i BY <1>11, <5>1, <5>3
            <6>3. QED BY <3>2, <6>1, <6>2
          <5>4. QED BY <1>11, <5>1, <5>2, <5>3
        <4>2. Present(m) BY <1>1, <4>1 DEF OrderInv
        <4>3. m # n BY <1>6, <1>10, <4>1
        <4>4. QED BY <1>9, <4>2, <4>3
      <3>3. QED BY <3>1, <3>2
    <2>3. \A m \in AllLayers : key'[m].id <= ops'
      <3>1. ops \in Nat /\ ops' = ops + 1 /\ \A m \in AllLayers : key[m].id <= ops /\ key[m].id \in Nat
        BY <1>1 DEF TypeOK, Keys, Absent, KeyOf, OrderInv, Commit
      <3>2. QED BY <1>3, <1>4, <3>1
    <2>4. QED BY <2>1, <2>2, <2>3 DEF OrderInv
  <1>16. ASSUME NEW k \in Listers PROVE LInv(k)'
    <2>1. LInv(k) BY ByLister
    <2>2. /\ lpc'[k] = lpc[k] /\ index'[k] = index[k] /\ subs'[k] = subs[k] /\ handle'[k] = handle[k]
          /\ info'[k] = info[k] /\ out'[k] = out[k] /\ events[k] \subseteq events'[k]
          /\ lpc[k] = "idle" => events'[k] = events[k]
      BY <1>1, Noted
    <2>3. /\ lpc[k] = "enum" => "deleted" \in events'[k]
          /\ lpc[k] # "idle" => "deletedLater" \in events'[k]
      BY <1>1, <1>4, Noted
    <2>4. lpc[k] = "enum" => stayed'[k] = stayed[k] \ {n} BY <1>1, <1>4, Noted
    <2>5. stayed[k] \subseteq AllLayers /\ Listed(k) \subseteq AllLayers /\ Listed(k)' = Listed(k)
            /\ index[k] \in Nat
      BY <1>1, <2>2 DEF TypeOK, Listed, ToSet
    <2>6. EnumInv(k)'
      <3> SUFFICES ASSUME lpc[k] = "enum" PROVE EnumInv(k)' BY <2>2 DEF EnumInv
      <3>1. \A m \in stayed'[k] : Present(m)' BY <1>9, <2>1, <2>4, <2>5 DEF LInv, EnumInv
      <3>2. ASSUME "created" \notin events'[k], NEW j \in 1 .. Len(order'), order'[j] \in Listed(k)
            PROVE  j <= index[k]
        <4>1. "created" \notin events[k] BY <2>2, <3>2
        <4>2. j \in Int BY <1>5, <1>7
        <4>3. \A a \in 1 .. Len(order) : order[a] \in Listed(k) => a <= index[k]
          BY <2>1, <4>1 DEF LInv, EnumInv
        <4>4. CASE j < i BY <1>12, <3>2, <4>3, <4>4
        <4>5. CASE j >= i
          <5>1. j + 1 \in 1 .. Len(order) /\ order'[j] = order[j + 1] BY <1>12, <4>5
          <5>2. j + 1 <= index[k] BY <3>2, <4>3, <5>1
          <5>3. QED BY <2>5, <4>2, <5>2
        <4>6. QED BY <1>11, <4>2, <4>4, <4>5
      <3>3. "created" \notin events'[k] =>
              \A a, b \in 1 .. Len(subs[k]) : subs[k][a] = subs[k][b] => a = b
        BY <2>1, <2>2 DEF LInv, EnumInv
      <3>4. QED BY <2>2, <2>3, <2>5, <3>1, <3>2, <3>3 DEF EnumInv
    <2>7. ListInv(k)'
      <3>1. lpc[k] = "idle" => Listed(k) = {} BY <2>1 DEF LInv, ListInv, Listed, ToSet
      <3>2. QED BY <2>1, <2>2, <2>3, <2>5, <3>1 DEF LInv, ListInv
    <2>8. GetInv(k)'
      <3>1. handle[k].name \in AllLayers BY <1>1 DEF TypeOK, KeyHandles
      <3>2. had'[k] = IF Live(handle[k]) /\ handle[k].name = n THEN had[k] \cup {key'[n]} ELSE had[k]
        BY <1>1, Noted
      <3>3. ASSUME handle[k].id # 0
            PROVE  Found(k)' \in had'[k]
        <4>1. lpc[k] # "idle" BY <2>1, <3>3 DEF LInv, ListInv
        <4>2. CASE handle[k].name = n
          <5>1. Found(k)' = Absent BY <1>4, <2>2, <4>2 DEF Found, Live
          <5>2. CASE Live(handle[k]) BY <1>3, <3>2, <4>2, <5>1, <5>2
          <5>3. CASE ~Live(handle[k]) BY <2>1, <3>2, <3>3, <5>1, <5>3 DEF LInv, GetInv, Found
          <5>4. QED BY <5>2, <5>3
        <4>3. CASE handle[k].name # n
          BY <1>3, <2>1, <2>2, <3>1, <3>2, <3>3, <4>3 DEF LInv, GetInv, Found, Live
        <4>4. QED BY <4>2, <4>3
      <3>4. QED BY <1>1, <2>1, <3>3, FieldsStand
    <2>9. QED BY <1>1, <2>1, <2>6, <2>7, <2>8, ResultsStand DEF LInv
  <1>17. QED BY <1>14, <1>15, <1>16, ByListerNext

-----------------------------------------------------------------------------
(* The steps of the writers.                                               *)

\* A key is written under the identity it has, or created under a new one.
LEMMA WriteKeyStep ==
  ASSUME IInv, NEW n \in AllLayers, NEW v \in Metadata,
         PutKey(n, KeyOf(Identity(n), v)), Commit(n), UNCHANGED writerVars
  PROVE  IInv'
  <1>1. TypeOK BY DEF IInv
  <1>2. key[n] \in Keys /\ ops \in Nat BY <1>1 DEF TypeOK
  <1> DEFINE i == Identity(n)
             u == KeyOf(i, v)
  <1>3. i \in Nat \ {0} /\ (Present(n) => i = key[n].id) /\ (~Present(n) => i = ops + 1)
    <2>1. CASE Present(n)
      <3>1. key[n].id \in Nat \ {0} BY <1>2, <2>1 DEF Present, Keys, Absent, KeyOf
      <3>2. QED BY <2>1, <3>1 DEF Identity
    <2>2. CASE ~Present(n) BY <1>2, <2>2 DEF Identity
    <2>3. QED BY <2>1, <2>2
  <1>4. PutKey(n, u) OBVIOUS
  <1> HIDE DEF i
  <1>5. u \in Keys /\ u.id = i BY <1>3 DEF Metadata, Keys, KeyOf
  <1> HIDE DEF u
  <1>6. wpc' \in [Writers -> {"idle", "write"}] /\ whandle' \in [Writers -> KeyHandles]
    BY <1>1 DEF TypeOK, writerVars
  <1>7. u.id # 0 /\ (Present(n) => u.id = key[n].id) /\ (~Present(n) => u.id = ops + 1)
    BY <1>3, <1>5
  <1>8. QED BY <1>4, <1>5, <1>6, <1>7, PutStep

\* Create: both values of the layer's key, and its owner as it is.
LEMMA CreateStep ==
  ASSUME IInv, NEW w \in Writers, NEW n \in AllLayers, NEW p \in Precedences,
         NEW e \in {"on", "off"}, Create(w, n, p, e)
  PROVE  IInv'
  <1>1. TypeOK BY DEF IInv
  <1>2. key[n] \in Keys BY <1>1 DEF TypeOK
  <1>3. key[n].own \in {"ok", "bad"} BY <1>2 DEF Keys, Absent, KeyOf, Unset
  <1> DEFINE v == [prec |-> p, en |-> e, own |-> key[n].own]
  <1>4. v \in Metadata BY <1>3 DEF Metadata
  <1>5. PutKey(n, KeyOf(Identity(n), v)) /\ Commit(n) /\ UNCHANGED writerVars
    BY DEF Create, CreateValues
  <1> HIDE DEF v
  <1>6. QED BY <1>4, <1>5, WriteKeyStep

\* Another program's write: whatever it leaves.
LEMMA HandWriteStep ==
  ASSUME IInv, NEW w \in Writers, NEW n \in AllLayers, NEW v \in ByHand, HandWrite(w, n, v)
  PROVE  IInv'
  <1>1. v \in Metadata BY ByHandAssumption
  <1>2. PutKey(n, KeyOf(Identity(n), v)) /\ Commit(n) /\ UNCHANGED writerVars BY DEF HandWrite
  <1>3. QED BY <1>1, <1>2, WriteKeyStep

\* A writer that is done has let its key go.
LEMMA WriterEnds ==
  ASSUME TypeOK, NEW w \in Writers, WriteEnds(w)
  PROVE  wpc' \in [Writers -> {"idle", "write"}] /\ whandle' \in [Writers -> KeyHandles]
  BY NamesAssumption DEF TypeOK, WriteEnds, NoHandle, KeyHandles, AllLayers

\* SetPrecedence and SetEnabled: one value of a key that is live.
LEMMA SetStep ==
  ASSUME IInv, NEW w \in Writers, NEW n \in AllLayers,
         \/ \E p \in Precedences : SetPrecedence(w, n, p)
         \/ \E e \in {"on", "off"} : SetEnabled(w, n, e)
  PROVE  IInv'
  <1>1. TypeOK BY DEF IInv
  <1>2. Holds(w, n) /\ Commit(n) /\ WriteEnds(w) BY DEF SetPrecedence, SetEnabled
  <1>3. key[n] \in Keys /\ key[n].id # 0 /\ Present(n)
    BY <1>1, <1>2 DEF TypeOK, Holds, Live, Present
  <1>4. key[n] \in [id : Nat \ {0}, prec : Precedences \cup {"unset", "bad"},
                    en : {"on", "off", "unset", "bad"}, own : {"ok", "bad"}]
    BY <1>3 DEF Keys, Absent, KeyOf
  <1>5. PICK v \in Keys : v.id = key[n].id /\ PutKey(n, v)
    <2>1. CASE \E p \in Precedences : SetPrecedence(w, n, p)
      <3>1. PICK p \in Precedences : PutKey(n, [key[n] EXCEPT !.prec = p]) BY <2>1 DEF SetPrecedence
      <3>2. [key[n] EXCEPT !.prec = p] \in Keys /\ [key[n] EXCEPT !.prec = p].id = key[n].id
        BY <1>4 DEF Keys
      <3>3. QED BY <3>1, <3>2
    <2>2. CASE \E e \in {"on", "off"} : SetEnabled(w, n, e)
      <3>1. PICK e \in {"on", "off"} : PutKey(n, [key[n] EXCEPT !.en = e]) BY <2>2 DEF SetEnabled
      <3>2. [key[n] EXCEPT !.en = e] \in Keys /\ [key[n] EXCEPT !.en = e].id = key[n].id
        BY <1>4 DEF Keys
      <3>3. QED BY <3>1, <3>2
    <2>3. QED BY <2>1, <2>2
  <1>6. wpc' \in [Writers -> {"idle", "write"}] /\ whandle' \in [Writers -> KeyHandles]
    BY <1>1, <1>2, WriterEnds
  <1>7. v.id # 0 BY <1>3, <1>5
  <1>8. QED BY <1>2, <1>3, <1>5, <1>6, <1>7, PutStep

\* Delete.
LEMMA DeleteStep ==
  ASSUME IInv, NEW w \in Writers, NEW n \in AllLayers, Delete(w, n)
  PROVE  IInv'
  <1>1. TypeOK /\ DropKey(n) /\ Commit(n) /\ WriteEnds(w) BY DEF IInv, Delete
  <1>2. wpc' \in [Writers -> {"idle", "write"}] /\ whandle' \in [Writers -> KeyHandles]
    BY <1>1, WriterEnds
  <1>3. QED BY <1>1, <1>2, DropStep

\* What touches neither the registry nor a lister leaves the invariant.
LEMMA WriterAlone ==
  ASSUME IInv, UNCHANGED <<kernelVars, listVars, stayed, events, had>>,
         wpc' \in [Writers -> {"idle", "write"}], whandle' \in [Writers -> KeyHandles]
  PROVE  IInv'
  <1>1. /\ UNCHANGED <<key, order, ops>> /\ UNCHANGED <<lpc, index, subs, handle, info, out, err>>
        /\ UNCHANGED <<stayed, events, had>>
    BY DEF kernelVars, listVars
  <1>2. TypeOK' BY <1>1 DEF IInv, TypeOK
  <1>3. OrderInv' BY <1>1 DEF IInv, OrderInv, Present
  <1>4. \A k \in Listers : Same(k) BY <1>1 DEF Same
  <1>5. \A k \in Listers : LInv(k)' BY <1>1, <1>4, ByLister, Untouched
  <1>6. QED BY <1>2, <1>3, <1>5, ByListerNext

\* OpenForWrite, and a write that fails.
LEMMA WriterStep ==
  ASSUME IInv, NEW w \in Writers, WriteFails(w) \/ \E n \in AllLayers : OpenForWrite(w, n)
  PROVE  IInv'
  <1>1. TypeOK BY DEF IInv
  <1>2. UNCHANGED <<kernelVars, listVars, stayed, events, had>> BY DEF WriteFails, OpenForWrite
  <1>3. CASE WriteFails(w)
    <2>1. WriteEnds(w) BY <1>3 DEF WriteFails
    <2>2. QED BY <1>1, <1>2, <2>1, WriterEnds, WriterAlone
  <1>4. CASE \E n \in AllLayers : OpenForWrite(w, n)
    <2>1. PICK n \in AllLayers : OpenForWrite(w, n) BY <1>4
    <2>2. [name |-> n, id |-> key[n].id] \in KeyHandles
      BY <1>1 DEF TypeOK, KeyHandles, Keys, Absent, KeyOf
    <2>3. wpc' \in [Writers -> {"idle", "write"}] /\ whandle' \in [Writers -> KeyHandles]
      BY <1>1, <2>1, <2>2 DEF TypeOK, OpenForWrite
    <2>4. QED BY <1>2, <2>3, WriterAlone
  <1>5. QED BY <1>3, <1>4

-----------------------------------------------------------------------------
(* The theorems.                                                           *)

\* Every step of every client, and stuttering, preserves the invariant.
LEMMA NextInv == IInv /\ [Next]_vars => IInv'
  <1> SUFFICES ASSUME IInv, [Next]_vars PROVE IInv' OBVIOUS
  <1>1. ASSUME NEW l \in Listers, ListStep(l) PROVE IInv'
    BY <1>1, ListBeginStep, SubkeyAtStep, SubkeysEndStep, GetOpenStep, OverStep, ReadStep, ReadOwnerStep
    DEF ListStep
  <1>2. ASSUME NEW w \in Writers, WriteStep(w) PROVE IInv'
    <2>1. CASE WriteFails(w) BY <2>1, WriterStep
    <2>2. ASSUME NEW n \in AllLayers,
                 \/ \E p \in Precedences, e \in {"on", "off"} : Create(w, n, p, e)
                 \/ \E v \in ByHand : HandWrite(w, n, v)
                 \/ OpenForWrite(w, n) \/ Delete(w, n)
                 \/ \E p \in Precedences : SetPrecedence(w, n, p)
                 \/ \E e \in {"on", "off"} : SetEnabled(w, n, e)
          PROVE  IInv'
      BY <2>2, CreateStep, HandWriteStep, WriterStep, DeleteStep, SetStep
    <2>3. QED BY <1>2, <2>1, <2>2 DEF WriteStep
  <1>3. CASE UNCHANGED vars
    <2>1. UNCHANGED <<kernelVars, listVars, stayed, events, had>> /\ UNCHANGED <<wpc, whandle>>
      BY <1>3 DEF vars, writerVars
    <2>2. wpc' \in [Writers -> {"idle", "write"}] /\ whandle' \in [Writers -> KeyHandles]
      BY <2>1 DEF IInv, TypeOK
    <2>3. QED BY <2>1, <2>2, WriterAlone
  <1>4. QED BY <1>1, <1>2, <1>3 DEF Next

\* The inductive invariant holds of every interleaving of List, Create,
\* SetPrecedence, SetEnabled, Delete and what other programs write by hand.
THEOREM Invariance == Spec => []IInv
  BY InitInv, NextInv, PTL DEF Spec

\* What Subkeys returns: an enumeration by position misses a layer that was there
\* all along only when one was deleted meanwhile, and names a layer twice only
\* when one was created.
THEOREM Enumeration == Spec => []EnumerationExact
  <1>1. IInv => EnumerationExact BY DEF IInv
  <1>2. QED BY <1>1, Invariance, PTL

\* Each field of an Info is what its layer said, value or default, at some moment
\* since Get opened its key.
THEOREM Fields == Spec => []FieldsCurrent
  <1>1. IInv => FieldsCurrent BY DEF IInv, GetInv, FieldsCurrent
  <1>2. QED BY <1>1, Invariance, PTL

\* A List that fails met a deletion since it began, a malformed value of the
\* layer it was reading, or a refusal; one that succeeds has an Info for each name
\* Subkeys returned.
THEOREM Listing == Spec => []ListFailsForCause
  <1>1. IInv => ListFailsForCause BY DEF IInv
  <1>2. QED BY <1>1, Invariance, PTL
=============================================================================
