------------------------ MODULE EmissionPolicyProofs ------------------------
(***************************************************************************)
(* Proofs about EmissionPolicy, for any types, tiers and cache size, and   *)
(* any number of registry changes at any point of a call.                  *)
(*                                                                         *)
(* IInv holds whatever the registry does.  AbsenceInv adds what is true    *)
(* while there is no Events key to hold, where Generic stays; elsewhere it *)
(* is false, as the counterexample of run EmissionPolicy_ancestor shows.   *)
(***************************************************************************)
EXTENDS EmissionPolicy, SequenceTheorems, TLAPS

USE TypesAssumption, TiersAssumption, VolatileAssumption, RefusableAssumption,
    CacheMaxAssumption, MaxChangesAssumption

-----------------------------------------------------------------------------
(* Paths, and what the registry says of a type.                            *)

\* The keys on the path of a type are in the registry's domain, Events first.
LEMMA Prefixes ==
  ASSUME NEW t \in Types
  PROVE  /\ t \in Seq(Nat) /\ Len(t) \in Nat /\ SubSeq(t, 1, 0) = <<>> /\ <<>> \in Paths
         /\ \A n \in 0 .. Len(t) : SubSeq(t, 1, n) \in Paths
  <1>1. t \in Seq(Nat) /\ Len(t) \in Nat OBVIOUS
  <1>2. SubSeq(t, 1, 0) \in Seq(Nat) /\ Len(SubSeq(t, 1, 0)) = 0 BY <1>1, SubSeqProperties
  <1>3. SubSeq(t, 1, 0) = <<>> BY <1>2, EmptySeq
  <1>4. \A n \in 0 .. Len(t) : SubSeq(t, 1, n) \in Paths BY DEF Paths
  <1>5. QED BY <1>1, <1>3, <1>4 DEF Paths

\* Events itself is a path, whatever the types.
LEMMA EventsIsPath == <<>> \in Paths
  BY DEF Paths

\* A walk that read d + 1 keys, all there were, has found what the registry says.
LEMMA WalkResolves ==
  ASSUME NEW t \in Types, NEW d \in 0 .. Len(t), NEW f,
         \A m \in 0 .. d : Present(SubSeq(t, 1, m)),
         d = Len(t) \/ ~Present(SubSeq(t, 1, d + 1)),
         Nearest(t, d + 1, f)
  PROVE  Resolve(t) = f
  <1> DEFINE set == {n \in 0 .. Len(t) : /\ \A m \in 0 .. n : Present(SubSeq(t, 1, m))
                                         /\ tree[SubSeq(t, 1, n)] # "unset"}
  <1>1. Len(t) \in Nat /\ d \in Nat BY Prefixes
  <1>2. \A n \in set : n \in 0 .. d
    <2> TAKE n \in set
    <2>1. n \in 0 .. Len(t) /\ \A m \in 0 .. n : Present(SubSeq(t, 1, m)) OBVIOUS
    <2>2. CASE d = Len(t) BY <2>1, <2>2
    <2>3. CASE ~Present(SubSeq(t, 1, d + 1))
      <3>1. d + 1 \notin 0 .. n BY <2>1, <2>3
      <3>2. QED BY <1>1, <2>1, <3>1
    <2>4. QED BY <2>2, <2>3
  <1>3. \A n \in 0 .. d : n \in set <=> tree[SubSeq(t, 1, n)] # "unset"
    <2> TAKE n \in 0 .. d
    <2>1. n \in 0 .. Len(t) /\ 0 .. n \subseteq 0 .. d BY <1>1
    <2>2. QED BY <2>1
  <1>4. Resolve(t) = IF set = {} THEN "unset"
                     ELSE tree[SubSeq(t, 1, CHOOSE n \in set : \A m \in set : m <= n)]
    BY DEF Resolve
  <1>5. 0 .. (d + 1) - 1 = 0 .. d BY <1>1
  <1>6. CASE f = "unset" /\ \A m \in 0 .. d : tree[SubSeq(t, 1, m)] = "unset"
    <2>1. set = {} BY <1>2, <1>3, <1>6
    <2> HIDE DEF set
    <2>2. QED BY <1>4, <1>6, <2>1
  <1>7. CASE /\ f # "unset"
             /\ \E n \in 0 .. d : /\ tree[SubSeq(t, 1, n)] = f
                                  /\ \A m \in n + 1 .. d : tree[SubSeq(t, 1, m)] = "unset"
    <2>1. PICK n \in 0 .. d : /\ tree[SubSeq(t, 1, n)] = f
                              /\ \A m \in n + 1 .. d : tree[SubSeq(t, 1, m)] = "unset"
      BY <1>7
    <2>2. n \in set BY <1>3, <1>7, <2>1
    <2>3. \A m \in set : m <= n
      <3> TAKE m \in set
      <3>1. m \in 0 .. d /\ tree[SubSeq(t, 1, m)] # "unset" BY <1>2, <1>3
      <3>2. m \notin n + 1 .. d BY <2>1, <3>1
      <3>3. QED BY <1>1, <3>1, <3>2
    <2>4. \A k \in set : (\A m \in set : m <= k) => k = n
      <3> TAKE k \in set
      <3>1. (\A m \in set : m <= k) => k <= n /\ n <= k BY <2>2, <2>3
      <3>2. k \in Int /\ n \in Int BY <1>1, <1>2
      <3>3. QED BY <3>1, <3>2
    <2> HIDE DEF set
    <2>5. (CHOOSE k \in set : \A m \in set : m <= k) = n BY <2>2, <2>3, <2>4
    <2>6. QED BY <1>4, <2>1, <2>2, <2>5
  <1>8. QED BY <1>5, <1>6, <1>7 DEF Nearest

\* One more key read: its setting, if it has one, is the nearest.
LEMMA Deepens ==
  ASSUME NEW t \in Types, NEW d \in Nat, NEW f, Nearest(t, d, f)
  PROVE  Nearest(t, d + 1, IF tree[SubSeq(t, 1, d)] # "unset" THEN tree[SubSeq(t, 1, d)] ELSE f)
  <1> DEFINE s == tree[SubSeq(t, 1, d)]
  <1>1. 0 .. (d + 1) - 1 = (0 .. d - 1) \cup {d} /\ d \in 0 .. (d + 1) - 1 OBVIOUS
  <1>2. CASE s # "unset"
    <2>1. d + 1 .. (d + 1) - 1 = {} OBVIOUS
    <2>2. QED BY <1>1, <1>2, <2>1 DEF Nearest
  <1>3. CASE s = "unset"
    <2>1. CASE f = "unset" /\ \A m \in 0 .. d - 1 : tree[SubSeq(t, 1, m)] = "unset"
      BY <1>1, <1>3, <2>1 DEF Nearest
    <2>2. CASE f # "unset"
      <3>1. PICK n \in 0 .. d - 1 : /\ tree[SubSeq(t, 1, n)] = f
                                    /\ \A m \in n + 1 .. d - 1 : tree[SubSeq(t, 1, m)] = "unset"
        BY <2>2 DEF Nearest
      <3>2. \A m \in n + 1 .. (d + 1) - 1 : m \in n + 1 .. d - 1 \/ m = d OBVIOUS
      <3>3. n \in 0 .. (d + 1) - 1 OBVIOUS
      <3>4. \A m \in n + 1 .. (d + 1) - 1 : tree[SubSeq(t, 1, m)] = "unset" BY <1>3, <3>1, <3>2
      <3>5. QED BY <1>3, <2>2, <3>1, <3>3, <3>4 DEF Nearest
    <2>3. QED BY <2>1, <2>2 DEF Nearest
  <1>4. QED BY <1>2, <1>3

-----------------------------------------------------------------------------
(* Types and stages.                                                       *)

\* A call in progress is one of Enabled, on a type of the domain.
LEMMA RealCall ==
  ASSUME TypeOK, call # NoCall
  PROVE  call.type \in Types /\ call.tier \in Tiers
  BY DEF TypeOK

\* A walk is on the path of its type.
LEMMA HereIsPath ==
  ASSUME IInv, pc \in {"read", "child"}
  PROVE  /\ call.type \in Types /\ Len(call.type) \in Nat /\ depth \in 0 .. Len(call.type)
         /\ Here \in Paths
  <1>1. call.type \in Types /\ depth <= Len(call.type) /\ depth \in Nat
    BY RealCall DEF IInv, TypeOK, StageInv
  <1>2. Len(call.type) \in Nat BY <1>1, Prefixes
  <1>3. depth \in 0 .. Len(call.type) BY <1>1, <1>2
  <1>4. QED BY <1>1, <1>2, <1>3, Prefixes DEF Here

\* It begins at Events.
LEMMA RootIsEvents ==
  ASSUME IInv, pc \in {"read", "child"}, depth = 0
  PROVE  Here = <<>>
  <1>1. call.type \in Types BY HereIsPath
  <1>2. QED BY <1>1, Prefixes DEF Here

\* OpenPolicy's first state: nothing is open, watched or cached.
LEMMA InitInv == Init => IInv
  <1> SUFFICES ASSUME Init PROVE IInv OBVIOUS
  <1>1. tree \in [Paths -> Settings \cup {"absent"}] BY DEF Init, Settings
  <1>2. generic \in {"present", "absent"} BY DEF Init
  <1>3. TypeOK BY <1>1, <1>2 DEF Init, TypeOK, Settings, EmptyCache, NoCall
  <1>4. StageInv /\ HandleInv /\ AliveInv BY DEF Init, StageInv, HandleInv, AliveInv, EmptyCache
  <1>5. StandInv /\ CacheFresh /\ SettingInv /\ WalkInv
    BY DEF Init, StandInv, CacheFresh, SettingInv, WalkInv
  <1>6. QED BY <1>3, <1>4, <1>5 DEF IInv

\* The steps of others leave the call in progress and the Policy's fields alone.
LEMMA EnvironmentFrame ==
  ASSUME Environment
  PROVE  UNCHANGED <<root, rootWatched, ancestor, closed, cache, pc, news, try, depth, found, call,
                     excused, answer, handles>>
  BY DEF Environment, RegSetEnabled, RegCreateKey, RegDeleteKey, RegCreateGeneric, RegDeleteGeneric,
         RegChangeAccess, WatchBreaks, Tick, Change, policyVars, walkVars, callVars, registryVars

\* They keep the types, and with them the stage and the handles.
LEMMA EnvironmentType ==
  ASSUME IInv, Environment
  PROVE  TypeOK' /\ StageInv' /\ HandleInv'
  <1>1. UNCHANGED <<root, rootWatched, ancestor, closed, cache, pc, news, try, depth, found, call,
                    excused, answer, handles>>
    BY EnvironmentFrame
  <1>2. StageInv' /\ HandleInv' BY <1>1 DEF IInv, StageInv, HandleInv
  <1>3. tree' \in [Paths -> Settings \cup {"absent"}] /\ generic' \in {"present", "absent"}
          /\ access' \in {"granted", "denied"} /\ due' \in {"yes", "no"} /\ touched' \in {"yes", "no"}
    BY DEF IInv, TypeOK, Environment, RegSetEnabled, RegCreateKey, RegDeleteKey, RegCreateGeneric,
           RegDeleteGeneric, RegChangeAccess, WatchBreaks, Tick, Change, registryVars, Settings, policyVars
  <1>4. alive' \subseteq {"root", "ancestor", "walk"}
    BY DEF IInv, TypeOK, Environment, RegSetEnabled, RegCreateKey, RegDeleteKey, RegCreateGeneric,
           RegDeleteGeneric, RegChangeAccess, WatchBreaks, Tick
  <1>5. pending' \subseteq {"change", "gone"}
    BY DEF IInv, TypeOK, Environment, RegSetEnabled, RegCreateKey, RegDeleteKey, RegCreateGeneric,
           RegDeleteGeneric, RegChangeAccess, WatchBreaks, Tick, Notify
  <1>6. changes' \in 0 .. MaxChanges
    BY DEF IInv, TypeOK, Environment, RegSetEnabled, RegCreateKey, RegDeleteKey, RegCreateGeneric,
           RegDeleteGeneric, RegChangeAccess, WatchBreaks, Tick, Change, registryVars
  <1>7. QED BY <1>1, <1>2, <1>3, <1>4, <1>5, <1>6 DEF IInv, TypeOK

-----------------------------------------------------------------------------
(* The steps of others, and freshness.                                     *)

\* A change of the tree leaves a record on a watched root: the change's, or the
\* one queued when the key it watches went.
LEMMA Noticed ==
  ASSUME IInv, RegSetEnabled \/ RegCreateKey \/ RegDeleteKey, rootWatched = "yes"
  PROVE  pending' # {}
  <1>1. Watching = "root" BY DEF Watching
  <1>2. "root" \notin alive => "gone" \in pending BY DEF IInv, AliveInv
  <1>3. "root" \in alive => Present(<<>>) /\ ancestor = "none" BY DEF IInv, AliveInv, StageInv
  <1>4. CASE RegSetEnabled BY <1>1, <1>2, <1>4 DEF RegSetEnabled, Notify
  <1>5. CASE RegCreateKey
    <2>1. PICK p \in Paths : /\ ~Present(p)
                             /\ Notify(IF p = <<>> THEN ancestor = "Generic" /\ "ancestor" \in alive
                                       ELSE Watching = "root" /\ "root" \in alive, "change")
      BY <1>5 DEF RegCreateKey
    <2>2. CASE "root" \in alive
      <3>1. p # <<>> BY <1>3, <2>1, <2>2
      <3>2. QED BY <1>1, <2>1, <2>2, <3>1 DEF Notify
    <2>3. CASE "root" \notin alive BY <1>2, <2>1, <2>3 DEF Notify
    <2>4. QED BY <2>2, <2>3
  <1>6. CASE RegDeleteKey
    <2>1. PICK p \in Paths :
            CASE Watching = "root" /\ "root" \in alive ->
                   pending' = pending \cup {IF p = <<>> THEN "gone" ELSE "change"}
              [] ancestor = "Generic" /\ "ancestor" \in alive -> Notify(p = <<>>, "change")
              [] OTHER -> UNCHANGED pending
      BY <1>6 DEF RegDeleteKey
    <2>2. CASE "root" \in alive BY <1>1, <1>3, <2>1, <2>2
    <2>3. CASE "root" \notin alive BY <1>2, <2>1, <2>3 DEF Notify
    <2>4. QED BY <2>2, <2>3
  <1>7. QED BY <1>4, <1>5, <1>6

\* What is said of the tree stands while the tree does.
LEMMA SameTree ==
  ASSUME tree' = tree
  PROVE  /\ \A t \in Types : Resolve(t)' = Resolve(t)
         /\ \A q : Present(q)' <=> Present(q)
  BY DEF Resolve, Present

\* The steps of others preserve the invariant: where they change the tree, what is
\* claimed of a watched cache or of an undisturbed call ceases to be claimed.
LEMMA EnvironmentStep ==
  ASSUME IInv, Environment
  PROVE  IInv'
  <1>1. TypeOK' /\ StageInv' /\ HandleInv' BY EnvironmentType
  <1>2. UNCHANGED <<root, rootWatched, ancestor, closed, cache, pc, news, try, depth, found, call,
                    excused, answer, handles>>
    BY EnvironmentFrame
  <1>3. CASE RegSetEnabled \/ RegCreateKey \/ RegDeleteKey
    <2>1. touched' = "yes" BY <1>3 DEF RegSetEnabled, RegCreateKey, RegDeleteKey, Change
    <2>2. rootWatched = "yes" => pending' # {} BY <1>3, Noticed
    <2>3. CacheFresh' /\ SettingInv' /\ WalkInv'
      BY <1>2, <2>1, <2>2 DEF CacheFresh, SettingInv, WalkInv, Steady, Undisturbed
    <2>4. AliveInv'
      <3>1. CASE RegSetEnabled
        <4>1. PICK p \in Paths, v \in Settings : /\ tree' = [tree EXCEPT ![p] = v] /\ alive' = alive
                                                /\ pending \subseteq pending'
          BY <3>1 DEF RegSetEnabled, Notify
        <4>2. Present(<<>>) => Present(<<>>)'
          BY <4>1, EventsIsPath DEF IInv, TypeOK, Present, Settings
        <4>3. QED BY <1>2, <2>1, <4>1, <4>2 DEF IInv, AliveInv
      <3>2. CASE RegCreateKey
        <4>1. PICK p \in Paths : /\ tree' = [tree EXCEPT ![p] = "unset"] /\ alive' = alive
                                 /\ pending \subseteq pending'
          BY <3>2 DEF RegCreateKey, Notify
        <4>2. Present(<<>>) => Present(<<>>)'
          BY <4>1, EventsIsPath DEF IInv, TypeOK, Present
        <4>3. QED BY <1>2, <2>1, <4>1, <4>2 DEF IInv, AliveInv
      <3>3. CASE RegDeleteKey
        <4>1. PICK p \in Paths :
                /\ tree' = [tree EXCEPT ![p] = "absent"] /\ alive' = alive \ Dangling(p)
                /\ CASE Watching = "root" /\ "root" \in alive ->
                          pending' = pending \cup {IF p = <<>> THEN "gone" ELSE "change"}
                     [] ancestor = "Generic" /\ "ancestor" \in alive -> Notify(p = <<>>, "change")
                     [] OTHER -> UNCHANGED pending
          BY <3>3 DEF RegDeleteKey
        <4>2. pending \subseteq pending' BY <4>1 DEF Notify
        <4>3. CASE p = <<>>
          <5>1. "root" \notin alive' BY <4>1, <4>3 DEF Dangling
          <5>2. ASSUME rootWatched = "yes", "root" \in alive PROVE "gone" \in pending'
            <6>1. Watching = "root" BY <5>2 DEF Watching
            <6>2. ancestor # "Generic" BY <5>2 DEF IInv, StageInv
            <6>3. pending' = pending \cup {IF p = <<>> THEN "gone" ELSE "change"}
              BY <4>1, <5>2, <6>1, <6>2
            <6>4. QED BY <4>3, <6>3
          <5>3. QED BY <1>2, <2>1, <4>2, <5>1, <5>2 DEF IInv, AliveInv
        <4>4. CASE p # <<>>
          <5>1. "root" \in alive' <=> "root" \in alive BY <4>1, <4>4 DEF Dangling
          <5>2. Present(<<>>)' <=> Present(<<>>)
            BY <4>1, <4>4, EventsIsPath DEF IInv, TypeOK, Present
          <5>3. QED BY <1>2, <2>1, <4>2, <5>1, <5>2 DEF IInv, AliveInv
        <4>5. QED BY <4>3, <4>4
      <3>4. QED BY <1>3, <3>1, <3>2, <3>3
    <2>5. StandInv'
      <3> SUFFICES ASSUME pc \in {"read", "child"}, HereAlive' PROVE Present(Here)'
        BY <1>2 DEF StandInv
      <3>1. Here' = Here BY <1>2 DEF Here
      <3>2. CASE RegSetEnabled \/ RegCreateKey
        <4>1. alive' = alive BY <3>2 DEF RegSetEnabled, RegCreateKey
        <4>2. Present(Here) BY <1>2, <4>1 DEF IInv, StandInv, HereAlive
        <4>3. PICK p \in Paths, v \in Settings : tree' = [tree EXCEPT ![p] = v]
          BY <3>2 DEF RegSetEnabled, RegCreateKey, Settings
        <4>4. tree'[Here] # "absent" BY <4>2, <4>3, HereIsPath DEF IInv, TypeOK, Present, Settings
        <4>5. QED BY <3>1, <4>4 DEF Present
      <3>3. CASE RegDeleteKey
        <4>1. PICK p \in Paths : tree' = [tree EXCEPT ![p] = "absent"] /\ alive' = alive \ Dangling(p)
          BY <3>3 DEF RegDeleteKey
        <4>2. HereAlive BY <1>2, <4>1 DEF HereAlive
        <4>3. Present(Here) BY <4>2 DEF IInv, StandInv
        <4>4. p # Here
          <5>1. SUFFICES ASSUME p = Here PROVE FALSE OBVIOUS
          <5>2. CASE depth = 0
            <6>1. Here = <<>> BY <5>2, RootIsEvents
            <6>2. "root" \notin alive' BY <4>1, <5>1, <6>1 DEF Dangling
            <6>3. QED BY <1>2, <5>2, <6>2 DEF HereAlive
          <5>3. CASE depth # 0
            <6>1. "walk" \notin alive' BY <4>1, <5>1 DEF Dangling, Here
            <6>2. QED BY <1>2, <5>3, <6>1 DEF HereAlive
          <5>4. QED BY <5>2, <5>3
        <4>5. tree'[Here] # "absent" BY <4>1, <4>3, <4>4, HereIsPath DEF IInv, TypeOK, Present
        <4>6. QED BY <3>1, <4>5 DEF Present
      <3>4. QED BY <1>3, <3>2, <3>3
    <2>6. QED BY <1>1, <2>3, <2>4, <2>5 DEF IInv
  <1>4. CASE RegCreateGeneric \/ RegDeleteGeneric \/ RegChangeAccess \/ WatchBreaks \/ Tick
    <2>1. /\ tree' = tree /\ pending \subseteq pending' /\ touched' \in {touched, "yes"}
          /\ "root" \in alive' <=> "root" \in alive
          /\ "walk" \in alive' <=> "walk" \in alive
      BY <1>4 DEF RegCreateGeneric, RegDeleteGeneric, RegChangeAccess, WatchBreaks, Tick, Notify,
                  Change, registryVars
    <2>2. touched' = "no" => touched = "no" BY <2>1
    <2>3. AliveInv' BY <1>2, <2>1, <2>2, SameTree DEF IInv, AliveInv
    <2>4. CacheFresh' BY <1>2, <2>1, SameTree DEF IInv, CacheFresh
    <2>5. SettingInv' BY <1>2, <2>1, <2>2, SameTree DEF IInv, SettingInv, Undisturbed, CacheCurrent
    <2>6. Steady' => Steady BY <1>2, <2>1, <2>2 DEF Steady, Undisturbed
    <2>7. WalkInv' BY <1>2, <2>1, <2>6 DEF IInv, WalkInv, HereAlive, Nearest, Present
    <2>8. StandInv' BY <1>2, <2>1 DEF IInv, StandInv, HereAlive, Here, Present
    <2>9. QED BY <1>1, <2>3, <2>4, <2>5, <2>7, <2>8 DEF IInv
  <1>5. QED BY <1>3, <1>4 DEF Environment

-----------------------------------------------------------------------------
(* teardown and establish.                                                 *)

\* Between calls and while draining, what the Policy holds is all there is.
LEMMA HeldIsAll ==
  ASSUME IInv, pc \notin {"armAncestor", "read", "child"}
  PROVE  handles = Held
  <1>1. CASE root = "held" BY <1>1 DEF IInv, StageInv, HandleInv, Held
  <1>2. CASE root # "held" /\ ancestor # "none" BY <1>2 DEF IInv, HandleInv, Held
  <1>3. CASE root # "held" /\ ancestor = "none" BY <1>3 DEF IInv, TypeOK, HandleInv, Held
  <1>4. QED BY <1>1, <1>2, <1>3

\* Teardown leaves no handle, no watch and nothing cached.
LEMMA TornDown ==
  ASSUME IInv, pc \in {"idle", "drain"}, Teardown
  PROVE  /\ handles' = 0 /\ root' = "none" /\ ancestor' = "none" /\ rootWatched' = "no"
         /\ alive' = {} /\ pending' = {} /\ cache' = EmptyCache
  <1>1. handles = Held /\ handles \in Nat BY HeldIsAll DEF IInv, TypeOK
  <1>2. handles' = 0 BY <1>1 DEF Teardown
  <1>3. QED BY <1>2 DEF Teardown

\* From drain to the first turn of establish.
LEMMA EstablishStep ==
  ASSUME IInv, pc = "drain", closed = "no", Establish, news' = {},
         UNCHANGED <<registryVars, walkVars, call, answer, excused, touched>>
  PROVE  IInv'
  <1>1. /\ handles' = 0 /\ root' = "none" /\ ancestor' = "none" /\ rootWatched' = "no"
        /\ alive' = {} /\ pending' = {} /\ cache' = EmptyCache /\ pc' = "open"
        /\ UNCHANGED <<due, closed>>
    BY TornDown DEF Establish
  <1>2. TypeOK' BY <1>1 DEF IInv, TypeOK, registryVars, walkVars, EmptyCache
  <1>3. StageInv' BY <1>1 DEF IInv, StageInv, walkVars, EmptyCache
  <1>4. HandleInv' /\ AliveInv' /\ CacheFresh' /\ SettingInv' /\ WalkInv' /\ StandInv'
    BY <1>1 DEF HandleInv, AliveInv, CacheFresh, SettingInv, WalkInv, StandInv
  <1>5. QED BY <1>2, <1>3, <1>4 DEF IInv

\* Events is opened, and a watch on an ancestor is let go.
LEMMA OpenRootStep ==
  ASSUME IInv, OpenRoot
  PROVE  IInv'
  <1>1. /\ pc = "open" /\ Present(<<>>) /\ root' = "held" /\ pc' = "armRoot" /\ ancestor' = "none"
        /\ pending' = {} /\ alive' = {"root"}
        /\ handles' = handles + 1 - (IF ancestor # "none" THEN 1 ELSE 0)
        /\ UNCHANGED <<tree, generic, access, changes, rootWatched, due, closed, cache, news, try, depth,
                       found, call, excused, answer, touched>>
    BY DEF OpenRoot, registryVars, walkVars, callVars
  <1>2. handles' = 1
    <2>1. CASE ancestor = "none" BY <1>1, <2>1 DEF IInv, StageInv, HandleInv
    <2>2. CASE ancestor # "none" BY <1>1, <2>2 DEF IInv, StageInv, HandleInv
    <2>3. QED BY <2>1, <2>2
  <1>3. TypeOK' BY <1>1, <1>2 DEF IInv, TypeOK
  <1>4. StageInv' BY <1>1 DEF IInv, StageInv
  <1>5. HandleInv' BY <1>1, <1>2 DEF HandleInv
  <1>6. AliveInv' BY <1>1 DEF IInv, StageInv, AliveInv, Present
  <1>7. StandInv' /\ CacheFresh' /\ SettingInv' /\ WalkInv'
    BY <1>1 DEF IInv, StageInv, StandInv, CacheFresh, SettingInv, WalkInv
  <1>8. QED BY <1>3, <1>4, <1>5, <1>6, <1>7 DEF IInv

\* The root is watched, or is not; the cache is empty, and a call goes on with
\* the root it has opened.
LEMMA ArmRootStep ==
  ASSUME IInv, ArmRoot
  PROVE  IInv'
  <1>1. /\ pc = "armRoot" /\ rootWatched' \in {"yes", "no"}
        /\ pc' \in {"idle", "setting"} /\ (pc' = "setting" => call # NoCall) /\ due' \in {due, "no"}
        /\ UNCHANGED <<tree, generic, access, changes, pending, root, ancestor, closed, alive, cache, news,
                       try, depth, found, call, excused, answer, handles, touched>>
    BY DEF ArmRoot, Arm, Established, registryVars, walkVars, callVars
  <1>2. rootWatched' = "yes" => "root" \in alive BY DEF ArmRoot, Arm
  <1>3. TypeOK' BY <1>1 DEF IInv, TypeOK
  <1>4. StageInv' BY <1>1 DEF IInv, StageInv
  <1>5. HandleInv' BY <1>1 DEF IInv, StageInv, HandleInv
  <1>6. AliveInv' BY <1>1, <1>2, SameTree DEF IInv, AliveInv
  <1>7. \A t \in Types : cache'[t] = "none" BY <1>1 DEF IInv, StageInv
  <1>8. StandInv' /\ CacheFresh' /\ WalkInv' BY <1>1, <1>7 DEF StandInv, CacheFresh, WalkInv
  <1>9. SettingInv' BY <1>1, <1>7 DEF IInv, AliveInv, SettingInv, CacheCurrent, Undisturbed
  <1>10. QED BY <1>3, <1>4, <1>5, <1>6, <1>8, <1>9 DEF IInv

\* The turns of establish without a root.
LEMMA AncestorStep ==
  ASSUME IInv, OpenRootRefused \/ OpenRootAbsent \/ OpenAncestor \/ OpenAncestorFails \/ ArmAncestor
  PROVE  IInv'
  <1>1. /\ pc \in {"open", "openAncestor", "armAncestor"}
        /\ UNCHANGED <<tree, generic, access, changes, pending, root, rootWatched, closed, cache, news,
                       depth, found, call, excused, answer, touched>>
    BY DEF OpenRootRefused, OpenRootAbsent, OpenAncestor, OpenAncestorFails, ArmAncestor,
           registryVars, policyVars, walkVars, callVars
  <1>2. root = "none" /\ rootWatched = "no" /\ (\A t \in Types : cache[t] = "none") /\ closed = "no"
          /\ "root" \notin alive
    BY <1>1 DEF IInv, StageInv, AliveInv
  <1>3. /\ pc' \in {"idle", "setting", "open", "openAncestor", "armAncestor"}
        /\ pc' = "setting" => call # NoCall
        /\ due' \in {due, "no"} /\ try' \in {"Generic", "Machine"}
        /\ ancestor' \in {ancestor, "Generic", "Machine"}
        /\ alive' \in {alive, {}, {"ancestor"}}
    BY DEF IInv, TypeOK, OpenRootRefused, OpenRootAbsent, OpenAncestor, OpenAncestorFails, ArmAncestor,
           Established, NextAncestor, ArmedThen, policyVars, walkVars
  <1>4. HandleInv' /\ (pc' \in {"openAncestor", "armAncestor"} => ancestor' = "none") /\ handles' \in Nat
    <2>1. CASE OpenRootRefused
      BY <1>1, <1>2, <2>1 DEF IInv, TypeOK, HandleInv, OpenRootRefused, Established
    <2>2. CASE OpenRootAbsent
      BY <1>1, <1>2, <2>2 DEF IInv, TypeOK, HandleInv, OpenRootAbsent, policyVars
    <2>3. CASE OpenAncestor
      BY <1>1, <1>2, <2>3 DEF IInv, TypeOK, StageInv, HandleInv, OpenAncestor, policyVars
    <2>4. CASE OpenAncestorFails
      BY <1>1, <1>2, <2>4 DEF IInv, TypeOK, StageInv, HandleInv, OpenAncestorFails, NextAncestor, Established
    <2>5. CASE ArmAncestor
      <3>1. handles = 1 /\ ancestor = "none" BY <2>5 DEF ArmAncestor, IInv, StageInv, HandleInv
      <3>2. CASE ancestor' = try /\ ArmedThen /\ handles' = handles
        BY <1>1, <1>2, <3>1, <3>2 DEF IInv, TypeOK, HandleInv, ArmedThen
      <3>3. CASE handles' = handles - 1 /\ NextAncestor /\ ancestor' = ancestor
        BY <1>1, <1>2, <3>1, <3>3 DEF HandleInv, NextAncestor, Established
      <3>4. QED BY <2>5, <3>2, <3>3 DEF ArmAncestor
    <2>6. QED BY <2>1, <2>2, <2>3, <2>4, <2>5
  <1>5. TypeOK' BY <1>1, <1>3, <1>4 DEF IInv, TypeOK
  <1>6. StageInv' BY <1>1, <1>2, <1>3, <1>4 DEF IInv, StageInv
  <1>7. AliveInv' BY <1>1, <1>2, <1>3 DEF AliveInv
  <1>8. StandInv' /\ CacheFresh' /\ SettingInv' /\ WalkInv'
    BY <1>1, <1>2, <1>3 DEF StandInv, CacheFresh, SettingInv, WalkInv
  <1>9. QED BY <1>4, <1>5, <1>6, <1>7, <1>8 DEF IInv

-----------------------------------------------------------------------------
(* Enabled.                                                                *)

\* A call begins.
LEMMA EnabledStep ==
  ASSUME IInv, NEW t \in Types, NEW tier \in Tiers, Enabled(t, tier)
  PROVE  IInv'
  <1>1. /\ pc = "idle" /\ call' = [type |-> t, tier |-> tier] /\ pc' \in {"idle", "drain"}
        /\ answer' \in {"none", "on"} /\ news' = {} /\ touched' = "no" /\ excused' = "no"
        /\ UNCHANGED <<tree, generic, access, changes, pending, root, rootWatched, ancestor, due, closed,
                       alive, cache, try, depth, found, handles>>
    BY DEF Enabled, registryVars, policyVars, walkVars
  <1>2. call' # NoCall /\ call' \in [type : Types, tier : Tiers] BY <1>1 DEF NoCall
  <1>3. TypeOK' BY <1>1, <1>2 DEF IInv, TypeOK
  <1>4. StageInv' BY <1>1, <1>2 DEF IInv, StageInv
  <1>5. HandleInv' /\ StandInv' /\ SettingInv' /\ WalkInv'
    BY <1>1 DEF IInv, HandleInv, StandInv, SettingInv, WalkInv
  <1>6. AliveInv' BY <1>1, SameTree DEF IInv, AliveInv
  <1>7. CacheFresh' BY <1>1, SameTree DEF IInv, StageInv, CacheFresh
  <1>8. QED BY <1>3, <1>4, <1>5, <1>6, <1>7 DEF IInv

\* Records are read: the cache is not trusted again before it is cleared.
LEMMA DrainReadStep ==
  ASSUME IInv, DrainRead
  PROVE  IInv'
  <1>1. PICK some \in SUBSET pending \ {{}} :
          /\ pc = "drain" /\ Watching # "none"
          /\ news' = IF "gone" \in some THEN {} ELSE {"changed"}
          /\ IF "gone" \in some
             THEN Establish
             ELSE pending' = pending \ some /\ UNCHANGED <<policyVars, alive, cache, pc, handles>>
          /\ UNCHANGED <<registryVars, walkVars, callVars, touched>>
    BY DEF DrainRead
  <1>2. closed = "no" BY <1>1 DEF IInv, TypeOK, StageInv, Watching
  <1>3. CASE "gone" \in some BY <1>1, <1>2, <1>3, EstablishStep DEF callVars
  <1>4. CASE "gone" \notin some
    <2>1. /\ news' = {"changed"} /\ pending' = pending \ some
          /\ UNCHANGED <<tree, generic, access, changes, root, rootWatched, ancestor, due, closed, alive,
                         cache, pc, try, depth, found, call, excused, answer, handles, touched>>
      BY <1>1, <1>4 DEF registryVars, policyVars, walkVars, callVars
    <2>2. TypeOK' BY <2>1 DEF IInv, TypeOK
    <2>3. StageInv' BY <1>1, <2>1 DEF IInv, TypeOK, StageInv, Watching
    <2>4. HandleInv' /\ StandInv' /\ CacheFresh' /\ SettingInv' /\ WalkInv'
      BY <1>1, <2>1 DEF IInv, HandleInv, StandInv, CacheFresh, SettingInv, WalkInv
    <2>5. AliveInv' BY <1>1, <1>4, <2>1, SameTree DEF IInv, AliveInv
    <2>6. QED BY <2>2, <2>3, <2>4, <2>5 DEF IInv
  <1>5. QED BY <1>3, <1>4

\* All is read: a cache that something has been said of is cleared, and any other
\* is current, since nothing is queued.
LEMMA DrainEmptyStep ==
  ASSUME IInv, DrainEmpty
  PROVE  IInv'
  <1>1. /\ pc = "drain" /\ Watching # "none" /\ pending = {} /\ news' = {}
        /\ UNCHANGED <<registryVars, walkVars, callVars, touched>>
    BY DEF DrainEmpty
  <1>2. CASE news # {} /\ ancestor # "none"
    <2>1. Establish BY <1>2 DEF DrainEmpty
    <2>2. closed = "no" BY <1>2 DEF IInv, TypeOK, StageInv
    <2>3. QED BY <1>1, <2>1, <2>2, EstablishStep DEF callVars
  <1>3. CASE ~(news # {} /\ ancestor # "none")
    <2>1. /\ pc' = "setting" /\ cache' = IF news = {} THEN cache ELSE EmptyCache
          /\ UNCHANGED <<tree, generic, access, changes, pending, root, rootWatched, ancestor, due, closed,
                         alive, try, depth, found, call, excused, answer, handles, touched>>
      BY <1>1, <1>3 DEF DrainEmpty, Refresh, registryVars, policyVars, walkVars, callVars
    <2>2. cache' \in [Types -> Settings \cup {"none"}] BY <2>1 DEF IInv, TypeOK, EmptyCache
    <2>3. TypeOK' BY <1>1, <2>1, <2>2 DEF IInv, TypeOK
    <2>4. StageInv' BY <1>1, <2>1 DEF IInv, StageInv
    <2>5. HandleInv' /\ StandInv' /\ WalkInv' BY <1>1, <2>1 DEF IInv, HandleInv, StandInv, WalkInv
    <2>6. AliveInv' BY <1>1, <2>1, SameTree DEF IInv, AliveInv
    <2>7. root = "held" => rootWatched = "yes" BY <1>1 DEF IInv, TypeOK, StageInv, Watching
    <2>8. rootWatched = "yes" => CacheCurrent'
      <3>1. CASE news = {} BY <1>1, <2>1, <3>1, SameTree DEF IInv, CacheFresh, CacheCurrent
      <3>2. CASE news # {} BY <2>1, <3>2 DEF EmptyCache, CacheCurrent
      <3>3. QED BY <3>1, <3>2
    <2>9. CacheFresh' BY <2>1, <2>8 DEF CacheFresh, CacheCurrent
    <2>10. SettingInv' BY <1>1, <2>1, <2>7, <2>8 DEF IInv, AliveInv, SettingInv
    <2>11. QED BY <2>3, <2>4, <2>5, <2>6, <2>9, <2>10 DEF IInv
  <1>4. QED BY <1>2, <1>3

\* Nothing is watched: establish, or trust the view for the rest of its second.
LEMMA RefreshUnwatchedStep ==
  ASSUME IInv, RefreshUnwatched
  PROVE  IInv'
  <1>1. pc = "drain" /\ Watching = "none" /\ UNCHANGED <<registryVars, news, walkVars, call, answer, touched>>
    BY DEF RefreshUnwatched
  <1>2. rootWatched = "no" /\ ancestor = "none" /\ news = {}
    BY <1>1 DEF IInv, TypeOK, StageInv, Watching
  <1>3. CASE RetryNow
    <2>1. Establish /\ excused' = excused /\ closed = "no" BY <1>3 DEF RefreshUnwatched, RetryNow
    <2>2. QED BY <1>1, <1>2, <2>1, EstablishStep
  <1>4. CASE ~RetryNow
    <2>1. /\ pc' = "setting" /\ excused' = (IF closed = "yes" THEN "no" ELSE "yes")
          /\ UNCHANGED <<tree, generic, access, changes, pending, root, rootWatched, ancestor, due, closed,
                         alive, cache, news, try, depth, found, call, answer, handles, touched>>
      BY <1>1, <1>4 DEF RefreshUnwatched, registryVars, policyVars, walkVars
    <2>2. TypeOK' BY <2>1 DEF IInv, TypeOK
    <2>3. StageInv' BY <1>1, <1>2, <2>1 DEF IInv, StageInv
    <2>4. HandleInv' /\ StandInv' /\ WalkInv' /\ CacheFresh'
      BY <1>1, <1>2, <2>1 DEF IInv, HandleInv, StandInv, WalkInv, CacheFresh
    <2>5. AliveInv' BY <1>1, <2>1, SameTree DEF IInv, AliveInv
    <2>6. SettingInv' BY <2>1 DEF IInv, StageInv, SettingInv, Undisturbed
    <2>7. QED BY <2>2, <2>3, <2>4, <2>5, <2>6 DEF IInv
  <1>5. QED BY <1>3, <1>4

\* The setting is known without a walk.
LEMMA SettingKnownStep ==
  ASSUME IInv, SettingKnown
  PROVE  IInv'
  <1>1. /\ pc = "setting" /\ pc' = "idle" /\ news' = {} /\ depth' = 0 /\ found' = "unset"
        /\ UNCHANGED <<tree, generic, access, changes, pending, root, rootWatched, ancestor, due, closed,
                       alive, cache, try, call, excused, handles, touched>>
    BY DEF SettingKnown, Return, registryVars, policyVars
  <1>2. answer' \in {"on", "off"}
    <2>1. call.type \in Types /\ call.tier \in Tiers
      BY <1>1, RealCall DEF IInv, StageInv
    <2>2. cache[call.type] \in Settings \cup {"none"} BY <2>1 DEF IInv, TypeOK
    <2>3. PICK v \in Settings : answer' = Decide(call.tier, v)
      BY <2>2 DEF SettingKnown, Return, Settings, IInv, TypeOK
    <2>4. QED BY <2>3 DEF Decide, Settings
  <1>3. TypeOK' BY <1>1, <1>2 DEF IInv, TypeOK, Settings
  <1>4. StageInv' BY <1>1 DEF IInv, StageInv
  <1>5. HandleInv' /\ StandInv' /\ WalkInv' /\ SettingInv'
    BY <1>1 DEF IInv, HandleInv, StandInv, WalkInv, SettingInv
  <1>6. AliveInv' BY <1>1, SameTree DEF IInv, AliveInv
  <1>7. CacheFresh' BY <1>1, SameTree DEF IInv, StageInv, CacheFresh
  <1>8. QED BY <1>3, <1>4, <1>5, <1>6, <1>7 DEF IInv

\* A walk begins at the root, which exists if anything is to be relied on.
LEMMA SettingUnknownStep ==
  ASSUME IInv, SettingUnknown
  PROVE  IInv'
  <1>1. /\ pc = "setting" /\ root = "held" /\ pc' = "read"
        /\ UNCHANGED <<tree, generic, access, changes, pending, root, rootWatched, ancestor, due, closed,
                       alive, cache, news, try, depth, found, call, excused, answer, handles, touched>>
    BY DEF SettingUnknown, registryVars, policyVars, walkVars, callVars
  <1>2. depth = 0 /\ found = "unset" /\ call # NoCall BY <1>1 DEF IInv, StageInv
  <1>3. call.type \in Types BY <1>2, RealCall DEF IInv
  <1>4. Len(call.type) \in Nat /\ SubSeq(call.type, 1, 0) = <<>> BY <1>3, Prefixes
  <1>5. TypeOK' BY <1>1 DEF IInv, TypeOK
  <1>6. StageInv' BY <1>1, <1>2, <1>4 DEF IInv, StageInv
  <1>7. HandleInv' BY <1>1, <1>2 DEF IInv, HandleInv
  <1>8. AliveInv' BY <1>1, SameTree DEF IInv, AliveInv
  <1>9. CacheFresh' /\ SettingInv' BY <1>1, SameTree DEF IInv, CacheFresh, SettingInv
  <1>10. WalkInv'
    <2>1. Steady' <=> Steady BY <1>1 DEF Steady, Undisturbed
    <2>2. Steady => "root" \in alive /\ Present(<<>>)
      BY <1>1 DEF IInv, Steady, AliveInv, SettingInv
    <2>3. 0 .. 0 = {0} /\ 0 .. 0 - 1 = {} OBVIOUS
    <2>4. Nearest(call.type, depth, found)' BY <1>1, <1>2, <2>3 DEF Nearest
    <2>5. Steady => \A m \in 0 .. 0 : Present(SubSeq(call.type, 1, m)) BY <1>4, <2>2, <2>3
    <2>6. QED BY <1>1, <1>2, <2>1, <2>2, <2>4, <2>5, SameTree DEF WalkInv, HereAlive
  <1>11. StandInv'
    <2>1. "root" \in alive => Present(<<>>) BY DEF IInv, AliveInv
    <2>2. Here' = <<>> BY <1>1, <1>2, <1>4 DEF Here
    <2>3. QED BY <1>1, <1>2, <2>1, <2>2 DEF StandInv, HereAlive, Present
  <1>12. QED BY <1>5, <1>6, <1>7, <1>8, <1>9, <1>10, <1>11 DEF IInv

\* The next key of the walk.
LEMMA WalkChildStep ==
  ASSUME IInv, WalkChild
  PROVE  IInv'
  <1>1. /\ pc = "child" /\ HereAlive /\ Present(SubSeq(call.type, 1, depth + 1))
        /\ pc' = "read" /\ depth' = depth + 1 /\ alive' = alive \cup {"walk"}
        /\ handles' = (IF depth = 0 THEN handles + 1 ELSE handles)
        /\ UNCHANGED <<tree, generic, access, changes, pending, root, rootWatched, ancestor, due, closed,
                       cache, news, try, found, call, excused, answer, touched>>
    BY DEF WalkChild, registryVars, policyVars, callVars
  <1>2. call.type \in Types /\ depth <= Len(call.type) /\ depth # Len(call.type) /\ depth \in Nat
    BY <1>1, RealCall DEF IInv, TypeOK, StageInv
  <1>3. Len(call.type) \in Nat BY <1>2, Prefixes
  <1>4. handles' = 2
    <2>1. CASE depth = 0 BY <1>1, <2>1 DEF IInv, HandleInv
    <2>2. CASE depth # 0 BY <1>1, <2>2 DEF IInv, HandleInv
    <2>3. QED BY <2>1, <2>2
  <1>5. TypeOK' BY <1>1, <1>2, <1>4 DEF IInv, TypeOK
  <1>6. StageInv' BY <1>1, <1>2, <1>3 DEF IInv, StageInv
  <1>7. HandleInv' BY <1>1, <1>2, <1>4 DEF HandleInv
  <1>8. AliveInv' BY <1>1, SameTree DEF IInv, AliveInv
  <1>9. CacheFresh' /\ SettingInv' BY <1>1, SameTree DEF IInv, CacheFresh, SettingInv
  <1>10. WalkInv'
    <2> SUFFICES ASSUME Steady' PROVE WalkInv' BY DEF WalkInv
    <2>1. Steady BY <1>1 DEF Steady, Undisturbed
    <2>2. /\ "root" \in alive /\ \A m \in 0 .. depth : Present(SubSeq(call.type, 1, m))
          /\ Nearest(call.type, depth + 1, found)
      BY <1>1, <2>1 DEF IInv, WalkInv
    <2>3. \A m \in 0 .. depth + 1 : m \in 0 .. depth \/ m = depth + 1 BY <1>2
    <2>4. \A m \in 0 .. depth + 1 : Present(SubSeq(call.type, 1, m)) BY <1>1, <2>2, <2>3
    <2>5. Nearest(call.type, depth, found)' BY <1>1, <2>2 DEF Nearest
    <2>6. HereAlive' BY <1>1, <1>2 DEF HereAlive
    <2>7. QED BY <1>1, <2>2, <2>4, <2>5, <2>6, SameTree DEF WalkInv
  <1>11. StandInv' BY <1>1 DEF StandInv, Here, Present
  <1>12. QED BY <1>5, <1>6, <1>7, <1>8, <1>9, <1>10, <1>11 DEF IInv

\* What a read makes of what was found before, at a key that exists or not.
ReadHere == IF HereAlive THEN Deeper(tree[Here]) ELSE found

\* A setting: the key read is there, or is not read.
LEMMA ReadHereType ==
  ASSUME IInv, pc = "read"
  PROVE  ReadHere \in Settings
  <1>1. tree[Here] \in Settings \cup {"absent"} BY HereIsPath DEF IInv, TypeOK
  <1>2. found \in Settings BY DEF IInv, TypeOK
  <1>3. HereAlive => tree[Here] # "absent" BY DEF IInv, StandInv, Present
  <1>4. QED BY <1>1, <1>2, <1>3 DEF ReadHere, Deeper

\* A read on a steady path finds the nearest setting of one key more.
LEMMA ReadFinds ==
  ASSUME IInv, pc = "read", Steady
  PROVE  Nearest(call.type, depth + 1, ReadHere)
  <1>1. HereAlive /\ Nearest(call.type, depth, found) BY DEF IInv, WalkInv
  <1>2. call.type \in Types /\ depth \in Nat BY HereIsPath
  <1>3. ReadHere = IF tree[SubSeq(call.type, 1, depth)] # "unset"
                   THEN tree[SubSeq(call.type, 1, depth)] ELSE found
    BY <1>1 DEF ReadHere, Deeper, Here
  <1>4. QED BY <1>1, <1>2, <1>3, Deepens

\* The end of a walk on a steady path, at its last key or before a key that is
\* not there: it has found what the registry says.
LEMMA WalkFinds ==
  ASSUME IInv, Steady
  PROVE  /\ pc = "read" /\ depth = Len(call.type) => ReadHere = Resolve(call.type)
         /\ pc = "child" /\ ~(HereAlive /\ Present(SubSeq(call.type, 1, depth + 1))) =>
              found = Resolve(call.type)
  <1>1. ASSUME pc = "read", depth = Len(call.type) PROVE ReadHere = Resolve(call.type)
    <2>1. \A m \in 0 .. depth : Present(SubSeq(call.type, 1, m)) BY <1>1 DEF IInv, WalkInv
    <2>2. Nearest(call.type, depth + 1, ReadHere) BY <1>1, ReadFinds
    <2>3. call.type \in Types /\ depth \in 0 .. Len(call.type) BY <1>1, HereIsPath
    <2>4. QED BY <1>1, <2>1, <2>2, <2>3, WalkResolves
  <1>2. ASSUME pc = "child", ~(HereAlive /\ Present(SubSeq(call.type, 1, depth + 1)))
        PROVE  found = Resolve(call.type)
    <2>1. /\ HereAlive /\ \A m \in 0 .. depth : Present(SubSeq(call.type, 1, m))
          /\ Nearest(call.type, depth + 1, found)
      BY <1>2 DEF IInv, WalkInv
    <2>2. call.type \in Types /\ depth \in 0 .. Len(call.type) BY <1>2, HereIsPath
    <2>3. QED BY <1>2, <2>1, <2>2, WalkResolves
  <1>3. QED BY <1>1, <1>2

\* The walk is over: its key is closed and its result cached, with or without
\* what was cached before.
LEMMA ResolvedStep ==
  ASSUME IInv, pc \in {"read", "child"}, NEW s \in Settings, Resolved(s),
         Steady => s = Resolve(call.type)
  PROVE  IInv'
  <1>1. /\ pc' = "idle" /\ news' = {} /\ depth' = 0 /\ found' = "unset" /\ alive' = alive \ {"walk"}
        /\ handles' = (IF depth = 0 THEN handles ELSE handles - 1) /\ answer' = Decide(call.tier, s)
        /\ UNCHANGED <<tree, generic, access, changes, pending, root, rootWatched, ancestor, due, closed,
                       try, call, excused, touched>>
    BY DEF Resolved, Return, registryVars, policyVars
  <1>2. call.type \in Types /\ depth \in Nat /\ root = "held" /\ ancestor = "none"
    BY HereIsPath DEF IInv, StageInv
  <1>3. PICK c \in {cache, EmptyCache} : cache' = [c EXCEPT ![call.type] = s] BY DEF Resolved
  <1>4. c \in [Types -> Settings \cup {"none"}] BY DEF IInv, TypeOK, EmptyCache
  <1>5. /\ cache' \in [Types -> Settings \cup {"none"}] /\ cache'[call.type] = s
        /\ \A t \in Types : t # call.type => cache'[t] = c[t]
    BY <1>2, <1>3, <1>4
  <1>6. handles' = 1
    <2>1. CASE depth = 0 BY <1>1, <2>1 DEF IInv, HandleInv
    <2>2. CASE depth # 0 BY <1>1, <2>2 DEF IInv, HandleInv
    <2>3. QED BY <2>1, <2>2
  <1>7. answer' \in {"on", "off"} BY <1>1 DEF Decide, Settings
  <1>8. TypeOK' BY <1>1, <1>5, <1>6, <1>7 DEF IInv, TypeOK, Settings
  <1>9. StageInv' BY <1>1, <1>2 DEF IInv, StageInv
  <1>10. HandleInv' /\ StandInv' /\ WalkInv' /\ SettingInv'
    BY <1>1, <1>2, <1>6 DEF HandleInv, StandInv, WalkInv, SettingInv
  <1>11. AliveInv' BY <1>1, SameTree DEF IInv, AliveInv
  <1>12. CacheFresh'
    <2> SUFFICES ASSUME rootWatched = "yes", pending = {},
                        NEW t \in Types, cache'[t] # "none"
                 PROVE  cache'[t] = Resolve(t)
      BY <1>1, SameTree DEF CacheFresh
    <2>1. Steady BY DEF Steady
    <2>2. CASE t = call.type BY <1>5, <2>1, <2>2
    <2>3. CASE t # call.type
      <3>1. c[t] # "none" BY <1>5, <2>3
      <3>2. c = cache BY <3>1 DEF EmptyCache
      <3>3. news = {} BY DEF IInv, StageInv
      <3>4. cache[t] = Resolve(t) BY <3>1, <3>2, <3>3 DEF IInv, CacheFresh
      <3>5. QED BY <1>5, <2>3, <3>2, <3>4
    <2>4. QED BY <2>2, <2>3
  <1>13. QED BY <1>8, <1>9, <1>10, <1>11, <1>12 DEF IInv

\* A key of the walk is read, the last or another.
LEMMA WalkReadStep ==
  ASSUME IInv, WalkRead
  PROVE  IInv'
  <1>1. pc = "read" BY DEF WalkRead
  <1>2. CASE depth = Len(call.type)
    <2>1. Resolved(ReadHere) BY <1>2 DEF WalkRead, ReadHere
    <2>2. Steady => ReadHere = Resolve(call.type) BY <1>1, <1>2, WalkFinds
    <2>3. ReadHere \in Settings BY <1>1, ReadHereType
    <2> HIDE DEF ReadHere
    <2>4. QED BY <1>1, <2>1, <2>2, <2>3, ResolvedStep
  <1>3. CASE depth # Len(call.type)
    <2>1. /\ pc' = "child" /\ found' = ReadHere
          /\ UNCHANGED <<tree, generic, access, changes, pending, root, rootWatched, ancestor, due, closed,
                         alive, cache, news, try, depth, call, excused, answer, handles, touched>>
      BY <1>3 DEF WalkRead, ReadHere, registryVars, policyVars, callVars
    <2>2. ReadHere \in Settings /\ (Steady => Nearest(call.type, depth + 1, ReadHere))
      BY <1>1, ReadHereType, ReadFinds
    <2> HIDE DEF ReadHere
    <2>3. TypeOK' BY <2>1, <2>2 DEF IInv, TypeOK
    <2>4. StageInv' BY <1>1, <1>3, <2>1 DEF IInv, StageInv
    <2>5. HandleInv' BY <1>1, <2>1 DEF IInv, HandleInv
    <2>6. AliveInv' BY <1>1, <2>1, SameTree DEF IInv, AliveInv
    <2>7. StandInv' BY <1>1, <2>1 DEF IInv, StandInv, HereAlive, Here, Present
    <2>8. CacheFresh' /\ SettingInv' BY <1>1, <2>1, SameTree DEF IInv, CacheFresh, SettingInv
    <2>9. WalkInv'
      <3> SUFFICES ASSUME Steady' PROVE WalkInv' BY DEF WalkInv
      <3>1. Steady BY <2>1 DEF Steady, Undisturbed
      <3>2. "root" \in alive /\ HereAlive /\ \A m \in 0 .. depth : Present(SubSeq(call.type, 1, m))
        BY <1>1, <3>1 DEF IInv, WalkInv
      <3>3. Nearest(call.type, depth + 1, found)' BY <2>1, <2>2, <3>1 DEF Nearest
      <3>4. HereAlive' BY <2>1, <3>2 DEF HereAlive
      <3>5. QED BY <2>1, <3>2, <3>3, <3>4, SameTree DEF WalkInv
    <2>10. QED BY <2>3, <2>4, <2>5, <2>6, <2>7, <2>8, <2>9 DEF IInv
  <1>4. QED BY <1>2, <1>3

\* There is no further key.
LEMMA WalkEndsStep ==
  ASSUME IInv, WalkEnds
  PROVE  IInv'
  <1>1. /\ pc = "child" /\ ~(HereAlive /\ Present(SubSeq(call.type, 1, depth + 1)))
        /\ Resolved(found)
    BY DEF WalkEnds
  <1>2. found \in Settings BY DEF IInv, TypeOK
  <1>3. QED BY <1>1, <1>2, WalkFinds, ResolvedStep

\* Close.
LEMMA CloseStep ==
  ASSUME IInv, Close
  PROVE  IInv'
  <1>1. pc = "idle" /\ Teardown /\ closed' = "yes" BY DEF Close
  <1>2. /\ handles' = 0 /\ root' = "none" /\ ancestor' = "none" /\ rootWatched' = "no"
        /\ alive' = {} /\ pending' = {} /\ cache' = EmptyCache
    BY <1>1, TornDown
  <1>3. /\ call' = NoCall /\ answer' = "none" /\ news' = {} /\ touched' = "no" /\ excused' = "no"
        /\ UNCHANGED <<tree, generic, access, changes, due, pc, try, depth, found>>
    BY DEF Close, registryVars, walkVars
  <1>4. TypeOK' BY <1>1, <1>2, <1>3 DEF IInv, TypeOK, EmptyCache
  <1>5. StageInv' BY <1>1, <1>2, <1>3 DEF IInv, StageInv, EmptyCache
  <1>6. HandleInv' /\ AliveInv' /\ StandInv' /\ CacheFresh' /\ SettingInv' /\ WalkInv'
    BY <1>1, <1>2, <1>3 DEF HandleInv, AliveInv, StandInv, CacheFresh, SettingInv, WalkInv
  <1>7. QED BY <1>4, <1>5, <1>6 DEF IInv

-----------------------------------------------------------------------------
(* The theorems that hold for any registry.                                *)

\* Every step of the Policy and of the registry preserves the invariant.
LEMMA NextInv == IInv /\ [Next]_vars => IInv'
  <1> SUFFICES ASSUME IInv, [Next]_vars PROVE IInv' OBVIOUS
  <1>1. CASE Next
    BY <1>1, EnvironmentStep, OpenRootStep, ArmRootStep, AncestorStep, EnabledStep, DrainReadStep,
       DrainEmptyStep, RefreshUnwatchedStep, SettingKnownStep, SettingUnknownStep, WalkReadStep,
       WalkChildStep, WalkEndsStep, CloseStep
    DEF Next
  <1>2. CASE UNCHANGED vars
    <2>1. UNCHANGED <<tree, generic, access, changes, pending, root, rootWatched, ancestor, due, closed,
                      alive, cache, pc, news, try, depth, found, call, excused, answer, handles, touched>>
      BY <1>2 DEF vars, registryVars, policyVars, walkVars, callVars
    <2>2. TypeOK' BY <2>1 DEF IInv, TypeOK
    <2>3. StageInv' /\ HandleInv' BY <2>1 DEF IInv, StageInv, HandleInv
    <2>4. AliveInv' /\ StandInv' BY <2>1 DEF IInv, AliveInv, StandInv, HereAlive, Here, Present
    <2>5. CacheFresh' /\ SettingInv'
      BY <2>1, SameTree DEF IInv, CacheFresh, SettingInv, CacheCurrent, Undisturbed
    <2>6. WalkInv' BY <2>1 DEF IInv, WalkInv, Steady, Undisturbed, HereAlive, Nearest, Present
    <2>7. QED BY <2>2, <2>3, <2>4, <2>5, <2>6 DEF IInv
  <1>3. QED BY <1>1, <1>2

\* The inductive invariant, whatever changes in the registry and whichever
\* watches are refused.
THEOREM Invariance == Spec => []IInv
  BY InitInv, NextInv, PTL DEF Spec

\* A cached setting that no queued record will clear is the registry's.
THEOREM CacheIsFresh == Spec => []CacheFresh
  <1>1. IInv => CacheFresh BY DEF IInv
  <1>2. QED BY <1>1, Invariance, PTL

\* No registry handle leaks, whichever opens and arms fail.
THEOREM HandlesAreOwned == Spec => []HandlesOwned
  <1>1. IInv => HandlesOwned BY HeldIsAll DEF HandlesOwned
  <1>2. QED BY <1>1, Invariance, PTL

-----------------------------------------------------------------------------
(* Decisions taken with Events held.                                       *)

\* A decision by a root that is held.
HeldDecision ==
    pc # "idle" /\ pc' = "idle" /\ call # NoCall /\ Undisturbed /\ root = "held"
        => answer' = Decide(call.tier, Truth(call.type))

\* With a live root, a decision should rest on the registry's setting.
LEMMA HeldTruth ==
  ASSUME IInv, root = "held", "root" \in alive, NEW t
  PROVE  Truth(t) = Resolve(t)
  BY DEF IInv, TypeOK, StageInv, AliveInv, Truth

\* The three ways a call with a root ends: cached, read to the last key, or
\* stopped at a key that is not there.
LEMMA HeldDecides ==
  ASSUME IInv, Next
  PROVE  HeldDecision
  <1> SUFFICES ASSUME pc # "idle", pc' = "idle", call # NoCall, Undisturbed, root = "held"
               PROVE  answer' = Decide(call.tier, Truth(call.type))
    BY DEF HeldDecision
  <1>1. call.type \in Types /\ Steady BY RealCall DEF IInv, Steady
  <1>2. CASE SettingKnown
    <2>1. /\ pc = "setting" /\ cache[call.type] # "none"
          /\ answer' = Decide(call.tier, cache[call.type])
      BY <1>2 DEF SettingKnown, Return
    <2>2. "root" \in alive /\ CacheCurrent BY <2>1 DEF IInv, SettingInv
    <2>3. cache[call.type] = Resolve(call.type) BY <1>1, <2>1, <2>2 DEF CacheCurrent
    <2>4. QED BY <2>1, <2>2, <2>3, HeldTruth
  <1>3. CASE WalkRead
    <2>1. pc = "read" /\ depth = Len(call.type) BY <1>3 DEF WalkRead
    <2>2. answer' = Decide(call.tier, ReadHere) BY <1>3, <2>1 DEF WalkRead, ReadHere, Resolved, Return
    <2>3. ReadHere = Resolve(call.type) BY <1>1, <2>1, WalkFinds
    <2>4. "root" \in alive BY <1>1, <2>1 DEF IInv, WalkInv
    <2>5. QED BY <2>2, <2>3, <2>4, HeldTruth
  <1>4. CASE WalkEnds
    <2>1. /\ pc = "child" /\ ~(HereAlive /\ Present(SubSeq(call.type, 1, depth + 1)))
          /\ answer' = Decide(call.tier, found)
      BY <1>4 DEF WalkEnds, Resolved, Return
    <2>2. found = Resolve(call.type) BY <1>1, <2>1, WalkFinds
    <2>3. "root" \in alive BY <1>1, <2>1 DEF IInv, WalkInv
    <2>4. QED BY <2>1, <2>2, <2>3, HeldTruth
  <1>5. SettingKnown \/ WalkRead \/ WalkEnds
    <2>1. ~Environment BY EnvironmentFrame
    <2>2. ~(OpenRoot \/ OpenRootRefused \/ OpenRootAbsent \/ OpenAncestor \/ OpenAncestorFails \/ ArmAncestor)
      BY DEF IInv, StageInv, OpenRoot, OpenRootRefused, OpenRootAbsent, OpenAncestor,
             OpenAncestorFails, ArmAncestor
    <2>3. ~ArmRoot BY DEF ArmRoot, Established
    <2>4. ~(Close \/ \E t \in Types, tier \in Tiers : Enabled(t, tier)) BY DEF Close, Enabled
    <2>5. ~(DrainRead \/ DrainEmpty \/ RefreshUnwatched)
      BY DEF DrainRead, DrainEmpty, RefreshUnwatched, Establish
    <2>6. ~(SettingUnknown \/ WalkChild) BY DEF SettingUnknown, WalkChild
    <2>7. QED BY <2>1, <2>2, <2>3, <2>4, <2>5, <2>6 DEF Next
  <1>6. QED BY <1>2, <1>3, <1>4, <1>5

\* Whatever else the registry does: a call that the registry does not disturb,
\* and that does not trust an unwatched view, decides by what the registry holds
\* whenever the Policy has Events open.
THEOREM HeldDecisionsFresh == Spec => [][HeldDecision]_vars
  <1>1. IInv /\ [Next]_vars => [HeldDecision]_vars BY HeldDecides
  <1>2. QED BY <1>1, Invariance, PTL DEF Spec

-----------------------------------------------------------------------------
(* Decisions taken without Events, where Generic stays.                    *)

\* At first nothing is watched.
LEMMA AbsenceInit ==
  ASSUME GenericStays
  PROVE  Init => AbsenceInv
  BY DEF GenericStays, Init, AbsenceInv

\* The creation of Events leaves a record on a watched ancestor.
LEMMA AbsenceEnvironment ==
  ASSUME GenericStays, IInv, AbsenceInv, Environment
  PROVE  AbsenceInv'
  <1>1. UNCHANGED <<root, rootWatched, ancestor, closed, pc, news, try, excused>>
    BY EnvironmentFrame
  <1>2. ~RegCreateGeneric /\ ~RegDeleteGeneric /\ ~RegChangeAccess
    BY DEF GenericStays, RegCreateGeneric, RegDeleteGeneric, RegChangeAccess
  <1>3. UNCHANGED <<generic, access>>
    BY <1>2 DEF Environment, RegSetEnabled, RegCreateKey, RegDeleteKey, WatchBreaks, Tick, registryVars
  <1>4. "ancestor" \in alive => "ancestor" \in alive'
    BY <1>2 DEF Environment, RegSetEnabled, RegCreateKey, RegDeleteKey, WatchBreaks, Tick, Dangling
  <1>5. touched' = "no" => tree' = tree /\ touched = "no"
    BY <1>2 DEF Environment, RegSetEnabled, RegCreateKey, RegDeleteKey, WatchBreaks, Tick, Change,
                registryVars
  <1>6. ancestor # "none" /\ pending' = {} => pending = {} /\ (Present(<<>>)' => Present(<<>>))
    <2> SUFFICES ASSUME ancestor # "none", pending' = {}
                 PROVE  pending = {} /\ (Present(<<>>)' => Present(<<>>))
      OBVIOUS
    <2>1. CASE RegSetEnabled
      <3>1. PICK p \in Paths, v \in Settings : Present(p) /\ tree' = [tree EXCEPT ![p] = v]
        BY <2>1 DEF RegSetEnabled
      <3>2. pending = {} BY <2>1 DEF RegSetEnabled, Notify
      <3>3. QED BY <3>1, <3>2, EventsIsPath DEF IInv, TypeOK, Present
    <2>2. CASE RegCreateKey
      <3>1. PICK p \in Paths :
              /\ tree' = [tree EXCEPT ![p] = "unset"]
              /\ Notify(IF p = <<>> THEN ancestor = "Generic" /\ "ancestor" \in alive
                        ELSE Watching = "root" /\ "root" \in alive, "change")
        BY <2>2 DEF RegCreateKey
      <3>2. p # <<>> BY <3>1 DEF Notify, AbsenceInv
      <3>3. pending = {} BY <3>1 DEF Notify
      <3>4. QED BY <3>1, <3>2, <3>3, EventsIsPath DEF IInv, TypeOK, Present
    <2>3. CASE RegDeleteKey
      <3>1. PICK p \in Paths :
              /\ tree' = [tree EXCEPT ![p] = "absent"]
              /\ CASE Watching = "root" /\ "root" \in alive ->
                        pending' = pending \cup {IF p = <<>> THEN "gone" ELSE "change"}
                   [] ancestor = "Generic" /\ "ancestor" \in alive -> Notify(p = <<>>, "change")
                   [] OTHER -> UNCHANGED pending
        BY <2>3 DEF RegDeleteKey
      <3>2. pending = {} BY <3>1 DEF Notify
      <3>3. QED BY <3>1, <3>2, EventsIsPath DEF IInv, TypeOK, Present
    <2>4. CASE WatchBreaks \/ Tick BY <2>4 DEF WatchBreaks, Tick, registryVars, Present
    <2>5. QED BY <1>2, <2>1, <2>2, <2>3, <2>4 DEF Environment
  <1>7. QED BY <1>1, <1>3, <1>4, <1>5, <1>6 DEF AbsenceInv, Undisturbed, Present

\* The Policy's own steps: Events is looked for after the watch on Generic is
\* armed, and establish begins again on any record of that watch.
LEMMA AbsenceStep ==
  ASSUME GenericStays, IInv, AbsenceInv, Next, ~Environment
  PROVE  AbsenceInv'
  <1>1. UNCHANGED <<tree, generic, access>>
    BY DEF Next, Enabled, OpenRoot, OpenRootRefused, OpenRootAbsent, ArmRoot, OpenAncestor,
           OpenAncestorFails, ArmAncestor, DrainRead, DrainEmpty, RefreshUnwatched, SettingKnown,
           SettingUnknown, WalkRead, WalkChild, WalkEnds, Resolved, Return, Close, registryVars
  <1> USE <1>1, SameTree
  <1>2. CASE OpenRoot BY <1>2 DEF OpenRoot, AbsenceInv
  <1>3. CASE OpenRootRefused
    <2>1. ~Present(<<>>) /\ pc = "open" BY <1>3 DEF OpenRootRefused, AbsenceInv
    <2>2. QED BY <1>3, <2>1 DEF OpenRootRefused, Established, AbsenceInv
  <1>4. CASE OpenRootAbsent BY <1>4 DEF OpenRootAbsent, AbsenceInv, policyVars
  <1>5. CASE ArmRoot
    BY <1>5 DEF ArmRoot, Established, AbsenceInv, IInv, StageInv
  <1>6. CASE OpenAncestor
    BY <1>6 DEF OpenAncestor, AbsenceInv, IInv, StageInv, policyVars, walkVars
  <1>7. CASE OpenAncestorFails BY <1>7 DEF OpenAncestorFails, AbsenceInv
  <1>8. CASE ArmAncestor
    <2>1. pc = "armAncestor" /\ Arm("ancestor") = {"yes"} /\ try = "Generic"
      BY <1>8 DEF ArmAncestor, Arm, AbsenceInv, GenericStays
    <2>2. /\ ancestor' = "Generic" /\ pc' = "open"
          /\ UNCHANGED <<try, alive, pending, news, root, closed, excused, touched>>
      BY <1>8, <2>1 DEF ArmAncestor, ArmedThen, callVars
    <2>3. QED BY <2>1, <2>2 DEF AbsenceInv
  <1>9. CASE \E t \in Types, tier \in Tiers : Enabled(t, tier)
    BY <1>9 DEF Enabled, AbsenceInv, IInv, StageInv, policyVars, walkVars
  <1>10. CASE DrainRead
    <2>1. PICK some \in SUBSET pending \ {{}} :
            /\ pc = "drain"
            /\ news' = IF "gone" \in some THEN {} ELSE {"changed"}
            /\ IF "gone" \in some
               THEN Establish
               ELSE pending' = pending \ some /\ UNCHANGED <<policyVars, alive, cache, pc, handles>>
      BY <1>10 DEF DrainRead
    <2>2. CASE "gone" \in some BY <2>1, <2>2 DEF Establish, Teardown, AbsenceInv
    <2>3. CASE "gone" \notin some BY <2>1, <2>3 DEF AbsenceInv, policyVars
    <2>4. QED BY <2>2, <2>3
  <1>11. CASE DrainEmpty
    <2>1. CASE news # {} /\ ancestor # "none" BY <1>11, <2>1 DEF DrainEmpty, Establish, Teardown, AbsenceInv
    <2>2. CASE ~(news # {} /\ ancestor # "none")
      <3>1. /\ pc = "drain" /\ Watching # "none" /\ pending = {} /\ pc' = "setting" /\ news' = {}
            /\ UNCHANGED <<pending, root, ancestor, closed, alive, excused, touched>>
        BY <1>11, <2>2 DEF DrainEmpty, policyVars, callVars
      <3>2. ancestor # "none" => ~Present(<<>>) BY <2>2, <3>1 DEF AbsenceInv
      <3>3. root = "none" => ancestor # "none" BY <3>1 DEF IInv, StageInv, Watching
      <3>4. QED BY <3>1, <3>2, <3>3 DEF AbsenceInv
    <2>3. QED BY <2>1, <2>2
  <1>12. CASE RefreshUnwatched
    <2>1. CASE RetryNow BY <1>12, <2>1 DEF RefreshUnwatched, Establish, Teardown, AbsenceInv
    <2>2. CASE ~RetryNow
      BY <1>12, <2>2 DEF RefreshUnwatched, AbsenceInv, Undisturbed, policyVars, IInv, StageInv
    <2>3. QED BY <2>1, <2>2
  <1>13. CASE SettingKnown
    BY <1>13 DEF SettingKnown, Return, AbsenceInv, IInv, StageInv, policyVars
  <1>14. CASE SettingUnknown
    BY <1>14 DEF SettingUnknown, AbsenceInv, IInv, StageInv, policyVars
  <1>15. CASE WalkRead \/ WalkChild \/ WalkEnds
    <2>1. ancestor = "none" /\ ancestor' = ancestor /\ pc' \in {"idle", "child", "read"}
      BY <1>15 DEF WalkRead, WalkChild, WalkEnds, Resolved, Return, IInv, StageInv, policyVars
    <2>2. QED BY <2>1 DEF AbsenceInv
  <1>16. CASE Close BY <1>16 DEF Close, Teardown, AbsenceInv
  <1>17. QED
    BY <1>2, <1>3, <1>4, <1>5, <1>6, <1>7, <1>8, <1>9, <1>10, <1>11, <1>12, <1>13, <1>14, <1>15, <1>16
    DEF Next

\* Every step preserves AbsenceInv.
LEMMA AbsenceNext ==
  ASSUME GenericStays
  PROVE  IInv /\ AbsenceInv /\ [Next]_vars => AbsenceInv'
  <1> SUFFICES ASSUME IInv, AbsenceInv, [Next]_vars PROVE AbsenceInv' OBVIOUS
  <1>1. CASE UNCHANGED vars
    BY <1>1 DEF AbsenceInv, Undisturbed, Present, vars, registryVars, policyVars, walkVars, callVars
  <1>2. QED BY <1>1, AbsenceEnvironment, AbsenceStep

\* A decision without a root is by the tier alone, as it should be.
LEMMA AbsentDecides ==
  ASSUME GenericStays, IInv, AbsenceInv, Next,
         pc # "idle", pc' = "idle", call # NoCall, Undisturbed, root = "none"
  PROVE  answer' = Decide(call.tier, Truth(call.type))
  <1>1. SettingKnown
    <2>1. ~Environment BY EnvironmentFrame
    <2>2. ~(OpenRoot \/ OpenRootAbsent \/ OpenAncestor) BY DEF OpenRoot, OpenRootAbsent, OpenAncestor
    <2>3. ~(OpenRootRefused \/ OpenAncestorFails \/ ArmAncestor)
      BY DEF OpenRootRefused, OpenAncestorFails, ArmAncestor, Established, NextAncestor, ArmedThen
    <2>4. ~ArmRoot BY DEF ArmRoot, Established
    <2>5. ~(Close \/ \E t \in Types, tier \in Tiers : Enabled(t, tier)) BY DEF Close, Enabled
    <2>6. ~(DrainRead \/ DrainEmpty \/ RefreshUnwatched)
      BY DEF DrainRead, DrainEmpty, RefreshUnwatched, Establish
    <2>7. ~(SettingUnknown \/ WalkChild \/ WalkRead \/ WalkEnds)
      BY DEF SettingUnknown, WalkChild, WalkRead, WalkEnds, IInv, StageInv
    <2>8. QED BY <2>1, <2>2, <2>3, <2>4, <2>5, <2>6, <2>7 DEF Next
  <1>2. pc = "setting" /\ answer' = Decide(call.tier, "unset") BY <1>1 DEF SettingKnown, Return
  <1>3. closed = "yes" \/ ~Present(<<>>) BY <1>2 DEF AbsenceInv
  <1>4. Truth(call.type) = "unset" BY <1>3 DEF Truth
  <1>5. QED BY <1>2, <1>4

\* Where Generic stays, a Policy between calls that waits on an ancestor waits on
\* the one below which Events will appear, and Events is not there yet.
THEOREM WatchIsCovering ==
  ASSUME GenericStays
  PROVE  Spec => []WatchCovers
  <1>1. IInv /\ AbsenceInv => WatchCovers BY DEF IInv, StageInv, AbsenceInv, WatchCovers
  <1>2. QED BY <1>1, Invariance, AbsenceInit, AbsenceNext, PTL DEF Spec

\* Where Generic stays, every call that the registry does not disturb, and that
\* does not trust an unwatched view, decides by what the registry holds.
THEOREM DecisionsAreFresh ==
  ASSUME GenericStays
  PROVE  Spec => DecisionFresh
  <1> DEFINE Fresh == pc # "idle" /\ pc' = "idle" /\ call # NoCall /\ touched = "no" /\ excused = "no"
                        => answer' = Decide(call.tier, Truth(call.type))
  <1>1. IInv /\ AbsenceInv /\ [Next]_vars => [Fresh]_vars
    <2> SUFFICES ASSUME IInv, AbsenceInv, Next PROVE Fresh OBVIOUS
    <2>1. root \in {"none", "held"} BY DEF IInv, TypeOK
    <2>2. QED BY <2>1, HeldDecides, AbsentDecides DEF HeldDecision, Undisturbed
  <1>2. Spec => [][Fresh]_vars
    BY <1>1, Invariance, AbsenceInit, AbsenceNext, PTL DEF Spec
  <1>3. QED BY <1>2 DEF DecisionFresh
=============================================================================
