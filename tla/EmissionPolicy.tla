--------------------------- MODULE EmissionPolicy ---------------------------
(***************************************************************************)
(* event.Policy (src/event/policy.go): a cached, watched view of the       *)
(* emission policy kept in the registry under Machine\Generic\Events,      *)
(* while other processes edit that part of the registry.                   *)
(*                                                                         *)
(* Every registry or watch call the Policy makes is a step of its own.     *)
(* Its mutex serialises Enabled and Close, so one call is in progress at a *)
(* time.  A key below Events is named by its path, a sequence of segments; *)
(* Events itself is the empty path.  The registry and its watches are      *)
(* external: a watch queues one record per change it covers, at the moment *)
(* of the change.                                                          *)
(***************************************************************************)
EXTENDS Naturals, Sequences, FiniteSets

CONSTANTS
    Types,          \* event types asked about, as sequences of segments
    Tiers,          \* tiers they are asked at
    Volatile,       \* what besides settings may change: Generic, Events, access
    Refusable,      \* on which keys, root or ancestor, a watch may be refused
    CacheMax,       \* policyCacheMax
    MaxChanges      \* bound: registry changes

ASSUME TypesAssumption    == \A t \in Types : t \in Seq(Nat) /\ t # <<>>
ASSUME TiersAssumption    == Tiers \subseteq {"essential", "standard", "verbose", "debug"}
ASSUME VolatileAssumption == Volatile \subseteq {"Generic", "Events", "access"}
ASSUME RefusableAssumption == Refusable \subseteq {"root", "ancestor"}
ASSUME CacheMaxAssumption == CacheMax \in Nat \ {0}
ASSUME MaxChangesAssumption == MaxChanges \in Nat

VARIABLES
    \* The registry.
    tree,         \* path |-> absent, or that key's Enabled: unset, off, on
    generic,      \* Machine\Generic: present, absent
    access,       \* may this process open Events: granted, denied
    pending,      \* the kinds of records queued on the armed watch
    \* The fields of Policy.
    root,         \* none, held
    rootWatched,  \* yes, no
    ancestor,     \* none, Generic, Machine
    alive,        \* which of the keys held (root, ancestor, walk) still exist
    due,          \* has retryAt passed: yes, no
    cache,        \* type |-> a setting, for the types cached
    closed,       \* yes, no
    \* The call in progress.
    pc, call,
    news,         \* drain: watchNews
    try,          \* establish: the ancestor being tried
    depth, found, \* resolve
    \* History, for the properties only.
    handles,      \* registry handles open
    touched,      \* has the registry changed since the call began: yes, no
    excused,      \* did the call rely on an unwatched cache: yes, no
    answer,       \* what the last call returned
    changes

registryVars == <<tree, generic, access, changes>>
policyVars   == <<root, rootWatched, ancestor, due, closed>>
walkVars     == <<try, depth, found>>
callVars     == <<call, excused, answer>>
vars == <<registryVars, pending, policyVars, alive, cache, pc, news, walkVars,
          callVars, handles, touched>>

Settings == {"unset", "off", "on"}
Paths == {<<>>} \cup UNION {{SubSeq(t, 1, n) : n \in 0 .. Len(t)} : t \in Types}
Parent(p) == SubSeq(p, 1, Len(p) - 1)
Present(p) == tree[p] # "absent"
NoCall == [type |-> <<>>, tier |-> "none"]

TypeOK ==
    /\ tree \in [Paths -> Settings \cup {"absent"}]
    /\ generic \in {"present", "absent"} /\ access \in {"granted", "denied"}
    /\ pending \subseteq {"change", "gone"}
    /\ root \in {"none", "held"} /\ rootWatched \in {"yes", "no"}
    /\ ancestor \in {"none", "Generic", "Machine"}
    /\ alive \subseteq {"root", "ancestor", "walk"}
    /\ due \in {"yes", "no"} /\ closed \in {"yes", "no"}
    /\ cache \in [Types -> Settings \cup {"none"}]
    /\ pc \in {"idle", "drain", "open", "armRoot", "openAncestor", "armAncestor",
               "setting", "read", "child"}
    /\ call \in [type : Types, tier : Tiers] \cup {NoCall}
    /\ news \subseteq {"changed"} /\ try \in {"Generic", "Machine"}
    /\ depth \in Nat /\ found \in Settings
    /\ handles \in Nat /\ touched \in {"yes", "no"} /\ excused \in {"yes", "no"}
    /\ answer \in {"none", "on", "off"} /\ changes \in 0 .. MaxChanges

EmptyCache == [t \in Types |-> "none"]

\* OpenPolicy, about to call establish.
Init ==
    /\ generic \in IF "Generic" \in Volatile THEN {"present", "absent"} ELSE {"present"}
    /\ access = "granted"
    /\ \E events \in IF "Events" \in Volatile THEN {"absent", "unset"} ELSE {"unset"} :
          /\ tree = [p \in Paths |-> IF p = <<>> THEN events ELSE "absent"]
          /\ events # "absent" => generic = "present"
    /\ pending = {} /\ root = "none" /\ rootWatched = "no" /\ ancestor = "none"
    /\ alive = {} /\ due = "yes" /\ closed = "no"
    /\ cache = EmptyCache /\ pc = "open" /\ call = NoCall /\ news = {}
    /\ try = "Generic" /\ depth = 0 /\ found = "unset"
    /\ handles = 0 /\ touched = "no" /\ excused = "no" /\ answer = "none" /\ changes = 0

-----------------------------------------------------------------------------
(* The registry: other processes' commits, and the records they queue.     *)

\* The watch armed: none, or on the key root or ancestor refers to.
Watching == IF rootWatched = "yes" THEN "root" ELSE IF ancestor # "none" THEN "ancestor" ELSE "none"

\* A change queues a record of kind k on the armed watch if it is covered.
Notify(covered, k) ==
    pending' = IF covered THEN pending \cup {k} ELSE pending

Change ==
    /\ changes < MaxChanges /\ changes' = changes + 1
    /\ touched' = "yes"
    /\ UNCHANGED <<policyVars, cache, pc, news, walkVars, callVars, handles>>

\* The handles the deletion of p leaves dangling.
Dangling(p) == (IF p = <<>> THEN {"root"} ELSE {})
               \cup (IF pc \in {"read", "child"} /\ p = SubSeq(call.type, 1, depth)
                     THEN {"walk"} ELSE {})

RegSetEnabled == \E p \in Paths, s \in Settings :
    /\ Change
    /\ Present(p) /\ tree[p] # s
    /\ tree' = [tree EXCEPT ![p] = s]
    /\ Notify(Watching = "root" /\ "root" \in alive, "change")
    /\ UNCHANGED <<generic, access, alive>>

RegCreateKey == \E p \in Paths :
    /\ Change
    /\ ~Present(p)
    /\ IF p = <<>> THEN "Events" \in Volatile /\ generic = "present" ELSE Present(Parent(p))
    /\ tree' = [tree EXCEPT ![p] = "unset"]
    /\ Notify(IF p = <<>> THEN ancestor = "Generic" /\ "ancestor" \in alive
                          ELSE Watching = "root" /\ "root" \in alive, "change")
    /\ UNCHANGED <<generic, access, alive>>

\* Deleting Events itself is the end of a watch on it.
RegDeleteKey == \E p \in Paths :
    /\ Change
    /\ Present(p) /\ \A q \in Paths : q # <<>> /\ Parent(q) = p => ~Present(q)
    /\ p = <<>> => "Events" \in Volatile
    /\ tree' = [tree EXCEPT ![p] = "absent"]
    /\ alive' = alive \ Dangling(p)
    /\ CASE Watching = "root" /\ "root" \in alive ->
               pending' = pending \cup {IF p = <<>> THEN "gone" ELSE "change"}
         [] ancestor = "Generic" /\ "ancestor" \in alive -> Notify(p = <<>>, "change")
         [] OTHER -> UNCHANGED pending
    /\ UNCHANGED <<generic, access>>

RegCreateGeneric ==
    /\ Change
    /\ "Generic" \in Volatile /\ generic = "absent"
    /\ generic' = "present"
    /\ Notify(ancestor = "Machine", "change")
    /\ UNCHANGED <<tree, access, alive>>

RegDeleteGeneric ==
    /\ Change
    /\ "Generic" \in Volatile /\ generic = "present" /\ ~Present(<<>>)
    /\ generic' = "absent"
    /\ alive' = IF ancestor = "Generic" \/ (pc = "armAncestor" /\ try = "Generic")
                THEN alive \ {"ancestor"} ELSE alive
    /\ CASE ancestor = "Generic" /\ "ancestor" \in alive -> pending' = pending \cup {"gone"}
         [] OTHER -> Notify(ancestor = "Machine", "change")
    /\ UNCHANGED <<tree, access>>

\* The security descriptor of Events changes; no watch filter covers that.
RegChangeAccess ==
    /\ Change
    /\ "access" \in Volatile
    /\ access' = IF access = "granted" THEN "denied" ELSE "granted"
    /\ UNCHANGED <<tree, generic, alive, pending>>

\* A watch read fails for good (a record larger than the buffer).
WatchBreaks ==
    /\ Watching # "none" /\ changes < MaxChanges
    /\ changes' = changes + 1
    /\ pending' = pending \cup {"gone"}
    /\ UNCHANGED <<tree, generic, access, policyVars, alive, cache, pc, news, walkVars,
                   callVars, handles, touched>>

\* The clock passes retryAt.
Tick ==
    /\ due = "no"
    /\ due' = "yes"
    /\ UNCHANGED <<registryVars, pending, root, rootWatched, ancestor, closed, alive,
                   cache, pc, news, walkVars, callVars, handles, touched>>

Environment == \/ RegSetEnabled \/ RegCreateKey \/ RegDeleteKey \/ RegCreateGeneric
               \/ RegDeleteGeneric \/ RegChangeAccess \/ WatchBreaks \/ Tick

-----------------------------------------------------------------------------
(* teardown and establish.                                                 *)

Held == (IF root = "held" THEN 1 ELSE 0) + (IF ancestor # "none" THEN 1 ELSE 0)

\* teardown, whose callers are Close and establish.
Teardown_KeepsFields ==
    /\ handles' = handles - Held
    /\ cache' = EmptyCache
    /\ UNCHANGED <<root, ancestor, rootWatched, alive, pending>>
Teardown ==
    /\ handles' = handles - Held
    /\ root' = "none" /\ ancestor' = "none" /\ rootWatched' = "no"
    /\ alive' = {} /\ pending' = {}
    /\ cache' = EmptyCache

\* establish: teardown, then the first turn of its loop.
Establish == Teardown /\ pc' = "open" /\ UNCHANGED <<due, closed>>

\* establish is over.  OpenPolicy returns; refresh goes on to the setting.
\* With nothing watched (w = "no"), retryAt is set.
Established(w) ==
    /\ pc' = IF call = NoCall THEN "idle" ELSE "setting"
    /\ due' = IF w = "no" THEN "no" ELSE due

OpenRoot_KeepsAncestor ==
    /\ pc = "open" /\ Present(<<>>) /\ access = "granted"
    /\ root' = "held" /\ pc' = "armRoot"
    /\ ancestor' = "none" /\ pending' = {}
    /\ alive' = {"root"}
    /\ handles' = handles + 1
    /\ UNCHANGED <<registryVars, rootWatched, due, closed, cache, news, walkVars,
                   callVars, touched>>
OpenRoot ==
    /\ pc = "open" /\ Present(<<>>) /\ access = "granted"
    /\ root' = "held" /\ pc' = "armRoot"
    /\ ancestor' = "none" /\ pending' = {}
    /\ alive' = {"root"}
    /\ handles' = handles + 1 - (IF ancestor # "none" THEN 1 ELSE 0)
    /\ UNCHANGED <<registryVars, rootWatched, due, closed, cache, news, walkVars,
                   callVars, touched>>

\* arm: a watch on a key that is gone is refused, any other may be.
Arm(key) == (IF key \in alive THEN {"yes"} ELSE {"no"})
            \cup (IF key \in Refusable THEN {"no"} ELSE {})

ArmRoot ==
    /\ pc = "armRoot"
    /\ rootWatched' \in Arm("root")
    /\ Established(rootWatched')
    /\ UNCHANGED <<registryVars, pending, root, ancestor, closed, alive, cache, news,
                   walkVars, callVars, handles, touched>>

\* Any other error than ENOENT, and the second turn, end the loop.
OpenRootRefused ==
    /\ pc = "open" /\ ~(Present(<<>>) /\ access = "granted")
    /\ Present(<<>>) \/ ancestor # "none"
    /\ Established(IF ancestor # "none" THEN "yes" ELSE "no")
    /\ UNCHANGED <<registryVars, pending, root, rootWatched, ancestor, closed, alive,
                   cache, news, walkVars, callVars, handles, touched>>

OpenRootAbsent ==
    /\ pc = "open" /\ ~Present(<<>>) /\ ancestor = "none"
    /\ pc' = "openAncestor" /\ try' = "Generic"
    /\ UNCHANGED <<registryVars, pending, policyVars, alive, cache, news, depth, found,
                   callVars, handles, touched>>

\* The next ancestor, or, after Machine, the end of establish.
NextAncestor ==
    IF try = "Generic"
    THEN try' = "Machine" /\ pc' = "openAncestor" /\ UNCHANGED due
    ELSE UNCHANGED try /\ Established("no")

OpenAncestor ==
    /\ pc = "openAncestor"
    /\ try = "Generic" => generic = "present"
    /\ pc' = "armAncestor" /\ alive' = {"ancestor"} /\ handles' = handles + 1
    /\ UNCHANGED <<registryVars, pending, policyVars, cache, news, walkVars, callVars,
                   touched>>

OpenAncestorFails ==
    /\ pc = "openAncestor" /\ try = "Generic" /\ generic = "absent"
    /\ NextAncestor
    /\ UNCHANGED <<registryVars, pending, root, rootWatched, ancestor, closed, alive,
                   cache, news, depth, found, callVars, handles, touched>>

\* Once an ancestor is armed, Events is looked for a second time.
ArmedThen_Trusts == Established("yes")
ArmedThen == pc' = "open" /\ UNCHANGED due

ArmAncestor == \E armed \in Arm("ancestor") :
    /\ pc = "armAncestor"
    /\ IF armed = "yes"
       THEN /\ ancestor' = try /\ ArmedThen
            /\ UNCHANGED <<try, handles, alive>>
       ELSE /\ handles' = handles - 1 /\ alive' = {} /\ NextAncestor
            /\ UNCHANGED ancestor
    /\ UNCHANGED <<registryVars, pending, root, rootWatched, closed, cache, news, depth,
                   found, callVars, touched>>

-----------------------------------------------------------------------------
(* Enabled: drain, refresh, setting and resolve.                           *)

\* decide: combine a resolved setting with the tier.
Decide(tier, s) ==
    CASE tier = "essential" -> "on"
      [] s # "unset"        -> s
      [] OTHER              -> IF tier = "standard" THEN "on" ELSE "off"

Enabled(t, tier) ==
    /\ pc = "idle"
    /\ call' = [type |-> t, tier |-> tier]
    /\ IF tier = "essential"
       THEN answer' = "on" /\ UNCHANGED pc
       ELSE answer' = "none" /\ pc' = "drain"
    /\ news' = {} /\ touched' = "no" /\ excused' = "no"
    /\ UNCHANGED <<registryVars, pending, policyVars, alive, cache, walkVars, handles>>

\* A read of the watch fd returns some of the queued records.  A record that
\* says the watched key is gone ends the drain, and refresh rebuilds.
DrainRead == \E some \in SUBSET pending \ {{}} :
    /\ pc = "drain" /\ Watching # "none"
    /\ news' = IF "gone" \in some THEN {} ELSE {"changed"}
    /\ IF "gone" \in some
       THEN Establish
       ELSE pending' = pending \ some /\ UNCHANGED <<policyVars, alive, cache, pc, handles>>
    /\ UNCHANGED <<registryVars, walkVars, callVars, touched>>

\* EAGAIN: everything queued was read.
Refresh_Keeps == UNCHANGED cache
Refresh == cache' = IF news = {} THEN cache ELSE EmptyCache

DrainEmpty ==
    /\ pc = "drain" /\ Watching # "none" /\ pending = {}
    /\ IF news # {} /\ ancestor # "none"
       THEN Establish
       ELSE pc' = "setting" /\ Refresh /\ UNCHANGED <<pending, policyVars, alive, handles>>
    /\ news' = {}
    /\ UNCHANGED <<registryVars, walkVars, callVars, touched>>

\* Nothing is watched: start over once a second, unless closed.
RetryNow_Always == due = "yes"
RetryNow == closed = "no" /\ due = "yes"

RefreshUnwatched ==
    /\ pc = "drain" /\ Watching = "none"
    /\ IF RetryNow
       THEN Establish /\ UNCHANGED excused
       ELSE /\ pc' = "setting" /\ excused' = IF closed = "yes" THEN "no" ELSE "yes"
            /\ UNCHANGED <<pending, policyVars, alive, cache, handles>>
    /\ UNCHANGED <<registryVars, news, walkVars, call, answer, touched>>

Return(s) ==
    /\ pc' = "idle" /\ answer' = Decide(call.tier, s)
    /\ news' = {} /\ depth' = 0 /\ found' = "unset"
    /\ UNCHANGED <<registryVars, pending, policyVars, call, excused, try, touched>>

SettingKnown ==
    /\ pc = "setting"
    /\ root = "none" \/ cache[call.type] # "none"
    /\ Return(IF root = "none" THEN "unset" ELSE cache[call.type])
    /\ UNCHANGED <<alive, cache, handles>>

SettingUnknown ==
    /\ pc = "setting" /\ root = "held" /\ cache[call.type] = "none"
    /\ pc' = "read"
    /\ UNCHANGED <<registryVars, pending, policyVars, alive, cache, news, walkVars,
                   callVars, handles, touched>>

\* The key the walk is at, and whether it still exists.
Here == SubSeq(call.type, 1, depth)
HereAlive == (IF depth = 0 THEN "root" ELSE "walk") \in alive

\* The walk is over: close its key, cache the result in a cache kept small.
Resolved(s) ==
    /\ handles' = IF depth = 0 THEN handles ELSE handles - 1
    /\ alive' = alive \ {"walk"}
    /\ cache' = [(IF Cardinality({t \in Types : cache[t] # "none"}) >= CacheMax
                  THEN EmptyCache ELSE cache) EXCEPT ![call.type] = s]
    /\ Return(s)

\* The deepest setting so far wins.
Deeper(s) == IF s # "unset" THEN s ELSE found

WalkRead ==
    /\ pc = "read"
    /\ LET s == IF HereAlive THEN Deeper(tree[Here]) ELSE found
       IN  IF depth = Len(call.type) THEN Resolved(s)
           ELSE /\ pc' = "child" /\ found' = s
                /\ UNCHANGED <<registryVars, pending, policyVars, alive, cache, news, try,
                               depth, callVars, handles, touched>>

WalkChild ==
    /\ pc = "child" /\ HereAlive /\ Present(SubSeq(call.type, 1, depth + 1))
    /\ pc' = "read" /\ depth' = depth + 1
    /\ handles' = IF depth = 0 THEN handles + 1 ELSE handles
    /\ alive' = alive \cup {"walk"}
    /\ UNCHANGED <<registryVars, pending, policyVars, cache, news, try, found, callVars,
                   touched>>

WalkEnds ==
    /\ pc = "child" /\ ~(HereAlive /\ Present(SubSeq(call.type, 1, depth + 1)))
    /\ Resolved(found)

\* Close; it waits for the mutex, so no call is in progress.
Close ==
    /\ pc = "idle"
    /\ Teardown /\ closed' = "yes"
    /\ call' = NoCall /\ answer' = "none" /\ news' = {} /\ touched' = "no" /\ excused' = "no"
    /\ UNCHANGED <<registryVars, due, pc, walkVars>>

Next ==
    \/ Environment
    \/ OpenRoot \/ OpenRootRefused \/ OpenRootAbsent \/ ArmRoot
    \/ OpenAncestor \/ OpenAncestorFails \/ ArmAncestor
    \/ \E t \in Types, tier \in Tiers : Enabled(t, tier)
    \/ DrainRead \/ DrainEmpty \/ RefreshUnwatched
    \/ SettingKnown \/ SettingUnknown \/ WalkRead \/ WalkChild \/ WalkEnds
    \/ Close

Spec == Init /\ [][Next]_vars

-----------------------------------------------------------------------------
(* Properties.                                                             *)

\* What the registry says of a type: the setting nearest to it on its path,
\* among the keys that exist (resolve, by definition instead of by walking).
Resolve(t) ==
    LET set == {n \in 0 .. Len(t) : /\ \A m \in 0 .. n : Present(SubSeq(t, 1, m))
                                    /\ tree[SubSeq(t, 1, n)] # "unset"}
    IN  IF set = {} THEN "unset"
        ELSE tree[SubSeq(t, 1, CHOOSE n \in set : \A m \in set : m <= n)]

\* What a decision should rest on now: nothing once closed, or while Events
\* is absent or may not be opened.
Truth(t) ==
    IF closed = "no" /\ Present(<<>>) /\ (access = "granted" \/ "root" \in alive)
    THEN Resolve(t) ELSE "unset"

\* "A committed change applies to the next decision": a call of Enabled
\* during which the registry does not change answers by what the registry
\* holds, whatever was cached, watched or interrupted before.  Only the one
\* second for which an unwatched view is trusted is excused.
DecisionFresh ==
    [][pc # "idle" /\ pc' = "idle" /\ call # NoCall /\ touched = "no" /\ excused = "no"
        => answer' = Decide(call.tier, Truth(call.type))]_vars

\* While Events is watched, a cached setting is the registry's, or a record
\* that will clear it is queued: a walk interleaved with writes is cached,
\* but never survives the next decision.
CacheFresh ==
    rootWatched = "yes" /\ pending = {} /\ news = {} =>
        \A t \in Types : cache[t] # "none" => cache[t] = Resolve(t)

\* "While the root is absent the nearest existing ancestor is watched for
\* its creation": between calls, a policy waiting on an ancestor with nothing
\* queued waits for the key whose creation can still be reported to it.
WatchCovers ==
    pc = "idle" /\ ancestor # "none" /\ pending = {} =>
        /\ ~Present(<<>>)
        /\ ancestor = IF generic = "present" THEN "Generic" ELSE "Machine"

\* Every registry handle opened by establish and by a walk is closed again
\* or still held by the Policy, whichever of the opens and arms failed.
HandlesOwned == pc = "idle" => handles = Held

-----------------------------------------------------------------------------
(* The inductive invariant.                                                *)

\* What the Policy holds at each point of establish, of a walk and between.
StageInv ==
    /\ root = "held" => ancestor = "none" /\ closed = "no"
    /\ rootWatched = "yes" => root = "held"
    /\ pc \in {"open", "openAncestor", "armAncestor"} => root = "none" /\ closed = "no"
    /\ pc \in {"openAncestor", "armAncestor"} => ancestor = "none"
    /\ pc \in {"armRoot", "read", "child"} => root = "held"
    /\ pc \in {"open", "armRoot", "openAncestor", "armAncestor"} =>
         rootWatched = "no" /\ \A t \in Types : cache[t] = "none"
    /\ closed = "yes" => root = "none" /\ ancestor = "none"
    /\ pc \in {"drain", "setting", "read", "child"} => call # NoCall
    /\ pc \in {"read", "child"} => depth <= Len(call.type)
    /\ pc = "child" => depth # Len(call.type)
    /\ pc \notin {"read", "child"} => depth = 0 /\ found = "unset"
    /\ pc # "drain" \/ (rootWatched = "no" /\ ancestor = "none") => news = {}

\* The handles open are the Policy's, the ancestor's being tried and the walk's.
HandleInv ==
    /\ pc = "armAncestor" => handles = 1
    /\ pc \in {"read", "child"} => (depth = 0 => handles = 1) /\ (depth # 0 => handles = 2)
    /\ pc \notin {"armAncestor", "read", "child"} =>
         /\ root = "none" /\ ancestor = "none" => handles = 0
         /\ root = "held" \/ ancestor # "none" => handles = 1

\* A root that exists is the present Events key; the end of a watched one is
\* queued.  One opened in this call exists unless the registry has changed.
AliveInv ==
    /\ "root" \in alive => root = "held" /\ Present(<<>>)
    /\ rootWatched = "yes" /\ "root" \notin alive => "gone" \in pending
    /\ pc = "armRoot" /\ touched = "no" => "root" \in alive

\* The key a walk stands on, while it exists, is the one its path names.
StandInv == pc \in {"read", "child"} /\ HereAlive => Present(Here)

CacheCurrent == \A t \in Types : cache[t] # "none" => cache[t] = Resolve(t)

\* A call that reaches the setting undisturbed reads a live root and a cache
\* that is current, whether from a watch or from establish in this same call.
Undisturbed == touched = "no" /\ excused = "no"
SettingInv == pc = "setting" /\ Undisturbed /\ root = "held" => "root" \in alive /\ CacheCurrent

\* f is the setting nearest to the end of the first k keys of t's path.
Nearest(t, k, f) ==
    \/ f = "unset" /\ \A m \in 0 .. k - 1 : tree[SubSeq(t, 1, m)] = "unset"
    \/ /\ f # "unset"
       /\ \E n \in 0 .. k - 1 : /\ tree[SubSeq(t, 1, n)] = f
                                /\ \A m \in n + 1 .. k - 1 : tree[SubSeq(t, 1, m)] = "unset"

\* While nothing changes, or nothing unnoticed, a walk stands on keys that exist
\* and has found the nearest setting of those it has read.
Steady == (rootWatched = "yes" /\ pending = {}) \/ Undisturbed
WalkInv == pc \in {"read", "child"} /\ Steady =>
    /\ "root" \in alive /\ HereAlive
    /\ \A m \in 0 .. depth : Present(SubSeq(call.type, 1, m))
    /\ pc = "read" => Nearest(call.type, depth, found)
    /\ pc = "child" => Nearest(call.type, depth + 1, found)

IInv == /\ TypeOK /\ StageInv /\ HandleInv /\ AliveInv /\ StandInv
        /\ CacheFresh /\ SettingInv /\ WalkInv

\* The registry leaves Generic in place and Events accessible, and refuses no
\* watch on Generic.
GenericStays == Volatile \subseteq {"Events"} /\ "ancestor" \notin Refusable

\* Then a Policy without a root has seen that Events is absent, and watches
\* Generic from before it last looked.
AbsenceInv ==
    /\ access = "granted" /\ generic = "present"
    /\ ancestor \in {"none", "Generic"} /\ (ancestor # "none" => "ancestor" \in alive)
    /\ pc \in {"openAncestor", "armAncestor"} =>
         try = "Generic" /\ (touched = "no" => ~Present(<<>>))
    /\ pc = "armAncestor" => "ancestor" \in alive
    /\ ancestor # "none" /\ pending = {} /\ news = {} /\ pc # "open" => ~Present(<<>>)
    /\ pc = "setting" /\ Undisturbed /\ root = "none" => closed = "yes" \/ ~Present(<<>>)
=============================================================================
