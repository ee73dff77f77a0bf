---------------------------- MODULE Inheritance ----------------------------
(***************************************************************************)
(* Security descriptors kept on a tree of objects and re-inherited from    *)
(* parent to child: Reinherit and ComputeInheritedACEs                     *)
(* (src/sd/inherit.go), StripInheritedACEs (src/sd/getset.go) and, since   *)
(* both work on wire bytes, the codecs they go through (src/sd/ace.go,     *)
(* acl.go, descriptor.go).                                                 *)
(*                                                                         *)
(* Wire forms keep what the codecs tell apart: the header's control bits,  *)
(* an offset of zero (Nil), an ACL's revision and count, an ACE's type,    *)
(* flags and body.  A body has the part a structured ACE keeps and a tail  *)
(* after its SID; sizes are counted in ACEs.  A Go result with an error is *)
(* Fail, and a caller keeps the descriptor it had.                         *)
(***************************************************************************)
EXTENDS Integers, Sequences

CONSTANTS
    Nodes,       \* objects of the tree
    Root,
    Parent,      \* of every node but Root
    Depth,       \* of every node: generations below Root
    Containers,  \* nodes that are containers
    Bytes,       \* byte strings: SIDs and the parts of an ACE's body
    Inputs,      \* wire descriptors an administrator may set
    MaxACEs,     \* room in an ACL, for 65535 bytes
    MaxSets      \* bound: descriptors set from outside

ASSUME TreeAssumption ==
    /\ Root \in Nodes /\ Containers \subseteq Nodes
    /\ Parent \in [Nodes \ {Root} -> Containers]
    /\ Depth \in [Nodes -> Nat] /\ Depth[Root] = 0
    /\ \A n \in Nodes \ {Root} : Depth[n] = Depth[Parent[n]] + 1
ASSUME BytesAssumption == {"", "o", "g"} \subseteq Bytes
ASSUME BoundAssumption == MaxACEs \in Nat /\ MaxSets \in Nat

VARIABLES
    sd,     \* the wire descriptor of each node
    clean,  \* history: nodes re-inherited since they or their parent's DACL changed
    sets    \* descriptors set so far

vars == <<sd, clean, sets>>

Fail  == <<>>
Ok(x) == <<x>>
Nil   == <<>>     \* a nil *ACL, an offset of zero

-----------------------------------------------------------------------------
(* Wire forms.                                                             *)

Simple == {"allow", "deny", "audit"}
Object == {"allowObject", "denyObject"}
Rawed  == {"callback", "attribute"}        \* kept verbatim in Raw

AllInheritFlags == {"OI", "CI", "NP", "IO"}
Flags == AllInheritFlags \cup {"inherited", "successful", "failed"}
Bits  == {"ownerDefaulted", "groupDefaulted", "daclPresent", "daclDefaulted", "saclPresent", "saclDefaulted",
          "daclAutoInherited", "saclAutoInherited", "daclProtected", "saclProtected", "selfRelative"}

\* A body is mask, SID and GUIDs, and the bytes after them.
ACEs == [type : Simple \cup Object \cup Rawed, flags : SUBSET Flags,
         body : [core : Bytes, tail : Bytes]]

\* The count fits the size field.
ACLs == [rev : {2, 4}, count : 0 .. MaxACEs, aces : Seq(ACEs)]

Optional(S) == {Nil} \cup [1 .. 1 -> S]
Descriptors == [control : SUBSET Bits, owner : Bytes, group : Bytes,
                sacl : Optional(ACLs), dacl : Optional(ACLs)]

ASSUME InputAssumption == Inputs \subseteq Descriptors

-----------------------------------------------------------------------------
(* ace.go.                                                                 *)

\* Types 0x05 to 0x10: object and callback.
NeedsDSRevision(t) == t \in Object \cup {"callback"}

\* A body of no bytes.
Empty == [core |-> "", tail |-> ""]

\* A structured body needs its mask and SID, and what follows is not kept.  Raw
\* is nil for an empty body: append([]byte(nil), body...).
ParseACE(w) ==
    IF w.type \in Rawed
    THEN Ok([type |-> w.type, flags |-> w.flags, body |-> w.body,
             raw |-> IF w.body = Empty THEN "nil" ELSE "bytes"])
    ELSE IF w.body.core = "" THEN Fail
    ELSE Ok([type |-> w.type, flags |-> w.flags, body |-> [w.body EXCEPT !.tail = ""],
             raw |-> "nil"])

\* A type without structured encoding must have Raw.
MarshalACE(a) ==
    IF a.raw # "nil" \/ a.type \in Simple \cup Object
    THEN Ok([type |-> a.type, flags |-> a.flags, body |-> a.body])
    ELSE Fail

-----------------------------------------------------------------------------
(* acl.go and descriptor.go.                                               *)

MapOk(f(_), s) ==
    IF \E i \in DOMAIN s : f(s[i]) = Fail THEN Fail ELSE Ok([i \in DOMAIN s |-> f(s[i])[1]])

\* The revision is the smallest that the types allow.
MarshalACL_NoLimit(es) ==
    LET r == MapOk(MarshalACE, es) IN
    IF r = Fail THEN Fail
    ELSE Ok([rev   |-> IF \E i \in DOMAIN es : NeedsDSRevision(es[i].type) THEN 4 ELSE 2,
             count |-> Len(es),
             aces  |-> r[1]])
MarshalACL(es) ==
    LET r == MapOk(MarshalACE, es) IN
    IF Len(es) > MaxACEs \/ r = Fail THEN Fail
    ELSE Ok([rev   |-> IF \E i \in DOMAIN es : NeedsDSRevision(es[i].type) THEN 4 ELSE 2,
             count |-> Len(es),
             aces  |-> r[1]])

\* count ACEs, from the bytes there are.
ParseACL(w) ==
    IF w.count > Len(w.aces) THEN Fail ELSE MapOk(ParseACE, SubSeq(w.aces, 1, w.count))

\* An optional part: absent stays absent.
OptPart(f(_), p) == IF p = Nil THEN Ok(Nil) ELSE LET r == f(p[1]) IN IF r = Fail THEN Fail ELSE Ok(<<r[1]>>)

\* Always self-relative; the present bits are added, never removed.
Marshal(d) ==
    LET s == OptPart(MarshalACL, d.sacl)
        a == OptPart(MarshalACL, d.dacl) IN
    IF s = Fail \/ a = Fail THEN Fail
    ELSE Ok([control |-> d.control \cup {"selfRelative"}
                         \cup (IF d.sacl # Nil THEN {"saclPresent"} ELSE {})
                         \cup (IF d.dacl # Nil THEN {"daclPresent"} ELSE {}),
             owner |-> d.owner, group |-> d.group, sacl |-> s[1], dacl |-> a[1]])

\* An ACL is there when its bit is set and its offset is not zero.
ParseDescriptor(w) ==
    LET s == IF "saclPresent" \in w.control THEN OptPart(ParseACL, w.sacl) ELSE Ok(Nil)
        a == IF "daclPresent" \in w.control THEN OptPart(ParseACL, w.dacl) ELSE Ok(Nil) IN
    IF s = Fail \/ a = Fail THEN Fail
    ELSE Ok([control |-> w.control, owner |-> w.owner, group |-> w.group,
             sacl |-> s[1], dacl |-> a[1]])

-----------------------------------------------------------------------------
(* inherit.go and getset.go.                                               *)

\* The flags of the child's ACE, or Fail for an ACE that does not reach it.
InheritFlags_KeepsIO(f, container) ==
    IF "OI" \notin f /\ "CI" \notin f THEN Fail
    ELSE IF ~container
         THEN IF "OI" \in f THEN Ok((f \ AllInheritFlags) \cup {"inherited"}) ELSE Fail
    ELSE IF "NP" \in f
         THEN IF "CI" \in f THEN Ok((f \ AllInheritFlags) \cup {"inherited"}) ELSE Fail
    ELSE Ok((f \ {"NP"}) \cup {"inherited"})
InheritFlags(f, container) ==
    IF "OI" \notin f /\ "CI" \notin f THEN Fail
    ELSE IF ~container
         THEN IF "OI" \in f THEN Ok((f \ AllInheritFlags) \cup {"inherited"}) ELSE Fail
    ELSE IF "NP" \in f
         THEN IF "CI" \in f THEN Ok((f \ AllInheritFlags) \cup {"inherited"}) ELSE Fail
    ELSE IF "CI" \in f THEN Ok((f \ {"NP", "IO"}) \cup {"inherited"})
    ELSE Ok((f \ {"NP"}) \cup {"IO", "inherited"})

\* The entries at the positions keep, in order: a loop that appends some.
KeptUpTo(es, keep) ==
    LET kept[i \in 0 .. Len(es)] ==
          IF i = 0 THEN <<>> ELSE IF i \in keep THEN Append(kept[i - 1], es[i]) ELSE kept[i - 1]
    IN  kept
Kept(es, keep) == KeptUpTo(es, keep)[Len(es)]

ComputeInheritedACEs(es, container) ==
    LET kept == Kept(es, {i \in DOMAIN es : InheritFlags(es[i].flags, container) # Fail})
    IN  [i \in DOMAIN kept |-> [kept[i] EXCEPT !.flags = InheritFlags(kept[i].flags, container)[1]]]

IsExplicit(e) == "inherited" \notin e.flags
FilterInherited(es) == Kept(es, {i \in DOMAIN es : IsExplicit(es[i])})

Entries(p) == IF p = Nil THEN <<>> ELSE p[1]

KeptControl_NoProtected == {"daclAutoInherited", "saclAutoInherited"}
KeptControl == {"daclAutoInherited", "daclProtected", "saclAutoInherited", "saclProtected"}

\* Reinherit(parentSD, childSD, childIsContainer) on wire descriptors.  A DACL
\* the child had stays, if only empty.
ReinheritSD_Nulls(p, c, container) ==
    LET parent == ParseDescriptor(p)
        child  == ParseDescriptor(c) IN
    IF parent = Fail \/ child = Fail \/ "selfRelative" \notin c.control THEN Fail
    ELSE LET dacl == FilterInherited(Entries(child[1].dacl))
                     \o ComputeInheritedACEs(Entries(parent[1].dacl), container)
         IN  Marshal([child[1] EXCEPT !.control = @ \cap KeptControl,
                                      !.dacl = IF dacl = <<>> THEN Nil ELSE <<dacl>>])
ReinheritSD(p, c, container) ==
    LET parent == ParseDescriptor(p)
        child  == ParseDescriptor(c) IN
    IF parent = Fail \/ child = Fail \/ "selfRelative" \notin c.control THEN Fail
    ELSE LET dacl == FilterInherited(Entries(child[1].dacl))
                     \o ComputeInheritedACEs(Entries(parent[1].dacl), container)
         IN  Marshal([child[1] EXCEPT !.control = @ \cap KeptControl,
                                      !.dacl = IF @ = Nil /\ dacl = <<>> THEN Nil ELSE <<dacl>>])

\* StripInheritedACEs(sdBytes, info) for info within {"dacl", "sacl"}.
StripSD_Nulls(w, info) ==
    LET d == ParseDescriptor(w)
        null(es) == IF es = <<>> THEN Nil ELSE <<es>>
        filtered(part, p) == IF part \in info /\ p # Nil THEN null(FilterInherited(p[1])) ELSE p IN
    IF info = {} THEN Ok(w)
    ELSE IF d = Fail \/ "selfRelative" \notin w.control THEN Fail
    ELSE Marshal([d[1] EXCEPT !.dacl = filtered("dacl", @), !.sacl = filtered("sacl", @)])
StripSD(w, info) ==
    LET d == ParseDescriptor(w)
        filtered(part, p) == IF part \in info /\ p # Nil THEN <<FilterInherited(p[1])>> ELSE p IN
    IF info = {} THEN Ok(w)
    ELSE IF d = Fail \/ "selfRelative" \notin w.control THEN Fail
    ELSE Marshal([d[1] EXCEPT !.dacl = filtered("dacl", @), !.sacl = filtered("sacl", @)])

-----------------------------------------------------------------------------
(* The tree.                                                               *)

\* What Reinherit reads of a parent: its DACL's entries.
DaclOf(w) == LET d == ParseDescriptor(w) IN IF d = Fail THEN <<>> ELSE Entries(d[1].dacl)

Children(n) == {m \in Nodes \ {Root} : Parent[m] = n}

\* n has descriptor w; its children are behind when the DACL they see changed.
Store(n, w) == sd' = [sd EXCEPT ![n] = w]
Behind(n, w) == IF DaclOf(w) = DaclOf(sd[n]) THEN {} ELSE Children(n)

Init ==
    /\ sd \in [Nodes -> {[control |-> {"selfRelative"}, owner |-> "o", group |-> "g",
                          sacl |-> Nil, dacl |-> Nil]}]
    /\ clean = {} /\ sets = 0

\* Set (src/sd/getset.go): a whole descriptor from outside.
Set(n, w) ==
    /\ sets < MaxSets /\ sets' = sets + 1
    /\ Store(n, w)
    /\ clean' = clean \ ({n} \cup Behind(n, w))

Reinherit(n) ==
    LET r == ReinheritSD(sd[Parent[n]], sd[n], n \in Containers) IN
    /\ n # Root /\ r # Fail
    /\ Store(n, r[1])
    /\ clean' = (clean \ Behind(n, r[1])) \cup {n}
    /\ UNCHANGED sets

Strip(n, info) ==
    LET r == StripSD(sd[n], info) IN
    /\ r # Fail
    /\ Store(n, r[1])
    /\ clean' = clean \ (Behind(n, r[1]) \cup (IF r[1] = sd[n] THEN {} ELSE {n}))
    /\ UNCHANGED sets

Next == \E n \in Nodes :
    \/ \E w \in Inputs : Set(n, w)
    \/ n # Root /\ Reinherit(n)
    \/ \E info \in SUBSET {"dacl", "sacl"} : Strip(n, info)

Spec == Init /\ [][Next]_vars

-----------------------------------------------------------------------------
(* Properties.                                                             *)

TypeOK ==
    /\ sd \in [Nodes -> Descriptors]
    /\ clean \subseteq Nodes \ {Root}
    /\ sets \in 0 .. MaxSets

\* Once re-inherited, a node's DACL stays its explicit ACEs followed by what its
\* parent's DACL passes to it, until one of the two changes in another way.
OneGeneration ==
    \A n \in clean :
        DaclOf(sd[n]) = FilterInherited(DaclOf(sd[n]))
                        \o ComputeInheritedACEs(DaclOf(sd[Parent[n]]), n \in Containers)

IInv == TypeOK /\ OneGeneration

\* A node and its ancestors, at their distance from it.
Line(n) == LET up[d \in 0 .. Depth[n]] == IF d = 0 THEN n ELSE Parent[up[d - 1]] IN up

\* What an ACE with flags f means d generations down, without the generations
\* between: the flags it has there, or Fail.  Objects get OI, containers CI; OI
\* alone passes through containers; NP ends it after one generation.
Generations(f, d, container) ==
    LET here == IF container THEN "CI" \in f ELSE "OI" \in f IN
    IF "NP" \in f
    THEN IF d = 1 /\ here THEN Ok((f \ AllInheritFlags) \cup {"inherited"}) ELSE Fail
    ELSE IF here /\ ~container THEN Ok((f \ AllInheritFlags) \cup {"inherited"})
    ELSE IF here THEN Ok((f \ {"IO"}) \cup {"inherited"})
    ELSE IF container /\ "OI" \in f THEN Ok(f \cup {"IO", "inherited"})
    ELSE Fail

\* The ACEs a node contributes: its explicit ones, and all of the root's.
Sources(n) == IF n = Root THEN DaclOf(sd[n]) ELSE FilterInherited(DaclOf(sd[n]))

Passed(es, d, container) ==
    LET kept == Kept(es, {i \in DOMAIN es : Generations(es[i].flags, d, container) # Fail})
    IN  [i \in DOMAIN kept |-> [kept[i] EXCEPT !.flags = Generations(kept[i].flags, d, container)[1]]]

\* What the ancestors up to each distance contribute.
FromAncestors(n) ==
    LET from[d \in 0 .. Depth[n]] ==
          IF d = 0 THEN <<>> ELSE from[d - 1] \o Passed(Sources(Line(n)[d]), d, n \in Containers)
    IN  from

\* When a node and its ancestors have been re-inherited top-down since the last
\* change, its DACL is its explicit ACEs and then those of its ancestors,
\* nearest first, each with the flags its distance gives it: the chain of
\* Reinherit calls computes inheritance over any number of generations.
Converged ==
    \A n \in Nodes :
        (\A d \in 0 .. Depth[n] - 1 : Line(n)[d] \in clean) =>
            DaclOf(sd[n]) = Sources(n) \o FromAncestors(n)[Depth[n]]

\* Stripping first makes no difference to Reinherit, so that an administrator
\* may break inheritance and take it up again: in particular the DACL that
\* lost its last ACE is still there.
StripForgotten ==
    \A n \in Nodes \ {Root} :
        LET s == StripSD(sd[n], {"dacl"})
            direct == ReinheritSD(sd[Parent[n]], sd[n], n \in Containers) IN
        s # Fail /\ direct # Fail =>
            ReinheritSD(sd[Parent[n]], s[1], n \in Containers) = direct

IsNull(w) == "daclPresent" \notin w.control \/ w.dacl = Nil

\* Reinherit and StripInheritedACEs never turn a DACL into a NULL DACL, which
\* would grant everyone full access.
NeverOpensUp ==
    [][sets' = sets => \A n \in Nodes : ~IsNull(sd[n]) => ~IsNull(sd'[n])]_vars

SaclOf(w) == LET d == ParseDescriptor(w) IN IF d = Fail THEN <<>> ELSE Entries(d[1].sacl)

\* ... and change nothing but inherited ACEs: explicit ACEs, owner, group and
\* the protected and auto-inherited bits are as before.
OnlyInheritedChange ==
    [][sets' = sets => \A n \in Nodes : sd'[n] # sd[n] =>
        /\ sd'[n].owner = sd[n].owner /\ sd'[n].group = sd[n].group
        /\ \A b \in {"daclAutoInherited", "daclProtected", "saclAutoInherited", "saclProtected"} :
             b \in sd'[n].control <=> b \in sd[n].control
        /\ FilterInherited(DaclOf(sd'[n])) = FilterInherited(DaclOf(sd[n]))
        /\ FilterInherited(SaclOf(sd'[n])) = FilterInherited(SaclOf(sd[n]))]_vars
=============================================================================
