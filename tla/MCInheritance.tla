--------------------------- MODULE MCInheritance ---------------------------
(* A chain of three containers that ends in a file. *)
EXTENDS Inheritance, TLC

MCNodes      == {"top", "mid", "low", "file"}
MCParent     == "mid" :> "top" @@ "low" :> "mid" @@ "file" :> "low"
MCDepth      == "top" :> 0 @@ "mid" :> 1 @@ "low" :> 2 @@ "file" :> 3
MCContainers == {"top", "mid", "low"}

MCBytes == {"", "o", "p", "g", "a", "b", "c", "d", "e", "f", "h", "i", "s", "t"}

Ace(t, f, c, x) == [type |-> t, flags |-> f, body |-> [core |-> c, tail |-> x]]
Wire(bits, s, d) ==
    [control |-> bits \cup {"selfRelative"}, owner |-> "p", group |-> "g", sacl |-> s, dacl |-> d]
Acl(n, es) == <<[rev |-> 2, count |-> n, aces |-> es]>>
One(e)     == Wire({"daclPresent"}, Nil, Acl(1, <<e>>))

\* Every combination of inheritance flags on one ACE ...
EveryFlags == {One(Ace("allow", f, "a", "")) : f \in SUBSET AllInheritFlags}

\* ... and the descriptors that are odd in another way: a body with a tail, a
\* callback ACE with a body and one without, two ACEs, an ACE inherited from
\* elsewhere, a protected one with a SACL, a NULL DACL, an empty one, a DACL
\* without its bit, one shorter than its count.
Odd ==
    { One(Ace("denyObject", {"CI"}, "b", "t")),
      One(Ace("callback", {"OI", "CI"}, "c", "t")),
      One(Ace("callback", {"CI"}, "", "")),
      Wire({"daclPresent"}, Nil, Acl(2, <<Ace("allow", {"OI"}, "d", ""), Ace("deny", {"CI"}, "e", "")>>)),
      One(Ace("allow", {"inherited", "CI"}, "f", "")),
      Wire({"daclPresent", "saclPresent", "daclProtected"},
           Acl(2, <<Ace("audit", {"inherited"}, "s", ""), Ace("audit", {}, "t", "")>>), Acl(0, <<>>)),
      Wire({"daclPresent", "daclDefaulted"}, Nil, Nil),
      Wire({}, Nil, Acl(1, <<Ace("deny", {"CI"}, "h", "")>>)),
      Wire({"daclPresent"}, Nil, Acl(2, <<Ace("allow", {"CI"}, "i", "")>>)) }

MCInputs == EveryFlags \cup Odd
=============================================================================
