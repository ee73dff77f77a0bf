-------------------------------- MODULE Sddl --------------------------------
(***************************************************************************)
(* SDDL text: Parse (src/sddl/parse.go) and Format (src/sddl/format.go).   *)
(*                                                                         *)
(* A descriptor is [control, owner, group, dacl, sacl]: control a set of   *)
(* pairs <<"D" or "S", flag>> (other control bits have no text), an ACL    *)
(* Nil or <<its ACEs>>.  An ACE is named by its tag; the Raw body of a     *)
(* callback ACE is its mask, GUIDs, SID and bytecode, and a body too short *)
(* for its SID has none.                                                   *)
(***************************************************************************)
EXTENDS Conditions

ComponentTags == {"O", "G", "D", "S"}
AclFlags == <<"P", "AR", "AI">>                 \* in output order
NullAcl  == "NO_ACCESS_CONTROL"

NoDescriptor == [control |-> {}, owner |-> NoSID, group |-> NoSID, dacl |-> Nil, sacl |-> Nil]

Starts(s, prefix) == Len(s) >= Len(prefix) /\ SubSeq(s, 1, Len(prefix)) = prefix
Opens(s) == Starts(s, <<"(">>)

-----------------------------------------------------------------------------
(* parse.go.                                                               *)

\* How many glyphs of a number, of an S-1- literal, start s; 0 when it is none.
ScanNumber(s) ==
    IF Starts(s, <<"0x">>)
    THEN LET n == Span(Tail(s), IsHex) IN IF n = 0 THEN 0 ELSE 1 + n
    ELSE Span(s, LAMBDA g : g \in Nums)

RECURSIVE ScanSubs(_, _)
ScanSubs(s, n) ==
    LET k == ScanNumber(Drop(s, n + 1)) IN
    IF n >= Len(s) THEN n ELSE IF s[n + 1] # "-" THEN n
    ELSE IF k = 0 THEN 0 ELSE ScanSubs(s, n + 1 + k)
ScanRawSID(s) ==
    LET k == ScanNumber(Drop(s, 4)) IN
    IF ~Starts(s, <<"S", "-", "1", "-">>) \/ k = 0 THEN 0 ELSE ScanSubs(s, 4 + k)

\* scanSID: a literal as far as it goes, or the two letters of an alias.
ScanSID(s) ==
    LET n == IF Starts(s, <<"S", "-">>) THEN ScanRawSID(s) ELSE 1
        r == ParseSIDText(SubSeq(s, 1, n)) IN
    IF n = 0 \/ s = <<>> \/ r = Fail THEN Fail ELSE Ok([sid |-> r[1], rest |-> Drop(s, n)])

\* splitFields.
SplitFields(body) == SplitAt(body, {i \in DOMAIN body : body[i] = ";" /\ Depth(body, i) = 0})

ACE(tag, flags, mask, obj, inh, sid, code) ==
    [tag |-> tag, flags |-> flags, mask |-> mask, obj |-> obj, inh |-> inh, sid |-> sid, code |-> code]

\* parseACEBody, parseStructuredACE and parseCallbackACE.
ParseACEBody(body) ==
    LET f     == SplitFields(body)
        tag   == f[1][1]
        flags == TextToAceFlags(f[2])
        mask  == ParseMask(f[3])
        guids == All(<<ParseGUID(f[4]), ParseGUID(f[5])>>)
        sid   == ParseSIDText(f[6])
        cond  == ParseConditionText(f[7])
        callback == tag \in CallbackTags
    IN  IF Len(f) < 6 \/ Len(f[1]) # 1 THEN Fail
        ELSE IF tag \notin Supported \/ Len(f) # (IF callback THEN 7 ELSE 6) THEN Fail
        ELSE IF flags = Fail \/ mask = Fail \/ guids = Fail \/ sid = Fail THEN Fail
        ELSE IF f[4] \o f[5] # <<>> /\ tag \notin ObjectTags \cup {"ZA"} THEN Fail
        ELSE IF callback /\ cond = Fail THEN Fail
        ELSE Ok(ACE(tag, flags[1], mask[1], guids[1][1], guids[1][2], sid[1],
                    IF callback THEN Encode(cond[1]) ELSE <<>>))

\* scanACE: to the parenthesis that closes the first one.
RECURSIVE ScanACEs(_, _)
ScanACEs(s, aces) ==
    LET ends == {i \in DOMAIN s : s[i] = ")" /\ Depth(s, i) = 0}
        ace  == ParseACEBody(SubSeq(s, 2, Min(ends) - 1)) IN
    IF ~Opens(s) THEN Ok([aces |-> aces, rest |-> s])
    ELSE IF ends = {} THEN Fail ELSE IF ace = Fail THEN Fail
    ELSE ScanACEs(Drop(s, Min(ends)), Append(aces, ace[1]))

\* parseACLFlags, of the run in upper case.
Upper(g) == CASE g = "p" -> "P" [] g = "ai" -> "AI" [] g = "ar" -> "AR" [] OTHER -> g
ParseACLFlags(run) ==
    LET fs == [i \in DOMAIN run |-> Upper(run[i])] IN
    IF ~(Range(fs) \subseteq Range(AclFlags) \cup {NullAcl}) THEN Fail
    ELSE IF Cardinality({i \in DOMAIN fs : fs[i] = NullAcl}) > 1 THEN Fail
    ELSE Ok(Range(fs))

ScanACL(tag, s, d) ==
    LET stops == {i \in DOMAIN s : s[i] = "(" \/ (s[i] \in ComponentTags /\ i < Len(s) /\ s[i + 1] = ":")}
        n     == Min(stops \cup {Len(s) + 1}) - 1
        flags == ParseACLFlags(SubSeq(s, 1, n))
        null  == NullAcl \in flags[1]
        r     == ScanACEs(Drop(s, n), <<>>)
        acl   == IF null THEN Nil ELSE <<r[1].aces>>
        bits  == {<<tag, f>> : f \in (flags[1] \ {NullAcl}) \cup (IF null THEN {} ELSE {"present"})}
        d2    == [d EXCEPT !.control = @ \cup bits]
    IN  IF flags = Fail THEN Fail
        ELSE IF null /\ Opens(Drop(s, n)) THEN Fail
        ELSE IF r = Fail THEN Fail
        ELSE Ok([d |-> IF tag = "D" THEN [d2 EXCEPT !.dacl = acl] ELSE [d2 EXCEPT !.sacl = acl],
                 rest |-> r[1].rest])

\* parse: components in any order, each at most once.
RECURSIVE ParseFrom(_, _, _)
ParseFrom(s, d, seen) ==
    LET sid == ScanSID(Drop(s, 2))
        acl == ScanACL(s[1], Drop(s, 2), d)
        go(r, e) == ParseFrom(r, e, seen \cup {s[1]})
    IN  IF s = <<>> THEN Ok(d)
        ELSE IF Len(s) < 2 THEN Fail
        ELSE IF s[2] # ":" \/ s[1] \notin ComponentTags \ seen THEN Fail
        ELSE IF s[1] \in {"D", "S"} THEN IF acl = Fail THEN Fail ELSE go(acl[1].rest, acl[1].d)
        ELSE IF sid = Fail THEN Fail
        ELSE go(sid[1].rest, IF s[1] = "O" THEN [d EXCEPT !.owner = sid[1].sid]
                             ELSE [d EXCEPT !.group = sid[1].sid])

\* Parse; strings.TrimSpace first.
Trim(s) ==
    LET solid == {i \in DOMAIN s : s[i] # " "}
    IN  IF solid = {} THEN <<>> ELSE SubSeq(s, Min(solid), Max(solid))
Parse(s) == ParseFrom(Trim(s), NoDescriptor, {})

-----------------------------------------------------------------------------
(* format.go.                                                              *)

\* formatACE and formatCallbackACE.
FormatACE(a) ==
    LET head == Join(<<<<"(", a.tag>>, AceFlagsToText(a.flags), FormatMask(a.mask), a.obj, a.inh,
                       FormatSID(a.sid)>>, <<";">>)
        cond == DecodeCondition(a.code)
    IN  IF a.tag \notin Supported \/ ~(a.flags \subseteq Range(AceFlagText)) THEN Fail
        ELSE IF a.tag \notin CallbackTags THEN Ok(head \o <<")">>)
        ELSE IF a.sid = NoSID \/ cond = Fail THEN Fail
        ELSE Ok(head \o <<";">> \o Parens(cond[1]) \o <<")">>)

FormatACLFlags(control, tag) == SelectSeq(AclFlags, LAMBDA f : <<tag, f>> \in control)

FormatACLSection(tag, acl, flags) ==
    LET aces == All([i \in DOMAIN acl[1] |-> FormatACE(acl[1][i])]) IN
    IF acl = Nil THEN Ok(IF flags = <<>> THEN <<>> ELSE <<tag, ":">> \o flags \o <<NullAcl>>)
    ELSE IF aces = Fail THEN Fail ELSE Ok(<<tag, ":">> \o flags \o FlattenSeq(aces[1]))

FormatDescriptor(d) ==
    LET name(tag, s) == IF s = NoSID THEN <<>> ELSE <<tag, ":">> \o FormatSID(s)
        acls == All(<<FormatACLSection("D", d.dacl, FormatACLFlags(d.control, "D")),
                      FormatACLSection("S", d.sacl, FormatACLFlags(d.control, "S"))>>)
        text == name("O", d.owner) \o name("G", d.group) \o acls[1][1] \o acls[1][2]
    IN  IF \/ <<"D", "present">> \in d.control /\ d.dacl = Nil
           \/ <<"S", "present">> \in d.control /\ d.sacl = Nil
           \/ acls = Fail THEN Fail
        ELSE Ok(IF text = <<>> THEN <<"D", ":", NullAcl>> ELSE text)

-----------------------------------------------------------------------------
(* Reference: the descriptors that have a text, and what it stands for.    *)
\* The ACE can be told in text: its kind, flags and SID have a spelling, GUIDs
\* are where the kind has them, and a callback's bytecode is one condition.
HasTextACE(a) ==
    /\ a.tag \in Supported /\ a.flags \subseteq Range(AceFlagText) /\ a.sid # NoSID
    /\ a.obj \o a.inh # <<>> => a.tag \in ObjectTags \cup {"ZA"}
    /\ a.tag \in CallbackTags =>
         a.code # <<>> /\ a.code[1] = Magic /\ IsCondition(Cut(Tail(a.code)))

AcesOf(d) == FlattenSeq(d.dacl) \o FlattenSeq(d.sacl)

\* An ACL that is said to be present is there, and every ACE has a text.
HasText(d) ==
    /\ \A i \in DOMAIN AcesOf(d) : HasTextACE(AcesOf(d)[i])
    /\ <<"D", "present">> \in d.control => d.dacl # Nil
    /\ <<"S", "present">> \in d.control => d.sacl # Nil

\* The literals of a condition that SDDL text can carry: those of Readable whose
\* parentheses match, since scanACE counts the ones inside a string too.
Balanced(s) == Depth(s, Len(s)) = 0 /\ \A i \in DOMAIN s : Depth(s, i) >= 0
RECURSIVE BalancedCode(_)
BalancedCode(c) == \A i \in DOMAIN c : (c[i].t = "str" => Balanced(c[i].d)) /\ BalancedCode(c[i].in)
Legible(d) ==
    \A i \in DOMAIN AcesOf(d) :
        LET code == Cut(AcesOf(d)[i].code) IN Readable(code) /\ BalancedCode(code)

\* The last SID before D: ends in the digits of a hexadecimal authority, which
\* run into the D.
HexBeforeD(d) ==
    LET last == IF d.group = NoSID THEN d.owner ELSE d.group
    IN  /\ d.dacl # Nil \/ FormatACLFlags(d.control, "D") # <<>>
        /\ last.subs = <<>> /\ Range(last.auth) \cap HexOnly # {}

\* An ACL that is there is present; the bytecode is padded as Encode does it.
Canonical(d) ==
    LET here(tag, acl) == IF acl = Nil THEN {} ELSE {<<tag, "present">>}
        ace(a)  == IF a.tag \in CallbackTags THEN [a EXCEPT !.code = Encode(Cut(Tail(@)))] ELSE a
        aces(l) == [i \in DOMAIN l |-> [j \in DOMAIN l[i] |-> ace(l[i][j])]]
    IN  [d EXCEPT !.control = @ \cup here("D", d.dacl) \cup here("S", d.sacl),
                  !.dacl = aces(@), !.sacl = aces(@)]
=============================================================================
