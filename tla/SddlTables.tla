----------------------------- MODULE SddlTables -----------------------------
(***************************************************************************)
(* The vocabulary of SDDL text (src/sddl/tables.go, src/sddl/guid.go) and  *)
(* the textual SIDs it shares with src/wire/sid.go.                        *)
(*                                                                         *)
(* A text is a sequence of glyphs: a punctuation character, or a run of    *)
(* letters or digits that the code never cuts in two in the texts used.    *)
(* The tables keep one or two rows of each kind.                           *)
(***************************************************************************)
EXTENDS Integers, Sequences, FiniteSets, SequencesExt, FiniteSetsExt

CONSTANTS
    Domain,   \* the SID of WithDomain, or NoSID
    Machine,  \* the SID of WithMachine, or NoSID
    MaxSubs   \* maxSubAuthorities

Fail  == <<>>
Ok(x) == <<x>>
Nil   == <<>>

Quote  == "\""
Puncts == {" ", "(", ")", "{", "}", ",", ";", ":", "&", "|", "!", "=", "<", ">", "#", "@", ".", "-", "?", Quote}
Nums   == {"0", "1", "2", "3", "5", "32", "500", "512", "544", "big"}   \* big does not fit
HexOnly == {"ab", "D"}                                                 \* words of hex digits
IsHex(g)  == g \in (Nums \ {"big"}) \cup HexOnly
IsWord(g) == g \notin Puncts \cup Nums \cup {"0x"}

AllOf(s, p(_)) == \A i \in DOMAIN s : p(s[i])

\* The parts of s between the positions in cuts.
SplitAt(s, cuts) ==
    LET c == <<0>> \o SetToSortSeq(cuts, <) \o <<Len(s) + 1>>
    IN  [i \in 1 .. Len(c) - 1 |-> SubSeq(s, c[i] + 1, c[i + 1] - 1)]
Split(s, sep) == SplitAt(s, {i \in DOMAIN s : s[i] = sep})

\* How many glyphs at the start of s satisfy p, and s without its first n.
Span(s, p(_)) == IF AllOf(s, p) THEN Len(s) ELSE Min({i \in DOMAIN s : ~p(s[i])}) - 1
Drop(s, n) == SubSeq(s, n + 1, Len(s))

\* How many parentheses are open after the first i glyphs.
Depth(s, i) == Cardinality({j \in 1 .. i : s[j] = "("}) - Cardinality({j \in 1 .. i : s[j] = ")"})

\* All results, or Fail if one fails.
All(rs) == IF \E i \in DOMAIN rs : rs[i] = Fail THEN Fail ELSE Ok([i \in DOMAIN rs |-> rs[i][1]])

-----------------------------------------------------------------------------
(* SIDs.  An authority with a hex letter stands for one of 2^32 or more.   *)

NoSID == [auth |-> <<>>, subs |-> <<>>]
SID(a, ss) == [auth |-> a, subs |-> ss]

Child(base, rid) ==
    IF base = NoSID \/ Len(base.subs) >= MaxSubs THEN Fail
    ELSE Ok([base EXCEPT !.subs = Append(@, rid)])

\* SID.String.
SIDString(s) ==
    IF s = NoSID THEN <<"S", "-", "?">>
    ELSE <<"S", "-", "1", "-">>
         \o (IF \E i \in DOMAIN s.auth : s.auth[i] \in HexOnly THEN <<"0x">> ELSE <<>>) \o s.auth
         \o FlattenSeq([i \in DOMAIN s.subs |-> <<"-", s.subs[i]>>])

SIDFromString(t) ==
    LET parts == Split(t, "-")
        a == parts[3]
        subs == SubSeq(parts, 4, Len(parts))
        decimal(p) == Len(p) = 1 /\ p[1] \in Nums \ {"big"}
        auth == IF Len(a) > 1 /\ a[1] = "0x"
                THEN IF AllOf(Tail(a), IsHex) THEN Ok(Tail(a)) ELSE Fail
                ELSE IF decimal(a) THEN Ok(a) ELSE Fail
    IN  IF Len(parts) < 3 THEN Fail
        ELSE IF parts[1] # <<"S">> \/ parts[2] # <<"1">> \/ auth = Fail THEN Fail
        ELSE IF ~AllOf(subs, decimal) \/ Len(subs) > MaxSubs THEN Fail
        ELSE Ok(SID(auth[1], [i \in DOMAIN subs |-> subs[i][1]]))

\* sidAliases.
AbsoluteAlias == [n \in {"BA", "WD"} |->
    CASE n = "BA" -> SID(<<"5">>, <<"32", "544">>) [] n = "WD" -> SID(<<"1">>, <<"0">>)]
RelativeRID == [n \in {"DA", "LA"} |-> CASE n = "DA" -> "512" [] n = "LA" -> "500"]
BaseOf(n)   == IF n = "DA" THEN Domain ELSE Machine

ResolveAlias(n) ==
    IF n \in DOMAIN AbsoluteAlias THEN Ok(AbsoluteAlias[n])
    ELSE IF n \in DOMAIN RelativeRID THEN Child(BaseOf(n), RelativeRID[n])
    ELSE Fail

ParseSIDText(t) ==
    IF Len(t) > 1 /\ t[1] = "S" /\ t[2] = "-" THEN SIDFromString(t)
    ELSE IF Len(t) = 1 THEN ResolveAlias(t[1]) ELSE Fail

\* An absolute alias, then a domain-relative, then a machine-relative one.
Named(s, names) == {n \in names : ResolveAlias(n) = Ok(s)}
FormatSID_AnyBase(s) ==
    LET short == {n \in DOMAIN RelativeRID : s # NoSID /\ s.subs # <<>> /\ Last(s.subs) = RelativeRID[n]} IN
    IF Named(s, DOMAIN AbsoluteAlias) # {} THEN <<CHOOSE n \in Named(s, DOMAIN AbsoluteAlias) : TRUE>>
    ELSE IF short # {} THEN <<CHOOSE n \in short : TRUE>>
    ELSE SIDString(s)
FormatSID(s) ==
    LET abs == Named(s, DOMAIN AbsoluteAlias)
        dom == Named(s, {"DA"})
        mac == Named(s, {"LA"}) IN
    IF abs # {} THEN <<CHOOSE n \in abs : TRUE>>
    ELSE IF dom # {} THEN <<CHOOSE n \in dom : TRUE>>
    ELSE IF mac # {} THEN <<CHOOSE n \in mac : TRUE>>
    ELSE SIDString(s)

-----------------------------------------------------------------------------
(* Masks, of two bits; ACE flags; ACE types, named by their tags.          *)

Rights == [m \in {"CC", "DC", "NW", "FR"} |->
    CASE m \in {"CC", "NW"} -> {0} [] m = "DC" -> {1} [] m = "FR" -> {0, 1}]
Digit == [g \in {"0", "1", "2", "3"} |-> CASE g = "0" -> {} [] g = "1" -> {0} [] g = "2" -> {1} [] g = "3" -> {0, 1}]

\* Hex, decimal, or mnemonics that a hex literal may end.
RECURSIVE Mnemonics(_, _)
Mnemonics(f, mask) ==
    IF f = <<>> THEN Ok(mask)
    ELSE IF f[1] = "0x" THEN IF Len(f) = 2 /\ f[2] \in DOMAIN Digit THEN Ok(mask \cup Digit[f[2]]) ELSE Fail
    ELSE IF f[1] \in DOMAIN Rights THEN Mnemonics(Tail(f), mask \cup Rights[f[1]])
    ELSE Fail
ParseMask(f) ==
    IF f # <<>> /\ f[1] \in Nums
    THEN IF Len(f) = 1 /\ f[1] \in DOMAIN Digit THEN Ok(Digit[f[1]]) ELSE Fail
    ELSE Mnemonics(f, {})

FormatMask(m) == IF m = {} THEN <<>> ELSE <<"0x", CHOOSE g \in DOMAIN Digit : Digit[g] = m>>

AceFlagText == <<"CI", "OI", "NP", "IO", "ID", "SA", "FA">>     \* in output order
TextToAceFlags(f) == IF \A i \in DOMAIN f : f[i] \in Range(AceFlagText) THEN Ok(Range(f)) ELSE Fail
AceFlagsToText(fs) == SelectSeq(AceFlagText, LAMBDA c : c \in fs)

ObjectTags   == {"OA", "OD"}
CallbackTags == {"XA", "XD", "ZA"}                              \* ZA has GUIDs
Supported    == {"A", "D", "AU", "ML"} \cup ObjectTags \cup CallbackTags

\* An optional GUID is a sequence of none or one; g1 and g2 are well-formed.
ParseGUID(f) == IF f = <<>> THEN Ok(Nil) ELSE IF Len(f) = 1 /\ f[1] \in {"g1", "g2"} THEN Ok(f) ELSE Fail
=============================================================================
