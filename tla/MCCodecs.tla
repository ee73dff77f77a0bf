------------------------------ MODULE MCCodecs ------------------------------
(* Inputs around the limits of each codec. *)
EXTENDS Codecs

Seed(f, x, n) == [form |-> f, item |-> x, left |-> n]

\* Audit contexts.  107 is the letter that stands for "kind", 97 and 98 are names.
MCKindKey == <<107>>
MCBytes   == {0, 1, 45, 97, 107, 128, 129, 130, 144, 145, 146, 160, 161, 162, 193, 196, 199, 205, 212, 217, 220, 222}
Bare   == <<129, 161, 107, 161, 97>>
Full   == <<130, 161, 107, 161, 97, 161, 97, 129, 161, 98>>
Swapped == <<130, 161, 97, 129, 161, 98, 1, 161, 107, 161, 97>>
Deep   == Full \o <<145, 145, 145, 1>>
ByteSeeds ==
    {Seed("bytes", Bare, 2), Seed("bytes", Full \o <<1>>, 2), Seed("bytes", Swapped, 1),
     Seed("bytes", Deep, 1), Seed("bytes", Full \o <<145, 145, 1>>, 1),
     Seed("bytes", <<222, 0, 1, 218, 0, 1, 107, 219, 0, 0, 0, 1, 97>>, 1),
     Seed("bytes", Full \o <<199, 2, 7, 1, 1>>, 1), Seed("bytes", Full \o <<129, 1, 144>>, 1)}

Field(k, t, d) == [key |-> k, type |-> t, data |-> d]
Letters(n) == [i \in 1 .. n |-> 97]
Num(hi, lo) == <<hi, hi, hi, hi>> \o lo
MCFields ==
    {Field(<<97>>, "str", Letters(n)) : n \in {0, 31, 32, 255, 256}}
    \cup {Field(<<98>>, "bin", Letters(n)) : n \in {255, 256}}
    \cup {Field(<<99>>, t, Num(0, l)) : t \in {"uint", "int"},
            l \in {<<0, 0, 0, 127>>, <<0, 0, 0, 128>>, <<0, 0, 1, 0>>, <<0, 1, 0, 0>>, <<255, 255, 255, 255>>}}
    \cup {Field(<<100>>, "int", Num(255, l)) :
            l \in {<<255, 255, 255, 224>>, <<255, 255, 255, 223>>, <<255, 255, 255, 127>>,
                   <<255, 255, 127, 255>>, <<127, 255, 255, 255>>}}
    \cup {Field(<<101>>, "uint", <<0, 0, 0, 1, 0, 0, 0, 0>>), Field(<<102>>, "bool", <<1>>),
          Field(<<97, 45>>, "bool", <<0>>), Field(<<97, 45, 98>>, "bool", <<0>>),
          Field(<<107>>, "str", <<195, 169>>), Field(<<103>>, "str", <<195>>)}
Many(n) == [i \in 1 .. n |-> Field(<<104, 97 + i>>, "bool", <<0>>)]
AuditSeeds ==
    {Seed("audit", [kind |-> k, fields |-> <<>>], 2) : k \in {<<97>>, <<107>>, <<97, 45, 45, 98>>}}
    \cup {Seed("audit", [kind |-> <<97>>, fields |-> Many(n)], 1) : n \in {14, 15}}

\* Conditions.
P == <<"nm", "=", "=", "1", " ">>
Q == <<"Exists", " ", "nm", " ">>
Logic == {P, Q, <<"&", "&">>, <<"|", "|">>, <<"!">>, <<"(">>, <<")">>}
Terms == {<<"nm", " ">>, <<"1">>, <<"=", "=">>, <<" ", "Any_of", " ">>, <<"Member_of", " ">>,
          <<"{">>, <<"}">>, <<",">>}
MCWords == Logic \cup Terms
TextSeeds == {Seed("text", <<>>, 4), Seed("text", <<P, <<"&", "&">>, P, <<"|", "|">>, P>>, 2),
              Seed("text", <<<<"!">>, P, <<"&", "&">>, <<"(">>, Q, <<"|", "|">>, P, <<")">>>>, 2),
              Seed("text", <<<<"Member_of", " ">>, <<"{">>, <<"1">>, <<",">>, <<"{">>, <<"nm", " ">>, <<"}">>, <<"}">>>>, 2)}

In(items) == [t |-> "comp", d |-> <<>>, in |-> items]
Sid(s) == Data("sid", SIDString(s))
MCDomain  == SID(<<"5">>, <<"2">>)
MCMachine == SID(<<"5">>, <<"3">>)
Rel(s, r) == [s EXCEPT !.subs = Append(@, r)]
MCOpcodes ==
    {Data("Local", <<"nm">>), Data("int", <<"-", "1">>), In(<<Sid(Rel(MCDomain, "512")), Sid(Rel(MCMachine, "512"))>>),
     In(<<Data("octet", <<"ab">>), Pad, Data("int", <<"1">>)>>), In(<<Data("Local", <<"nm">>), Op(<<"Exists">>)>>),
     Data("Local", <<"Any_of">>), Data("Local", <<"1">>), Data("str", <<Quote>>),
     Op(<<"=", "=">>), Op(<<"Member_of">>), Op(<<"&">>), Op(<<"|">>), Op(<<"!">>), Pad, Data("bad", <<>>)}
Matches == <<Data("User", <<"nm">>), Data("str", <<";">>), Op(<<"=", "=">>)>>
Held    == <<Data("Local", <<"nm">>), Op(<<"Exists">>)>>
CodeSeeds == {Seed("code", <<>>, 4)} \cup
             {Seed("code", <<k>>, 3) :
                k \in {Data("Local", <<>>), Data("Local", <<"Exists">>), Data("Local", <<"SID">>), Data("Local", <<"nm", "1">>),
                       Data("User", <<>>), Data("User", <<"nm", ".", "nm">>), Data("User", <<"nm", " ">>),
                       Data("str", <<")", " ", "|", "|">>), Data("str", <<Quote, "(">>)}} \cup
             {Seed("code", Matches, 4), Seed("code", Matches \o Held \o Held, 3)}

\* Descriptors and SDDL text.
Hex == SID(<<"ab">>, <<>>)
Code(s) == Encode(Compare(<<"=", "=">>, Operand("User", <<"nm">>), Operand("str", s)))
MCEntries ==
    {ACE("A", {"OI", "CI", "ID"}, {0}, Nil, Nil, Rel(MCDomain, "512"), <<>>),
     ACE("D", {}, {}, Nil, Nil, Rel(MCMachine, "512"), <<>>),
     ACE("A", {}, {0, 1}, <<"g1">>, Nil, AbsoluteAlias["WD"], <<>>),
     ACE("OA", {"FA"}, {1}, Nil, <<"g2">>, Rel(MCMachine, "500"), <<>>),
     ACE("ML", {}, {1}, Nil, Nil, NoSID, <<>>),
     ACE("RA", {}, {1}, Nil, Nil, Hex, <<>>),
     ACE("A", {"unknown"}, {1}, Nil, Nil, Hex, <<>>),
     ACE("XA", {"NP"}, {1}, Nil, Nil, Hex, Code(<<";">>)),
     ACE("XD", {}, {1}, Nil, Nil, Hex, Code(<<"(">>)),
     ACE("XD", {}, {1}, Nil, Nil, Hex, Code(<<")", "(">>)),
     ACE("XD", {}, {1}, Nil, Nil, NoSID, Code(<<>>)),
     ACE("ZA", {}, {1}, <<"g1">>, <<"g2">>, AbsoluteAlias["BA"],
         Append(Code(<<"(", ")">>), Pad)),
     ACE("XA", {}, {1}, Nil, Nil, Hex, <<Op(<<"=", "=">>)>>)}
MCControls == {"D", "S"} \X {"present", "P", "AR", "AI"}
DescriptorSeeds ==
    {Seed("descriptor", [control |-> {}, owner |-> o, group |-> g, dacl |-> d, sacl |-> s], 2) :
        o \in {NoSID, Hex, Rel(MCDomain, "512")}, g \in {NoSID, Hex}, d \in {Nil, <<<<>>>>}, s \in {Nil, <<<<>>>>}}

MCPieces ==
    {<<"O", ":", "BA">>, <<"O", ":", "DA">>, <<"G", ":", "S", "-", "1", "-", "5", "-", "2", "-", "512">>,
     <<"G", ":", "S", "-", "1", "-", "0x", "ab">>, <<"O", ":", "S", "-", "1", "-", "big">>, <<"D", ":">>, <<"S", ":", "p">>, <<"ai">>, <<"P">>, <<NullAcl>>,
     <<"(", "A", ";", "CI", "OI", ";", "CC", "0x", "2", ";", ";", ";", "BA", ")">>,
     <<"(", "OA", ";", ";", "3", ";", "g1", ";", ";", "LA", ")">>,
     <<"(", "XA", ";", ";", "FR", ";", ";", ";", "WD", ";", "(", "nm", "=", "=", "#", "ab", "|", "|", "!", "Exists", " ", "@", "User", ".", "nm", ")", ")">>,
     <<"(", "D", ";", ";", ";", ";", ";", ")">>, <<" ">>}
SddlSeeds == {Seed("sddl", <<>>, 4), Seed("sddl", <<"O", ":", "LA", "D", ":">>, 3)}

\* Registry values and watch events.
MCValues ==
    {[type |-> t, data |-> d] : t \in {"sz", "expandsz", "link", "binary", "other"}, d \in {<<>>, <<97>>, <<97, 0>>, <<195, 169>>, <<195>>}}
    \cup {[type |-> t, data |-> <<1, 2, 3, 255>>] : t \in {"dword", "dwordbe"}}
    \cup {[type |-> "qword", data |-> <<255, 0, 0, 0, 1, 2, 3, 4>>], [type |-> "none", data |-> <<>>], [type |-> "none", data |-> <<1>>]}
    \cup {[type |-> "multisz", data |-> l] : l \in {<<>>, <<<<97>>>>, <<<<97>>, <<98, 97>>>>, <<<<>>>>, <<<<97>>, <<>>, <<98>>>>,
                                                      <<<<0, 97, 0, 98>>>>, <<<<195>>, <<169>>>>}}
MCChanges ==
    {[type |-> 1, name |-> n, path |-> p] : n \in {<<>>, <<97>>, <<2, 0, 2, 0>>}, p \in {<<>>, <<<<98>>>>, <<<<>>, <<1, 0>>>>}}
WireSeeds == {Seed("value", [type |-> "none", data |-> <<>>], 2), Seed("value", [type |-> "multisz", data |-> <<97, 0, 98, 0, 0>>], 2),
              Seed("watch", <<>>, 3)}

MCSeeds == WireSeeds \cup ByteSeeds \cup AuditSeeds \cup TextSeeds \cup CodeSeeds \cup DescriptorSeeds \cup SddlSeeds
=============================================================================
