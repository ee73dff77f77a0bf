----------------------------- MODULE Conditions -----------------------------
(***************************************************************************)
(* Conditional expressions: the builders of src/sd/condition.go, the       *)
(* compiler from text (src/sddl/condition.go) and the decompiler           *)
(* (src/sddl/decompile.go).                                                *)
(*                                                                         *)
(* Bytecode is a postfix sequence of tokens [t, d, in]: d is the glyphs of *)
(* a literal or a name (of a SID, its String), in the tokens inside a      *)
(* composite.  "bad" is a token no builder makes: an unknown tag, or data  *)
(* cut short; "pad" is a 0x00 byte.  Names and strings are well-formed     *)
(* UTF-16.                                                                 *)
(***************************************************************************)
EXTENDS SddlTables

RelSymbols  == {<<"=", "=">>, <<"!", "=">>, <<"<">>, <<"<", "=">>, <<">">>, <<">", "=">>}
RelKeywords == {<<"Contains">>, <<"Any_of">>}
MemberOps   == {<<"Member_of">>, <<"Device_Member_of">>}
ExistsOps   == {<<"Exists">>, <<"Not_Exists">>}
PrefixOps   == MemberOps \cup ExistsOps

-----------------------------------------------------------------------------
(* sd/condition.go.                                                        *)

Data(t, d)    == [t |-> t, d |-> d, in |-> <<>>]
Op(name)      == [t |-> "op", d |-> name, in |-> <<>>]
Pad           == [t |-> "pad", d |-> <<>>, in |-> <<>>]
Magic         == [t |-> "artx", d |-> <<>>, in |-> <<>>]
Operand(t, d) == <<Data(t, d)>>     \* IntOperand, StringOperand, SIDOperand, OctetOperand, *Attr
Composite(items)  == <<[t |-> "comp", d |-> <<>>, in |-> FlattenSeq(items)]>>
Compare(op, l, r) == l \o r \o <<Op(op)>>
Prefix(op, x)     == x \o <<Op(op)>>          \* Member, Exists, NotExists
And(l, r) == l \o r \o <<Op(<<"&">>)>>
Or(l, r)  == l \o r \o <<Op(<<"|">>)>>
Not(c)    == c \o <<Op(<<"!">>)>>

\* Encode: the magic, and padding to four bytes.  A glyph of a name counts as
\* one character; the sub-authorities of a SID are four bytes each.
Digits(g) == IF g \in {"ab", "32"} THEN 2 ELSE IF g \in {"500", "512", "544"} THEN 3 ELSE 1
HexLen(s) == FoldLeft(LAMBDA n, g : n + Digits(g), 0, s)
RECURSIVE Width(_)
Width(c) ==
    LET one(k) == CASE k.t = "op"    -> 1
                    [] k.t = "int"   -> 11
                    [] k.t = "sid"   -> 5 + 8
                    [] k.t = "octet" -> 5 + HexLen(k.d) \div 2
                    [] k.t = "comp"  -> 5 + Width(k.in)
                    [] OTHER         -> 5 + 2 * Len(k.d)
    IN  FoldLeft(LAMBDA n, k : n + one(k), 0, c)
Encode(c) == <<Magic>> \o c \o [i \in 1 .. (-Width(c)) % 4 |-> Pad]

-----------------------------------------------------------------------------
(* lexCondition.                                                           *)

Tok(k, s) == [k |-> k, s |-> s]
IsIdent(g) == IsWord(g) \/ g \in Nums
IsNum(g)   == g \in Nums \cup HexOnly \cup {"0x"}

Find(s, g) == IF \E i \in DOMAIN s : s[i] = g THEN Min({i \in DOMAIN s : s[i] = g}) ELSE 0

RECURSIVE Lex(_)
Lex(s) ==
    LET c == s[1]
        follows(g) == Len(s) > 1 /\ s[2] = g
        emit(k, x, n) == LET r == Lex(Drop(s, n)) IN IF r = Fail THEN Fail ELSE Ok(<<Tok(k, x)>> \o r[1])
        rel(n) == emit("rel", SubSeq(s, 1, n), n)
        close(from, g) == Find(Drop(s, from), g)
        n == Span(s, IsIdent)
    IN  IF s = <<>> THEN Ok(<<Tok("eof", <<>>)>>)
        ELSE CASE c = " " -> Lex(Tail(s))
               [] c \in {"(", ")", "{", "}", ","} -> emit(c, <<>>, 1)
               [] c \in {"&", "|"} -> IF follows(c) THEN emit(c, <<>>, 2) ELSE Fail
               [] c = "!" -> IF follows("=") THEN rel(2) ELSE emit("!", <<>>, 1)
               [] c = "=" -> IF follows("=") THEN rel(2) ELSE Fail
               [] c \in {"<", ">"} -> IF follows("=") THEN rel(2) ELSE rel(1)
               [] c = Quote -> IF close(1, Quote) = 0 THEN Fail
                               ELSE emit("str", SubSeq(s, 2, close(1, Quote)), 1 + close(1, Quote))
               [] c = "#" -> LET h == Span(Tail(s), IsHex) IN emit("octet", SubSeq(s, 2, 1 + h), 1 + h)
               [] c = "@" -> LET h == Span(Tail(s), LAMBDA g : IsIdent(g) \/ g = ".")
                             IN  emit("attr", SubSeq(s, 2, 1 + h), 1 + h)
               [] c \in Nums \cup {"-", "0x"} -> LET h == Span(Tail(s), IsNum)
                                                 IN  emit("int", SubSeq(s, 1, 1 + h), 1 + h)
               [] IsWord(c) -> IF n = 1 /\ c = "SID" /\ follows("(")
                               THEN IF close(2, ")") = 0 THEN Fail
                                    ELSE emit("sid", SubSeq(s, 3, 1 + close(2, ")")), 2 + close(2, ")"))
                               ELSE emit("ident", SubSeq(s, 1, n), n)
               [] OTHER -> Fail

-----------------------------------------------------------------------------
(* condParser: recursive descent over the tokens, from position p.         *)

No == [ok |-> FALSE, pos |-> 0, code |-> <<>>]
Yes(p, code) == [ok |-> TRUE, pos |-> p, code |-> code]

Kind(ts, p) == ts[p].k
Advance(ts, p) == IF p < Len(ts) THEN p + 1 ELSE p

\* strconv.ParseInt with base 0, on numbers of one glyph; -0 is 0.  Those with
\* more glyphs, hexadecimal ones among them, are left out of the texts that are
\* built; the decompiler writes decimal.
ParseInt(s) ==
    IF Len(s) = 1 /\ s[1] \in Nums \ {"big"} THEN Ok(s)
    ELSE IF Len(s) = 2 /\ s[1] = "-" /\ s[2] \in Nums \ {"big"}
         THEN Ok(IF s[2] = "0" THEN <<"0">> ELSE s)
    ELSE Fail

\* attrOperand: @Class.name, where the name may have dots of its own.
AttrOperand(s) ==
    IF Len(s) < 3 THEN Fail
    ELSE IF s[1] \notin {"User", "Resource", "Device"} \/ s[2] # "." THEN Fail
    ELSE Ok(Operand(s[1], Drop(s, 2)))

\* A token that is an operand by itself.
Literal(k) ==
    CASE k.k = "int" -> LET n == ParseInt(k.s) IN IF n = Fail THEN Fail ELSE Ok(Operand("int", n[1]))
      [] k.k = "str" -> Ok(Operand("str", k.s))
      [] k.k = "octet" -> IF HexLen(k.s) % 2 = 0 THEN Ok(Operand("octet", k.s)) ELSE Fail
      [] k.k = "sid" -> LET r == ParseSIDText(k.s) IN
                        IF r = Fail THEN Fail ELSE Ok(Operand("sid", SIDString(r[1])))
      [] k.k = "attr" -> AttrOperand(k.s)
      [] k.k = "ident" -> Ok(Operand("Local", k.s))
      [] OTHER -> Fail

RECURSIVE ParseOperand(_, _), ParseItems(_, _, _)
ParseOperand(ts, p) ==
    IF Kind(ts, p) = "{" THEN ParseItems(ts, Advance(ts, p), <<>>)
    ELSE LET r == Literal(ts[p]) IN IF r = Fail THEN No ELSE Yes(Advance(ts, p), r[1])
\* parseComposite's loop; a comma may come last.
ParseItems(ts, p, items) ==
    LET x == ParseOperand(ts, p) IN
    IF Kind(ts, p) = "}" THEN Yes(Advance(ts, p), Composite(items))
    ELSE IF Kind(ts, p) = "eof" \/ ~x.ok THEN No
    ELSE IF Kind(ts, x.pos) = "," THEN ParseItems(ts, Advance(ts, x.pos), Append(items, x.code))
    ELSE IF Kind(ts, x.pos) = "}" THEN ParseItems(ts, x.pos, Append(items, x.code))
    ELSE No

IsRelOp(k) == (k.k = "rel" /\ k.s \in RelSymbols) \/ (k.k = "ident" /\ k.s \in RelKeywords)

\* A prefix operator, or an infix relation.
ParseLeaf(ts, p) ==
    IF Kind(ts, p) = "ident" /\ ts[p].s \in PrefixOps
    THEN LET x == ParseOperand(ts, Advance(ts, p)) IN
         IF x.ok THEN Yes(x.pos, Prefix(ts[p].s, x.code)) ELSE No
    ELSE LET l == ParseOperand(ts, p)
             r == ParseOperand(ts, Advance(ts, l.pos)) IN
         IF ~l.ok THEN No ELSE IF ~IsRelOp(ts[l.pos]) \/ ~r.ok THEN No
         ELSE Yes(r.pos, Compare(ts[l.pos].s, l.code, r.code))

RECURSIVE ParseOr(_, _), ParseAnd(_, _), ParseUnary(_, _), OrRest(_, _), AndRest(_, _)
ParseTerm_OpenParen(ts, p) ==
    IF Kind(ts, p) # "(" THEN ParseLeaf(ts, p)
    ELSE LET e == ParseOr(ts, Advance(ts, p)) IN IF ~e.ok THEN No ELSE Yes(Advance(ts, e.pos), e.code)
ParseTerm(ts, p) ==
    IF Kind(ts, p) # "(" THEN ParseLeaf(ts, p)
    ELSE LET e == ParseOr(ts, Advance(ts, p)) IN
         IF ~e.ok THEN No ELSE IF Kind(ts, e.pos) # ")" THEN No ELSE Yes(Advance(ts, e.pos), e.code)
ParseUnary(ts, p) ==
    IF Kind(ts, p) # "!" THEN ParseTerm(ts, p)
    ELSE LET x == ParseUnary(ts, Advance(ts, p)) IN IF x.ok THEN Yes(x.pos, Not(x.code)) ELSE No
AndRest(ts, l) ==
    IF ~l.ok THEN No ELSE IF Kind(ts, l.pos) # "&" THEN l
    ELSE LET r == ParseUnary(ts, Advance(ts, l.pos)) IN
         IF r.ok THEN AndRest(ts, Yes(r.pos, And(l.code, r.code))) ELSE No
ParseAnd(ts, p) == AndRest(ts, ParseUnary(ts, p))
OrRest(ts, l) ==
    IF ~l.ok THEN No ELSE IF Kind(ts, l.pos) # "|" THEN l
    ELSE LET r == ParseAnd(ts, Advance(ts, l.pos)) IN
         IF r.ok THEN OrRest(ts, Yes(r.pos, Or(l.code, r.code))) ELSE No
ParseOr(ts, p) == OrRest(ts, ParseAnd(ts, p))

ParseConditionText(s) ==
    LET ts == Lex(s)
        e  == ParseOr(ts[1], 1) IN
    IF ts = Fail THEN Fail ELSE IF e.ok /\ Kind(ts[1], e.pos) = "eof" THEN Ok(e.code) ELSE Fail

-----------------------------------------------------------------------------
(* decompile.go: a stack of texts.                                         *)

BinaryOps == RelSymbols \cup RelKeywords \cup {<<"&">>, <<"|">>}
UnaryOps  == PrefixOps \cup {<<"!">>}

Join(ss, sep) == FlattenSeq([i \in DOMAIN ss |-> IF i = 1 THEN ss[i] ELSE sep \o ss[i]])
Parens(s) == <<"(">> \o s \o <<")">>
Spaced(ss) == Join(ss, <<" ">>)

BinaryText_NoParens(op, l, r) ==
    IF op \in {<<"&">>, <<"|">>} THEN Spaced(<<l, op \o op, r>>) ELSE Spaced(<<l, op, r>>)
BinaryText(op, l, r) ==
    IF op \in {<<"&">>, <<"|">>} THEN Spaced(<<Parens(l), op \o op, Parens(r)>>)
    ELSE Spaced(<<l, op, r>>)
UnaryText(op, x) == IF op = <<"!">> THEN op \o Parens(x) ELSE Spaced(<<op, x>>)

RECURSIVE DecodeTokens(_, _)
\* decodeDataToken.
DataText(k) ==
    CASE k.t \in {"int", "Local"} -> Ok(k.d)
      [] k.t = "str"   -> Ok(<<Quote>> \o k.d \o <<Quote>>)
      [] k.t = "octet" -> Ok(<<"#">> \o k.d)
      [] k.t \in {"User", "Resource", "Device"} -> Ok(<<"@", k.t, ".">> \o k.d)
      [] k.t = "sid"   -> LET s == SIDFromString(k.d) IN
                          IF s = Fail THEN Fail ELSE Ok(<<"SID">> \o Parens(FormatSID(s[1])))
      [] k.t = "comp"  -> LET ts == DecodeTokens(k.in, <<>>) IN
                          IF ts = Fail THEN Fail ELSE Ok(<<"{">> \o Join(ts[1], <<",", " ">>) \o <<"}">>)
      [] OTHER -> Fail

\* Stops at the first padding; fails when an operator finds too few operands.
DecodeTokens(code, stack) ==
    LET k == code[1]
        n == Len(stack)
        x == DataText(k)
        push(m, text) == DecodeTokens(Tail(code), Append(SubSeq(stack, 1, m), text))
    IN  IF code = <<>> THEN Ok(stack) ELSE IF k.t = "pad" THEN Ok(stack)
        ELSE IF k.t # "op" THEN IF x = Fail THEN Fail ELSE push(n, x[1])
        ELSE IF k.d \in UnaryOps
             THEN IF n < 1 THEN Fail ELSE push(n - 1, UnaryText(k.d, stack[n]))
        ELSE IF n < 2 THEN Fail ELSE push(n - 2, BinaryText(k.d, stack[n - 1], stack[n]))

DecodeCondition(code) ==
    LET ts == DecodeTokens(Tail(code), <<>>) IN
    IF code = <<>> THEN Fail ELSE IF code[1] # Magic \/ ts = Fail THEN Fail
    ELSE IF Len(ts[1]) # 1 THEN Fail ELSE Ok(ts[1][1])

-----------------------------------------------------------------------------
(* Reference definitions: what the text and the bytecode mean.             *)

Top(ts, k) == {i \in DOMAIN ts : ts[i].k = k /\ Depth([j \in DOMAIN ts |-> ts[j].k], i) = 0}
BraceDepth(ts, i) == Cardinality({j \in 1 .. i : ts[j].k = "{"}) - Cardinality({j \in 1 .. i : ts[j].k = "}"})

\* { items }, split at its own commas; one comma may come last.
RECURSIVE MeansOperand(_)
MeansOperand(ts) ==
    LET inner == SubSeq(ts, 2, Len(ts) - 1)
        cuts  == {i \in DOMAIN inner : inner[i].k = "," /\ BraceDepth(inner, i) = 0}
        parts == SplitAt(inner, cuts)
        items == IF Last(parts) = <<>> THEN Front(parts) ELSE parts
        means == All([i \in DOMAIN items |-> MeansOperand(items[i])])
    IN  IF Len(ts) = 1 THEN Literal(ts[1])
        ELSE IF Len(ts) < 2 THEN Fail ELSE IF ts[1].k # "{" \/ Last(ts).k # "}" THEN Fail
        ELSE IF \E i \in DOMAIN inner : BraceDepth(inner, i) < 0 THEN Fail
        ELSE IF means = Fail THEN Fail ELSE Ok(Composite(means[1]))

MeansLeaf(ts) ==
    LET x == MeansOperand(Tail(ts))
        fits == {i \in 2 .. Len(ts) - 1 : /\ IsRelOp(ts[i])
                                          /\ MeansOperand(SubSeq(ts, 1, i - 1)) # Fail
                                          /\ MeansOperand(Drop(ts, i)) # Fail}
        at == CHOOSE i \in fits : TRUE
    IN  IF ts = <<>> THEN Fail
        ELSE IF ts[1].k = "ident" /\ ts[1].s \in PrefixOps
             THEN IF x = Fail THEN Fail ELSE Ok(Prefix(ts[1].s, x[1]))
        ELSE IF fits = {} THEN Fail
        ELSE Ok(Compare(ts[at].s, MeansOperand(SubSeq(ts, 1, at - 1))[1], MeansOperand(Drop(ts, at))[1]))

\* || binds less than &&, && less than !, both to the left.
RECURSIVE Means(_)
Means(ts) ==
    LET ors  == Top(ts, "|")
        ands == Top(ts, "&")
        both(i, join(_, _)) ==
            LET l == Means(SubSeq(ts, 1, i - 1))
                r == Means(Drop(ts, i)) IN
            IF l = Fail \/ r = Fail THEN Fail ELSE Ok(join(l[1], r[1]))
        x == Means(Tail(ts)) IN
    IF ts = <<>> THEN Fail
    ELSE IF ors # {} THEN both(Max(ors), Or)
    ELSE IF ands # {} THEN both(Max(ands), And)
    ELSE IF ts[1].k = "!" THEN IF x = Fail THEN Fail ELSE Ok(Not(x[1]))
    ELSE IF ts[1].k = "(" /\ Last(ts).k = ")" THEN Means(SubSeq(ts, 2, Len(ts) - 1))
    ELSE MeansLeaf(ts)

\* The bytecode up to its padding, and whether it is one condition: operands
\* where operands belong, conditions where conditions do.
RECURSIVE Cut(_), IsOperand(_)
Cut(c) ==
    LET n == Span(c, LAMBDA k : k.t # "pad")
    IN  [i \in 1 .. n |-> [c[i] EXCEPT !.in = Cut(@)]]
IsOperand(k) ==
    /\ k.t \notin {"op", "bad", "artx"}
    /\ k.t = "sid" => SIDFromString(k.d) # Fail
    /\ \A i \in DOMAIN k.in : IsOperand(k.in[i])

\* Bytecode whose literals and names the text can carry: it has no escape for a
\* quote in a string, and a name is written bare.
RECURSIVE Readable(_)
Readable(c) ==
    \A i \in DOMAIN c :
        LET k == c[i] IN
        /\ k.t = "str" => Quote \notin Range(k.d)
        /\ k.t = "Local" => /\ k.d # <<>> /\ IsWord(k.d[1]) /\ AllOf(k.d, IsIdent)
                            /\ k.d \notin PrefixOps
        /\ k.t \in {"User", "Resource", "Device"} =>
             k.d # <<>> /\ AllOf(k.d, LAMBDA g : IsIdent(g) \/ g = ".")
        /\ Readable(k.in)

\* A local name that looks like a number is read as the number.
RECURSIVE NumbersRead(_)
NumbersRead(c) ==
    [i \in DOMAIN c |->
        IF c[i].t = "Local" /\ ParseInt(c[i].d) # Fail THEN Data("int", ParseInt(c[i].d)[1])
        ELSE [c[i] EXCEPT !.in = NumbersRead(@)]]

IsCondition(c) ==
    LET after(kinds, k) ==
            LET n == Len(kinds)
                pop(m, want) == IF n >= m /\ \A i \in n - m + 1 .. n : kinds[i] = want
                                THEN Append(SubSeq(kinds, 1, n - m), "cond") ELSE <<"bad">> \o kinds
            IN  IF k.t # "op" THEN Append(kinds, IF IsOperand(k) THEN "operand" ELSE "bad")
                ELSE IF k.d \in {<<"&">>, <<"|">>} THEN pop(2, "cond")
                ELSE IF k.d = <<"!">> THEN pop(1, "cond")
                ELSE IF k.d \in PrefixOps THEN pop(1, "operand") ELSE pop(2, "operand")
    IN  FoldLeft(after, <<>>, c) = <<"cond">>
=============================================================================
