---------------------------- MODULE AuditContext ----------------------------
(***************************************************************************)
(* Audit contexts (src/sd/auditcontext.go): EncodeAuditContext writes one  *)
(* MessagePack map {kind: k, k: {fields}}, ValidateAuditContext reads it   *)
(* as the kernel does, with a cursor, a counter of pending values and a    *)
(* stack of open containers.                                               *)
(*                                                                         *)
(* A buffer is a sequence of bytes and a position the number of bytes      *)
(* read.  The key "kind" is one letter here, which keeps contexts short;   *)
(* so are the alphabet's other names.                                      *)
(***************************************************************************)
EXTENDS Integers, Sequences, FiniteSets, SequencesExt, FiniteSetsExt

CONSTANTS
    KindKey,     \* the bytes that stand for the key "kind"
    MaxLen,      \* KACS_ACCESS_CHECK_MAX_AUDIT_CONTEXT_LEN
    MaxNesting   \* auditContextMaxDepth

Bad == [ok |-> FALSE, pos |-> 0, v |-> 0]
Got(p, v) == [ok |-> TRUE, pos |-> p, v |-> v]

Slice(b, from, to) == SubSeq(b, from + 1, to)

\* unicode/utf8.Valid (external) for the bytes used: ASCII and two-byte runes.
Utf8Valid(s) ==
    \A i \in DOMAIN s :
        \/ s[i] < 128
        \/ s[i] \in 194 .. 223 /\ i < Len(s) /\ s[i + 1] \in 128 .. 191
        \/ s[i] \in 128 .. 191 /\ i > 1 /\ s[i - 1] \in 194 .. 223

Lower  == 97 .. 122
Digits == 48 .. 57
Hyphen == 45

IsEventSegment(s) ==
    /\ s # <<>> /\ s[1] \in Lower /\ Last(s) # Hyphen
    /\ \A i \in 2 .. Len(s) : s[i] \in Lower \cup Digits \/ (s[i] = Hyphen /\ s[i - 1] # Hyphen)

-----------------------------------------------------------------------------
(* Encoding.  A 64-bit number is its eight bytes, the highest first.       *)

BE(n, w) == [i \in 1 .. w |-> (n \div 256 ^ (w - i)) % 256]

\* The 32-bit forms of a map, a string and of binary are for lengths beyond
\* MaxLen, and left out: such an output is refused for its length.
MpMap(n) == IF n <= 15 THEN <<128 + n>> ELSE <<222>> \o BE(n, 2)

MpStr_Fix32(s) ==
    LET n == Len(s) IN
    (IF n <= 32 THEN <<160 + n>> ELSE IF n <= 255 THEN <<217, n>> ELSE <<218>> \o BE(n, 2)) \o s
MpStr(s) ==
    LET n == Len(s) IN
    (IF n <= 31 THEN <<160 + n>> ELSE IF n <= 255 THEN <<217, n>> ELSE <<218>> \o BE(n, 2)) \o s

MpBin(s) ==
    LET n == Len(s) IN
    (IF n <= 255 THEN <<196, n>> ELSE <<197>> \o BE(n, 2)) \o s

\* The highest 8 - w bytes of v are all x.
Extends(v, w, x) == \A i \in 1 .. 8 - w : v[i] = x
Low(v, w) == SubSeq(v, 9 - w, 8)

MpUint(v) ==
    IF Extends(v, 1, 0) /\ v[8] < 128 THEN Low(v, 1)
    ELSE IF Extends(v, 1, 0) THEN <<204>> \o Low(v, 1)
    ELSE IF Extends(v, 2, 0) THEN <<205>> \o Low(v, 2)
    ELSE IF Extends(v, 4, 0) THEN <<206>> \o Low(v, 4)
    ELSE <<207>> \o v

\* v in two's complement: it fits w bytes when the others repeat its sign.
Fits(v, w) == Extends(v, w, 255) /\ v[9 - w] >= 128
MpInt(v) ==
    IF v[1] < 128 THEN MpUint(v)
    ELSE IF Extends(v, 1, 255) /\ v[8] >= 224 THEN Low(v, 1)
    ELSE IF Fits(v, 1) THEN <<208>> \o Low(v, 1)
    ELSE IF Fits(v, 2) THEN <<209>> \o Low(v, 2)
    ELSE IF Fits(v, 4) THEN <<210>> \o Low(v, 4)
    ELSE <<211>> \o v

\* A field is [key, type, data]: the bytes of a string or of binary, the eight
\* bytes of a number, one byte of a Boolean.
EncodeField(f) ==
    MpStr(f.key) \o CASE f.type = "str"  -> MpStr(f.data)
                      [] f.type = "uint" -> MpUint(f.data)
                      [] f.type = "int"  -> MpInt(f.data)
                      [] f.type = "bool" -> <<194 + f.data[1]>>
                      [] f.type = "bin"  -> MpBin(f.data)

-----------------------------------------------------------------------------
(* The kernel's structural reader: mpCursor.                               *)

\* be(width), for 1, 2 and 4 bytes; lengths above MaxInt32 are refused.
Be(b, p, w) ==
    IF p + w > Len(b) \/ (w = 4 /\ b[p + 1] >= 128) THEN Bad
    ELSE Got(p + w, FoldLeft(LAMBDA v, x : v * 256 + x, 0, Slice(b, p, p + w)))

IsMap(t) == t \in 128 .. 143 \cup {222, 223}
IsStr(t) == t \in 160 .. 191 \cup {217, 218, 219}

\* How many bytes after the tag hold a length, and the length when it is none.
LenWidth(t) ==
    IF t \in {196, 199, 217} THEN 1 ELSE IF t \in {197, 200, 218, 220, 222} THEN 2
    ELSE IF t \in {198, 201, 219, 221, 223} THEN 4 ELSE 0
FixLen(t) ==
    IF t \in 128 .. 159 THEN t % 16 ELSE IF t \in 160 .. 191 THEN t % 32
    ELSE CASE t \in {204, 208} -> 1 [] t \in {205, 209, 212} -> 2 [] t = 213 -> 3
           [] t \in {202, 206, 210} -> 4 [] t = 214 -> 5 [] t \in {203, 207, 211} -> 8
           [] t = 215 -> 9 [] t = 216 -> 17 [] OTHER -> 0
Length(b, p, t) == IF LenWidth(t) = 0 THEN Got(p, FixLen(t)) ELSE Be(b, p, LenWidth(t))

\* mapLen.
MapLen(b, p) ==
    IF p >= Len(b) \/ ~IsMap(b[p + 1]) THEN Bad ELSE Length(b, p + 1, b[p + 1])

\* str: the bytes are Slice(b, pos - v, pos).
Str(b, p) ==
    LET n == Length(b, p + 1, b[p + 1]) IN
    IF p >= Len(b) \/ ~IsStr(b[p + 1]) THEN Bad
    ELSE IF ~n.ok \/ n.pos + n.v > Len(b) \/ ~Utf8Valid(Slice(b, n.pos, n.pos + n.v)) THEN Bad
    ELSE Got(n.pos + n.v, n.v)

\* step: the header and payload of one value, and how many values are inside it.
\* An extension has a type byte before its data; each value takes a byte.
Step(b, p) ==
    LET t == b[p + 1]
        n == Length(b, p + 1, t)
        skip == n.v + (IF t \in 199 .. 201 THEN 1 ELSE 0)
        kids == IF IsMap(t) THEN 2 * n.v ELSE n.v IN
    IF p >= Len(b) \/ t = 193 THEN Bad
    ELSE IF IsStr(t) THEN LET s == Str(b, p) IN IF s.ok THEN Got(s.pos, 0) ELSE Bad
    ELSE IF ~n.ok THEN Bad
    ELSE IF IsMap(t) \/ t \in 144 .. 159 \cup {220, 221}
         THEN IF kids > Len(b) - n.pos THEN Bad ELSE Got(n.pos, kids)
    ELSE IF n.pos + skip > Len(b) THEN Bad ELSE Got(n.pos + skip, 0)

\* skipValue: the values still to come, counted down and up again.
RECURSIVE SkipPending(_, _, _)
SkipPending(b, p, pending) ==
    LET s    == Step(b, p)
        left == pending - 1 + s.v IN
    IF pending = 0 THEN Got(p, 0)
    ELSE IF ~s.ok \/ left > Len(b) - s.pos THEN Bad
    ELSE SkipPending(b, s.pos, left)
SkipValue(b, p) == SkipPending(b, p, 1)

\* mpWellFormed: one value that is the whole buffer, with a stack of how many
\* values each open container still has.
MayOpen_OffByOne(stack) == Len(stack) <= MaxNesting
MayOpen(stack) == Len(stack) < MaxNesting

RECURSIVE Walk(_, _, _)
Walk(b, p, stack) ==
    LET s   == Step(b, p)
        top == [stack EXCEPT ![Len(stack)] = @ - 1] IN
    IF stack = <<>> THEN p = Len(b)
    ELSE IF Last(stack) = 0 THEN Walk(b, p, Front(stack))
    ELSE IF ~s.ok THEN FALSE
    ELSE IF s.v = 0 THEN Walk(b, s.pos, top)
    ELSE MayOpen(stack) /\ Walk(b, s.pos, Append(top, s.v))
WellFormed(b) == Walk(b, 0, <<1>>)

\* auditContextShape: a key and the bytes of its value ...
Entry(b, p) ==
    LET k == Str(b, p)
        v == SkipValue(b, k.pos) IN
    IF ~k.ok \/ ~v.ok THEN [ok |-> FALSE, pos |-> 0, key |-> <<>>, value |-> <<>>]
    ELSE [ok |-> TRUE, pos |-> v.pos, key |-> Slice(b, k.pos - k.v, k.pos),
          value |-> Slice(b, k.pos, v.pos)]

\* ... a value that is one segment string, and the fields of the body.
KindOf(v) == LET s == Str(v, 0) IN
    IF s.ok /\ s.pos = Len(v) THEN Slice(v, s.pos - s.v, s.pos) ELSE <<>>

RECURSIVE BodyFields(_, _, _)
BodyFields(v, p, n) ==
    LET e == Entry(v, p) IN
    IF n = 0 THEN p = Len(v)
    ELSE e.ok /\ IsEventSegment(e.key) /\ BodyFields(v, e.pos, n - 1)

Shape(b) ==
    LET m  == MapLen(b, 0)
        e1 == Entry(b, m.pos)
        es == IF m.v = 1 THEN <<e1>> ELSE <<e1, Entry(b, e1.pos)>>
        kinds == {i \in DOMAIN es : es[i].key = KindKey}
        kind  == KindOf(es[CHOOSE i \in kinds : TRUE].value)
    IN  /\ m.ok /\ m.v \in {1, 2} /\ e1.ok
        /\ \A i \in DOMAIN es : es[i].ok
        /\ Last(es).pos = Len(b)
        /\ Cardinality(kinds) = 1 /\ IsEventSegment(kind)
        /\ \A i \in DOMAIN es \ kinds :
             LET n == MapLen(es[i].value, 0) IN
             /\ es[i].key = kind
             /\ n.ok /\ n.v > 0 /\ BodyFields(es[i].value, n.pos, n.v)

ValidateAuditContext(b) == Len(b) \in 1 .. MaxLen /\ Shape(b) /\ WellFormed(b)

\* EncodeAuditContext, <<>> for an error.  The writer's own output is validated
\* too, which refuses an object whose kind is "kind" and that has fields.
EncodeAuditContext(kind, fields) ==
    LET out == MpMap(IF fields = <<>> THEN 1 ELSE 2) \o MpStr(KindKey) \o MpStr(kind)
               \o (IF fields = <<>> THEN <<>>
                   ELSE MpStr(kind) \o MpMap(Len(fields))
                        \o FlattenSeq([i \in DOMAIN fields |-> EncodeField(fields[i])]))
    IN  IF /\ IsEventSegment(kind)
           /\ \A i \in DOMAIN fields : IsEventSegment(fields[i].key)
           /\ \A i, j \in DOMAIN fields : fields[i].key = fields[j].key => i = j
           /\ \A i \in DOMAIN fields : fields[i].type = "str" => Utf8Valid(fields[i].data)
           /\ ValidateAuditContext(out)
        THEN <<out>> ELSE <<>>

-----------------------------------------------------------------------------
(* Reference: MessagePack as nested values, read by recursion.             *)

\* A value: the tag, its payload, the values inside it, and where it ends.
NoValue == [ok |-> FALSE, tag |-> 193, payload |-> <<>>, kids |-> <<>>, end |-> 0, depth |-> 0]

RECURSIVE Value(_, _)
Value(b, p) ==
    LET s == Step(b, p)
        t == b[p + 1]
        more(seen, i) == LET k == Value(b, IF seen = <<>> THEN s.pos ELSE Last(seen).end) IN
                         IF seen # <<>> /\ ~Last(seen).ok THEN seen ELSE Append(seen, k)
        kids == FoldLeft(more, <<>>, [i \in 1 .. s.v |-> i])
    IN  IF ~s.ok \/ \E i \in DOMAIN kids : ~kids[i].ok THEN NoValue
        ELSE [ok |-> TRUE, tag |-> t, payload |-> Slice(b, p + 1 + LenWidth(t), s.pos), kids |-> kids,
              end |-> IF kids = <<>> THEN s.pos ELSE Last(kids).end,
              depth |-> 1 + Max({0} \cup {kids[i].depth : i \in DOMAIN kids})]

Keys(v)   == [i \in 1 .. Len(v.kids) \div 2 |-> v.kids[2 * i - 1]]
Members(v) == [i \in 1 .. Len(v.kids) \div 2 |-> v.kids[2 * i]]
IsSegment(v) == IsStr(v.tag) /\ IsEventSegment(v.payload)

\* PGSS 6.7 as the comment on ValidateAuditContext has it, over values.
IsAuditContext(b) ==
    LET v == Value(b, 0) IN
    /\ Len(b) \in 1 .. MaxLen /\ v.ok /\ v.end = Len(b) /\ v.depth <= MaxNesting
    /\ IsMap(v.tag) /\ Len(v.kids) \in {2, 4}
    /\ \A i \in DOMAIN Keys(v) : IsStr(Keys(v)[i].tag)
    /\ \E i \in DOMAIN Keys(v) :
         /\ Keys(v)[i].payload = KindKey /\ IsSegment(Members(v)[i])
         /\ \A j \in DOMAIN Keys(v) \ {i} :
              LET body == Members(v)[j] IN
              /\ Keys(v)[j].payload # KindKey /\ Keys(v)[j].payload = Members(v)[i].payload
              /\ IsMap(body.tag) /\ body.kids # <<>>
              /\ \A n \in DOMAIN Keys(body) : IsSegment(Keys(body)[n])

\* The eight bytes of a number, from the payload of its tag.
Sign(v) == IF v.tag \in 208 .. 211 \cup 224 .. 255 /\ (v.payload = <<>> \/ v.payload[1] >= 128)
           THEN 255 ELSE 0
NumberOf(v) == LET d == IF v.payload = <<>> THEN <<v.tag>> ELSE v.payload IN
    [i \in 1 .. 8 |-> IF i <= 8 - Len(d) THEN Sign(v) ELSE d[i - 8 + Len(d)]]

\* The type and data of a field, as AuditField has them; an AuditInt that is
\* not negative is written as the AuditUint.
DataOf(v) ==
    IF IsStr(v.tag) THEN <<"str", v.payload>>
    ELSE IF v.tag \in 196 .. 198 THEN <<"bin", v.payload>>
    ELSE IF v.tag \in {194, 195} THEN <<"bool", <<v.tag - 194>>>>
    ELSE <<IF Sign(v) = 255 THEN "int" ELSE "uint", NumberOf(v)>>
FieldData(f) == <<IF f.type = "int" /\ f.data[1] < 128 THEN "uint" ELSE f.type, f.data>>
=============================================================================
