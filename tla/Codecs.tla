------------------------------- MODULE Codecs -------------------------------
(***************************************************************************)
(* The codecs of packages sd, sddl and registry, each read against a       *)
(* reference: audit contexts, conditional expressions, SDDL text, registry *)
(* values and watch records.                                               *)
(*                                                                         *)
(* The codecs are pure functions, so the state is one input of one of      *)
(* them, item, of the kind that form names, and the steps build the next   *)
(* input from it: a caller adds a field, an ACE or a token, a byte on the  *)
(* wire is changed.  left bounds the steps.                                *)
(***************************************************************************)
EXTENDS Sddl

CONSTANTS
    KindKey, MaxLen, MaxNesting,   \* of AuditContext
    Bytes,      \* the bytes a buffer is edited with
    Fields,     \* audit fields
    Words,      \* tokens of a condition's text, each a sequence of glyphs
    Opcodes,    \* tokens of bytecode
    Entries,    \* ACEs
    Controls,   \* control bits
    Pieces,     \* components of SDDL text
    Values,     \* registry values
    Changes,    \* watch events
    Seeds       \* the first inputs: [form, item, left]

A == INSTANCE AuditContext
R == INSTANCE RegistryWire WITH Utf8Valid <- A!Utf8Valid

VARIABLES form, item, left
vars == <<form, item, left>>

Init == \E s \in Seeds : form = s.form /\ item = s.item /\ left = s.left

Build(f, x) == form = f /\ left > 0 /\ left' = left - 1 /\ item' = x /\ UNCHANGED form

ReplaceByte == \E i \in DOMAIN item, b \in Bytes : Build("bytes", [item EXCEPT ![i] = b])
InsertByte  == \E i \in 1 .. Len(item) + 1, b \in Bytes : Build("bytes", InsertAt(item, i, b))
RemoveByte  == \E i \in DOMAIN item : Build("bytes", RemoveAt(item, i))
EditBytes   == form = "bytes" /\ (ReplaceByte \/ InsertByte \/ RemoveByte)

AddField == form = "audit" /\ \E f \in Fields : Build("audit", [item EXCEPT !.fields = Append(@, f)])

\* A word more or less, anywhere in a text.
AddWord  == form = "text" /\ \E i \in 1 .. Len(item) + 1, w \in Words : Build("text", InsertAt(item, i, w))
DropWord == form = "text" /\ \E i \in DOMAIN item : Build("text", RemoveAt(item, i))

\* Bytecode grows while the decoder can still make sense of it.
AddOpcode ==
    /\ form = "code"
    /\ DecodeTokens(item, <<>>) # Fail
    /\ \E k \in Opcodes : Build("code", Append(item, k))

AddEntry ==
    form = "descriptor" /\ \E e \in Entries :
        \/ item.dacl # Nil /\ Build("descriptor", [item EXCEPT !.dacl = <<Append(@[1], e)>>])
        \/ item.sacl # Nil /\ Build("descriptor", [item EXCEPT !.sacl = <<Append(@[1], e)>>])
SetControl == form = "descriptor" /\ \E c \in Controls : Build("descriptor", [item EXCEPT !.control = @ \cup {c}])

AddPiece == form = "sddl" /\ \E p \in Pieces : Build("sddl", item \o p)

\* A value is stored; its bytes change, or are read as another type.
Store      == form = "value" /\ \E v \in Values : Build("value", [type |-> v.type, data |-> R!Encode(v)])
ChangeData == form = "value" /\ \E i \in 1 .. Len(item.data) + 1, b \in Bytes :
                  Build("value", [item EXCEPT !.data = InsertAt(@, i, b)])
CutData    == form = "value" /\ item.data # <<>> /\ Build("value", [item EXCEPT !.data = Front(@)])
Retype     == form = "value" /\ \E v \in Values : Build("value", [item EXCEPT !.type = v.type])

AddChange == form = "watch" /\ \E e \in Changes : Build("watch", Append(item, e))

Next == EditBytes \/ AddField \/ AddWord \/ DropWord \/ AddOpcode \/ AddEntry \/ SetControl \/ AddPiece
        \/ Store \/ ChangeData \/ CutData \/ Retype \/ AddChange

Spec == Init /\ [][Next]_vars

-----------------------------------------------------------------------------
(* Properties, of every input that a step builds.                          *)

\* ValidateAuditContext, with its cursor, its count of pending values and its
\* stack, accepts a buffer exactly when the nested values in it are a context by
\* the rules of its comment: no length byte makes it misjudge where a value ends.
AuditValidatorExact ==
    [][form = "bytes" => (A!ValidateAuditContext(item') <=> A!IsAuditContext(item'))]_vars

\* What the comment on EncodeAuditContext (auditcontext.go:75) asks for: names
\* that are segments, each key once, strings in UTF-8.
MayEncode(kind, fields) ==
    /\ A!IsEventSegment(kind)
    /\ \A i \in DOMAIN fields : A!IsEventSegment(fields[i].key)
    /\ Cardinality({fields[i].key : i \in DOMAIN fields}) = Len(fields)
    /\ \A i \in DOMAIN fields : fields[i].type = "str" => A!Utf8Valid(fields[i].data)

Payload(fields) == FoldLeft(LAMBDA n, f : n + Len(f.key) + Len(f.data), 0, fields)

\* The kind and the fields that a reader finds in the buffer.
ReadBack(b, kind, fields) ==
    LET v == A!Value(b, 0) IN
    /\ A!Keys(v)[1].payload = KindKey /\ A!Members(v)[1].payload = kind
    /\ Len(v.kids) = (IF fields = <<>> THEN 2 ELSE 4)
    /\ fields # <<>> =>
         LET body == A!Members(v)[2] IN
         /\ Len(A!Keys(body)) = Len(fields)
         /\ \A i \in DOMAIN fields : /\ A!Keys(body)[i].payload = fields[i].key
                                     /\ A!DataOf(A!Members(body)[i]) = A!FieldData(fields[i])

\* EncodeAuditContext gives a buffer that reads back as the same kind, keys,
\* types and values, for every width of string, number and map.  It fails for what
\* its comment names and in one case more, which the comment does not name: a kind
\* called "kind" with fields, whose object would have that key twice and which the
\* validator refuses (auditcontext.go:134).  Ten bytes a field are enough for the
\* headers.
ReadsBack(kind, fields) ==
    LET out == A!EncodeAuditContext(kind, fields)
        size == Payload(fields)
        twice == kind = KindKey /\ fields # <<>> IN
    /\ out # <<>> => /\ MayEncode(kind, fields) /\ size < MaxLen
                     /\ A!IsAuditContext(out[1]) /\ ReadBack(out[1], kind, fields)
    /\ MayEncode(kind, fields) /\ size + 10 * (Len(fields) + 1) <= MaxLen => (out = <<>> <=> twice)
AuditRoundTrip == [][form = "audit" => ReadsBack(item'.kind, item'.fields)]_vars

\* parseConditionText compiles a text to the bytecode that its words mean when
\* || binds less than && and && less than !, and refuses every other text.
Meaning(s) == LET ts == Lex(s) IN IF ts = Fail THEN Fail ELSE Means(Front(ts[1]))
CompilesByPrecedence ==
    [][form = "text" => LET s == FlattenSeq(item') IN ParseConditionText(s) = Meaning(s)]_vars

\* Of bytecode whose literals and names text can carry: one condition decompiles
\* to a text that compiles to it again, up to its padding; any other is refused,
\* or its text is, and never becomes another condition.  decompile.go:16 calls the
\* decompiler the reverse of the compiler for all bytecode, and that it is not: a
\* local name that looks like a number (line 208) comes back as the number, which
\* is another condition.  Of a quote in a string (line 192) and of any other name
\* that is no plain word nothing is claimed: what follows may be read as anything.
Recompiled(code) ==
    LET text == DecodeCondition(<<Magic>> \o code)
    IN  IF text = Fail THEN Fail ELSE ParseConditionText(Parens(text[1]))
DecompilesExactly ==
    [][form = "code" =>
         LET c == Cut(item')
             r == NumbersRead(c)
         IN  Readable(r) => Recompiled(item') = IF IsCondition(c) THEN Ok(r) ELSE Fail]_vars

\* Of descriptors whose conditions text can carry, Parse undoes Format: one that
\* has a text comes back with the same owner, group, ACLs, flags and conditions
\* (callback ACEs too, which sddl.go:17 says are rejected), a NULL ACL as a NULL
\* ACL, and one that has none never comes back as another.  What Parse accepts, in
\* whatever order and spelling, Format writes as a text for the same descriptor.
\* One text Parse does not read: a hexadecimal authority that ends right before
\* D: takes the D for a digit and the text is refused, where parse.go:85 says that
\* the tag is left for the caller.
Reparsed(d) == LET text == FormatDescriptor(d) IN IF text = Fail THEN Fail ELSE Parse(text[1])
TextReads(d) ==
    Reparsed(d) = IF HasText(d) /\ ~HexBeforeD(d) THEN Ok(Canonical(d)) ELSE Fail
SddlRoundTrip ==
    [][/\ form = "descriptor" /\ Legible(item') => TextReads(item')
       /\ form = "sddl" /\ Parse(item') # Fail =>
            LET d == Parse(item')[1]
            IN  Legible(d) => HasText(d) /\ Canonical(d) = d /\ TextReads(d)]_vars

\* The strings between NULs, without the empty ones.
Strings(b) == SelectSeq(Split(b, 0), LAMBDA s : s # <<>>)
IsText(t)  == t \in R!StringTypes \cup {"multisz"}

\* What is left of a value that is stored and read again: NONE keeps no data, a
\* MULTI_SZ neither empty strings nor the NULs inside one.
Survives(w) ==
    CASE w.type = "none" -> Ok([w EXCEPT !.data = <<>>])
      [] w.type = "multisz" ->
           IF \A i \in DOMAIN w.data : A!Utf8Valid(w.data[i])
           THEN Ok([w EXCEPT !.data = FlattenSeq([i \in DOMAIN w.data |-> Strings(w.data[i])])])
           ELSE Fail
      [] OTHER -> IF IsText(w.type) /\ ~A!Utf8Valid(w.data) THEN Fail ELSE Ok(w)

\* The bytes that bytes become when they are read and stored again: a string gets
\* the NUL it lacks, a list loses its empty strings, NONE its data.
Normal(x) ==
    CASE x.type = "none" -> <<>>
      [] x.type = "multisz" -> FlattenSeq([i \in DOMAIN Strings(x.data) |-> Append(Strings(x.data)[i], 0)]) \o <<0>>
      [] x.type \in R!StringTypes -> IF x.data # <<>> /\ Last(x.data) = 0 THEN x.data ELSE Append(x.data, 0)
      [] OTHER -> x.data

ValueReads(x) ==
    LET v == R!Decode(x.type, x.data)
        malformed == \/ x.type \in DOMAIN R!Width /\ Len(x.data) # R!Width[x.type]
                     \/ IsText(x.type) /\ ~A!Utf8Valid(x.data)
    IN  /\ v = Fail <=> malformed
        /\ v # Fail => v[1].type = x.type /\ R!Encode(v[1]) = Normal(x)
        /\ \A w \in Values : x = [type |-> w.type, data |-> R!Encode(w)] => v = Survives(w)

\* The first n bytes of a buffer give the records that are whole in them.
CutReads(events) ==
    LET b == R!WriteEvents(events)
        whole(n) == {m \in 0 .. Len(events) : Len(R!WriteEvents(SubSeq(events, 1, m))) <= n}
    IN  \A n \in 0 .. Len(b) : R!ParseEvents(SubSeq(b, 1, n)) = SubSeq(events, 1, Max(whole(n)))

\* One byte is wrong, at position i of record m: outside total_len it costs the
\* other records nothing, wherever a length then points, and the record its type,
\* its name or its path; inside total_len it costs the records before m nothing.
Wrong == {0, 9, 255}
DamageReads(events) ==
    \A m \in DOMAIN events :
        LET head == R!WriteEvents(SubSeq(events, 1, m - 1))
            rec  == R!WriteEvent(events[m])
            tail == R!WriteEvents(Drop(events, m))
        IN  \A i \in DOMAIN rec, x \in Wrong :
                LET got == R!ParseEvents(head \o [rec EXCEPT ![i] = x] \o tail) IN
                IF i <= 4 THEN Len(got) >= m - 1 /\ SubSeq(got, 1, m - 1) = SubSeq(events, 1, m - 1)
                ELSE /\ Len(got) = Len(events)
                     /\ \A j \in DOMAIN events \ {m} : got[j] = events[j]
                     /\ i > 6 => got[m].type = events[m].type
                     /\ i \notin 7 .. R!MinSize + Len(events[m].name) => got[m].name = events[m].name
                     /\ i \in 5 .. 6 \/ i \in R!MinSize + 1 .. R!MinSize + Len(events[m].name) => got[m].path = events[m].path

\* Decode refuses exactly the bytes that do not fit their type.  A stored value
\* reads back as it was written, and bytes that are read and stored again come out
\* as they were, except that a string gets its NUL, a MULTI_SZ loses its empty
\* strings and is split at NULs, and NONE has no data, which value.go:61 does not
\* say.  A buffer of watch records gives its events in order, one that ends early
\* those that are whole, and a wrong byte spoils no other record, unless it is in
\* the record's own length.
RegistryReadsBack ==
    [][/\ form = "value" => ValueReads(item')
       /\ form = "watch" => CutReads(item') /\ DamageReads(item')]_vars
=============================================================================
