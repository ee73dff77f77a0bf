---------------------------- MODULE RegistryWire ----------------------------
(***************************************************************************)
(* What the registry keeps and sends as bytes: values (src/registry/       *)
(* value.go) and watch records (src/registry/watch.go).  A number is its   *)
(* bytes, the highest first.                                               *)
(***************************************************************************)
EXTENDS Integers, Sequences, SequencesExt, FiniteSetsExt

CONSTANT Utf8Valid(_)

Bad   == <<>>
Ok(x) == <<x>>

Value(t, d) == [type |-> t, data |-> d]

StringTypes == {"sz", "expandsz", "link"}
Width == [t \in {"dword", "dwordbe", "qword"} |-> IF t = "qword" THEN 8 ELSE 4]

EncodeMultiSZ(list) == FlattenSeq([i \in DOMAIN list |-> Append(list[i], 0)]) \o <<0>>

Encode(v) ==
    CASE v.type = "none" -> <<>>
      [] v.type \in StringTypes -> Append(v.data, 0)
      [] v.type = "multisz" -> EncodeMultiSZ(v.data)
      [] v.type \in {"dword", "qword"} -> Reverse(v.data)
      [] OTHER -> v.data                       \* dwordbe, binary, other

\* One trailing NUL goes.
StripNUL_All(b) == SelectSeq(b, LAMBDA x : x # 0)
StripNUL(b) == IF b # <<>> /\ Last(b) = 0 THEN Front(b) ELSE b

SplitNUL(b) ==
    LET c == <<0>> \o SetToSortSeq({i \in DOMAIN b : b[i] = 0}, <) \o <<Len(b) + 1>>
    IN  [i \in 1 .. Len(c) - 1 |-> SubSeq(b, c[i] + 1, c[i + 1] - 1)]
DecodeMultiSZ(b) ==
    LET segs == SelectSeq(SplitNUL(b), LAMBDA s : s # <<>>)
    IN  IF \A i \in DOMAIN segs : Utf8Valid(segs[i]) THEN Ok(segs) ELSE Bad

Decode(t, b) ==
    LET list == DecodeMultiSZ(b) IN
    CASE t = "none" -> Ok(Value(t, <<>>))
      [] t \in StringTypes -> IF Utf8Valid(StripNUL(b)) THEN Ok(Value(t, StripNUL(b))) ELSE Bad
      [] t = "multisz" -> IF list = Bad THEN Bad ELSE Ok(Value(t, list[1]))
      [] t \in DOMAIN Width -> IF Len(b) # Width[t] THEN Bad
                               ELSE Ok(Value(t, IF t = "dwordbe" THEN b ELSE Reverse(b)))
      [] OTHER -> Ok(Value(t, b))

-----------------------------------------------------------------------------
(* parseEvents, over [total_len u32][type u16][name_len u16][name] and, for*)
(* an event below the watched key, [depth u16]([len u16][component])*.     *)

MinSize == 8
LE(n, w) == [i \in 1 .. w |-> (n \div 256 ^ (i - 1)) % 256]
\* A record total_len of 2^31 or more is longer than any buffer.
Read(b, p, w) ==
    IF w = 4 /\ b[p + 4] >= 128 THEN 2 ^ 30
    ELSE FoldRight(LAMBDA x, n : n * 256 + x, SubSeq(b, p + 1, p + w), 0)

RECURSIVE Components(_, _, _)
Components(rec, p, depth) ==
    LET n == Read(rec, p, 2) IN
    IF depth = 0 \/ p + 2 > Len(rec) THEN <<>>
    ELSE IF p + 2 + n > Len(rec) THEN <<>>
    ELSE <<SubSeq(rec, p + 3, p + 2 + n)>> \o Components(rec, p + 2 + n, depth - 1)

Record(rec) ==
    LET n == Read(rec, 6, 2)
        fits == MinSize + n <= Len(rec)
        p == IF fits THEN MinSize + n ELSE MinSize
    IN  [type |-> Read(rec, 4, 2), name |-> IF fits THEN SubSeq(rec, MinSize + 1, p) ELSE <<>>,
         path |-> IF p + 2 <= Len(rec) THEN Components(rec, p + 2, Read(rec, p, 2)) ELSE <<>>]

RECURSIVE ParseEvents(_)
ParseEvents(b) ==
    LET n == Read(b, 0, 4) IN
    IF Len(b) < MinSize THEN <<>> ELSE IF n < MinSize \/ n > Len(b) THEN <<>>
    ELSE <<Record(SubSeq(b, 1, n))>> \o ParseEvents(SubSeq(b, n + 1, Len(b)))

\* The record the kernel writes for an event.
WriteEvent(e) ==
    LET path == IF e.path = <<>> THEN <<>>
                ELSE LE(Len(e.path), 2) \o FlattenSeq([i \in DOMAIN e.path |-> LE(Len(e.path[i]), 2) \o e.path[i]])
    IN  LE(MinSize + Len(e.name) + Len(path), 4) \o LE(e.type, 2) \o LE(Len(e.name), 2) \o e.name \o path
WriteEvents(es) == FlattenSeq([i \in DOMAIN es |-> WriteEvent(es[i])])
=============================================================================
