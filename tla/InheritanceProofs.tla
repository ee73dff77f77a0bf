------------------------- MODULE InheritanceProofs -------------------------
(***************************************************************************)
(* Proofs about Inheritance, for every tree, every set of descriptors and  *)
(* every number of changes.                                                *)
(*                                                                         *)
(* The inductive invariant is IInv: descriptors are well formed and a node *)
(* re-inherited since its last change holds what its parent's DACL passes  *)
(* (OneGeneration).  That Reinherit establishes it rests on two facts: the *)
(* codecs read back what they write (RoundTrip), and filtering what        *)
(* Reinherit wrote gives the child's explicit ACEs again (Refilter).       *)
(* Converged follows without another induction over behaviours: one        *)
(* generation after another is what the flags mean at that distance        *)
(* (NextGeneration), so OneGeneration adds up along a node's ancestors.    *)
(*                                                                         *)
(* Facts about loops and lists are proved by an induction that takes a set *)
(* in place of a predicate (Induction).                                    *)
(***************************************************************************)
EXTENDS Inheritance, SequenceTheorems, WellFoundedInduction, TLAPS

-----------------------------------------------------------------------------
(* Induction, over a set instead of a predicate.                           *)

\* A set of naturals that is not empty has a least member.
LEMMA Least ==
  ASSUME NEW T, T \subseteq Nat, T # {}
  PROVE  \E x \in T : \A y \in T : x <= y
  <1> DEFINE R == OpToRel(<, Nat)
  <1>1. IsWellFoundedOn(R, Nat) BY NatLessThanWellFounded
  <1>2. \A x, y \in Nat : x < y => <<x, y>> \in R BY DEF OpToRel
  <1> HIDE DEF R
  <1>3. PICK x \in T : \A y \in T : ~ (<<y, x>> \in R) BY <1>1, WFMin
  <1>4. \A y \in T : x <= y
    <2> TAKE y \in T
    <2>1. x \in Nat /\ y \in Nat OBVIOUS
    <2>2. ~(y < x) BY <1>2, <1>3, <2>1
    <2>3. QED BY <2>1, <2>2
  <1>5. QED BY <1>4

\* What holds at 0 and passes from each number up to n to the next holds up to n.
LEMMA Induction ==
  ASSUME NEW n \in Nat, NEW T, 0 \in T, \A i \in 0 .. n - 1 : i \in T => i + 1 \in T
  PROVE  \A i \in 0 .. n : i \in T
  <1> DEFINE C == {i \in 0 .. n : i \notin T}
  <1>1. SUFFICES ASSUME C # {} PROVE FALSE OBVIOUS
  <1>2. C \subseteq Nat OBVIOUS
  <1> HIDE DEF C
  <1>3. PICK x \in C : \A y \in C : x <= y BY <1>1, <1>2, Least
  <1>4. x \in 0 .. n /\ x \notin T /\ x # 0 BY <1>3 DEF C
  <1>5. x - 1 \in 0 .. n - 1 /\ x - 1 \in 0 .. n /\ (x - 1) + 1 = x BY <1>4
  <1>6. x - 1 \notin T BY <1>4, <1>5
  <1>7. x - 1 \in C BY <1>5, <1>6 DEF C
  <1>8. x <= x - 1 BY <1>3, <1>7
  <1>9. QED BY <1>4, <1>8

\* A step repeated n times.
Run(V, z, step, n, g) ==
    /\ g \in [0 .. n -> V] /\ g[0] = z
    /\ \A i \in 1 .. n : g[i] = step[i][g[i - 1]]

\* It can be repeated any number of times.
LEMMA RunExists ==
  ASSUME NEW N \in Nat, NEW V, NEW z \in V, NEW step \in [1 .. N -> [V -> V]]
  PROVE  \E g : Run(V, z, step, N, g)
  <1> DEFINE T == {i \in 0 .. N : \E g : Run(V, z, step, i, g)}
  <1>1. 0 \in T
    <2>1. Run(V, z, step, 0, [i \in 0 .. 0 |-> z]) BY DEF Run
    <2>2. QED BY <2>1
  <1>2. ASSUME NEW i \in 0 .. N - 1, i \in T PROVE i + 1 \in T
    <2>1. PICK g : Run(V, z, step, i, g) BY <1>2
    <2> DEFINE v == step[i + 1][g[i]]
               h == [j \in 0 .. i + 1 |-> IF j = i + 1 THEN v ELSE g[j]]
    <2>2. i \in Nat /\ i + 1 \in 1 .. N /\ i \in 0 .. i OBVIOUS
    <2>3. g \in [0 .. i -> V] BY <2>1 DEF Run
    <2>4. step[i + 1] \in [V -> V] BY <2>2
    <2>5. v \in V BY <2>2, <2>3, <2>4
    <2> HIDE DEF v
    <2>6. \A j \in 0 .. i + 1 : j = i + 1 \/ j \in 0 .. i BY <2>2
    <2>7. h \in [0 .. i + 1 -> V] BY <2>3, <2>5, <2>6
    <2>8. h[0] = z BY <2>1, <2>2 DEF Run
    <2>9. ASSUME NEW j \in 1 .. i + 1 PROVE h[j] = step[j][h[j - 1]]
      <3>1. CASE j = i + 1
        <4>1. h[j] = v /\ h[j - 1] = g[i] BY <2>2, <3>1
        <4>2. QED BY <3>1, <4>1 DEF v
      <3>2. CASE j \in 1 .. i
        <4>1. h[j] = g[j] /\ h[j - 1] = g[j - 1] BY <2>2, <3>2
        <4>2. QED BY <2>1, <3>2, <4>1 DEF Run
      <3>3. QED BY <2>2, <3>1, <3>2
    <2> HIDE DEF h
    <2>10. Run(V, z, step, i + 1, h) BY <2>7, <2>8, <2>9 DEF Run
    <2>11. QED BY <2>2, <2>10
  <1> HIDE DEF T
  <1>3. \A i \in 0 .. N : i \in T BY <1>1, <1>2, Induction
  <1>4. QED BY <1>3 DEF T

\* A sequence of values each of which is of a type when the one before is.
LEMMA RunTyped ==
  ASSUME NEW N \in Nat, NEW V, NEW f, f = [i \in 0 .. N |-> f[i]], f[0] \in V,
         \A i \in 1 .. N : f[i - 1] \in V => f[i] \in V
  PROVE  f \in [0 .. N -> V]
  <1> DEFINE T == {i \in 0 .. N : f[i] \in V}
  <1>1. 0 \in T OBVIOUS
  <1>2. ASSUME NEW i \in 0 .. N - 1, i \in T PROVE i + 1 \in T
    <2>1. i + 1 \in 1 .. N /\ (i + 1) - 1 = i /\ i + 1 \in 0 .. N OBVIOUS
    <2>2. f[i] \in V BY <1>2
    <2>3. f[i + 1] \in V BY <2>1, <2>2
    <2>4. QED BY <2>1, <2>3
  <1> HIDE DEF T
  <1>3. \A i \in 0 .. N : i \in T BY <1>1, <1>2, Induction
  <1>4. \A i \in 0 .. N : f[i] \in V BY <1>3 DEF T
  <1>5. QED BY <1>4

-----------------------------------------------------------------------------
(* Kept.                                                                   *)

\* The loop, up to n: what it has appended by each position.
Loop(S, es, keep, n, g) ==
    /\ g \in [0 .. n -> Seq(S)] /\ g[0] = <<>>
    /\ \A i \in 1 .. n : g[i] = IF i \in keep THEN Append(g[i - 1], es[i]) ELSE g[i - 1]

\* KeptUpTo is the loop.
LEMMA KeptIsLoop ==
  ASSUME NEW S, NEW es \in Seq(S), NEW keep
  PROVE  Loop(S, es, keep, Len(es), KeptUpTo(es, keep))
  <1> DEFINE N == Len(es)
             f == KeptUpTo(es, keep)
             next(i, q) == IF i \in keep THEN Append(q, es[i]) ELSE q
             step == [i \in 1 .. N |-> [q \in Seq(S) |-> next(i, q)]]
  <1>1. N \in Nat /\ <<>> \in Seq(S) OBVIOUS
  <1>2. \A i \in 1 .. N, q \in Seq(S) : next(i, q) \in Seq(S) OBVIOUS
  <1>3. f = CHOOSE g : g = [i \in 0 .. N |-> IF i = 0 THEN <<>> ELSE next(i, g[i - 1])] BY Zenon DEF KeptUpTo
  <1> DEFINE Eq(g) == g = [i \in 0 .. N |-> IF i = 0 THEN <<>> ELSE next(i, g[i - 1])]
  <1>4. step \in [1 .. N -> [Seq(S) -> Seq(S)]] BY <1>2
  <1>5. \A i \in 1 .. N, q \in Seq(S) : step[i][q] = next(i, q) OBVIOUS
  <1> HIDE DEF step, N, next
  <1>6. PICK g : Run(Seq(S), <<>>, step, N, g) BY <1>1, <1>4, RunExists
  <1>7. Eq(g)
    <2>1. \A i \in 0 .. N : i = 0 \/ (i \in 1 .. N /\ i - 1 \in 0 .. N) BY <1>1
    <2>2. \A i \in 1 .. N : g[i] = next(i, g[i - 1]) BY <1>5, <1>6, <2>1 DEF Run
    <2>3. g \in [0 .. N -> Seq(S)] /\ g[0] = <<>> BY <1>6 DEF Run
    <2>4. QED BY <2>1, <2>2, <2>3
  <1>8. Eq(f)
    <2> HIDE DEF Eq, f
    <2>1. f = CHOOSE h : Eq(h) BY <1>3, Zenon DEF Eq
    <2>2. QED BY <1>7, <2>1, Zenon
  <1> HIDE DEF f
  <1>9. f[0] = <<>> /\ f = [i \in 0 .. N |-> f[i]] BY <1>1, <1>8
  <1>10. \A i \in 1 .. N : f[i] = next(i, f[i - 1])
    <2> TAKE i \in 1 .. N
    <2>1. i \in 0 .. N /\ i # 0 BY <1>1
    <2>2. QED BY <1>8, <2>1
  <1> HIDE DEF Eq
  <1>11. f \in [0 .. N -> Seq(S)] BY <1>1, <1>2, <1>9, <1>10, RunTyped
  <1>12. QED BY <1>9, <1>10, <1>11 DEF Loop, f, N, next

LEMMA KeptType ==
  ASSUME NEW S, NEW es \in Seq(S), NEW keep
  PROVE  Kept(es, keep) \in Seq(S)
  <1>1. Len(es) \in 0 .. Len(es) OBVIOUS
  <1>2. QED BY <1>1, KeptIsLoop DEF Loop, Kept

\* Every entry kept is one at a position to keep.
LEMMA KeptFrom ==
  ASSUME NEW S, NEW es \in Seq(S), NEW keep
  PROVE  \A j \in 1 .. Len(Kept(es, keep)) :
            \E k \in 1 .. Len(es) : k \in keep /\ Kept(es, keep)[j] = es[k]
  <1> DEFINE g == KeptUpTo(es, keep)
             From(q) == \A j \in 1 .. Len(q) : \E k \in 1 .. Len(es) : k \in keep /\ q[j] = es[k]
             T == {i \in 0 .. Len(es) : From(g[i])}
  <1>1. Len(es) \in Nat OBVIOUS
  <1>2. Loop(S, es, keep, Len(es), g) BY KeptIsLoop
  <1> HIDE DEF g
  <1>3. 0 \in T
    <2>1. From(g[0]) BY <1>2 DEF Loop
    <2>2. QED BY <1>1, <2>1
  <1>4. ASSUME NEW i \in 0 .. Len(es) - 1, i \in T PROVE i + 1 \in T
    <2>1. i + 1 \in 1 .. Len(es) /\ (i + 1) - 1 = i /\ i \in 0 .. Len(es) /\ es[i + 1] \in S BY <1>1
    <2>2. g[i] \in Seq(S) BY <1>2, <2>1 DEF Loop
    <2>3. From(g[i]) BY <1>4
    <2>4. CASE i + 1 \in keep
      <3>1. g[i + 1] = Append(g[i], es[i + 1]) BY <1>2, <2>1, <2>4 DEF Loop
      <3>2. ASSUME NEW j \in 1 .. Len(g[i + 1])
            PROVE  \E k \in 1 .. Len(es) : k \in keep /\ g[i + 1][j] = es[k]
        <4>1. Len(g[i + 1]) = Len(g[i]) + 1 /\ Len(g[i]) \in Nat BY <2>1, <2>2, <3>1
        <4>2. CASE j = Len(g[i]) + 1
          <5>1. g[i + 1][j] = es[i + 1] BY <2>1, <2>2, <3>1, <4>2
          <5>2. QED BY <2>1, <2>4, <5>1
        <4>3. CASE j \in 1 .. Len(g[i])
          <5>1. g[i + 1][j] = g[i][j] BY <2>1, <2>2, <3>1, <4>3
          <5>2. QED BY <2>3, <4>3, <5>1
        <4>4. QED BY <4>1, <4>2, <4>3
      <3>3. From(g[i + 1]) BY <3>2
      <3> HIDE DEF From
      <3>4. QED BY <1>1, <2>1, <3>3
    <2>5. CASE i + 1 \notin keep
      <3>1. g[i + 1] = g[i] BY <1>2, <2>1, <2>5 DEF Loop
      <3> HIDE DEF From
      <3>2. QED BY <1>1, <2>1, <2>3, <3>1
    <2>6. QED BY <2>4, <2>5
  <1> HIDE DEF T, From
  <1>5. \A i \in 0 .. Len(es) : i \in T BY <1>1, <1>3, <1>4, Induction
  <1>6. From(g[Len(es)]) BY <1>1, <1>5 DEF T
  <1>7. QED BY <1>6 DEF From, g, Kept

\* All of a sequence, and nothing of it.
LEMMA KeptAll ==
  ASSUME NEW S, NEW es \in Seq(S), NEW keep, \A i \in 1 .. Len(es) : i \in keep
  PROVE  Kept(es, keep) = es
  <1> DEFINE g == KeptUpTo(es, keep)
             T == {i \in 0 .. Len(es) : Len(g[i]) = i /\ \A j \in 1 .. i : g[i][j] = es[j]}
  <1>1. Len(es) \in Nat OBVIOUS
  <1>2. Loop(S, es, keep, Len(es), g) BY KeptIsLoop
  <1> HIDE DEF g
  <1>3. 0 \in T
    <2>1. g[0] = <<>> BY <1>2 DEF Loop
    <2>2. QED BY <1>1, <2>1
  <1>4. ASSUME NEW i \in 0 .. Len(es) - 1, i \in T PROVE i + 1 \in T
    <2>1. i + 1 \in 1 .. Len(es) /\ (i + 1) - 1 = i /\ i \in 0 .. Len(es) /\ i \in Nat /\ es[i + 1] \in S BY <1>1
    <2>2. g[i] \in Seq(S) BY <1>2, <2>1 DEF Loop
    <2>3. Len(g[i]) = i /\ \A j \in 1 .. i : g[i][j] = es[j] BY <1>4
    <2>4. i + 1 \in keep BY <2>1
    <2>5. g[i + 1] = Append(g[i], es[i + 1]) BY <1>2, <2>1, <2>4 DEF Loop
    <2>6. Len(g[i + 1]) = i + 1 BY <2>1, <2>2, <2>3, <2>5
    <2>7. ASSUME NEW j \in 1 .. i + 1 PROVE g[i + 1][j] = es[j]
      <3>1. CASE j = i + 1 BY <2>1, <2>2, <2>3, <2>5, <3>1
      <3>2. CASE j \in 1 .. i
        <4>1. g[i + 1][j] = g[i][j] BY <2>1, <2>2, <2>3, <2>5, <3>2
        <4>2. QED BY <2>3, <3>2, <4>1
      <3>3. QED BY <2>1, <3>1, <3>2
    <2>8. QED BY <1>1, <2>1, <2>6, <2>7
  <1> HIDE DEF T
  <1>5. \A i \in 0 .. Len(es) : i \in T BY <1>1, <1>3, <1>4, Induction
  <1>6. Len(g[Len(es)]) = Len(es) /\ \A j \in 1 .. Len(es) : g[Len(es)][j] = es[j] BY <1>1, <1>5 DEF T
  <1>7. g[Len(es)] \in Seq(S) BY <1>1, <1>2 DEF Loop
  <1>8. g[Len(es)] = es BY <1>6, <1>7, SeqEqual
  <1>9. QED BY <1>8 DEF g, Kept

LEMMA KeptNone ==
  ASSUME NEW S, NEW es \in Seq(S), NEW keep, \A i \in 1 .. Len(es) : i \notin keep
  PROVE  Kept(es, keep) = <<>>
  <1> DEFINE q == Kept(es, keep)
  <1>1. q \in Seq(S) BY KeptType
  <1>2. \A j \in 1 .. Len(q) : FALSE BY KeptFrom
  <1> HIDE DEF q
  <1>3. Len(q) \in Nat BY <1>1
  <1>4. Len(q) = 0 BY <1>2, <1>3
  <1>5. QED BY <1>1, <1>4, EmptySeq DEF q

LEMMA KeptAppend ==
  ASSUME NEW S, NEW es \in Seq(S), NEW e \in S, NEW keep, NEW ks,
         \A i \in 1 .. Len(es) : i \in keep <=> i \in ks
  PROVE  Kept(Append(es, e), keep) = IF Len(es) + 1 \in keep THEN Append(Kept(es, ks), e) ELSE Kept(es, ks)
  <1> DEFINE c == Append(es, e)
             m == Len(es)
             f == KeptUpTo(c, keep)
             g == KeptUpTo(es, ks)
             T == {i \in 0 .. m : f[i] = g[i]}
  <1>1. m \in Nat /\ c \in Seq(S) /\ Len(c) = m + 1 /\ c[m + 1] = e /\ \A i \in 1 .. m : c[i] = es[i] OBVIOUS
  <1> HIDE DEF c
  <1>2. Loop(S, c, keep, m + 1, f) BY <1>1, KeptIsLoop
  <1>3. Loop(S, es, ks, m, g) BY KeptIsLoop
  <1>4. \A i \in 1 .. m : i \in keep <=> i \in ks OBVIOUS
  <1>5. Kept(c, keep) = f[m + 1] /\ Kept(es, ks) = g[m] BY <1>1 DEF Kept
  <1> HIDE DEF m, f, g
  <1>6. 0 \in T BY <1>1, <1>2, <1>3 DEF Loop
  <1>7. ASSUME NEW i \in 0 .. m - 1, i \in T PROVE i + 1 \in T
    <2>1. i + 1 \in 1 .. m /\ (i + 1) - 1 = i /\ i + 1 \in 1 .. m + 1 /\ i + 1 \in 0 .. m BY <1>1
    <2>2. f[i + 1] = IF i + 1 \in keep THEN Append(f[i], c[i + 1]) ELSE f[i] BY <1>2, <2>1 DEF Loop
    <2>3. g[i + 1] = IF i + 1 \in ks THEN Append(g[i], es[i + 1]) ELSE g[i] BY <1>3, <2>1 DEF Loop
    <2>4. f[i] = g[i] BY <1>7
    <2>5. f[i + 1] = g[i + 1] BY <1>1, <1>4, <2>1, <2>2, <2>3, <2>4
    <2>6. QED BY <2>1, <2>5
  <1> HIDE DEF T
  <1>8. \A i \in 0 .. m : i \in T BY <1>1, <1>6, <1>7, Induction
  <1>9. f[m] = g[m] BY <1>1, <1>8 DEF T
  <1>10. m + 1 \in 1 .. m + 1 /\ (m + 1) - 1 = m BY <1>1
  <1>11. f[m + 1] = IF m + 1 \in keep THEN Append(f[m], c[m + 1]) ELSE f[m] BY <1>2, <1>10 DEF Loop
  <1>12. QED BY <1>1, <1>5, <1>9, <1>11 DEF c, m

-----------------------------------------------------------------------------
(* FilterInherited and ComputeInheritedACEs.                               *)

\* ACEs as ParseACE returns them: Raw is what there is of a body kept verbatim,
\* and a structured ACE has a SID and no tail.
Parsed ==
    {a \in [type : Simple \cup Object \cup Rawed, flags : SUBSET Flags,
            body : [core : Bytes, tail : Bytes], raw : {"nil", "bytes"}] :
        IF a.type \in Rawed THEN a.raw = "nil" <=> a.body = Empty
        ELSE a.raw = "nil" /\ a.body.core # "" /\ a.body.tail = ""}

LEMMA FilterType ==
  ASSUME NEW S, NEW es \in Seq(S)
  PROVE  /\ FilterInherited(es) \in Seq(S)
         /\ \A j \in 1 .. Len(FilterInherited(es)) : IsExplicit(FilterInherited(es)[j])
  <1> DEFINE keep == {i \in DOMAIN es : IsExplicit(es[i])}
  <1>1. FilterInherited(es) = Kept(es, keep) BY DEF FilterInherited
  <1>2. \A k \in keep : IsExplicit(es[k]) OBVIOUS
  <1> HIDE DEF keep
  <1>3. Kept(es, keep) \in Seq(S) BY KeptType
  <1>4. \A j \in 1 .. Len(Kept(es, keep)) : \E k \in 1 .. Len(es) : k \in keep /\ Kept(es, keep)[j] = es[k]
    BY KeptFrom
  <1>5. QED BY <1>1, <1>2, <1>3, <1>4

LEMMA FilterAll ==
  ASSUME NEW S, NEW es \in Seq(S), \A i \in 1 .. Len(es) : IsExplicit(es[i])
  PROVE  FilterInherited(es) = es
  <1> DEFINE keep == {i \in DOMAIN es : IsExplicit(es[i])}
  <1>1. FilterInherited(es) = Kept(es, keep) BY DEF FilterInherited
  <1>2. \A i \in 1 .. Len(es) : i \in keep OBVIOUS
  <1> HIDE DEF keep
  <1>3. QED BY <1>1, <1>2, KeptAll

LEMMA FilterNone ==
  ASSUME NEW S, NEW es \in Seq(S), \A i \in 1 .. Len(es) : ~IsExplicit(es[i])
  PROVE  FilterInherited(es) = <<>>
  <1> DEFINE keep == {i \in DOMAIN es : IsExplicit(es[i])}
  <1>1. FilterInherited(es) = Kept(es, keep) BY DEF FilterInherited
  <1>2. \A i \in 1 .. Len(es) : i \notin keep OBVIOUS
  <1> HIDE DEF keep
  <1>3. QED BY <1>1, <1>2, KeptNone

\* The loop over two sequences in a row.
LEMMA FilterConcat ==
  ASSUME NEW S, NEW a \in Seq(S), NEW b \in Seq(S)
  PROVE  FilterInherited(a \o b) = FilterInherited(a) \o FilterInherited(b)
  <1> DEFINE c == a \o b
             ka == {i \in DOMAIN a : IsExplicit(a[i])}
             kb == {i \in DOMAIN b : IsExplicit(b[i])}
             keep == {i \in DOMAIN c : IsExplicit(c[i])}
             f == KeptUpTo(c, keep)
             g == KeptUpTo(a, ka)
             h == KeptUpTo(b, kb)
             m == Len(a)
             n == Len(b)
  <1>1. m \in Nat /\ n \in Nat OBVIOUS
  <1>2. c \in Seq(S) /\ Len(c) = m + n /\ (\A i \in 1 .. m : c[i] = a[i]) /\ (\A i \in 1 .. n : c[m + i] = b[i])
    BY <1>1
  <1>3. Loop(S, c, keep, m + n, f) BY <1>2, KeptIsLoop
  <1>4. Loop(S, a, ka, m, g) BY KeptIsLoop
  <1>5. Loop(S, b, kb, n, h) BY KeptIsLoop
  <1>6. (\A i \in 1 .. m : i \in keep <=> i \in ka) /\ (\A i \in 1 .. n : m + i \in keep <=> i \in kb)
    <2>1. DOMAIN c = 1 .. m + n /\ DOMAIN a = 1 .. m /\ DOMAIN b = 1 .. n BY <1>1, <1>2
    <2> HIDE DEF c, m, n
    <2>2. QED BY <1>1, <1>2, <2>1
  <1>7. (\A i \in 1 .. m : a[i] \in S) /\ (\A i \in 1 .. n : b[i] \in S) OBVIOUS
  <1> HIDE DEF c, f, g, h, m, n, ka, kb, keep
  <1> DEFINE T == {i \in 0 .. m : f[i] = g[i]}
  <1>8. 0 \in T BY <1>1, <1>3, <1>4 DEF Loop
  <1>9. ASSUME NEW i \in 0 .. m - 1, i \in T PROVE i + 1 \in T
    <2>1. i + 1 \in 1 .. m /\ (i + 1) - 1 = i /\ i + 1 \in 1 .. m + n /\ i + 1 \in 0 .. m BY <1>1
    <2>2. f[i + 1] = IF i + 1 \in keep THEN Append(f[i], c[i + 1]) ELSE f[i] BY <1>3, <2>1 DEF Loop
    <2>3. g[i + 1] = IF i + 1 \in ka THEN Append(g[i], a[i + 1]) ELSE g[i] BY <1>4, <2>1 DEF Loop
    <2>4. f[i] = g[i] BY <1>9
    <2>5. f[i + 1] = g[i + 1] BY <1>2, <1>6, <2>1, <2>2, <2>3, <2>4
    <2>6. QED BY <2>1, <2>5
  <1> HIDE DEF T
  <1>10. \A i \in 0 .. m : i \in T BY <1>1, <1>8, <1>9, Induction
  <1>11. f[m] = g[m] BY <1>1, <1>10 DEF T
  <1> DEFINE V(i) == f[m + i] = g[m] \o h[i]
             U == {i \in 0 .. n : V(i)}
  <1> HIDE DEF V
  <1>12. g[m] \in Seq(S) BY <1>1, <1>4 DEF Loop
  <1>13. 0 \in U
    <2>1. h[0] = <<>> /\ m + 0 = m BY <1>1, <1>5 DEF Loop
    <2>2. g[m] \o <<>> = g[m] BY <1>12
    <2>3. V(0) BY <1>11, <2>1, <2>2 DEF V
    <2>4. QED BY <1>1, <2>3
  <1>14. ASSUME NEW i \in 0 .. n - 1, i \in U PROVE i + 1 \in U
    <2>1. /\ i + 1 \in 1 .. n /\ (i + 1) - 1 = i /\ i + 1 \in 0 .. n /\ i \in 0 .. n
          /\ m + (i + 1) \in 1 .. m + n /\ (m + (i + 1)) - 1 = m + i BY <1>1
    <2>2. f[m + (i + 1)] = IF m + (i + 1) \in keep THEN Append(f[m + i], c[m + (i + 1)]) ELSE f[m + i]
      BY <1>3, <2>1 DEF Loop
    <2>3. h[i + 1] = IF i + 1 \in kb THEN Append(h[i], b[i + 1]) ELSE h[i] BY <1>5, <2>1 DEF Loop
    <2>4. f[m + i] = g[m] \o h[i]
      <3>1. V(i) BY <1>14
      <3>2. QED BY <3>1 DEF V
    <2>5. h[i] \in Seq(S) /\ b[i + 1] \in S BY <1>5, <1>7, <2>1 DEF Loop
    <2>6. c[m + (i + 1)] = b[i + 1] /\ (m + (i + 1) \in keep <=> i + 1 \in kb) BY <1>2, <1>6, <2>1
    <2>7. Append(g[m] \o h[i], b[i + 1]) = g[m] \o Append(h[i], b[i + 1])
      <3> DEFINE x == g[m]
                 y == h[i]
                 e == b[i + 1]
      <3>1. x \in Seq(S) /\ y \in Seq(S) /\ e \in S BY <1>12, <2>5
      <3> HIDE DEF x, y, e
      <3>2. x \o y \in Seq(S) /\ Append(y, e) \in Seq(S) BY <3>1
      <3>3. Append(x \o y, e) \in Seq(S) /\ x \o Append(y, e) \in Seq(S) BY <3>1, <3>2
      <3>4. /\ Len(Append(x \o y, e)) = Len(x) + Len(y) + 1
            /\ Len(x \o Append(y, e)) = Len(x) + Len(y) + 1 BY <3>1, <3>2
      <3>5. ASSUME NEW j \in 1 .. Len(x) + Len(y) + 1
            PROVE  Append(x \o y, e)[j] = (x \o Append(y, e))[j]
        <4>1. Len(x) \in Nat /\ Len(y) \in Nat /\ Len(x \o y) = Len(x) + Len(y) /\ Len(Append(y, e)) = Len(y) + 1
          BY <3>1
        <4>2. CASE j \in 1 .. Len(x) BY <3>1, <3>2, <4>1, <4>2
        <4>3. CASE j \in Len(x) + 1 .. Len(x) + Len(y) BY <3>1, <3>2, <4>1, <4>3
        <4>4. CASE j = Len(x) + Len(y) + 1 BY <3>1, <3>2, <4>1, <4>4
        <4>5. QED BY <4>1, <4>2, <4>3, <4>4
      <3>6. Append(x \o y, e) = x \o Append(y, e) BY <3>3, <3>4, <3>5, SeqEqual
      <3>7. QED BY <3>6 DEF x, y, e
    <2>8. V(i + 1)
      <3>1. CASE i + 1 \in kb BY <2>2, <2>3, <2>4, <2>6, <2>7, <3>1 DEF V
      <3>2. CASE i + 1 \notin kb BY <2>2, <2>3, <2>4, <2>6, <3>2 DEF V
      <3>3. QED BY <3>1, <3>2
    <2>9. QED BY <2>1, <2>8
  <1> HIDE DEF U
  <1>15. \A i \in 0 .. n : i \in U BY <1>1, <1>13, <1>14, Induction
  <1>16. f[m + n] = g[m] \o h[n]
    <2>1. V(n) BY <1>1, <1>15 DEF U
    <2>2. QED BY <2>1 DEF V
  <1>17. FilterInherited(c) = f[m + n] /\ FilterInherited(a) = g[m] /\ FilterInherited(b) = h[n]
    BY <1>2 DEF FilterInherited, Kept, f, g, h, m, n, ka, kb, keep
  <1>18. QED BY <1>16, <1>17 DEF c

\* Filtering twice is filtering once.
LEMMA FilterTwice ==
  ASSUME NEW S, NEW es \in Seq(S)
  PROVE  FilterInherited(FilterInherited(es)) = FilterInherited(es)
  <1>1. FilterInherited(es) \in Seq(S) /\ \A j \in 1 .. Len(FilterInherited(es)) : IsExplicit(FilterInherited(es)[j])
    BY FilterType
  <1>2. QED BY <1>1, FilterAll

\* The flags of a child's ACE are flags, and mark it inherited.
LEMMA FlagsInherited ==
  ASSUME NEW f \in SUBSET Flags, NEW container, InheritFlags(f, container) # Fail
  PROVE  InheritFlags(f, container)[1] \in SUBSET Flags /\ "inherited" \in InheritFlags(f, container)[1]
  BY DEF InheritFlags, Flags, AllInheritFlags, Ok, Fail

\* What a parent passes is ACEs that parse, all of them inherited.
LEMMA InheritedType ==
  ASSUME NEW es \in Seq(Parsed), NEW container
  PROVE  /\ ComputeInheritedACEs(es, container) \in Seq(Parsed)
         /\ \A j \in 1 .. Len(ComputeInheritedACEs(es, container)) :
               ~IsExplicit(ComputeInheritedACEs(es, container)[j])
  <1> DEFINE keep == {i \in DOMAIN es : InheritFlags(es[i].flags, container) # Fail}
             kept == Kept(es, keep)
             new(e) == [e EXCEPT !.flags = InheritFlags(e.flags, container)[1]]
             r == [i \in DOMAIN kept |-> new(kept[i])]
  <1>1. ComputeInheritedACEs(es, container) = r BY DEF ComputeInheritedACEs
  <1>2. \A k \in keep : InheritFlags(es[k].flags, container) # Fail OBVIOUS
  <1> HIDE DEF keep
  <1>3. kept \in Seq(Parsed) BY KeptType
  <1>4. \A j \in 1 .. Len(kept) : \E k \in 1 .. Len(es) : k \in keep /\ kept[j] = es[k] BY KeptFrom
  <1> HIDE DEF kept
  <1>5. ASSUME NEW e \in Parsed, InheritFlags(e.flags, container) # Fail
        PROVE  new(e) \in Parsed /\ ~IsExplicit(new(e))
    <2> DEFINE fl == InheritFlags(e.flags, container)[1]
    <2>1. e.flags \in SUBSET Flags BY DEF Parsed
    <2>2. fl \in SUBSET Flags /\ "inherited" \in fl BY <1>5, <2>1, FlagsInherited
    <2> HIDE DEF fl
    <2>3. [e EXCEPT !.flags = fl] \in Parsed /\ [e EXCEPT !.flags = fl].flags = fl BY <2>2 DEF Parsed
    <2>4. QED BY <2>2, <2>3 DEF IsExplicit, fl
  <1>6. ASSUME NEW j \in 1 .. Len(kept)
        PROVE  kept[j] \in Parsed /\ InheritFlags(kept[j].flags, container) # Fail
    BY <1>2, <1>3, <1>4
  <1> HIDE DEF new
  <1>7. DOMAIN kept = 1 .. Len(kept) /\ Len(kept) \in Nat BY <1>3
  <1>8. ASSUME NEW j \in 1 .. Len(kept) PROVE new(kept[j]) \in Parsed /\ ~IsExplicit(new(kept[j]))
    BY <1>5, <1>6
  <1>9. r \in [1 .. Len(kept) -> Parsed] BY <1>7, <1>8
  <1>10. r \in Seq(Parsed) /\ Len(r) = Len(kept) BY <1>7, <1>9
  <1>11. \A j \in 1 .. Len(r) : ~IsExplicit(r[j]) BY <1>7, <1>8, <1>10
  <1>12. QED BY <1>1, <1>10, <1>11

\* What Reinherit makes of two DACLs: it parses, and its explicit ACEs are the child's.
LEMMA Refilter ==
  ASSUME NEW c \in Seq(Parsed), NEW p \in Seq(Parsed), NEW container
  PROVE  /\ FilterInherited(c) \o ComputeInheritedACEs(p, container) \in Seq(Parsed)
         /\ FilterInherited(FilterInherited(c) \o ComputeInheritedACEs(p, container)) = FilterInherited(c)
  <1> DEFINE x == FilterInherited(c)
             y == ComputeInheritedACEs(p, container)
  <1>1. x \in Seq(Parsed) BY FilterType
  <1>2. y \in Seq(Parsed) /\ \A j \in 1 .. Len(y) : ~IsExplicit(y[j]) BY InheritedType
  <1>3. FilterInherited(x) = x BY FilterTwice
  <1> HIDE DEF x, y
  <1>4. FilterInherited(y) = <<>> BY <1>2, FilterNone
  <1>5. FilterInherited(x \o y) = x \o <<>> BY <1>1, <1>2, <1>3, <1>4, FilterConcat
  <1>6. x \o y \in Seq(Parsed) /\ x \o <<>> = x BY <1>1, <1>2
  <1>7. QED BY <1>5, <1>6 DEF x, y

-----------------------------------------------------------------------------
(* The codecs.                                                             *)

LEMMA ParseACEType ==
  ASSUME NEW w \in ACEs, ParseACE(w) # Fail
  PROVE  ParseACE(w)[1] \in Parsed
  <1>1. CASE w.type \in Rawed
    BY <1>1 DEF ParseACE, Parsed, ACEs, Rawed, Ok, Empty
  <1>2. CASE w.type \notin Rawed
    <2>1. w.body.core # "" BY <1>2 DEF ParseACE
    <2>2. [w.body EXCEPT !.tail = ""] \in [core : Bytes, tail : Bytes]
      <3>1. w.body \in [core : Bytes, tail : Bytes] BY DEF ACEs
      <3>2. "" \in Bytes BY BytesAssumption
      <3>3. QED BY <3>1, <3>2
    <2>3. QED BY <1>2, <2>1, <2>2 DEF ParseACE, Parsed, ACEs, Ok, Empty
  <1>3. QED BY <1>1, <1>2

\* What MarshalACE writes, ParseACE reads back.
LEMMA RoundTripACE ==
  ASSUME NEW a \in Parsed, MarshalACE(a) # Fail
  PROVE  /\ MarshalACE(a)[1] \in ACEs
         /\ ParseACE(MarshalACE(a)[1]) = <<a>>
  <1> DEFINE w == [type |-> a.type, flags |-> a.flags, body |-> a.body]
  <1>1. MarshalACE(a) = <<w>> BY DEF MarshalACE, Ok
  <1>2. w \in ACEs BY DEF Parsed, ACEs
  <1>3. a = [type |-> a.type, flags |-> a.flags, body |-> a.body, raw |-> a.raw] BY DEF Parsed
  <1>4. CASE a.type \in Rawed
    <2>1. a.raw = "bytes" /\ a.body # Empty BY <1>4 DEF MarshalACE, Parsed, Rawed, Simple, Object
    <2>2. w.type \in Rawed /\ w.body # Empty BY <1>4, <2>1
    <2>3. ParseACE(w) = <<[type |-> w.type, flags |-> w.flags, body |-> w.body, raw |-> "bytes"]>>
      BY <2>2 DEF ParseACE, Ok
    <2>4. [type |-> w.type, flags |-> w.flags, body |-> w.body, raw |-> "bytes"] = a BY <1>3, <2>1
    <2>5. QED BY <1>1, <1>2, <2>3, <2>4
  <1>5. CASE a.type \notin Rawed
    <2>1. a.raw = "nil" /\ a.body.core # "" /\ a.body.tail = "" BY <1>5 DEF Parsed
    <2>2. [a.body EXCEPT !.tail = ""] = a.body BY <2>1 DEF Parsed
    <2>3. w.type \notin Rawed /\ w.body.core # "" BY <1>5, <2>1
    <2>4. ParseACE(w) = <<[type |-> w.type, flags |-> w.flags, body |-> [w.body EXCEPT !.tail = ""], raw |-> "nil"]>>
      BY <2>3 DEF ParseACE, Ok
    <2>5. [type |-> w.type, flags |-> w.flags, body |-> [w.body EXCEPT !.tail = ""], raw |-> "nil"] = a
      BY <1>3, <2>1, <2>2
    <2>6. ParseACE(w) = <<a>> BY <2>4, <2>5
    <2> HIDE DEF w
    <2>7. QED BY <1>1, <1>2, <2>6
  <1>6. QED BY <1>4, <1>5

LEMMA ParseACLType ==
  ASSUME NEW w \in ACLs, ParseACL(w) # Fail
  PROVE  ParseACL(w) = <<ParseACL(w)[1]>> /\ ParseACL(w)[1] \in Seq(Parsed)
  <1> DEFINE s == SubSeq(w.aces, 1, w.count)
             x == [i \in DOMAIN s |-> ParseACE(s[i])[1]]
  <1>1. w.count \in Nat /\ w.aces \in Seq(ACEs) BY BoundAssumption DEF ACLs
  <1>2. w.count <= Len(w.aces) BY <1>1 DEF ParseACL
  <1>3. s \in Seq(ACEs) /\ Len(s) = w.count BY <1>1, <1>2, SubSeqProperties
  <1>4. ~(\E i \in DOMAIN s : ParseACE(s[i]) = Fail) /\ ParseACL(w) = <<x>> BY <1>2 DEF ParseACL, MapOk, Ok
  <1> HIDE DEF s
  <1>5. \A i \in 1 .. Len(s) : s[i] \in ACEs /\ ParseACE(s[i]) # Fail BY <1>3, <1>4
  <1>6. \A i \in 1 .. Len(s) : ParseACE(s[i])[1] \in Parsed BY <1>5, ParseACEType
  <1>7. x \in [1 .. Len(s) -> Parsed] BY <1>3, <1>6
  <1>8. x \in Seq(Parsed) BY <1>1, <1>3, <1>7
  <1> HIDE DEF x
  <1>9. QED BY <1>4, <1>8

LEMMA RoundTripACL ==
  ASSUME NEW es \in Seq(Parsed), MarshalACL(es) # Fail
  PROVE  /\ MarshalACL(es) = <<MarshalACL(es)[1]>>
         /\ MarshalACL(es)[1] \in ACLs
         /\ ParseACL(MarshalACL(es)[1]) = <<es>>
  <1> DEFINE x == [i \in DOMAIN es |-> MarshalACE(es[i])[1]]
             rev == IF \E i \in DOMAIN es : NeedsDSRevision(es[i].type) THEN 4 ELSE 2
             w == [rev |-> rev, count |-> Len(es), aces |-> x]
  <1>1. ~(Len(es) > MaxACEs) /\ ~(\E i \in DOMAIN es : MarshalACE(es[i]) = Fail) /\ MarshalACL(es) = <<w>>
    BY DEF MarshalACL, MapOk, Ok, Fail
  <1>2. rev \in {2, 4} OBVIOUS
  <1> HIDE DEF rev
  <1>3. \A i \in 1 .. Len(es) : es[i] \in Parsed /\ MarshalACE(es[i]) # Fail BY <1>1
  <1>4. \A i \in 1 .. Len(es) : MarshalACE(es[i])[1] \in ACEs /\ ParseACE(MarshalACE(es[i])[1]) = <<es[i]>>
    BY <1>3, RoundTripACE
  <1>5. x \in [1 .. Len(es) -> ACEs] BY <1>4
  <1>6. x \in Seq(ACEs) /\ Len(x) = Len(es) /\ \A i \in 1 .. Len(es) : ParseACE(x[i]) = <<es[i]>> BY <1>4, <1>5
  <1> HIDE DEF x
  <1>7. Len(es) \in 0 .. MaxACEs BY <1>1, BoundAssumption
  <1>8. w \in ACLs BY <1>2, <1>6, <1>7 DEF ACLs
  <1>9. SubSeq(x, 1, Len(es)) = x BY <1>6
  <1>10. w.count = Len(es) /\ w.aces = x /\ ~(Len(es) > Len(x)) BY <1>6
  <1>11. DOMAIN x = 1 .. Len(es) BY <1>6
  <1>12. ~(\E i \in DOMAIN x : ParseACE(x[i]) = Fail)
    <2>1. \A e : <<e>> # Fail BY DEF Fail
    <2>2. QED BY <1>6, <1>11, <2>1
  <1>13. [i \in DOMAIN x |-> ParseACE(x[i])[1]] = es BY <1>6, <1>11
  <1>14. ParseACL(w) = <<es>> BY <1>9, <1>10, <1>12, <1>13 DEF ParseACL, MapOk, Ok
  <1> HIDE DEF w
  <1>15. QED BY <1>1, <1>8, <1>14

\* A descriptor as ParseDescriptor returns it.
ParsedSDs == [control : SUBSET Bits, owner : Bytes, group : Bytes,
              sacl : Optional(Seq(Parsed)), dacl : Optional(Seq(Parsed))]

LEMMA OptionalFacts ==
  ASSUME NEW S, NEW p \in Optional(S)
  PROVE  /\ p # Nil => p[1] \in S /\ p = <<p[1]>>
  BY DEF Optional, Nil

LEMMA OptionalMakes ==
  ASSUME NEW S
  PROVE  Nil \in Optional(S) /\ \A x \in S : <<x>> \in Optional(S) /\ <<x>> # Nil /\ <<x>>[1] = x
  BY DEF Optional, Nil

LEMMA ParseOptional ==
  ASSUME NEW p \in Optional(ACLs), OptPart(ParseACL, p) # Fail
  PROVE  /\ OptPart(ParseACL, p)[1] \in Optional(Seq(Parsed))
         /\ OptPart(ParseACL, p)[1] = Nil <=> p = Nil
  <1>1. CASE p = Nil BY <1>1, OptionalMakes DEF OptPart, Ok
  <1>2. CASE p # Nil
    <2>1. p[1] \in ACLs BY <1>2, OptionalFacts
    <2>2. ParseACL(p[1]) # Fail BY <1>2 DEF OptPart
    <2>3. ParseACL(p[1])[1] \in Seq(Parsed) BY <2>1, <2>2, ParseACLType
    <2>4. OptPart(ParseACL, p)[1] = <<ParseACL(p[1])[1]>> BY <1>2, <2>2 DEF OptPart, Ok
    <2>5. QED BY <1>2, <2>3, <2>4, OptionalMakes
  <1>3. QED BY <1>1, <1>2

LEMMA RoundTripOptional ==
  ASSUME NEW p \in Optional(Seq(Parsed)), OptPart(MarshalACL, p) # Fail
  PROVE  /\ OptPart(MarshalACL, p)[1] \in Optional(ACLs)
         /\ OptPart(MarshalACL, p)[1] = Nil <=> p = Nil
         /\ OptPart(ParseACL, OptPart(MarshalACL, p)[1]) = <<p>>
  <1>1. CASE p = Nil BY <1>1, OptionalMakes DEF OptPart, Ok
  <1>2. CASE p # Nil
    <2> DEFINE w == MarshalACL(p[1])[1]
    <2>1. p[1] \in Seq(Parsed) /\ p = <<p[1]>> BY <1>2, OptionalFacts
    <2>2. MarshalACL(p[1]) # Fail BY <1>2 DEF OptPart
    <2>3. w \in ACLs /\ ParseACL(w) = <<p[1]>> BY <2>1, <2>2, RoundTripACL
    <2>4. OptPart(MarshalACL, p)[1] = <<w>> BY <1>2, <2>2 DEF OptPart, Ok
    <2> HIDE DEF w
    <2>5. <<w>> \in Optional(ACLs) /\ <<w>> # Nil /\ <<w>>[1] = w BY <2>3, OptionalMakes
    <2>6. OptPart(ParseACL, <<w>>) = <<p>>
      <3>1. <<p[1]>> # Fail BY DEF Fail
      <3>2. QED BY <2>1, <2>3, <2>5, <3>1 DEF OptPart, Ok
    <2>7. QED BY <1>2, <2>4, <2>5, <2>6
  <1>3. QED BY <1>1, <1>2

LEMMA ParseDescriptorType ==
  ASSUME NEW w \in Descriptors, ParseDescriptor(w) # Fail
  PROVE  /\ ParseDescriptor(w)[1] \in ParsedSDs
         /\ ParseDescriptor(w)[1].control = w.control
         /\ ParseDescriptor(w)[1].owner = w.owner /\ ParseDescriptor(w)[1].group = w.group
         /\ ParseDescriptor(w)[1].dacl = Nil <=> IsNull(w)
  <1> DEFINE s == IF "saclPresent" \in w.control THEN OptPart(ParseACL, w.sacl) ELSE Ok(Nil)
             a == IF "daclPresent" \in w.control THEN OptPart(ParseACL, w.dacl) ELSE Ok(Nil)
             d == [control |-> w.control, owner |-> w.owner, group |-> w.group, sacl |-> s[1], dacl |-> a[1]]
  <1>1. s # Fail /\ a # Fail /\ ParseDescriptor(w) = <<d>> BY Zenon DEF ParseDescriptor, Ok
  <1>2. w.sacl \in Optional(ACLs) /\ w.dacl \in Optional(ACLs) BY DEF Descriptors
  <1>3. w.control \in SUBSET Bits /\ w.owner \in Bytes /\ w.group \in Bytes BY DEF Descriptors
  <1>4. s[1] \in Optional(Seq(Parsed))
    <2>1. CASE "saclPresent" \in w.control
      <3>1. s = OptPart(ParseACL, w.sacl) BY <2>1
      <3> HIDE DEF s
      <3>2. QED BY <1>1, <1>2, <3>1, ParseOptional
    <2>2. CASE "saclPresent" \notin w.control
      <3>1. s[1] = Nil BY <2>2 DEF Ok
      <3>2. QED BY <3>1, OptionalMakes
    <2>3. QED BY <2>1, <2>2
  <1>5. a[1] \in Optional(Seq(Parsed)) /\ (a[1] = Nil <=> IsNull(w))
    <2>1. CASE "daclPresent" \in w.control
      <3>1. a = OptPart(ParseACL, w.dacl) BY <2>1
      <3> HIDE DEF a
      <3>2. a[1] \in Optional(Seq(Parsed)) /\ (a[1] = Nil <=> w.dacl = Nil) BY <1>1, <1>2, <3>1, ParseOptional
      <3>3. QED BY <2>1, <3>2 DEF IsNull
    <2>2. CASE "daclPresent" \notin w.control
      <3>1. a[1] = Nil /\ IsNull(w) BY <2>2 DEF Ok, IsNull
      <3>2. QED BY <3>1, OptionalMakes
    <2>3. QED BY <2>1, <2>2
  <1> HIDE DEF s, a
  <1>6. d \in ParsedSDs BY <1>3, <1>4, <1>5 DEF ParsedSDs
  <1>7. ParseDescriptor(w)[1] = d BY <1>1
  <1>8. QED BY <1>5, <1>6, <1>7

\* What Marshal writes, ParseDescriptor reads back, but for the bits it adds.
LEMMA RoundTrip ==
  ASSUME NEW d \in ParsedSDs, Marshal(d) # Fail
  PROVE  /\ Marshal(d)[1] \in Descriptors
         /\ Marshal(d)[1].owner = d.owner /\ Marshal(d)[1].group = d.group
         /\ Marshal(d)[1].control = d.control \cup {"selfRelative"}
                                    \cup (IF d.sacl # Nil THEN {"saclPresent"} ELSE {})
                                    \cup (IF d.dacl # Nil THEN {"daclPresent"} ELSE {})
         /\ ParseDescriptor(Marshal(d)[1]) =
              <<[control |-> Marshal(d)[1].control, owner |-> d.owner, group |-> d.group,
                 sacl |-> d.sacl, dacl |-> d.dacl]>>
  <1> DEFINE s == OptPart(MarshalACL, d.sacl)
             a == OptPart(MarshalACL, d.dacl)
             bits == d.control \cup {"selfRelative"}
                     \cup (IF d.sacl # Nil THEN {"saclPresent"} ELSE {})
                     \cup (IF d.dacl # Nil THEN {"daclPresent"} ELSE {})
             w == [control |-> bits, owner |-> d.owner, group |-> d.group, sacl |-> s[1], dacl |-> a[1]]
  <1>1. s # Fail /\ a # Fail /\ Marshal(d) = <<w>> BY Zenon DEF Marshal, Ok
  <1>2. d.sacl \in Optional(Seq(Parsed)) /\ d.dacl \in Optional(Seq(Parsed)) BY DEF ParsedSDs
  <1>3. d.control \in SUBSET Bits /\ d.owner \in Bytes /\ d.group \in Bytes BY DEF ParsedSDs
  <1>4. s[1] \in Optional(ACLs) /\ (s[1] = Nil <=> d.sacl = Nil) /\ OptPart(ParseACL, s[1]) = <<d.sacl>>
    BY <1>1, <1>2, RoundTripOptional
  <1>5. a[1] \in Optional(ACLs) /\ (a[1] = Nil <=> d.dacl = Nil) /\ OptPart(ParseACL, a[1]) = <<d.dacl>>
    BY <1>1, <1>2, RoundTripOptional
  <1>6. /\ bits \in SUBSET Bits /\ (d.sacl # Nil => "saclPresent" \in bits)
        /\ (d.dacl # Nil => "daclPresent" \in bits)
    BY <1>3 DEF Bits
  <1>7. w.control = bits /\ w.owner = d.owner /\ w.group = d.group /\ w.sacl = s[1] /\ w.dacl = a[1] OBVIOUS
  <1> HIDE DEF s, a
  <1>8. w \in Descriptors
    <2> HIDE DEF bits
    <2>1. QED BY <1>3, <1>4, <1>5, <1>6 DEF Descriptors
  <1> DEFINE ps == IF "saclPresent" \in w.control THEN OptPart(ParseACL, w.sacl) ELSE Ok(Nil)
             pa == IF "daclPresent" \in w.control THEN OptPart(ParseACL, w.dacl) ELSE Ok(Nil)
  <1> HIDE DEF w
  <1>9. ps = <<d.sacl>>
    <2> HIDE DEF bits
    <2>1. CASE "saclPresent" \in w.control BY <1>4, <1>7, <2>1
    <2>2. CASE "saclPresent" \notin w.control BY <1>6, <1>7, <2>2 DEF Ok
    <2>3. QED BY <2>1, <2>2
  <1>10. pa = <<d.dacl>>
    <2> HIDE DEF bits
    <2>1. CASE "daclPresent" \in w.control BY <1>5, <1>7, <2>1
    <2>2. CASE "daclPresent" \notin w.control BY <1>6, <1>7, <2>2 DEF Ok
    <2>3. QED BY <2>1, <2>2
  <1>11. ParseDescriptor(w) = IF ps = Fail \/ pa = Fail THEN Fail
                              ELSE <<[control |-> w.control, owner |-> w.owner, group |-> w.group,
                                      sacl |-> ps[1], dacl |-> pa[1]]>>
    BY Zenon DEF ParseDescriptor, Ok
  <1> HIDE DEF ps, pa
  <1>12. ps # Fail /\ pa # Fail /\ ps[1] = d.sacl /\ pa[1] = d.dacl BY <1>9, <1>10 DEF Fail
  <1>13. ParseDescriptor(w) = <<[control |-> w.control, owner |-> d.owner, group |-> d.group,
                                 sacl |-> d.sacl, dacl |-> d.dacl]>>
    BY <1>7, <1>11, <1>12
  <1>14. Marshal(d)[1] = w BY <1>1
  <1>15. QED BY <1>7, <1>8, <1>13, <1>14

-----------------------------------------------------------------------------
(* Reinherit and StripInheritedACEs.                                       *)

LEMMA EntriesType ==
  ASSUME NEW S, NEW p \in Optional(Seq(S))
  PROVE  Entries(p) \in Seq(S)
  BY OptionalFacts DEF Entries

\* The DACL and the SACL a descriptor is read as.
LEMMA Reads ==
  ASSUME NEW w \in Descriptors, ParseDescriptor(w) # Fail
  PROVE  /\ DaclOf(w) = Entries(ParseDescriptor(w)[1].dacl) /\ DaclOf(w) \in Seq(Parsed)
         /\ SaclOf(w) = Entries(ParseDescriptor(w)[1].sacl) /\ SaclOf(w) \in Seq(Parsed)
  <1> DEFINE d == ParseDescriptor(w)[1]
  <1>1. d \in ParsedSDs BY ParseDescriptorType
  <1>2. DaclOf(w) = Entries(d.dacl) /\ SaclOf(w) = Entries(d.sacl) BY DEF DaclOf, SaclOf
  <1> HIDE DEF d
  <1>3. d.dacl \in Optional(Seq(Parsed)) /\ d.sacl \in Optional(Seq(Parsed)) BY <1>1 DEF ParsedSDs
  <1>4. Entries(d.dacl) \in Seq(Parsed) /\ Entries(d.sacl) \in Seq(Parsed) BY <1>3, EntriesType
  <1>5. QED BY <1>2, <1>4 DEF d

\* What Marshal writes of a descriptor that parsed, with other ACLs.
LEMMA Writes ==
  ASSUME NEW d \in ParsedSDs, Marshal(d) # Fail
  PROVE  /\ Marshal(d)[1] \in Descriptors
         /\ Marshal(d)[1].owner = d.owner /\ Marshal(d)[1].group = d.group
         /\ \A b \in KeptControl : b \in Marshal(d)[1].control <=> b \in d.control
         /\ "selfRelative" \in Marshal(d)[1].control
         /\ ParseDescriptor(Marshal(d)[1]) # Fail
         /\ DaclOf(Marshal(d)[1]) = Entries(d.dacl) /\ SaclOf(Marshal(d)[1]) = Entries(d.sacl)
         /\ d.dacl # Nil => ~IsNull(Marshal(d)[1])
  <1> DEFINE w == Marshal(d)[1]
             x == [control |-> w.control, owner |-> d.owner, group |-> d.group, sacl |-> d.sacl, dacl |-> d.dacl]
  <1>1. /\ w \in Descriptors /\ w.owner = d.owner /\ w.group = d.group
        /\ w.control = d.control \cup {"selfRelative"} \cup (IF d.sacl # Nil THEN {"saclPresent"} ELSE {})
                       \cup (IF d.dacl # Nil THEN {"daclPresent"} ELSE {})
        /\ ParseDescriptor(w) = <<x>>
    BY RoundTrip
  <1> HIDE DEF w
  <1>2. \A b \in KeptControl : b \in w.control <=> b \in d.control BY <1>1 DEF KeptControl
  <1>3. "selfRelative" \in w.control BY <1>1
  <1>4. x.dacl = d.dacl /\ x.sacl = d.sacl OBVIOUS
  <1> HIDE DEF x
  <1>5. ParseDescriptor(w) # Fail /\ ParseDescriptor(w)[1] = x BY <1>1 DEF Fail
  <1>6. DaclOf(w) = Entries(d.dacl) /\ SaclOf(w) = Entries(d.sacl) BY <1>1, <1>4, <1>5, Reads
  <1>7. d.dacl # Nil => ~IsNull(w) BY <1>1, <1>4, <1>5, ParseDescriptorType
  <1>8. QED BY <1>1, <1>2, <1>3, <1>5, <1>6, <1>7 DEF w

\* The descriptor Reinherit marshals, and what it reads to make it.
Merged(p, c, container) ==
    FilterInherited(DaclOf(c)) \o ComputeInheritedACEs(DaclOf(p), container)

Rebuilt(p, c, container) ==
    LET child == ParseDescriptor(c)[1] IN
    [child EXCEPT !.control = @ \cap KeptControl,
                  !.dacl = IF @ = Nil /\ Merged(p, c, container) = <<>> THEN Nil ELSE <<Merged(p, c, container)>>]

LEMMA ReinheritMakes ==
  ASSUME NEW p \in Descriptors, NEW c \in Descriptors, NEW container, ReinheritSD(p, c, container) # Fail
  PROVE  /\ ParseDescriptor(p) # Fail /\ ParseDescriptor(c) # Fail
         /\ ReinheritSD(p, c, container) = Marshal(Rebuilt(p, c, container))
  <1>1. ParseDescriptor(p) # Fail /\ ParseDescriptor(c) # Fail /\ "selfRelative" \in c.control BY DEF ReinheritSD
  <1>2. /\ DaclOf(p) = Entries(ParseDescriptor(p)[1].dacl)
        /\ DaclOf(c) = Entries(ParseDescriptor(c)[1].dacl) BY <1>1, Reads
  <1>3. QED BY <1>1, <1>2, Zenon DEF ReinheritSD, Rebuilt, Merged

LEMMA RebuiltType ==
  ASSUME NEW p \in Descriptors, NEW c \in Descriptors, NEW container,
         ParseDescriptor(p) # Fail, ParseDescriptor(c) # Fail
  PROVE  LET d == Rebuilt(p, c, container) IN
         /\ d \in ParsedSDs
         /\ d.owner = c.owner /\ d.group = c.group /\ d.control = c.control \cap KeptControl
         /\ Entries(d.dacl) = Merged(p, c, container)
         /\ d.sacl = ParseDescriptor(c)[1].sacl
         /\ ~IsNull(c) => d.dacl # Nil
  <1> DEFINE child == ParseDescriptor(c)[1]
             m == Merged(p, c, container)
             dacl == IF child.dacl = Nil /\ m = <<>> THEN Nil ELSE <<m>>
             d == Rebuilt(p, c, container)
  <1>1. /\ child \in ParsedSDs /\ child.control = c.control /\ child.owner = c.owner /\ child.group = c.group
        /\ (child.dacl = Nil <=> IsNull(c))
    BY ParseDescriptorType
  <1>2. DaclOf(p) \in Seq(Parsed) /\ DaclOf(c) \in Seq(Parsed) BY Reads
  <1>3. m \in Seq(Parsed) BY <1>2, Refilter DEF Merged
  <1> HIDE DEF m
  <1>4. dacl \in Optional(Seq(Parsed)) BY <1>3, OptionalMakes
  <1>5. Entries(dacl) = m /\ (child.dacl # Nil => dacl # Nil)
    <2>1. CASE child.dacl = Nil /\ m = <<>> BY <2>1 DEF Entries
    <2>2. CASE ~(child.dacl = Nil /\ m = <<>>)
      <3>1. dacl = <<m>> BY <2>2
      <3>2. <<m>> # Nil /\ <<m>>[1] = m BY DEF Nil
      <3> HIDE DEF dacl
      <3>3. QED BY <3>1, <3>2 DEF Entries
    <2>3. QED BY <2>1, <2>2
  <1>6. d = [child EXCEPT !.control = child.control \cap KeptControl, !.dacl = dacl]
    BY Zenon DEF Rebuilt, m
  <1> HIDE DEF child, dacl, d
  <1>7. /\ d \in ParsedSDs /\ d.control = child.control \cap KeptControl
        /\ d.owner = child.owner /\ d.group = child.group /\ d.sacl = child.sacl /\ d.dacl = dacl
    BY <1>1, <1>4, <1>6 DEF ParsedSDs
  <1>8. QED BY <1>1, <1>5, <1>7 DEF child, d, m

\* An empty DACL is written where there was one.
LEMMA RebuiltDacl ==
  ASSUME NEW p, NEW c \in Descriptors, NEW container, ParseDescriptor(c) # Fail
  PROVE  Rebuilt(p, c, container).dacl =
            IF ParseDescriptor(c)[1].dacl = Nil /\ Merged(p, c, container) = <<>> THEN Nil
            ELSE <<Merged(p, c, container)>>
  <1> DEFINE child == ParseDescriptor(c)[1]
             m == Merged(p, c, container)
             dacl == IF child.dacl = Nil /\ m = <<>> THEN Nil ELSE <<m>>
  <1>1. child \in ParsedSDs BY ParseDescriptorType
  <1>2. Rebuilt(p, c, container) = [child EXCEPT !.control = child.control \cap KeptControl, !.dacl = dacl]
    BY Zenon DEF Rebuilt
  <1> HIDE DEF child, dacl, m
  <1>3. Rebuilt(p, c, container).dacl = dacl BY <1>1, <1>2 DEF ParsedSDs
  <1>4. QED BY <1>3, Zenon DEF child, dacl, m

\* The whole of Reinherit.
LEMMA ReinheritStep ==
  ASSUME NEW p \in Descriptors, NEW c \in Descriptors, NEW container, ReinheritSD(p, c, container) # Fail
  PROVE  LET w == ReinheritSD(p, c, container)[1] IN
         /\ w \in Descriptors
         /\ w.owner = c.owner /\ w.group = c.group
         /\ \A b \in KeptControl : b \in w.control <=> b \in c.control
         /\ DaclOf(w) = Merged(p, c, container)
         /\ FilterInherited(DaclOf(w)) = FilterInherited(DaclOf(c))
         /\ SaclOf(w) = SaclOf(c)
         /\ ~IsNull(c) => ~IsNull(w)
  <1> DEFINE d == Rebuilt(p, c, container)
             w == ReinheritSD(p, c, container)[1]
  <1>1. ParseDescriptor(p) # Fail /\ ParseDescriptor(c) # Fail /\ ReinheritSD(p, c, container) = Marshal(d)
    BY ReinheritMakes
  <1>2. /\ d \in ParsedSDs /\ d.owner = c.owner /\ d.group = c.group /\ d.control = c.control \cap KeptControl
        /\ Entries(d.dacl) = Merged(p, c, container) /\ d.sacl = ParseDescriptor(c)[1].sacl
        /\ ~IsNull(c) => d.dacl # Nil
    BY <1>1, RebuiltType
  <1>3. DaclOf(p) \in Seq(Parsed) /\ DaclOf(c) \in Seq(Parsed) /\ SaclOf(c) = Entries(ParseDescriptor(c)[1].sacl)
    BY <1>1, Reads
  <1> HIDE DEF d
  <1>4. w = Marshal(d)[1] /\ Marshal(d) # Fail BY <1>1
  <1>5. /\ w \in Descriptors /\ w.owner = d.owner /\ w.group = d.group
        /\ (\A b \in KeptControl : b \in w.control <=> b \in d.control)
        /\ DaclOf(w) = Entries(d.dacl) /\ SaclOf(w) = Entries(d.sacl) /\ (d.dacl # Nil => ~IsNull(w))
    BY <1>2, <1>4, Writes
  <1>6. FilterInherited(Merged(p, c, container)) = FilterInherited(DaclOf(c)) BY <1>3, Refilter DEF Merged
  <1> HIDE DEF w
  <1>7. \A b \in KeptControl : b \in w.control <=> b \in c.control BY <1>2, <1>5
  <1>8. QED BY <1>2, <1>3, <1>5, <1>6, <1>7 DEF w

\* What StripInheritedACEs makes of an ACL.
Cut(part, p, info) == IF part \in info /\ p # Nil THEN <<FilterInherited(p[1])>> ELSE p

LEMMA CutFacts ==
  ASSUME NEW part, NEW info, NEW p \in Optional(Seq(Parsed))
  PROVE  /\ Cut(part, p, info) \in Optional(Seq(Parsed))
         /\ Cut(part, p, info) = Nil <=> p = Nil
         /\ FilterInherited(Entries(Cut(part, p, info))) = FilterInherited(Entries(p))
  <1>1. CASE part \in info /\ p # Nil
    <2> DEFINE f == FilterInherited(p[1])
    <2>1. p[1] \in Seq(Parsed) BY <1>1, OptionalFacts
    <2>2. f \in Seq(Parsed) /\ FilterInherited(f) = f BY <2>1, FilterType, FilterTwice
    <2>3. Cut(part, p, info) = <<f>> BY <1>1 DEF Cut
    <2>4. Entries(p) = p[1] BY <1>1 DEF Entries
    <2> HIDE DEF f
    <2>5. <<f>> \in Optional(Seq(Parsed)) /\ <<f>> # Nil /\ <<f>>[1] = f BY <2>2, OptionalMakes
    <2>6. Entries(<<f>>) = f BY <2>5 DEF Entries
    <2>7. QED BY <1>1, <2>2, <2>3, <2>4, <2>5, <2>6 DEF f
  <1>2. CASE ~(part \in info /\ p # Nil)
    <2>1. Cut(part, p, info) = p BY <1>2 DEF Cut
    <2>2. QED BY <2>1
  <1>3. QED BY <1>1, <1>2

Stripped(w, info) ==
    LET d == ParseDescriptor(w)[1] IN
    [d EXCEPT !.dacl = Cut("dacl", @, info), !.sacl = Cut("sacl", @, info)]

LEMMA StripMakes ==
  ASSUME NEW w \in Descriptors, NEW info, info # {}, StripSD(w, info) # Fail
  PROVE  ParseDescriptor(w) # Fail /\ StripSD(w, info) = Marshal(Stripped(w, info))
  <1>1. ParseDescriptor(w) # Fail /\ "selfRelative" \in w.control BY DEF StripSD
  <1>2. QED BY <1>1, Zenon DEF StripSD, Stripped, Cut

LEMMA StrippedType ==
  ASSUME NEW w \in Descriptors, NEW info, ParseDescriptor(w) # Fail
  PROVE  LET d == ParseDescriptor(w)[1]
             s == Stripped(w, info) IN
         /\ s \in ParsedSDs
         /\ s.owner = w.owner /\ s.group = w.group /\ s.control = w.control
         /\ s.dacl = Cut("dacl", d.dacl, info) /\ s.sacl = Cut("sacl", d.sacl, info)
         /\ d.dacl \in Optional(Seq(Parsed)) /\ d.sacl \in Optional(Seq(Parsed))
         /\ d.dacl = Nil <=> IsNull(w)
  <1> DEFINE d == ParseDescriptor(w)[1]
             s == Stripped(w, info)
             x == Cut("dacl", d.dacl, info)
             y == Cut("sacl", d.sacl, info)
  <1>1. /\ d \in ParsedSDs /\ d.control = w.control /\ d.owner = w.owner /\ d.group = w.group
        /\ (d.dacl = Nil <=> IsNull(w))
    BY ParseDescriptorType
  <1>2. s = [d EXCEPT !.dacl = x, !.sacl = y] BY Zenon DEF Stripped
  <1> HIDE DEF d, s
  <1>3. d.dacl \in Optional(Seq(Parsed)) /\ d.sacl \in Optional(Seq(Parsed)) BY <1>1 DEF ParsedSDs
  <1>4. x \in Optional(Seq(Parsed)) /\ y \in Optional(Seq(Parsed)) BY <1>3, CutFacts
  <1> HIDE DEF x, y
  <1>5. /\ s \in ParsedSDs /\ s.control = d.control /\ s.owner = d.owner /\ s.group = d.group
        /\ s.dacl = x /\ s.sacl = y
    BY <1>1, <1>2, <1>4 DEF ParsedSDs
  <1>6. QED BY <1>1, <1>3, <1>5 DEF d, s, x, y

\* The whole of StripInheritedACEs.
LEMMA StripStep ==
  ASSUME NEW c \in Descriptors, NEW info, StripSD(c, info) # Fail
  PROVE  LET w == StripSD(c, info)[1] IN
         /\ w \in Descriptors
         /\ w.owner = c.owner /\ w.group = c.group
         /\ \A b \in KeptControl : b \in w.control <=> b \in c.control
         /\ FilterInherited(DaclOf(w)) = FilterInherited(DaclOf(c))
         /\ FilterInherited(SaclOf(w)) = FilterInherited(SaclOf(c))
         /\ ~IsNull(c) => ~IsNull(w)
  <1> DEFINE w == StripSD(c, info)[1]
  <1>1. CASE info = {}
    <2>1. w = c BY <1>1 DEF StripSD, Ok
    <2>2. QED BY <2>1
  <1>2. CASE info # {}
    <2> DEFINE d == ParseDescriptor(c)[1]
               s == Stripped(c, info)
    <2>1. ParseDescriptor(c) # Fail /\ StripSD(c, info) = Marshal(s) BY <1>2, StripMakes
    <2>2. /\ s \in ParsedSDs /\ s.owner = c.owner /\ s.group = c.group /\ s.control = c.control
          /\ s.dacl = Cut("dacl", d.dacl, info) /\ s.sacl = Cut("sacl", d.sacl, info)
          /\ d.dacl \in Optional(Seq(Parsed)) /\ d.sacl \in Optional(Seq(Parsed))
          /\ (d.dacl = Nil <=> IsNull(c))
      BY <2>1, StrippedType
    <2>3. DaclOf(c) = Entries(d.dacl) /\ SaclOf(c) = Entries(d.sacl) BY <2>1, Reads
    <2> HIDE DEF d, s
    <2>4. w = Marshal(s)[1] /\ Marshal(s) # Fail BY <2>1
    <2>5. /\ w \in Descriptors /\ w.owner = s.owner /\ w.group = s.group
          /\ (\A b \in KeptControl : b \in w.control <=> b \in s.control)
          /\ DaclOf(w) = Entries(s.dacl) /\ SaclOf(w) = Entries(s.sacl) /\ (s.dacl # Nil => ~IsNull(w))
      BY <2>2, <2>4, Writes
    <2>6. /\ FilterInherited(Entries(s.dacl)) = FilterInherited(Entries(d.dacl))
          /\ (s.dacl = Nil <=> d.dacl = Nil)
          /\ FilterInherited(Entries(s.sacl)) = FilterInherited(Entries(d.sacl))
      BY <2>2, CutFacts
    <2> HIDE DEF w
    <2>7. QED BY <2>2, <2>3, <2>5, <2>6 DEF w
  <1>3. QED BY <1>1, <1>2

LEMMA SameSD ==
  ASSUME NEW x \in ParsedSDs, NEW y \in ParsedSDs,
         x.control = y.control, x.owner = y.owner, x.group = y.group, x.sacl = y.sacl, x.dacl = y.dacl
  PROVE  x = y
  <1>1. x = [control |-> x.control, owner |-> x.owner, group |-> x.group, sacl |-> x.sacl, dacl |-> x.dacl]
    BY DEF ParsedSDs
  <1>2. y = [control |-> y.control, owner |-> y.owner, group |-> y.group, sacl |-> y.sacl, dacl |-> y.dacl]
    BY DEF ParsedSDs
  <1>3. QED BY <1>1, <1>2

\* Reinherit sees no difference between a descriptor and the same one stripped.
LEMMA StripThenReinherit ==
  ASSUME NEW p \in Descriptors, NEW c \in Descriptors, NEW container,
         StripSD(c, {"dacl"}) # Fail, ReinheritSD(p, c, container) # Fail
  PROVE  ReinheritSD(p, StripSD(c, {"dacl"})[1], container) = ReinheritSD(p, c, container)
  <1> DEFINE info == {"dacl"}
             w == StripSD(c, info)[1]
             d == ParseDescriptor(c)[1]
             s == Stripped(c, info)
             e == ParseDescriptor(w)[1]
  <1>1. ParseDescriptor(c) # Fail /\ StripSD(c, info) = Marshal(s) BY StripMakes
  <1>2. /\ s \in ParsedSDs /\ s.owner = c.owner /\ s.group = c.group /\ s.control = c.control
        /\ s.dacl = Cut("dacl", d.dacl, info) /\ s.sacl = Cut("sacl", d.sacl, info)
        /\ d.dacl \in Optional(Seq(Parsed))
    BY <1>1, StrippedType
  <1>3. d.control = c.control /\ d.owner = c.owner /\ d.group = c.group /\ d \in ParsedSDs
    BY <1>1, ParseDescriptorType
  <1>4. s.sacl = d.sacl /\ (s.dacl = Nil <=> d.dacl = Nil) BY <1>2, CutFacts DEF Cut
  <1>5. w = Marshal(s)[1] /\ Marshal(s) # Fail BY <1>1
  <1> HIDE DEF d, s, info
  <1>6. /\ w \in Descriptors /\ (\A b \in KeptControl : b \in w.control <=> b \in s.control)
        /\ "selfRelative" \in w.control /\ ParseDescriptor(w) # Fail
        /\ DaclOf(w) = Entries(s.dacl)
    BY <1>2, <1>5, Writes
  <1>7. e = [control |-> w.control, owner |-> s.owner, group |-> s.group, sacl |-> s.sacl, dacl |-> s.dacl]
    BY <1>2, <1>5, RoundTrip
  <1>8. FilterInherited(DaclOf(w)) = FilterInherited(DaclOf(c))
    BY <1>1, StripStep DEF info
  <1> HIDE DEF w
  <1>9. Merged(p, w, container) = Merged(p, c, container) BY <1>8 DEF Merged
  <1>10. w.control \cap KeptControl = c.control \cap KeptControl BY <1>2, <1>6
  <1>11. ParseDescriptor(p) # Fail /\ ReinheritSD(p, c, container) = Marshal(Rebuilt(p, c, container))
    BY ReinheritMakes
  <1> DEFINE x == Rebuilt(p, w, container)
             y == Rebuilt(p, c, container)
             m == Merged(p, c, container)
  <1>12. /\ x \in ParsedSDs /\ x.owner = w.owner /\ x.group = w.group /\ x.control = w.control \cap KeptControl
         /\ x.dacl = (IF e.dacl = Nil /\ m = <<>> THEN Nil ELSE <<m>>) /\ x.sacl = e.sacl
    BY <1>6, <1>9, <1>11, RebuiltType, RebuiltDacl
  <1>13. /\ y \in ParsedSDs /\ y.owner = c.owner /\ y.group = c.group /\ y.control = c.control \cap KeptControl
         /\ y.dacl = (IF d.dacl = Nil /\ m = <<>> THEN Nil ELSE <<m>>) /\ y.sacl = d.sacl
    BY <1>1, <1>11, RebuiltType, RebuiltDacl DEF d
  <1>14. w.owner = c.owner /\ w.group = c.group BY <1>1, StripStep DEF w, info
  <1> HIDE DEF e, m, x, y
  <1>15. x = y
    <2>1. e.sacl = d.sacl /\ (e.dacl = Nil <=> d.dacl = Nil) BY <1>4, <1>7
    <2>2. x.dacl = y.dacl BY <1>12, <1>13, <2>1
    <2>3. x.control = y.control /\ x.owner = y.owner /\ x.group = y.group /\ x.sacl = y.sacl
      BY <1>10, <1>12, <1>13, <1>14, <2>1
    <2>4. x \in ParsedSDs /\ y \in ParsedSDs BY <1>12, <1>13
    <2>5. QED BY <2>2, <2>3, <2>4, SameSD
  <1>16. ReinheritSD(p, w, container) = Marshal(Rebuilt(p, w, container))
    <2>1. /\ DaclOf(p) = Entries(ParseDescriptor(p)[1].dacl)
          /\ DaclOf(w) = Entries(ParseDescriptor(w)[1].dacl) BY <1>6, <1>11, Reads
    <2>2. QED BY <1>6, <1>11, <2>1, Zenon DEF ReinheritSD, Rebuilt, Merged
  <1>17. QED BY <1>11, <1>15, <1>16 DEF w, info, x, y

-----------------------------------------------------------------------------
(* The tree.                                                               *)

LEMMA ParentFacts ==
  ASSUME NEW n \in Nodes, n # Root
  PROVE  /\ Parent[n] \in Nodes /\ Parent[n] \in Containers /\ Parent[n] # n
         /\ Depth[Parent[n]] \in Nat /\ Depth[n] = Depth[Parent[n]] + 1
  <1>1. Parent[n] \in Containers /\ Parent[n] \in Nodes BY TreeAssumption
  <1>2. Depth[n] \in Nat /\ Depth[Parent[n]] \in Nat /\ Depth[n] = Depth[Parent[n]] + 1 BY <1>1, TreeAssumption
  <1>3. QED BY <1>1, <1>2

\* A descriptor is stored, and the nodes it leaves behind are no longer clean.
LEMMA Stored ==
  ASSUME TypeOK, OneGeneration, NEW n \in Nodes, NEW w \in Descriptors, Store(n, w),
         clean' \subseteq (clean \ Behind(n, w)) \cup {n},
         n \in clean' => /\ n # Root
                         /\ DaclOf(w) = FilterInherited(DaclOf(w))
                                        \o ComputeInheritedACEs(DaclOf(sd[Parent[n]]), n \in Containers)
  PROVE  /\ sd' \in [Nodes -> Descriptors] /\ clean' \subseteq Nodes \ {Root}
         /\ OneGeneration'
  <1>1. sd \in [Nodes -> Descriptors] /\ clean \subseteq Nodes \ {Root} BY DEF TypeOK
  <1>2. /\ sd' \in [Nodes -> Descriptors] /\ sd'[n] = w /\ \A m \in Nodes : m # n => sd'[m] = sd[m]
    BY <1>1 DEF Store
  <1>3. clean' \subseteq Nodes \ {Root} BY <1>1
  <1> DEFINE Good(d, p, m) == DaclOf(d) = FilterInherited(DaclOf(d)) \o ComputeInheritedACEs(DaclOf(p), m \in Containers)
  <1>4. \A m \in clean : Good(sd[m], sd[Parent[m]], m) BY Zenon DEF OneGeneration
  <1>5. n \in clean' => Good(w, sd[Parent[n]], n) BY Zenon
  <1>6. \A d, p, q, m : DaclOf(p) = DaclOf(q) => (Good(d, p, m) <=> Good(d, q, m)) OBVIOUS
  <1> HIDE DEF Good
  <1>7. ASSUME NEW m \in clean' PROVE Good(sd'[m], sd'[Parent[m]], m)
    <2>1. m \in Nodes /\ m # Root BY <1>3
    <2>2. Parent[m] \in Nodes /\ Parent[m] # m BY <2>1, ParentFacts
    <2>3. CASE m = n
      <3>1. sd'[m] = w /\ sd'[Parent[m]] = sd[Parent[m]] BY <1>2, <2>2, <2>3
      <3>2. QED BY <1>5, <1>7, <2>3, <3>1
    <2>4. CASE m # n
      <3>1. m \in clean /\ m \notin Behind(n, w) BY <2>4
      <3>2. sd'[m] = sd[m] BY <1>2, <2>1, <2>4
      <3>3. DaclOf(sd'[Parent[m]]) = DaclOf(sd[Parent[m]])
        <4>1. CASE Parent[m] = n
          <5>1. m \in Children(n) BY <2>1, <4>1 DEF Children
          <5>2. DaclOf(w) = DaclOf(sd[n]) BY <3>1, <5>1 DEF Behind
          <5>3. QED BY <1>2, <4>1, <5>2
        <4>2. CASE Parent[m] # n BY <1>2, <2>2, <4>2
        <4>3. QED BY <4>1, <4>2
      <3>4. Good(sd[m], sd[Parent[m]], m) BY <1>4, <3>1
      <3>5. QED BY <1>6, <3>2, <3>3, <3>4
    <2>5. QED BY <2>3, <2>4
  <1>8. OneGeneration' BY <1>7, Zenon DEF OneGeneration, Good
  <1>9. QED BY <1>2, <1>3, <1>8

LEMMA Start == Init => IInv
  <1> SUFFICES ASSUME Init PROVE IInv OBVIOUS
  <1> DEFINE d == [control |-> {"selfRelative"}, owner |-> "o", group |-> "g", sacl |-> Nil, dacl |-> Nil]
  <1>1. Nil \in Optional(ACLs) BY OptionalMakes
  <1>2. d \in Descriptors BY <1>1, BytesAssumption DEF Descriptors, Bits
  <1>3. sd \in [Nodes -> {d}] /\ clean = {} /\ sets = 0 BY DEF Init
  <1> HIDE DEF d
  <1>4. TypeOK BY <1>2, <1>3, BoundAssumption DEF TypeOK
  <1>5. OneGeneration BY <1>3 DEF OneGeneration
  <1>6. QED BY <1>4, <1>5 DEF IInv

LEMMA Step == IInv /\ [Next]_vars => IInv'
  <1> SUFFICES ASSUME IInv, [Next]_vars PROVE IInv' OBVIOUS
  <1>1. TypeOK /\ OneGeneration BY DEF IInv
  <1>2. sd \in [Nodes -> Descriptors] /\ clean \subseteq Nodes \ {Root} /\ sets \in 0 .. MaxSets BY <1>1 DEF TypeOK
  <1>3. ASSUME NEW n \in Nodes, NEW w \in Inputs, Set(n, w) PROVE IInv'
    <2>1. w \in Descriptors BY InputAssumption
    <2>2. Store(n, w) /\ clean' = clean \ ({n} \cup Behind(n, w)) /\ sets < MaxSets /\ sets' = sets + 1
      BY <1>3 DEF Set
    <2>3. clean' \subseteq (clean \ Behind(n, w)) \cup {n} /\ n \notin clean' BY <2>2
    <2>4. sd' \in [Nodes -> Descriptors] /\ clean' \subseteq Nodes \ {Root} /\ OneGeneration'
      BY <1>1, <2>1, <2>2, <2>3, Stored
    <2>5. sets' \in 0 .. MaxSets BY <1>2, <2>2, BoundAssumption
    <2>6. QED BY <2>4, <2>5 DEF IInv, TypeOK
  <1>4. ASSUME NEW n \in Nodes, n # Root, Reinherit(n) PROVE IInv'
    <2> DEFINE p == sd[Parent[n]]
               r == ReinheritSD(p, sd[n], n \in Containers)
    <2>1. r # Fail /\ Store(n, r[1]) /\ clean' = (clean \ Behind(n, r[1])) \cup {n} /\ sets' = sets
      BY <1>4 DEF Reinherit
    <2>2. p \in Descriptors /\ sd[n] \in Descriptors BY <1>2, <1>4, ParentFacts
    <2> HIDE DEF p
    <2>3. /\ r[1] \in Descriptors /\ DaclOf(r[1]) = Merged(p, sd[n], n \in Containers)
          /\ FilterInherited(DaclOf(r[1])) = FilterInherited(DaclOf(sd[n]))
      BY <2>1, <2>2, ReinheritStep
    <2>4. DaclOf(r[1]) = FilterInherited(DaclOf(r[1])) \o ComputeInheritedACEs(DaclOf(p), n \in Containers)
      BY <2>3, Zenon DEF Merged
    <2> HIDE DEF r
    <2>5. sd' \in [Nodes -> Descriptors] /\ clean' \subseteq Nodes \ {Root} /\ OneGeneration'
      BY <1>1, <1>4, <2>1, <2>3, <2>4, Stored DEF p
    <2>6. QED BY <1>2, <2>1, <2>5 DEF IInv, TypeOK
  <1>5. ASSUME NEW n \in Nodes, NEW info \in SUBSET {"dacl", "sacl"}, Strip(n, info) PROVE IInv'
    <2> DEFINE r == StripSD(sd[n], info)
    <2>1. /\ r # Fail /\ Store(n, r[1]) /\ sets' = sets
          /\ clean' = clean \ (Behind(n, r[1]) \cup (IF r[1] = sd[n] THEN {} ELSE {n}))
      BY <1>5 DEF Strip
    <2>2. sd[n] \in Descriptors BY <1>2
    <2>3. r[1] \in Descriptors BY <2>1, <2>2, StripStep
    <2> HIDE DEF r
    <2>4. clean' \subseteq (clean \ Behind(n, r[1])) \cup {n} BY <2>1
    <2>5. n \in clean' => n \in clean /\ n # Root /\ r[1] = sd[n] BY <1>2, <2>1
    <2>6. n \in clean' => DaclOf(r[1]) = FilterInherited(DaclOf(r[1]))
                                         \o ComputeInheritedACEs(DaclOf(sd[Parent[n]]), n \in Containers)
      BY <1>1, <2>5, Zenon DEF OneGeneration
    <2>7. sd' \in [Nodes -> Descriptors] /\ clean' \subseteq Nodes \ {Root} /\ OneGeneration'
      BY <1>1, <2>1, <2>3, <2>4, <2>5, <2>6, Stored
    <2>8. QED BY <1>2, <2>1, <2>7 DEF IInv, TypeOK
  <1>6. CASE UNCHANGED vars
    <2>1. sd' = sd /\ clean' = clean /\ sets' = sets BY <1>6 DEF vars
    <2>2. QED BY <1>1, <2>1 DEF IInv, TypeOK, OneGeneration
  <1>7. QED BY <1>3, <1>4, <1>5, <1>6 DEF Next

\* Every descriptor in the tree is well formed, its ACLs within the size field,
\* and a node re-inherited since its last change holds its explicit ACEs
\* followed by what its parent's DACL passes to it.
THEOREM Invariance == Spec => []IInv
  BY Start, Step, PTL DEF Spec

LEMMA Forgotten == IInv => StripForgotten
  <1> SUFFICES ASSUME IInv, NEW n \in Nodes \ {Root}
      PROVE  LET s == StripSD(sd[n], {"dacl"})
                 direct == ReinheritSD(sd[Parent[n]], sd[n], n \in Containers) IN
             s # Fail /\ direct # Fail => ReinheritSD(sd[Parent[n]], s[1], n \in Containers) = direct
    BY Zenon DEF StripForgotten
  <1>1. sd[n] \in Descriptors /\ sd[Parent[n]] \in Descriptors BY ParentFacts DEF IInv, TypeOK
  <1>2. QED BY <1>1, StripThenReinherit

\* An administrator may strip the inherited ACEs and re-inherit: the descriptor
\* is the one Reinherit alone makes.
THEOREM StrippingIsForgotten == Spec => []StripForgotten
  BY Invariance, Forgotten, PTL

\* What one step other than Set does to a node.
LEMMA Preserved ==
  ASSUME IInv, [Next]_vars, sets' = sets, NEW n \in Nodes
  PROVE  \/ sd'[n] = sd[n]
         \/ /\ sd'[n].owner = sd[n].owner /\ sd'[n].group = sd[n].group
            /\ \A b \in KeptControl : b \in sd'[n].control <=> b \in sd[n].control
            /\ FilterInherited(DaclOf(sd'[n])) = FilterInherited(DaclOf(sd[n]))
            /\ FilterInherited(SaclOf(sd'[n])) = FilterInherited(SaclOf(sd[n]))
            /\ ~IsNull(sd[n]) => ~IsNull(sd'[n])
  <1> DEFINE Same(c, w) == /\ w.owner = c.owner /\ w.group = c.group
                           /\ \A b \in KeptControl : b \in w.control <=> b \in c.control
                           /\ FilterInherited(DaclOf(w)) = FilterInherited(DaclOf(c))
                           /\ FilterInherited(SaclOf(w)) = FilterInherited(SaclOf(c))
                           /\ ~IsNull(c) => ~IsNull(w)
  <1>1. sd \in [Nodes -> Descriptors] /\ sets \in 0 .. MaxSets BY DEF IInv, TypeOK
  <1>2. ASSUME NEW m \in Nodes, NEW w, Store(m, w), Same(sd[m], w) PROVE sd'[n] = sd[n] \/ Same(sd[n], sd'[n])
    <2> HIDE DEF Same
    <2>1. IF n = m THEN sd'[n] = w ELSE sd'[n] = sd[n] BY <1>1, <1>2 DEF Store
    <2>2. QED BY <1>2, <2>1
  <1>3. ASSUME NEW m \in Nodes, NEW w \in Inputs, Set(m, w) PROVE FALSE
    BY <1>1, <1>3, BoundAssumption DEF Set
  <1>4. ASSUME NEW m \in Nodes, m # Root, Reinherit(m) PROVE sd'[n] = sd[n] \/ Same(sd[n], sd'[n])
    <2> DEFINE r == ReinheritSD(sd[Parent[m]], sd[m], m \in Containers)
    <2>1. r # Fail /\ Store(m, r[1]) BY <1>4 DEF Reinherit
    <2>2. sd[Parent[m]] \in Descriptors /\ sd[m] \in Descriptors BY <1>1, <1>4, ParentFacts
    <2>3. Same(sd[m], r[1]) BY <2>1, <2>2, ReinheritStep
    <2> HIDE DEF r, Same
    <2>4. QED BY <1>2, <2>1, <2>3
  <1>5. ASSUME NEW m \in Nodes, NEW info \in SUBSET {"dacl", "sacl"}, Strip(m, info)
        PROVE  sd'[n] = sd[n] \/ Same(sd[n], sd'[n])
    <2> DEFINE r == StripSD(sd[m], info)
    <2>1. r # Fail /\ Store(m, r[1]) BY <1>5 DEF Strip
    <2>2. sd[m] \in Descriptors BY <1>1
    <2>3. Same(sd[m], r[1]) BY <2>1, <2>2, StripStep
    <2> HIDE DEF r, Same
    <2>4. QED BY <1>2, <2>1, <2>3
  <1>6. UNCHANGED vars => sd'[n] = sd[n] BY DEF vars
  <1>7. sd'[n] = sd[n] \/ Same(sd[n], sd'[n])
    <2> HIDE DEF Same
    <2>1. CASE Next
      <3>1. PICK m \in Nodes : \/ \E w \in Inputs : Set(m, w)
                               \/ m # Root /\ Reinherit(m)
                               \/ \E info \in SUBSET {"dacl", "sacl"} : Strip(m, info)
        BY <2>1 DEF Next
      <3>2. QED BY <1>3, <1>4, <1>5, <3>1
    <2>2. QED BY <1>6, <2>1
  <1>8. QED BY <1>7

\* Re-inheriting and stripping never replace a DACL by a NULL DACL.
THEOREM NeverOpened == Spec => NeverOpensUp
  <1>1. IInv /\ [Next]_vars => [sets' = sets => \A n \in Nodes : ~IsNull(sd[n]) => ~IsNull(sd'[n])]_vars
    BY Preserved
  <1>2. QED BY <1>1, Invariance, PTL DEF Spec, NeverOpensUp

\* They keep explicit ACEs, in their order, the owner, the group and the
\* protected and auto-inherited bits.
THEOREM ExplicitKept == Spec => OnlyInheritedChange
  <1> DEFINE A == sets' = sets => \A n \in Nodes : sd'[n] # sd[n] =>
                    /\ sd'[n].owner = sd[n].owner /\ sd'[n].group = sd[n].group
                    /\ \A b \in {"daclAutoInherited", "daclProtected", "saclAutoInherited", "saclProtected"} :
                         b \in sd'[n].control <=> b \in sd[n].control
                    /\ FilterInherited(DaclOf(sd'[n])) = FilterInherited(DaclOf(sd[n]))
                    /\ FilterInherited(SaclOf(sd'[n])) = FilterInherited(SaclOf(sd[n]))
  <1>1. IInv /\ [Next]_vars => [A]_vars BY Preserved, Zenon DEF KeptControl
  <1>2. QED BY <1>1, Invariance, PTL DEF Spec, OnlyInheritedChange

-----------------------------------------------------------------------------
(* Any number of generations.                                              *)

\* What a rule makes of the flags of an ACE: other flags, or nothing.
Rules == [SUBSET Flags -> Optional(SUBSET Flags)]

Renamed(e, F) == [e EXCEPT !.flags = F[e.flags][1]]

Through(es, F) ==
    LET kept == Kept(es, {i \in DOMAIN es : F[es[i].flags] # Fail})
    IN  [i \in DOMAIN kept |-> Renamed(kept[i], F)]

LEMMA RenamedType ==
  ASSUME NEW F \in Rules, NEW e \in Parsed, F[e.flags] # Fail
  PROVE  /\ Renamed(e, F) \in Parsed
         /\ Renamed(e, F).flags = F[e.flags][1]
         /\ \A f : [Renamed(e, F) EXCEPT !.flags = f] = [e EXCEPT !.flags = f]
  <1> DEFINE x == F[e.flags]
  <1>1. e.flags \in SUBSET Flags BY DEF Parsed
  <1>2. x \in Optional(SUBSET Flags) /\ x # Nil BY <1>1 DEF Rules, Fail, Nil
  <1>3. x[1] \in SUBSET Flags BY <1>2, OptionalFacts
  <1>4. Renamed(e, F) = [e EXCEPT !.flags = x[1]] BY DEF Renamed
  <1> HIDE DEF x
  <1>5. QED BY <1>3, <1>4 DEF Parsed, x

LEMMA ThroughType ==
  ASSUME NEW F \in Rules, NEW es \in Seq(Parsed)
  PROVE  Through(es, F) \in Seq(Parsed)
  <1> DEFINE keep == {i \in DOMAIN es : F[es[i].flags] # Fail}
             kept == Kept(es, keep)
             r == [i \in DOMAIN kept |-> Renamed(kept[i], F)]
  <1>1. Through(es, F) = r BY DEF Through
  <1>2. \A k \in keep : F[es[k].flags] # Fail OBVIOUS
  <1> HIDE DEF keep
  <1>3. kept \in Seq(Parsed) BY KeptType
  <1>4. \A j \in 1 .. Len(kept) : \E k \in 1 .. Len(es) : k \in keep /\ kept[j] = es[k] BY KeptFrom
  <1> HIDE DEF kept
  <1>5. ASSUME NEW j \in 1 .. Len(kept) PROVE Renamed(kept[j], F) \in Parsed
    <2>1. kept[j] \in Parsed /\ F[kept[j].flags] # Fail BY <1>2, <1>3, <1>4
    <2>2. QED BY <2>1, RenamedType
  <1>6. DOMAIN kept = 1 .. Len(kept) /\ Len(kept) \in Nat BY <1>3
  <1>7. r \in [1 .. Len(kept) -> Parsed] BY <1>5, <1>6
  <1>8. QED BY <1>1, <1>6, <1>7

LEMMA ThroughEmpty ==
  ASSUME NEW F
  PROVE  Through(<<>>, F) = <<>>
  <1> DEFINE keep == {i \in DOMAIN <<>> : F[<<>>[i].flags] # Fail}
  <1>1. <<>> \in Seq(Parsed) /\ \A i \in 1 .. Len(<<>>) : i \notin keep OBVIOUS
  <1>2. Through(<<>>, F) = [i \in DOMAIN Kept(<<>>, keep) |-> Renamed(Kept(<<>>, keep)[i], F)] BY DEF Through
  <1> HIDE DEF keep
  <1>3. Kept(<<>>, keep) = <<>> BY <1>1, KeptNone
  <1>4. QED BY <1>2, <1>3

LEMMA ThroughAppend ==
  ASSUME NEW F \in Rules, NEW es \in Seq(Parsed), NEW e \in Parsed
  PROVE  /\ F[e.flags] # Fail => Through(Append(es, e), F) = Append(Through(es, F), Renamed(e, F))
         /\ F[e.flags] = Fail => Through(Append(es, e), F) = Through(es, F)
  <1> DEFINE c == Append(es, e)
             keep == {i \in DOMAIN c : F[c[i].flags] # Fail}
             ks == {i \in DOMAIN es : F[es[i].flags] # Fail}
             q == Kept(es, ks)
             new(x) == Renamed(x, F)
             mapped(s) == [i \in DOMAIN s |-> new(s[i])]
  <1>1. /\ Len(es) \in Nat /\ DOMAIN c = 1 .. Len(es) + 1 /\ DOMAIN es = 1 .. Len(es) /\ c[Len(es) + 1] = e
        /\ \A i \in 1 .. Len(es) : c[i] = es[i]
    OBVIOUS
  <1>2. Through(c, F) = mapped(Kept(c, keep)) /\ Through(es, F) = mapped(q) BY DEF Through
  <1>3. (\A i \in 1 .. Len(es) : i \in keep <=> i \in ks) /\ (Len(es) + 1 \in keep <=> F[e.flags] # Fail)
    <2> HIDE DEF c
    <2>1. QED BY <1>1
  <1>4. q \in Seq(Parsed) BY KeptType
  <1> HIDE DEF keep, ks
  <1>5. Kept(c, keep) = IF Len(es) + 1 \in keep THEN Append(q, e) ELSE q BY <1>3, KeptAppend
  <1> HIDE DEF c, q, new
  <1>6. CASE F[e.flags] # Fail
    <2> DEFINE x == mapped(Append(q, e))
    <2>1. Kept(c, keep) = Append(q, e) BY <1>3, <1>5, <1>6
    <2>2. mapped(q) \in Seq(Parsed) BY <1>2, ThroughType
    <2>3. new(e) \in Parsed BY <1>6, RenamedType DEF new
    <2>4. Len(q) \in Nat /\ DOMAIN q = 1 .. Len(q) /\ Len(mapped(q)) = Len(q) BY <1>4, <2>2
    <2>5. DOMAIN Append(q, e) = 1 .. Len(q) + 1 BY <1>4, <2>4
    <2>6. /\ Append(mapped(q), new(e)) \in Seq(Parsed) /\ Len(Append(mapped(q), new(e))) = Len(q) + 1
          /\ DOMAIN Append(mapped(q), new(e)) = 1 .. Len(q) + 1
      BY <2>2, <2>3, <2>4
    <2>7. ASSUME NEW i \in 1 .. Len(q) + 1 PROVE x[i] = Append(mapped(q), new(e))[i]
      <3>1. CASE i = Len(q) + 1
        <4>1. Append(q, e)[i] = e BY <1>4, <2>4, <3>1
        <4>2. Append(mapped(q), new(e))[i] = new(e) BY <2>2, <2>3, <2>4, <3>1
        <4>3. QED BY <2>5, <4>1, <4>2
      <3>2. CASE i \in 1 .. Len(q)
        <4>1. Append(q, e)[i] = q[i] BY <1>4, <2>4, <3>2
        <4>2. Append(mapped(q), new(e))[i] = mapped(q)[i]
          <5> DEFINE y == mapped(q)
          <5>1. y \in Seq(Parsed) /\ Len(y) = Len(q) BY <2>2, <2>4
          <5> HIDE DEF y
          <5>2. Append(y, new(e))[i] = y[i] BY <2>3, <2>4, <3>2, <5>1
          <5>3. QED BY <5>2 DEF y
        <4>3. mapped(q)[i] = new(q[i]) BY <2>4, <3>2
        <4>4. QED BY <2>5, <4>1, <4>2, <4>3
      <3>3. QED BY <2>4, <3>1, <3>2
    <2>8. DOMAIN x = 1 .. Len(q) + 1 /\ x = [i \in 1 .. Len(q) + 1 |-> x[i]] BY <2>5
    <2>9. Append(mapped(q), new(e)) = [i \in 1 .. Len(q) + 1 |-> Append(mapped(q), new(e))[i]]
      <3> DEFINE y == Append(mapped(q), new(e))
      <3>1. y \in Seq(Parsed) /\ DOMAIN y = 1 .. Len(q) + 1 BY <2>6
      <3> HIDE DEF y
      <3>2. y = [i \in 1 .. Len(q) + 1 |-> y[i]] BY <3>1
      <3>3. QED BY <3>2 DEF y
    <2> HIDE DEF x
    <2>10. x = Append(mapped(q), new(e)) BY <2>7, <2>8, <2>9
    <2>11. QED BY <1>2, <1>6, <2>1, <2>10 DEF x, c, new
  <1>7. CASE F[e.flags] = Fail
    <2>1. Kept(c, keep) = q BY <1>3, <1>5, <1>7
    <2>2. QED BY <1>2, <1>7, <2>1 DEF c
  <1>8. QED BY <1>6, <1>7

\* A sequence grows by one entry at a time.
LEMMA Prefix ==
  ASSUME NEW S, NEW es \in Seq(S)
  PROVE  /\ SubSeq(es, 1, 0) = <<>> /\ SubSeq(es, 1, Len(es)) = es
         /\ \A i \in 0 .. Len(es) - 1 : /\ SubSeq(es, 1, i) \in Seq(S) /\ es[i + 1] \in S
                                        /\ SubSeq(es, 1, i + 1) = Append(SubSeq(es, 1, i), es[i + 1])
  <1>1. Len(es) \in Nat /\ SubSeq(es, 1, 0) = <<>> /\ SubSeq(es, 1, Len(es)) = es OBVIOUS
  <1>2. ASSUME NEW i \in 0 .. Len(es) - 1
        PROVE  /\ SubSeq(es, 1, i) \in Seq(S) /\ es[i + 1] \in S
               /\ SubSeq(es, 1, i + 1) = Append(SubSeq(es, 1, i), es[i + 1])
    <2> DEFINE x == SubSeq(es, 1, i)
               y == SubSeq(es, 1, i + 1)
               e == es[i + 1]
    <2>1. i \in Nat /\ i + 1 \in 1 .. Len(es) /\ e \in S BY <1>1
    <2>2. x \in Seq(S) /\ Len(x) = i /\ \A j \in 1 .. i : x[j] = es[j] BY <1>1, <2>1, SubSeqProperties
    <2>3. y \in Seq(S) /\ Len(y) = i + 1 /\ \A j \in 1 .. i + 1 : y[j] = es[j] BY <1>1, <2>1, SubSeqProperties
    <2>4. y[i + 1] = e BY <2>1, <2>3
    <2> HIDE DEF x, y, e
    <2>5. Append(x, e) \in Seq(S) /\ Len(Append(x, e)) = i + 1 BY <2>1, <2>2
    <2>6. ASSUME NEW j \in 1 .. i + 1 PROVE y[j] = Append(x, e)[j]
      <3>1. CASE j = i + 1 BY <2>1, <2>2, <2>4, <3>1
      <3>2. CASE j \in 1 .. i BY <2>1, <2>2, <2>3, <3>2
      <3>3. j = i + 1 \/ j \in 1 .. i BY <2>1
      <3>4. QED BY <3>1, <3>2, <3>3, Zenon
    <2>7. y = Append(x, e) BY <2>3, <2>5, <2>6, SeqEqual
    <2>8. QED BY <2>1, <2>2, <2>7 DEF x, y, e
  <1>3. QED BY <1>1, <1>2

\* What an Append to the second of two sequences is to both.
LEMMA AppendConcat ==
  ASSUME NEW x \in Seq(Parsed), NEW y \in Seq(Parsed), NEW e \in Parsed
  PROVE  Append(x \o y, e) = x \o Append(y, e)
  <1>1. x \o y \in Seq(Parsed) /\ Append(y, e) \in Seq(Parsed) OBVIOUS
  <1>2. Append(x \o y, e) \in Seq(Parsed) /\ x \o Append(y, e) \in Seq(Parsed) BY <1>1
  <1>3. /\ Len(Append(x \o y, e)) = Len(x) + Len(y) + 1
        /\ Len(x \o Append(y, e)) = Len(x) + Len(y) + 1 BY <1>1
  <1>4. ASSUME NEW j \in 1 .. Len(x) + Len(y) + 1
        PROVE  Append(x \o y, e)[j] = (x \o Append(y, e))[j]
    <2>1. Len(x) \in Nat /\ Len(y) \in Nat /\ Len(x \o y) = Len(x) + Len(y) /\ Len(Append(y, e)) = Len(y) + 1
      OBVIOUS
    <2>2. CASE j \in 1 .. Len(x) BY <1>1, <2>1, <2>2
    <2>3. CASE j \in Len(x) + 1 .. Len(x) + Len(y) BY <1>1, <2>1, <2>3
    <2>4. CASE j = Len(x) + Len(y) + 1 BY <1>1, <2>1, <2>4
    <2>5. QED BY <2>1, <2>2, <2>3, <2>4
  <1>5. QED BY <1>2, <1>3, <1>4, SeqEqual

LEMMA ThroughConcat ==
  ASSUME NEW F \in Rules, NEW a \in Seq(Parsed), NEW b \in Seq(Parsed)
  PROVE  Through(a \o b, F) = Through(a, F) \o Through(b, F)
  <1> DEFINE pre(i) == SubSeq(b, 1, i)
             V(i) == Through(a \o pre(i), F) = Through(a, F) \o Through(pre(i), F)
             T == {i \in 0 .. Len(b) : V(i)}
  <1>1. Len(b) \in Nat OBVIOUS
  <1>2. /\ pre(0) = <<>> /\ pre(Len(b)) = b
        /\ \A i \in 0 .. Len(b) - 1 : pre(i) \in Seq(Parsed) /\ b[i + 1] \in Parsed /\ pre(i + 1) = Append(pre(i), b[i + 1])
    BY Prefix
  <1> HIDE DEF pre
  <1>3. Through(a, F) \in Seq(Parsed) BY ThroughType
  <1>4. V(0)
    <2>1. Through(pre(0), F) = <<>> BY <1>2, ThroughEmpty
    <2>2. a \o pre(0) = a BY <1>2
    <2>3. Through(a, F) \o <<>> = Through(a, F) BY <1>3
    <2>4. QED BY <2>1, <2>2, <2>3, Zenon
  <1>5. ASSUME NEW i \in 0 .. Len(b) - 1, V(i) PROVE V(i + 1)
    <2> DEFINE x == pre(i)
               e == b[i + 1]
               A == Through(a, F)
               X == Through(x, F)
               AX == Through(a \o x, F)
    <2>1. x \in Seq(Parsed) /\ e \in Parsed /\ pre(i + 1) = Append(x, e) BY <1>2
    <2>2. AX = A \o X BY <1>5, Zenon
    <2>3. a \o x \in Seq(Parsed) BY <2>1
    <2>4. X \in Seq(Parsed) BY <2>1, ThroughType
    <2>5. a \o Append(x, e) = Append(a \o x, e) BY <2>1, AppendConcat
    <2>6. Through(a \o pre(i + 1), F) = Through(Append(a \o x, e), F) BY <2>1, <2>5, Zenon
    <2>7. CASE F[e.flags] # Fail
      <3>1. Through(Append(x, e), F) = Append(X, Renamed(e, F)) BY <2>1, <2>7, ThroughAppend
      <3>2. Through(Append(a \o x, e), F) = Append(AX, Renamed(e, F)) BY <2>1, <2>3, <2>7, ThroughAppend
      <3>3. Renamed(e, F) \in Parsed BY <2>1, <2>7, RenamedType
      <3> HIDE DEF x, e, A, X, AX
      <3>4. A \in Seq(Parsed) BY <1>3 DEF A
      <3>5. Append(A \o X, Renamed(e, F)) = A \o Append(X, Renamed(e, F)) BY <2>4, <3>3, <3>4, AppendConcat, Zenon
      <3>6. QED BY <2>1, <2>2, <2>6, <3>1, <3>2, <3>5, Zenon DEF A
    <2>8. CASE F[e.flags] = Fail
      <3>1. Through(Append(x, e), F) = X BY <2>1, <2>8, ThroughAppend
      <3>2. Through(Append(a \o x, e), F) = AX BY <2>1, <2>3, <2>8, ThroughAppend
      <3> HIDE DEF x, e, A, X, AX
      <3>3. QED BY <2>1, <2>2, <2>6, <3>1, <3>2, Zenon DEF A
    <2>9. QED BY <2>7, <2>8
  <1> HIDE DEF V
  <1>6. 0 \in T BY <1>1, <1>4
  <1>7. ASSUME NEW i \in 0 .. Len(b) - 1, i \in T PROVE i + 1 \in T
    <2>1. V(i) /\ i + 1 \in 0 .. Len(b) BY <1>1, <1>7
    <2>2. V(i + 1) BY <1>5, <2>1
    <2>3. QED BY <2>1, <2>2
  <1> HIDE DEF T
  <1>8. \A i \in 0 .. Len(b) : i \in T BY <1>1, <1>6, <1>7, Induction
  <1>9. V(Len(b)) BY <1>1, <1>8 DEF T
  <1>10. QED BY <1>2, <1>9, Zenon DEF V

\* One rule after another is one rule.
LEMMA ThroughTwice ==
  ASSUME NEW F \in Rules, NEW G \in Rules, NEW H \in Rules, NEW es \in Seq(Parsed),
         \A f \in SUBSET Flags : H[f] = IF F[f] = Fail THEN Fail ELSE G[F[f][1]]
  PROVE  Through(Through(es, F), G) = Through(es, H)
  <1> DEFINE pre(i) == SubSeq(es, 1, i)
             V(i) == Through(Through(pre(i), F), G) = Through(pre(i), H)
             T == {i \in 0 .. Len(es) : V(i)}
  <1>1. Len(es) \in Nat OBVIOUS
  <1>2. /\ pre(0) = <<>> /\ pre(Len(es)) = es
        /\ \A i \in 0 .. Len(es) - 1 : pre(i) \in Seq(Parsed) /\ es[i + 1] \in Parsed /\ pre(i + 1) = Append(pre(i), es[i + 1])
    BY Prefix
  <1> HIDE DEF pre
  <1>3. V(0) BY <1>2, ThroughEmpty, Zenon
  <1>4. ASSUME NEW i \in 0 .. Len(es) - 1, V(i) PROVE V(i + 1)
    <2> DEFINE x == pre(i)
               e == es[i + 1]
               X == Through(x, F)
    <2>1. x \in Seq(Parsed) /\ e \in Parsed /\ pre(i + 1) = Append(x, e) BY <1>2
    <2>2. Through(X, G) = Through(x, H) BY <1>4
    <2>3. X \in Seq(Parsed) BY <2>1, ThroughType
    <2>4. e.flags \in SUBSET Flags BY <2>1 DEF Parsed
    <2>5. CASE F[e.flags] = Fail
      <3>1. H[e.flags] = Fail BY <2>4, <2>5
      <3>2. Through(Append(x, e), F) = X BY <2>1, <2>5, ThroughAppend
      <3>3. Through(Append(x, e), H) = Through(x, H) BY <2>1, <3>1, ThroughAppend
      <3>4. QED BY <2>1, <2>2, <3>2, <3>3
    <2>6. CASE F[e.flags] # Fail
      <3> DEFINE y == Renamed(e, F)
      <3>1. Through(Append(x, e), F) = Append(X, y) BY <2>1, <2>6, ThroughAppend
      <3>2. y \in Parsed /\ y.flags = F[e.flags][1] /\ \A f : [y EXCEPT !.flags = f] = [e EXCEPT !.flags = f]
        BY <2>1, <2>6, RenamedType
      <3>3. H[e.flags] = G[y.flags] BY <2>4, <2>6, <3>2
      <3>4. Renamed(y, G) = Renamed(e, H) BY <3>2, <3>3 DEF Renamed
      <3> HIDE DEF y, x, e, X
      <3>5. CASE G[y.flags] = Fail
        <4>1. Through(Append(X, y), G) = Through(X, G) BY <2>3, <3>2, <3>5, ThroughAppend
        <4>2. Through(Append(x, e), H) = Through(x, H) BY <2>1, <3>3, <3>5, ThroughAppend
        <4>3. QED BY <2>1, <2>2, <3>1, <4>1, <4>2
      <3>6. CASE G[y.flags] # Fail
        <4>1. Through(Append(X, y), G) = Append(Through(X, G), Renamed(y, G)) BY <2>3, <3>2, <3>6, ThroughAppend
        <4>2. Through(Append(x, e), H) = Append(Through(x, H), Renamed(e, H)) BY <2>1, <3>3, <3>6, ThroughAppend
        <4>3. QED BY <2>1, <2>2, <3>1, <3>4, <4>1, <4>2
      <3>7. QED BY <3>5, <3>6
    <2>7. QED BY <2>5, <2>6
  <1> HIDE DEF V
  <1>5. 0 \in T BY <1>1, <1>3
  <1>6. ASSUME NEW i \in 0 .. Len(es) - 1, i \in T PROVE i + 1 \in T
    <2>1. V(i) /\ i + 1 \in 0 .. Len(es) BY <1>1, <1>6
    <2>2. V(i + 1) BY <1>4, <2>1
    <2>3. QED BY <2>1, <2>2
  <1> HIDE DEF T
  <1>7. \A i \in 0 .. Len(es) : i \in T BY <1>1, <1>5, <1>6, Induction
  <1>8. V(Len(es)) BY <1>1, <1>7 DEF T
  <1>9. QED BY <1>2, <1>8, Zenon DEF V

\* The rules of one generation, and of d of them.
Child(container) == [f \in SUBSET Flags |-> InheritFlags(f, container)]
Down(d, container) == [f \in SUBSET Flags |-> Generations(f, d, container)]

LEMMA RulesAre ==
  ASSUME NEW d, NEW container
  PROVE  Child(container) \in Rules /\ Down(d, container) \in Rules
  <1>1. ASSUME NEW f \in SUBSET Flags PROVE InheritFlags(f, container) \in Optional(SUBSET Flags)
    <2>1. \/ InheritFlags(f, container) = Nil
          \/ \E g \in SUBSET Flags : InheritFlags(f, container) = <<g>>
      BY DEF InheritFlags, Flags, AllInheritFlags, Ok, Fail, Nil
    <2>2. QED BY <2>1, OptionalMakes
  <1>2. ASSUME NEW f \in SUBSET Flags PROVE Generations(f, d, container) \in Optional(SUBSET Flags)
    <2>1. \/ Generations(f, d, container) = Nil
          \/ \E g \in SUBSET Flags : Generations(f, d, container) = <<g>>
      BY DEF Generations, Flags, AllInheritFlags, Ok, Fail, Nil
    <2>2. QED BY <2>1, OptionalMakes
  <1>3. QED BY <1>1, <1>2 DEF Rules, Child, Down

\* Distance one is InheritFlags, and InheritFlags takes what has come d
\* generations down, to a container, one further.
LEMMA FirstGeneration ==
  ASSUME NEW f \in SUBSET Flags, NEW container
  PROVE  InheritFlags(f, container) = Generations(f, 1, container)
  BY DEF InheritFlags, Generations, Flags, AllInheritFlags, Ok, Fail

LEMMA NextGeneration ==
  ASSUME NEW f \in SUBSET Flags, NEW d \in Nat \ {0}, NEW container
  PROVE  Generations(f, d + 1, container) =
           IF Generations(f, d, TRUE) = Fail THEN Fail ELSE InheritFlags(Generations(f, d, TRUE)[1], container)
  <1> DEFINE G == Generations(f, d, TRUE)
  <1> HIDE DEF G
  <1> SUFFICES Generations(f, d + 1, container) = IF G = Fail THEN Fail ELSE InheritFlags(G[1], container) BY DEF G
  <1>1. d + 1 # 1 OBVIOUS
  <1>2. CASE "NP" \in f
    <2>1. Generations(f, d + 1, container) = Fail BY <1>1, <1>2 DEF Generations
    <2>2. CASE G = Fail BY <2>1, <2>2
    <2>3. CASE G # Fail
      <3> DEFINE g == (f \ AllInheritFlags) \cup {"inherited"}
      <3>1. G = <<g>> BY <1>2, <2>3 DEF G, Generations, Ok
      <3>2. "OI" \notin g /\ "CI" \notin g BY DEF AllInheritFlags
      <3> HIDE DEF g
      <3>3. G[1] = g BY <3>1
      <3>4. InheritFlags(g, container) = Fail BY <3>2 DEF InheritFlags
      <3>5. QED BY <2>1, <2>3, <3>3, <3>4
    <2>4. QED BY <2>2, <2>3
  <1>3. CASE "NP" \notin f /\ "CI" \in f
    <2> DEFINE g == (f \ {"IO"}) \cup {"inherited"}
    <2>1. G = <<g>> BY <1>3 DEF G, Generations, Ok
    <2>2. G[1] = g /\ G # Fail BY <2>1 DEF Fail
    <2>3. "CI" \in g /\ "NP" \notin g /\ ("OI" \in g <=> "OI" \in f) BY <1>3
    <2>4. (g \ AllInheritFlags) \cup {"inherited"} = (f \ AllInheritFlags) \cup {"inherited"} BY DEF AllInheritFlags
    <2>5. (g \ {"NP", "IO"}) \cup {"inherited"} = g BY <1>3
    <2>6. InheritFlags(g, container) = Generations(f, d + 1, container)
      <3>1. CASE container
        <4>1. InheritFlags(g, container) = Ok(g)
          <5> HIDE DEF g
          <5>1. QED BY <2>3, <2>5, <3>1 DEF InheritFlags
        <4>2. Generations(f, d + 1, container) = Ok(g) BY <1>3, <3>1 DEF Generations
        <4>3. QED BY <4>1, <4>2
      <3>2. CASE ~container
        <4> HIDE DEF g
        <4>1. CASE "OI" \in f BY <1>3, <2>3, <2>4, <3>2, <4>1 DEF InheritFlags, Generations
        <4>2. CASE "OI" \notin f BY <1>3, <2>3, <3>2, <4>2 DEF InheritFlags, Generations
        <4>3. QED BY <4>1, <4>2
      <3>3. QED BY <3>1, <3>2
    <2> HIDE DEF g
    <2>7. QED BY <2>2, <2>6
  <1>4. CASE "NP" \notin f /\ "CI" \notin f /\ "OI" \in f
    <2> DEFINE g == f \cup {"IO", "inherited"}
    <2>1. G = <<g>> BY <1>4 DEF G, Generations, Ok
    <2>2. G[1] = g /\ G # Fail BY <2>1 DEF Fail
    <2>3. "CI" \notin g /\ "NP" \notin g /\ "OI" \in g BY <1>4
    <2>4. (g \ AllInheritFlags) \cup {"inherited"} = (f \ AllInheritFlags) \cup {"inherited"} BY DEF AllInheritFlags
    <2>5. (g \ {"NP"}) \cup {"IO", "inherited"} = g BY <1>4
    <2>6. InheritFlags(g, container) = Generations(f, d + 1, container)
      <3>1. CASE container
        <4>1. InheritFlags(g, container) = Ok(g)
          <5> HIDE DEF g
          <5>1. QED BY <2>3, <2>5, <3>1 DEF InheritFlags
        <4>2. Generations(f, d + 1, container) = Ok(g) BY <1>4, <3>1 DEF Generations
        <4>3. QED BY <4>1, <4>2
      <3>2. CASE ~container
        <4> HIDE DEF g
        <4>1. QED BY <1>4, <2>3, <2>4, <3>2 DEF InheritFlags, Generations
      <3>3. QED BY <3>1, <3>2
    <2> HIDE DEF g
    <2>7. QED BY <2>2, <2>6
  <1>5. CASE "NP" \notin f /\ "CI" \notin f /\ "OI" \notin f BY <1>5 DEF G, Generations
  <1>6. QED BY <1>2, <1>3, <1>4, <1>5

LEMMA ThroughChild ==
  ASSUME NEW es \in Seq(Parsed), NEW container
  PROVE  ComputeInheritedACEs(es, container) = Through(es, Child(container))
  <1> DEFINE F == Child(container)
             k1 == {i \in DOMAIN es : InheritFlags(es[i].flags, container) # Fail}
             k2 == {i \in DOMAIN es : F[es[i].flags] # Fail}
             q == Kept(es, k1)
  <1>1. \A e \in Parsed : F[e.flags] = InheritFlags(e.flags, container) BY DEF Parsed, Child
  <1>2. \A i \in DOMAIN es : es[i] \in Parsed OBVIOUS
  <1> HIDE DEF F
  <1>3. k1 = k2 BY <1>1, <1>2
  <1>4. q \in Seq(Parsed) BY KeptType
  <1>5. ComputeInheritedACEs(es, container)
          = [i \in DOMAIN q |-> [q[i] EXCEPT !.flags = InheritFlags(q[i].flags, container)[1]]]
    BY DEF ComputeInheritedACEs
  <1>6. Through(es, F) = [i \in DOMAIN Kept(es, k2) |-> Renamed(Kept(es, k2)[i], F)] BY DEF Through
  <1> HIDE DEF k1, k2
  <1>7. Through(es, F) = [i \in DOMAIN q |-> Renamed(q[i], F)] BY <1>3, <1>6
  <1> HIDE DEF q
  <1>8. \A i \in DOMAIN q : [q[i] EXCEPT !.flags = InheritFlags(q[i].flags, container)[1]] = Renamed(q[i], F)
    BY <1>1, <1>4 DEF Renamed
  <1>9. QED BY <1>5, <1>7, <1>8 DEF F

LEMMA ThroughDown ==
  ASSUME NEW es \in Seq(Parsed), NEW d, NEW container
  PROVE  Passed(es, d, container) = Through(es, Down(d, container))
  <1> DEFINE F == Down(d, container)
             k1 == {i \in DOMAIN es : Generations(es[i].flags, d, container) # Fail}
             k2 == {i \in DOMAIN es : F[es[i].flags] # Fail}
             q == Kept(es, k1)
  <1>1. \A e \in Parsed : F[e.flags] = Generations(e.flags, d, container) BY DEF Parsed, Down
  <1>2. \A i \in DOMAIN es : es[i] \in Parsed OBVIOUS
  <1> HIDE DEF F
  <1>3. k1 = k2 BY <1>1, <1>2
  <1>4. q \in Seq(Parsed) BY KeptType
  <1>5. Passed(es, d, container) = [i \in DOMAIN q |-> [q[i] EXCEPT !.flags = Generations(q[i].flags, d, container)[1]]]
    BY DEF Passed
  <1>6. Through(es, F) = [i \in DOMAIN Kept(es, k2) |-> Renamed(Kept(es, k2)[i], F)] BY DEF Through
  <1> HIDE DEF k1, k2
  <1>7. Through(es, F) = [i \in DOMAIN q |-> Renamed(q[i], F)] BY <1>3, <1>6
  <1> HIDE DEF q
  <1>8. \A i \in DOMAIN q : [q[i] EXCEPT !.flags = Generations(q[i].flags, d, container)[1]] = Renamed(q[i], F)
    BY <1>1, <1>4 DEF Renamed
  <1>9. QED BY <1>5, <1>7, <1>8 DEF F

\* In terms of the code: what ComputeInheritedACEs makes of two lists in a row,
\* at distance one, and of what has come d generations down.
LEMMA ComputeConcat ==
  ASSUME NEW a \in Seq(Parsed), NEW b \in Seq(Parsed), NEW container
  PROVE  ComputeInheritedACEs(a \o b, container) = ComputeInheritedACEs(a, container) \o ComputeInheritedACEs(b, container)
  <1>1. a \o b \in Seq(Parsed) OBVIOUS
  <1>2. ComputeInheritedACEs(a \o b, container) = Through(a \o b, Child(container)) BY <1>1, ThroughChild
  <1>3. /\ ComputeInheritedACEs(a, container) = Through(a, Child(container))
        /\ ComputeInheritedACEs(b, container) = Through(b, Child(container)) BY ThroughChild
  <1>4. Through(a \o b, Child(container)) = Through(a, Child(container)) \o Through(b, Child(container))
    BY RulesAre, ThroughConcat, Zenon
  <1>5. QED BY <1>2, <1>3, <1>4, Zenon

LEMMA ComputeFirst ==
  ASSUME NEW es \in Seq(Parsed), NEW container
  PROVE  ComputeInheritedACEs(es, container) = Passed(es, 1, container)
  <1>1. Child(container) = Down(1, container) BY FirstGeneration DEF Child, Down
  <1>2. QED BY <1>1, ThroughChild, ThroughDown

LEMMA ComputeNext ==
  ASSUME NEW es \in Seq(Parsed), NEW d \in Nat \ {0}, NEW container
  PROVE  /\ Passed(es, d, TRUE) \in Seq(Parsed)
         /\ ComputeInheritedACEs(Passed(es, d, TRUE), container) = Passed(es, d + 1, container)
  <1> DEFINE F == Down(d, TRUE)
             G == Child(container)
             H == Down(d + 1, container)
  <1>1. F \in Rules /\ G \in Rules /\ H \in Rules BY RulesAre
  <1>2. ASSUME NEW f \in SUBSET Flags PROVE H[f] = IF F[f] = Fail THEN Fail ELSE G[F[f][1]]
    <2>1. F[f] = Generations(f, d, TRUE) /\ H[f] = Generations(f, d + 1, container) BY DEF Down
    <2>2. F[f] # Fail => F[f][1] \in SUBSET Flags
      <3>1. F[f] \in Optional(SUBSET Flags) BY <1>1 DEF Rules
      <3>2. QED BY <3>1, OptionalFacts DEF Fail, Nil
    <2>3. F[f] # Fail => G[F[f][1]] = InheritFlags(F[f][1], container)
      <3> HIDE DEF F
      <3>1. QED BY <2>2 DEF Child
    <2>4. H[f] = IF F[f] = Fail THEN Fail ELSE InheritFlags(F[f][1], container)
      <3>1. Generations(f, d + 1, container) =
              IF Generations(f, d, TRUE) = Fail THEN Fail ELSE InheritFlags(Generations(f, d, TRUE)[1], container)
        BY NextGeneration
      <3> HIDE DEF F, H
      <3>2. QED BY <2>1, <3>1, Zenon
    <2> HIDE DEF F, G, H
    <2>5. QED BY <2>3, <2>4
  <1>3. Passed(es, d, TRUE) = Through(es, F) /\ Passed(es, d + 1, container) = Through(es, H) BY ThroughDown
  <1> HIDE DEF F, H
  <1>4. Through(es, F) \in Seq(Parsed) BY <1>1, ThroughType
  <1>5. ComputeInheritedACEs(Through(es, F), container) = Through(Through(es, F), G) BY <1>4, ThroughChild
  <1> HIDE DEF G
  <1>6. Through(Through(es, F), G) = Through(es, H) BY <1>1, <1>2, ThroughTwice
  <1>7. QED BY <1>3, <1>4, <1>5, <1>6

\* The ancestors of a node, at each distance up to the root.
LEMMA LineFacts ==
  ASSUME NEW n \in Nodes
  PROVE  /\ Line(n)[0] = n
         /\ \A d \in 1 .. Depth[n] : Line(n)[d] = Parent[Line(n)[d - 1]]
         /\ \A d \in 0 .. Depth[n] : Line(n)[d] \in Nodes /\ Depth[Line(n)[d]] = Depth[n] - d
  <1> DEFINE N == Depth[n]
             f == Line(n)
             up(m) == IF m = Root THEN Root ELSE Parent[m]
             step == [i \in 1 .. N |-> [m \in Nodes |-> up(m)]]
             Eq(g) == g = [i \in 0 .. N |-> IF i = 0 THEN n ELSE Parent[g[i - 1]]]
  <1>1. N \in Nat /\ Root \in Nodes BY TreeAssumption
  <1>2. f = CHOOSE g : g = [i \in 0 .. N |-> IF i = 0 THEN n ELSE Parent[g[i - 1]]] BY Zenon DEF Line
  <1>3. \A m \in Nodes : up(m) \in Nodes BY <1>1, ParentFacts
  <1>4. step \in [1 .. N -> [Nodes -> Nodes]] /\ \A i \in 1 .. N, m \in Nodes : step[i][m] = up(m) BY <1>3
  <1>5. \A m \in Nodes : m # Root => Depth[Parent[m]] = Depth[m] - 1 /\ Depth[m] \in Nat /\ Parent[m] \in Nodes
    BY ParentFacts
  <1>6. \A m \in Nodes : Depth[m] # 0 => m # Root BY TreeAssumption
  <1> HIDE DEF step, N
  <1>7. PICK g : Run(Nodes, n, step, N, g) BY <1>1, <1>4, RunExists
  <1>8. g \in [0 .. N -> Nodes] /\ g[0] = n /\ \A i \in 1 .. N : g[i] = up(g[i - 1])
    <2>1. \A i \in 1 .. N : i - 1 \in 0 .. N BY <1>1
    <2>2. QED BY <1>4, <1>7, <2>1 DEF Run
  <1> DEFINE T == {i \in 0 .. N : Depth[g[i]] = N - i}
  <1>9. 0 \in T BY <1>1, <1>8 DEF N
  <1>10. ASSUME NEW i \in 0 .. N - 1, i \in T PROVE i + 1 \in T
    <2>1. i + 1 \in 1 .. N /\ (i + 1) - 1 = i /\ i \in 0 .. N /\ i + 1 \in 0 .. N BY <1>1
    <2>2. g[i] \in Nodes /\ Depth[g[i]] = N - i BY <1>8, <1>10, <2>1
    <2>3. g[i] # Root BY <1>1, <1>6, <2>1, <2>2
    <2>4. g[i + 1] = Parent[g[i]] BY <1>8, <2>1, <2>3
    <2>5. Depth[g[i + 1]] = N - (i + 1) BY <1>1, <1>5, <2>1, <2>2, <2>3, <2>4
    <2>6. QED BY <2>1, <2>5
  <1> HIDE DEF T
  <1>11. \A i \in 0 .. N : i \in T BY <1>1, <1>9, <1>10, Induction
  <1>12. \A i \in 0 .. N : Depth[g[i]] = N - i BY <1>11 DEF T
  <1>13. \A i \in 1 .. N : g[i] = Parent[g[i - 1]]
    <2> TAKE i \in 1 .. N
    <2>1. i - 1 \in 0 .. N /\ N - (i - 1) # 0 BY <1>1
    <2>2. g[i - 1] \in Nodes /\ Depth[g[i - 1]] # 0 BY <1>8, <1>12, <2>1
    <2>3. QED BY <1>6, <1>8, <2>2
  <1>14. Eq(g)
    <2>1. \A i \in 0 .. N : i = 0 \/ i \in 1 .. N BY <1>1
    <2>2. QED BY <1>8, <1>13, <2>1
  <1>15. Eq(f)
    <2> HIDE DEF Eq, f
    <2>1. f = CHOOSE h : Eq(h) BY <1>2, Zenon DEF Eq
    <2>2. QED BY <1>14, <2>1, Zenon
  <1> HIDE DEF f
  <1>16. f[0] = n BY <1>1, <1>15
  <1>17. \A i \in 1 .. N : f[i] = Parent[f[i - 1]]
    <2> TAKE i \in 1 .. N
    <2>1. i \in 0 .. N /\ i # 0 BY <1>1
    <2>2. QED BY <1>15, <2>1
  <1> HIDE DEF Eq
  <1> DEFINE U == {i \in 0 .. N : f[i] \in Nodes /\ Depth[f[i]] = N - i}
  <1>18. 0 \in U BY <1>1, <1>16 DEF N
  <1>19. ASSUME NEW i \in 0 .. N - 1, i \in U PROVE i + 1 \in U
    <2>1. i + 1 \in 1 .. N /\ (i + 1) - 1 = i /\ i \in 0 .. N /\ i + 1 \in 0 .. N BY <1>1
    <2>2. f[i] \in Nodes /\ Depth[f[i]] = N - i BY <1>19
    <2>3. f[i] # Root BY <1>1, <1>6, <2>1, <2>2
    <2>4. f[i + 1] = Parent[f[i]] BY <1>17, <2>1
    <2>5. f[i + 1] \in Nodes /\ Depth[f[i + 1]] = N - (i + 1) BY <1>1, <1>5, <2>1, <2>2, <2>3, <2>4
    <2>6. QED BY <2>1, <2>5
  <1> HIDE DEF U
  <1>20. \A i \in 0 .. N : i \in U BY <1>1, <1>18, <1>19, Induction
  <1>21. \A i \in 0 .. N : f[i] \in Nodes /\ Depth[f[i]] = N - i BY <1>20 DEF U
  <1>22. QED BY <1>16, <1>17, <1>21 DEF N, f

\* They are those of its parent, one generation further.
LEMMA LineAbove ==
  ASSUME NEW n \in Nodes, n # Root
  PROVE  \A d \in 0 .. Depth[Parent[n]] : Line(n)[d + 1] = Line(Parent[n])[d]
  <1> DEFINE p == Parent[n]
             M == Depth[p]
             f == Line(n)
             g == Line(p)
             T == {d \in 0 .. M : f[d + 1] = g[d]}
  <1>1. p \in Nodes /\ M \in Nat /\ Depth[n] = M + 1 BY ParentFacts
  <1>2. f[0] = n /\ \A d \in 1 .. M + 1 : f[d] = Parent[f[d - 1]] BY <1>1, LineFacts
  <1>3. g[0] = p /\ \A d \in 1 .. M : g[d] = Parent[g[d - 1]] BY <1>1, LineFacts
  <1> HIDE DEF f, g, M
  <1>4. 0 \in T
    <2>1. 1 \in 1 .. M + 1 /\ 1 - 1 = 0 /\ 0 + 1 = 1 BY <1>1
    <2>2. f[0 + 1] = p BY <1>2, <2>1
    <2>3. QED BY <1>1, <1>3, <2>2
  <1>5. ASSUME NEW d \in 0 .. M - 1, d \in T PROVE d + 1 \in T
    <2>1. d + 1 \in 1 .. M /\ (d + 1) - 1 = d /\ (d + 1) + 1 \in 1 .. M + 1 /\ ((d + 1) + 1) - 1 = d + 1 /\ d + 1 \in 0 .. M
      BY <1>1
    <2>2. f[(d + 1) + 1] = Parent[f[d + 1]] BY <1>2, <2>1
    <2>3. g[d + 1] = Parent[g[d]] BY <1>3, <2>1
    <2>4. f[d + 1] = g[d] BY <1>5
    <2>5. f[(d + 1) + 1] = g[d + 1] BY <2>2, <2>3, <2>4
    <2>6. QED BY <2>1, <2>5
  <1> HIDE DEF T
  <1>6. \A d \in 0 .. M : d \in T BY <1>1, <1>4, <1>5, Induction
  <1>7. QED BY <1>6 DEF T, M, f, g

LEMMA SourcesType ==
  ASSUME TypeOK, NEW n \in Nodes
  PROVE  DaclOf(sd[n]) \in Seq(Parsed) /\ Sources(n) \in Seq(Parsed)
  <1> DEFINE w == sd[n]
  <1>1. w \in Descriptors BY DEF TypeOK
  <1> HIDE DEF w
  <1>2. DaclOf(w) \in Seq(Parsed)
    <2>1. CASE ParseDescriptor(w) = Fail BY <2>1 DEF DaclOf
    <2>2. CASE ParseDescriptor(w) # Fail BY <1>1, <2>2, Reads
    <2>3. QED BY <2>1, <2>2
  <1>3. FilterInherited(DaclOf(w)) \in Seq(Parsed) BY <1>2, FilterType
  <1>4. QED BY <1>2, <1>3 DEF Sources, w

LEMMA PassedType ==
  ASSUME NEW es \in Seq(Parsed), NEW d, NEW container
  PROVE  Passed(es, d, container) \in Seq(Parsed)
  BY ThroughDown, RulesAre, ThroughType

LEMMA FromFacts ==
  ASSUME TypeOK, NEW n \in Nodes
  PROVE  /\ FromAncestors(n)[0] = <<>>
         /\ \A d \in 1 .. Depth[n] :
               FromAncestors(n)[d] = FromAncestors(n)[d - 1] \o Passed(Sources(Line(n)[d]), d, n \in Containers)
         /\ \A d \in 0 .. Depth[n] : FromAncestors(n)[d] \in Seq(Parsed)
         /\ \A d \in 0 .. Depth[n] : Sources(Line(n)[d]) \in Seq(Parsed)
  <1> DEFINE N == Depth[n]
             V == Seq(Parsed)
             f == FromAncestors(n)
             more(d) == Passed(Sources(Line(n)[d]), d, n \in Containers)
             next(d, q) == q \o more(d)
             step == [d \in 1 .. N |-> [q \in V |-> next(d, q)]]
             Eq(g) == g = [d \in 0 .. N |-> IF d = 0 THEN <<>> ELSE next(d, g[d - 1])]
  <1>1. N \in Nat /\ <<>> \in V BY TreeAssumption
  <1>2. \A d \in 0 .. N : Line(n)[d] \in Nodes BY LineFacts
  <1>3. \A d \in 0 .. N : Sources(Line(n)[d]) \in V BY <1>2, SourcesType
  <1>4. \A d \in 1 .. N : more(d) \in V
    <2> TAKE d \in 1 .. N
    <2>1. d \in 0 .. N BY <1>1
    <2>2. QED BY <1>3, <2>1, PassedType
  <1>5. f = CHOOSE g : g = [d \in 0 .. N |-> IF d = 0 THEN <<>> ELSE next(d, g[d - 1])] BY Zenon DEF FromAncestors
  <1> HIDE DEF more
  <1>6. \A d \in 1 .. N, q \in V : next(d, q) \in V BY <1>4
  <1> HIDE DEF next
  <1>7. step \in [1 .. N -> [V -> V]] /\ \A d \in 1 .. N, q \in V : step[d][q] = next(d, q) BY <1>6
  <1> HIDE DEF step, N, V
  <1>8. PICK g : Run(V, <<>>, step, N, g) BY <1>1, <1>7, RunExists
  <1>9. Eq(g)
    <2>1. \A d \in 0 .. N : d = 0 \/ (d \in 1 .. N /\ d - 1 \in 0 .. N) BY <1>1
    <2>2. \A d \in 1 .. N : g[d] = next(d, g[d - 1]) BY <1>7, <1>8, <2>1 DEF Run
    <2>3. g \in [0 .. N -> V] /\ g[0] = <<>> BY <1>8 DEF Run
    <2>4. QED BY <2>1, <2>2, <2>3
  <1>10. Eq(f)
    <2> HIDE DEF Eq, f
    <2>1. f = CHOOSE h : Eq(h) BY <1>5, Zenon DEF Eq
    <2>2. QED BY <1>9, <2>1, Zenon
  <1> HIDE DEF f
  <1>11. f[0] = <<>> /\ f = [d \in 0 .. N |-> f[d]] BY <1>1, <1>10
  <1>12. \A d \in 1 .. N : f[d] = next(d, f[d - 1])
    <2> TAKE d \in 1 .. N
    <2>1. d \in 0 .. N /\ d # 0 BY <1>1
    <2>2. QED BY <1>10, <2>1
  <1> HIDE DEF Eq
  <1>13. f \in [0 .. N -> V] BY <1>1, <1>6, <1>11, <1>12, RunTyped
  <1>14. \A d \in 0 .. N : f[d] \in V BY <1>13
  <1>15. QED BY <1>3, <1>11, <1>12, <1>14, Zenon DEF f, N, V, next, more

\* What a node's ancestors contribute is what its parent's DACL passes on, when
\* that is the parent's own ACEs and its ancestors' contribution.
LEMMA FromAbove ==
  ASSUME TypeOK, NEW n \in Nodes, n # Root
  PROVE  \A d \in 0 .. Depth[Parent[n]] :
            FromAncestors(n)[d + 1]
              = ComputeInheritedACEs(Sources(Parent[n]) \o FromAncestors(Parent[n])[d], n \in Containers)
  <1> DEFINE p == Parent[n]
             M == Depth[p]
             c == n \in Containers
             f == FromAncestors(n)
             g == FromAncestors(p)
             src == Sources(p)
             W(d) == f[d + 1] = ComputeInheritedACEs(src \o g[d], c)
             T == {d \in 0 .. M : W(d)}
  <1>1. p \in Nodes /\ M \in Nat /\ Depth[n] = M + 1 /\ (p \in Containers) = TRUE BY ParentFacts
  <1>2. /\ f[0] = <<>>
        /\ \A d \in 1 .. M + 1 : f[d] = f[d - 1] \o Passed(Sources(Line(n)[d]), d, c)
    BY <1>1, FromFacts
  <1>3. /\ g[0] = <<>>
        /\ \A d \in 1 .. M : g[d] = g[d - 1] \o Passed(Sources(Line(p)[d]), d, TRUE)
    BY <1>1, FromFacts
  <1>4. (\A d \in 0 .. M : g[d] \in Seq(Parsed)) /\ (\A d \in 0 .. M : Sources(Line(p)[d]) \in Seq(Parsed))
    BY <1>1, FromFacts
  <1>5. \A d \in 0 .. M : Line(n)[d + 1] = Line(p)[d] BY LineAbove
  <1>6. Line(p)[0] = p BY <1>1, LineFacts
  <1>7. src \in Seq(Parsed) BY <1>1, SourcesType
  <1> HIDE DEF f, g, M, c
  <1>8. W(0)
    <2>1. 1 \in 1 .. M + 1 /\ 1 - 1 = 0 /\ 0 + 1 = 1 /\ 0 \in 0 .. M BY <1>1
    <2>2. Line(n)[1] = p BY <1>5, <1>6, <2>1
    <2>3. f[1] = <<>> \o Passed(src, 1, c) BY <1>2, <2>1, <2>2
    <2>4. Passed(src, 1, c) \in Seq(Parsed) BY <1>7, PassedType
    <2>5. <<>> \o Passed(src, 1, c) = Passed(src, 1, c) BY <2>4
    <2>6. ComputeInheritedACEs(src, c) = Passed(src, 1, c) BY <1>7, ComputeFirst
    <2> HIDE DEF src
    <2>7. src \o <<>> = src BY <1>7
    <2>8. QED BY <1>3, <2>1, <2>3, <2>5, <2>6, <2>7, Zenon
  <1>9. ASSUME NEW d \in 0 .. M - 1, W(d) PROVE W(d + 1)
    <2> DEFINE s == Sources(Line(p)[d + 1])
               x == Passed(s, d + 1, TRUE)
               y == Passed(s, (d + 1) + 1, c)
               q == g[d]
    <2>1. /\ d + 1 \in 1 .. M /\ (d + 1) - 1 = d /\ d \in 0 .. M /\ d + 1 \in 0 .. M /\ d + 1 \in Nat \ {0}
          /\ (d + 1) + 1 \in 1 .. M + 1 /\ ((d + 1) + 1) - 1 = d + 1
      BY <1>1
    <2>2. s \in Seq(Parsed) /\ q \in Seq(Parsed) BY <1>4, <2>1
    <2>3. Line(n)[(d + 1) + 1] = Line(p)[d + 1] BY <1>5, <2>1
    <2>4. f[(d + 1) + 1] = f[d + 1] \o y BY <1>2, <2>1, <2>3
    <2>5. g[d + 1] = q \o x BY <1>3, <2>1
    <2> HIDE DEF s
    <2>6. x \in Seq(Parsed) /\ ComputeInheritedACEs(x, c) = y BY <2>1, <2>2, ComputeNext
    <2>7. f[d + 1] = ComputeInheritedACEs(src \o q, c) BY <1>9, Zenon
    <2> HIDE DEF x, y, q, src
    <2>8. src \o q \in Seq(Parsed) BY <1>7, <2>2
    <2>9. ComputeInheritedACEs((src \o q) \o x, c) = ComputeInheritedACEs(src \o q, c) \o ComputeInheritedACEs(x, c)
      BY <2>6, <2>8, ComputeConcat, Zenon
    <2>10. (src \o q) \o x = src \o (q \o x) BY <1>7, <2>2, <2>6, ConcatAssociative
    <2>11. QED BY <2>4, <2>5, <2>6, <2>7, <2>9, <2>10, Zenon
  <1> HIDE DEF W
  <1>10. 0 \in T BY <1>1, <1>8
  <1>11. ASSUME NEW d \in 0 .. M - 1, d \in T PROVE d + 1 \in T
    <2>1. W(d) /\ d + 1 \in 0 .. M BY <1>1, <1>11
    <2>2. W(d + 1) BY <1>9, <2>1
    <2>3. QED BY <2>1, <2>2
  <1> HIDE DEF T
  <1>12. \A d \in 0 .. M : d \in T BY <1>1, <1>10, <1>11, Induction
  <1>13. \A d \in 0 .. M : W(d) BY <1>12 DEF T
  <1>14. QED BY <1>13, Zenon DEF W, f, g, M, c

\* One generation is enough: what OneGeneration says of every clean node adds up
\* over the generations between a node and the root.
LEMMA Generationwise == IInv => Converged
  <1> SUFFICES ASSUME IInv PROVE Converged OBVIOUS
  <1>1. TypeOK /\ OneGeneration BY DEF IInv
  <1> DEFINE Fresh(n) == \A d \in 0 .. Depth[n] - 1 : Line(n)[d] \in clean
             Right(n) == DaclOf(sd[n]) = Sources(n) \o FromAncestors(n)[Depth[n]]
  <1>2. Fresh(Root) => Right(Root)
    <2>1. Root \in Nodes /\ Depth[Root] = 0 BY TreeAssumption
    <2>2. FromAncestors(Root)[0] = <<>> BY <1>1, <2>1, FromFacts
    <2>3. DaclOf(sd[Root]) \in Seq(Parsed) BY <1>1, <2>1, SourcesType
    <2>4. Sources(Root) = DaclOf(sd[Root]) BY DEF Sources
    <2>5. DaclOf(sd[Root]) \o <<>> = DaclOf(sd[Root]) BY <2>3
    <2>6. QED BY <2>1, <2>2, <2>4, <2>5, Zenon
  <1>3. ASSUME NEW n \in Nodes, n # Root, Fresh(Parent[n]) => Right(Parent[n]), Fresh(n) PROVE Right(n)
    <2> DEFINE p == Parent[n]
               M == Depth[p]
               c == n \in Containers
    <2>1. p \in Nodes /\ M \in Nat /\ Depth[n] = M + 1 BY <1>3, ParentFacts
    <2>2. Fresh(p)
      <3> TAKE d \in 0 .. Depth[p] - 1
      <3>1. d \in 0 .. M /\ d + 1 \in 0 .. Depth[n] - 1 BY <2>1
      <3>2. Line(n)[d + 1] = Line(p)[d] BY <1>3, <3>1, LineAbove
      <3>3. Line(n)[d + 1] \in clean BY <1>3, <3>1
      <3>4. QED BY <3>2, <3>3
    <2>3. n \in clean
      <3>1. Line(n)[0] = n BY LineFacts
      <3>2. 0 \in 0 .. Depth[n] - 1 BY <2>1
      <3>3. QED BY <1>3, <3>1, <3>2
    <2>4. DaclOf(sd[p]) = Sources(p) \o FromAncestors(p)[M] BY <1>3, <2>2
    <2>5. DaclOf(sd[n]) = FilterInherited(DaclOf(sd[n])) \o ComputeInheritedACEs(DaclOf(sd[p]), c)
      BY <1>1, <2>3, Zenon DEF OneGeneration
    <2>6. Sources(n) = FilterInherited(DaclOf(sd[n])) BY <1>3 DEF Sources
    <2>7. FromAncestors(n)[M + 1] = ComputeInheritedACEs(Sources(p) \o FromAncestors(p)[M], c)
      <3>1. M \in 0 .. M BY <2>1
      <3>2. QED BY <1>1, <1>3, <3>1, FromAbove, Zenon
    <2> HIDE DEF p, M, c
    <2>8. QED BY <2>1, <2>4, <2>5, <2>6, <2>7, Zenon
  <1> HIDE DEF Fresh, Right
  <1>4. ASSUME NEW n \in Nodes PROVE Fresh(n) => Right(n)
    <2> DEFINE T == {k \in 0 .. Depth[n] : \A m \in Nodes : Depth[m] = k => (Fresh(m) => Right(m))}
    <2>1. Depth[n] \in Nat BY TreeAssumption
    <2>2. ASSUME NEW m \in Nodes, Depth[m] = 0 PROVE m = Root BY <2>2, ParentFacts
    <2>3. 0 \in T BY <1>2, <2>1, <2>2
    <2>4. ASSUME NEW k \in 0 .. Depth[n] - 1, k \in T PROVE k + 1 \in T
      <3>1. ASSUME NEW m \in Nodes, Depth[m] = k + 1 PROVE Fresh(m) => Right(m)
        <4>1. m # Root BY <2>1, <3>1, TreeAssumption
        <4>2. Parent[m] \in Nodes /\ Depth[Parent[m]] = k BY <2>1, <3>1, <4>1, ParentFacts
        <4>3. Fresh(Parent[m]) => Right(Parent[m]) BY <2>4, <4>2
        <4>4. QED BY <1>3, <4>1, <4>3
      <3>2. k + 1 \in 0 .. Depth[n] BY <2>1
      <3>3. QED BY <3>1, <3>2
    <2> HIDE DEF T
    <2>5. \A k \in 0 .. Depth[n] : k \in T BY <2>1, <2>3, <2>4, Induction
    <2>6. Depth[n] \in T BY <2>1, <2>5
    <2>7. QED BY <2>6 DEF T
  <1>5. QED BY <1>4, Zenon DEF Converged, Fresh, Right

\* Re-inheriting top-down computes inheritance over any number of generations,
\* in any tree: the DACL is the node's explicit ACEs and then those of its
\* ancestors, nearest first, each with the flags its distance gives it.
THEOREM Convergence == Spec => []Converged
  BY Invariance, Generationwise, PTL
=============================================================================
