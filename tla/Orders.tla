------------------------------- MODULE Orders -------------------------------
(***************************************************************************)
(* The orders of the four indexes, and the merge of two ordered sequences  *)
(* (internal/core/datom.ts, tree.ts).                                      *)
(*                                                                         *)
(* A datom is [e, a, v, t, op] with small numbers; the type of a value is  *)
(* its attribute's, so it takes no part in the order.  A prefix is the     *)
(* first components of a datom, in an order.                               *)
(***************************************************************************)
EXTENDS Integers, Sequences, SequencesExt

Indexes == {"eavt", "aevt", "avet", "vaet"}

Order(index, d) ==
  (CASE index = "eavt" -> <<d.e, d.a, d.v>>
     [] index = "aevt" -> <<d.a, d.e, d.v>>
     [] index = "avet" -> <<d.a, d.v, d.e>>
     [] index = "vaet" -> <<d.v, d.a, d.e>>) \o <<d.t, IF d.op THEN 1 ELSE 0>>

\* Negative, zero or positive as x sorts before, with or after y, on the
\* components of y: the first that differs decides.
CompareAt(x, y, i) == x[i] - y[i]
CompareWhere(x, y, differ) ==
  IF differ = {} THEN 0
  ELSE CompareAt(x, y, CHOOSE i \in differ : \A j \in differ : i <= j)
CompareKeys(x, y) == CompareWhere(x, y, {i \in DOMAIN y : x[i] # y[i]})
Compare(index, d, x) == CompareKeys(Order(index, d), Order(index, x))

\* comparePrefix: negative before the datoms with prefix p, 0 among them.
ComparePrefix(index, d, p) == CompareKeys(Order(index, d), p)
Matches(index, d, p) == ComparePrefix(index, d, p) = 0

\* sortedUnion: equal datoms once.  The loop runs while both have more.
UnionTake(x, y, s, c) ==
  [i   |-> IF c <= 0 THEN s.i + 1 ELSE s.i,
   j   |-> IF c >= 0 THEN s.j + 1 ELSE s.j,
   out |-> Append(s.out, IF c <= 0 THEN x[s.i] ELSE y[s.j])]
UnionStep(index, x, y, s) ==
  IF s.i > Len(x) \/ s.j > Len(y) THEN s
  ELSE UnionTake(x, y, s, Compare(index, x[s.i], y[s.j]))
UnionRest(x, y, s) == s.out \o SubSeq(x, s.i, Len(x)) \o SubSeq(y, s.j, Len(y))
SortedUnion(index, x, y) ==
  LET after[n \in 0..(Len(x) + Len(y))] ==
        IF n = 0 THEN [i |-> 1, j |-> 1, out |-> <<>>] ELSE UnionStep(index, x, y, after[n - 1])
  IN  UnionRest(x, y, after[Len(x) + Len(y)])
=============================================================================
