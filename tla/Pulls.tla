------------------------------- MODULE Pulls -------------------------------
(***************************************************************************)
(* Pull: an entity as a tree (internal/core/query/pull.ts).                *)
(*                                                                         *)
(* A pattern is a sequence of specs [is: "id" | "all"] or                  *)
(* [is: "attr", attr, reverse, sub, hops, limit, offset, where, order,     *)
(* default]: sub is the nested pattern (empty for none) or, where hops is  *)
(* not Null, the pattern itself that many times over, Always for "...".  A *)
(* pulled value is [is: "value", v], [is: "id", e] or                      *)
(* [is: "entity", e, at], where at has by spec the pulled values.          *)
(* Renamings and the cache of a pullMany are left out: they change no      *)
(* other value.                                                            *)
(***************************************************************************)
EXTENDS Queries

Always == -3
Attribute(a) == [is |-> "attr", attr |-> a, reverse |-> FALSE, sub |-> <<>>, hops |-> Null, limit |-> Null, offset |-> 0,
                 where |-> <<>>, order |-> <<>>, default |-> Null]
Backlink(a) == [Attribute(a) EXCEPT !.reverse = TRUE]

ValueNode(v) == [is |-> "value", v |-> v]
IdNode(e) == [is |-> "id", e |-> e]
Nothing == [is |-> "nothing"]

(***************************************************************************)
(* A collection's elements, [eid, v]: eid is Null for a scalar.  A path is *)
(* a sequence of [attr, reverse]; attr Null is :db/id.                     *)
(***************************************************************************)
Scalar(v) == [eid |-> Null, v |-> v]
RefElem(e) == [eid |-> e, v |-> e]
ElemOf(d) == IF Attr[d.a].ref THEN RefElem(d.v) ELSE Scalar(d.v)

\* What one step of a path reaches from an entity.
StepElems(step, ds) == [i \in DOMAIN ds |-> IF step.reverse THEN RefElem(ds[i].e) ELSE ElemOf(ds[i])]
Hop(view, e, step) ==
  CASE step.attr = Null -> <<RefElem(e)>>
    [] step.attr # Null /\ step.reverse /\ ~Attr[step.attr].ref -> <<>>
    [] step.attr # Null /\ (step.reverse => Attr[step.attr].ref) ->
         StepElems(step, Read(view, IF step.reverse THEN "vaet" ELSE "eavt", <<e, step.attr>>))

\* elemsAt: a later step goes on from any number, whatever it stands for.
RECURSIVE ElemsAt(_, _, _)
ElemsAt(view, elems, path) ==
  IF path = <<>> THEN elems
  ELSE ElemsAt(view, FlattenSeq([i \in DOMAIN elems |-> Hop(view, elems[i].v, Head(path))]), Tail(path))
Reached(view, el, path) ==
  IF path = <<>> THEN <<el>> ELSE IF el.eid = Null THEN <<>> ELSE ElemsAt(view, <<el>>, path)

RECURSIVE TestElem(_, _, _)
TestElem(view, el, p) ==
  LET On(at) ==
        CASE p.op = "every" -> \A i \in DOMAIN at : TestElem(view, at[i], p.preds[1])
          [] p.op = "some" -> \E i \in DOMAIN at : TestElem(view, at[i], p.preds[1])
          [] p.op = "exists" -> at # <<>>
          [] p.op = "missing" -> at = <<>>
          [] p.op = "in" -> \E i \in DOMAIN at : at[i].v \in Range(p.v)
          [] OTHER -> \E i \in DOMAIN at : Compares(p.op, at[i].v, p.v)
  IN  CASE p.op = "and" -> \A i \in DOMAIN p.preds : TestElem(view, el, p.preds[i])
        [] p.op = "or" -> \E i \in DOMAIN p.preds : TestElem(view, el, p.preds[i])
        [] p.op = "not" -> ~TestElem(view, el, p.preds[1])
        [] OTHER -> On(Reached(view, el, p.path))

\* filterElems, orderElems, then the slice.
Filtered(view, elems, where) == SelectSeq(elems, LAMBDA el : \A i \in DOMAIN where : TestElem(view, el, where[i]))
Ordered(view, elems, order) ==
  LET Cell(at) == IF at = <<>> THEN Null ELSE at[1].v
      Less(c, i, j) == c < 0 \/ (c = 0 /\ i < j)
      Sorted(cells) == SortSeq([i \in DOMAIN elems |-> i], LAMBDA i, j : Less(CompareRows(cells[i], cells[j], order), i, j))
      Of(sorted) == [k \in DOMAIN sorted |-> elems[sorted[k]]]
  IN  Of(Sorted([i \in DOMAIN elems |-> [j \in DOMAIN order |-> Cell(Reached(view, elems[i], order[j].path))]]))
Slice(elems, offset, limit) ==
  SubSeq(elems, offset + 1, IF limit = Null \/ offset + limit > Len(elems) THEN Len(elems) ELSE offset + limit)

(***************************************************************************)
(* pullOne.  path holds the entities above; left, by recursive attribute,  *)
(* how many more times it may be followed.                                 *)
(***************************************************************************)
RECURSIVE PullOne(_, _, _, _, _), Slot(_, _, _, _, _, _, _), Each(_, _, _, _, _, _), Below(_, _, _, _, _, _)

PullOne(view, e, pattern, path, left) ==
  LET Node(at) == IF \A i \in DOMAIN at : at[i] = <<>> THEN Nothing ELSE [is |-> "entity", e |-> e, at |-> at] IN
  Node([i \in DOMAIN pattern |-> Slot(view, e, pattern[i], Read(view, "eavt", <<e>>), pattern, path, left)])

\* What a spec pulls, of the entity's own datoms or of those that refer to it.
IdNodes(ds) == [i \in DOMAIN ds |-> IF Attr[ds[i].a].ref THEN IdNode(ds[i].v) ELSE ValueNode(ds[i].v)]
OneOrMany(s, vals) ==
  IF vals = <<>> \/ (IF s.reverse THEN ~Attr[s.attr].component ELSE Attr[s.attr].many) THEN vals ELSE <<Head(vals)>>
Defaulted(s, vals) == IF vals = <<>> /\ s.default # Null THEN <<ValueNode(s.default)>> ELSE vals
Elems(view, e, s, ds) ==
  StepElems(s, IF s.reverse THEN Read(view, "vaet", <<e, s.attr>>) ELSE SelectSeq(ds, LAMBDA d : d.a = s.attr))
Each(view, elems, s, pattern, path, left) ==
  SelectSeq([i \in DOMAIN elems |-> Below(view, elems[i], s, pattern, path, left)], LAMBDA x : x # Nothing)
Slot(view, e, s, ds, pattern, path, left) ==
  CASE s.is = "id" -> IF ds = <<>> THEN <<>> ELSE <<IdNode(e)>>
    [] s.is = "all" -> IdNodes(ds)
    [] s.is = "attr" ->
         IF s.reverse /\ ~Attr[s.attr].ref THEN <<>>
         ELSE Defaulted(s, OneOrMany(s, Each(view, Slice(Ordered(view, Filtered(view, Elems(view, e, s, ds), s.where), s.order), s.offset, s.limit),
                                             s, pattern, path \cup {e}, left)))

\* One element resolved: a scalar, a reference, or the entity it names.
\* Mutant: the last hop is followed.
BelowAgain(view, el, s, pattern, path, left) ==
  LET key == <<s.attr, s.reverse>>
      remaining == IF key \in DOMAIN left THEN left[key] ELSE s.hops
      sub == IF s.hops = Null THEN s.sub ELSE IF s.hops = Always \/ remaining >= 0 THEN pattern ELSE <<>>
      next == IF s.hops \in {Null, Always} THEN left ELSE (key :> remaining - 1) @@ left
      Named(pulled) == IF pulled = Nothing /\ ~s.reverse THEN IdNode(el.eid) ELSE pulled
  IN  IF el.eid = Null THEN ValueNode(el.v)
      ELSE IF sub = <<>> \/ (s.hops # Null /\ el.eid \in path) THEN IdNode(el.eid)
      ELSE Named(PullOne(view, el.eid, sub, path, next))
Below(view, el, s, pattern, path, left) ==
  LET key == <<s.attr, s.reverse>>
      remaining == IF key \in DOMAIN left THEN left[key] ELSE s.hops
      sub == IF s.hops = Null THEN s.sub ELSE IF s.hops = Always \/ remaining > 0 THEN pattern ELSE <<>>
      next == IF s.hops \in {Null, Always} THEN left ELSE (key :> remaining - 1) @@ left
      Named(pulled) == IF pulled = Nothing /\ ~s.reverse THEN IdNode(el.eid) ELSE pulled
  IN  IF el.eid = Null THEN ValueNode(el.v)
      ELSE IF sub = <<>> \/ (s.hops # Null /\ el.eid \in path) THEN IdNode(el.eid)
      ELSE Named(PullOne(view, el.eid, sub, path, next))

\* pull.
Pull(view, e, pattern) == PullOne(view, e, pattern, {}, <<>>)
=============================================================================
