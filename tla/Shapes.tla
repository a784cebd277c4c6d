------------------------------- MODULE Shapes -------------------------------
(***************************************************************************)
(* The shape of a selected row (db/shapes.ts, db/Pull.ts): how it becomes  *)
(* the pattern the peer pulls, the clauses that keep only the rows it can  *)
(* be read from, the filters of its nested collections                     *)
(* (db/query/elemFilter.ts), and how what the peer pulled is read back.    *)
(*                                                                         *)
(* A shape is a sequence of fields, see Field; where holds fragments and   *)
(* order [path, desc, emptyFirst], a path being a sequence of              *)
(* [attr, reverse].  What is read back is a cell: [is: "none"],            *)
(* [is: "value", v], [is: "id", e], [is: "row", of: cells by field] or     *)
(* [is: "many", of: cells].  Names of fields and the wildcard shape are    *)
(* left out.                                                               *)
(***************************************************************************)
EXTENDS Kernel

Field(a) ==
  [a |-> a, reverse |-> FALSE, wrap |-> "required", default |-> Null, hops |-> Null, sub |-> <<>>,
   where |-> <<>>, order |-> <<>>, limit |-> Null, offset |-> 0]
ReverseOf(a) == [Field(a) EXCEPT !.reverse = TRUE]

IsId(f) == f.a = IdAttr
IsAgain(f) == f.hops # Null
IsMany(f) == ~IsId(f) /\ IF f.reverse THEN ~Attr[f.a].component ELSE Attr[f.a].many
IsNested(f) == f.sub # <<>> \/ IsAgain(f)
HasOpts(f) == f.where # <<>> \/ f.order # <<>> \/ f.limit # Null \/ f.offset # 0

(***************************************************************************)
(* lowerElemFilter: fragments over an element become predicates on the     *)
(* paths that lead from it.  Its state is [ok, used, reached, preds]: the  *)
(* clauses of the list at hand that are accounted for, the variables paths *)
(* lead to, and what the clauses became.                                   *)
(***************************************************************************)
Leg(a, reverse) == [attr |-> IF a = IdAttr THEN Null ELSE a, reverse |-> reverse]
Test(path, op, v) == [op |-> op, path |-> path, v |-> v]
Exists_(path) == Test(path, "exists", Hole)
IsTest(p) == p.op \notin {"and", "or", "not", "some"}
AndOf(preds) == IF Len(preds) = 1 THEN preds[1] ELSE [op |-> "and", preds |-> preds]
Flip(op) ==
  CASE op = "<" -> ">" [] op = "<=" -> ">=" [] op = ">" -> "<" [] op = ">=" -> "<=" [] OTHER -> op

Rejected(st) == [st EXCEPT !.ok = FALSE]
Add(st, p) == [st EXCEPT !.preds = Append(@, p)]
IsVar(p, n) == p.is = "var" /\ p.n = n

RECURSIVE PredsOn(_, _, _), ClausePred(_, _, _, _), HopPred(_, _, _, _, _), PredsOfList(_, _, _), BranchPreds(_, _, _)

\* The clauses of a list that mention a variable and are not accounted for.
PredsOn(st, list, n) ==
  LET Next_(s, i) ==
        IF ~s.ok \/ i \in s.used \/ n \notin NumbersOf(<<list[i]>>) THEN s
        ELSE ClausePred([s EXCEPT !.used = @ \cup {i}], list, i, n)
  IN  FoldLeft(Next_, [st EXCEPT !.preds = <<>>], [i \in DOMAIN list |-> i])

\* A list of its own: every clause of it must be accounted for.
PredsOfList(st, list, n) ==
  LET inner == PredsOn([st EXCEPT !.used = {}], list, n) IN
  IF inner.used = DOMAIN list THEN [inner EXCEPT !.used = st.used] ELSE Rejected(st)

\* A leg to another variable: what is asked of that one, asked at the end of it.
Folded(step, preds) ==
  CASE preds = <<>> -> Exists_(<<step>>)
    [] preds # <<>> /\ Len(preds) = 1 /\ IsTest(preds[1]) -> [preds[1] EXCEPT !.path = <<step>> \o @]
    [] OTHER -> [op |-> "some", path |-> <<step>>, preds |-> <<AndOf(preds)>>]
HopPred(st, list, a, reverse, target) ==
  LET inner == PredsOn([st EXCEPT !.reached = @ \cup {target}], list, target) IN
  IF target \in st.reached \/ ~inner.ok THEN Rejected(st)
  ELSE Add([inner EXCEPT !.preds = st.preds], Folded(Leg(a, reverse), inner.preds))

FactPred(st, list, c, n) ==
  CASE c.a = AnyAttr \/ c.tx # Hole -> Rejected(st)
    [] c.a # AnyAttr /\ c.tx = Hole /\ IsVar(c.e, n) ->
         CASE c.v.is = "var" -> HopPred(st, list, c.a, FALSE, c.v.n)
           [] c.v = Hole -> Add(st, Exists_(<<Leg(c.a, FALSE)>>))
           [] OTHER -> Add(st, Test(<<Leg(c.a, FALSE)>>, "=", c.v))
    [] c.a \notin {AnyAttr, IdAttr} /\ c.tx = Hole /\ ~IsVar(c.e, n) /\ IsVar(c.v, n) /\ Attr[c.a].ref ->
         CASE c.e.is = "var" -> HopPred(st, list, c.a, TRUE, c.e.n)
           [] c.e = Hole -> Add(st, Exists_(<<Leg(c.a, TRUE)>>))
           [] OTHER -> Add(st, Test(<<Leg(c.a, TRUE), Leg(IdAttr, FALSE)>>, "=", c.e))
    [] OTHER -> Rejected(st)

CmpPred(st, c, n) ==
  LET first == IsVar(c.args[1], n)
      other == IF first THEN c.args[2] ELSE c.args[1]
  IN  CASE c.op = "in" -> Add(st, Test(<<>>, "in", c.list))
        [] c.op # "in" /\ other.is \in {"var", "agg"} -> Rejected(st)
        [] OTHER -> Add(st, Test(<<>>, IF first THEN c.op ELSE Flip(c.op), other))

BranchPreds(st, branches, n) ==
  LET Branch(s, b) ==
        LET inner == PredsOfList(s, b, n) IN
        IF s.ok /\ inner.ok THEN [inner EXCEPT !.preds = Append(s.preds, AndOf(inner.preds))] ELSE Rejected(s)
  IN  FoldLeft(Branch, [st EXCEPT !.preds = <<>>], branches)
ClausePred(st, list, i, n) ==
  LET c == list[i]
      Grouping(op, inner) == IF inner.ok THEN Add([inner EXCEPT !.preds = st.preds], [op |-> op, preds |-> inner.preds]) ELSE Rejected(st)
  IN  CASE c.is = "fact" -> FactPred(st, list, c, n)
        [] c.is = "cmp" -> CmpPred(st, c, n)
        [] c.is \in {"or", "not"} -> Grouping(c.is, BranchPreds(st, c.branches, n))
        [] OTHER -> Rejected(st)

LowerElemFilter(frags, a) ==
  LET elem == Minted(a, 1)
      clauses == ContributeAll(frags, elem, 2).clauses
  IN  PredsOfList([ok |-> TRUE, used |-> {}, reached |-> {1}, preds |-> <<>>], clauses, 1)
\* A backlink's elements are entities whatever its attribute; so are a reference's.
FilterOf(f) == LowerElemFilter(f.where, f.a)

(***************************************************************************)
(* What a shape may be, and what it lowers to.                             *)
(***************************************************************************)
\* A path to one value, as sort keys need.
ManyStep(step) == step.attr # IdAttr /\ IF step.reverse THEN ~Attr[step.attr].component ELSE Attr[step.attr].many
IsKey(path) == \A i \in DOMAIN path : ~ManyStep(path[i])

\* What a collection is asked for: a filter that lowers, keys for entities.
OptsFit(f) == FilterOf(f).ok /\ (f.order # <<>> => Attr[f.a].ref) /\ \A i \in DOMAIN f.order : IsKey(f.order[i].path)
\* Entering the shape again: a reference, bounded where it may branch.
AgainFits(f) == Attr[f.a].ref /\ f.hops \in 1..16 /\ (IsMany(f) => f.limit # Null)
\* The tree's ends are ids.
EndsFit(shape) == (\E i \in DOMAIN shape : IsAgain(shape[i])) => \E i \in DOMAIN shape : IsId(shape[i])

RECURSIVE ShapeFits(_)
FieldFits(f) ==
  /\ HasOpts(f) => IsMany(f) /\ OptsFit(f)
  /\ IsAgain(f) => AgainFits(f)
  /\ IsNested(f) => Attr[f.a].ref
  /\ f.reverse => IsNested(f)
ShapeFits(shape) ==
  /\ shape # <<>> /\ EndsFit(shape)
  /\ \A i \in DOMAIN shape : IsId(shape[i]) \/ FieldFits(shape[i])
  /\ \A i \in DOMAIN shape : shape[i].sub # <<>> => ShapeFits(shape[i].sub)

\* bindElemPred: a parameter is its value.
RECURSIVE BindElemPred(_, _)
BindElemPred(p, binds) ==
  CASE ~IsTest(p) -> [p EXCEPT !.preds = [i \in DOMAIN @ |-> BindElemPred(@[i], binds)]]
    [] IsTest(p) /\ p.op \in {"in", "exists"} -> p
    [] OTHER -> [p EXCEPT !.v = IF @.is = "param" THEN binds[@.key] ELSE @.v]

\* lowerPullPattern, with its parameters bound.
RECURSIVE LowerPattern(_, _)
LowerPattern(shape, binds) ==
  LET Bound_(preds) == [j \in DOMAIN preds |-> BindElemPred(preds[j], binds)]
      Spec(f) ==
        [Attribute(f.a) EXCEPT !.reverse = f.reverse, !.hops = f.hops, !.limit = f.limit, !.offset = f.offset,
                               !.order = f.order, !.where = Bound_(FilterOf(f).preds), !.sub = LowerPattern(f.sub, binds),
                               !.default = f.default]
  IN  [i \in DOMAIN shape |-> IF IsId(shape[i]) THEN [is |-> "id"] ELSE Spec(shape[i])]

(***************************************************************************)
(* requiredClauses: the rows a shape can be read from.  A field the row    *)
(* can do without asks nothing.  e is a variable's wire name, and the      *)
(* result [clauses, fresh].                                                *)
(***************************************************************************)
RECURSIVE RequiredClauses(_, _, _)
\* Mutant: only a field of the entity itself is required, not one below it.
RequiredHere(e, shape, fresh) ==
  [clauses |-> FlattenSeq([i \in DOMAIN shape |->
      IF shape[i].wrap = "required" /\ ~IsMany(shape[i]) /\ ~IsId(shape[i]) /\ ~shape[i].reverse
      THEN <<Pattern(Var(e), Const(shape[i].a), Blank, Blank, Blank)>> ELSE <<>>]),
   fresh |-> fresh]
RequiredClauses(e, shape, fresh) ==
  LET Link(f, x, v) == IF f.reverse THEN Pattern(Var(x), Const(f.a), Var(e), Blank, Blank)
                       ELSE Pattern(Var(e), Const(f.a), v, Blank, Blank)
      Beneath(acc, f, sub) ==
        [clauses |-> acc.clauses \o <<Link(f, acc.fresh, IF sub.clauses = <<>> THEN Blank ELSE Var(acc.fresh))>> \o sub.clauses,
         fresh |-> sub.fresh]
      Next_(acc, f) ==
        IF f.wrap # "required" \/ IsMany(f) \/ IsId(f) THEN acc
        ELSE Beneath(acc, f, IF f.sub = <<>> THEN [clauses |-> <<>>, fresh |-> acc.fresh + 1]
                             ELSE RequiredClauses(acc.fresh, f.sub, acc.fresh + 1))
  IN  FoldLeft(Next_, [clauses |-> <<>>, fresh |-> fresh], shape)

(***************************************************************************)
(* filterPull: a pulled entity read as its shape, or dropped for a field   *)
(* it cannot do without.  A bare id of an element is an end of the tree.   *)
(***************************************************************************)
NoCell == [is |-> "none"]
IdCell(e) == [is |-> "id", e |-> e]
ValueCell(v) == [is |-> "value", v |-> v]
RowCell(cells) == [is |-> "row", of |-> cells]
ManyCell(cells) == [is |-> "many", of |-> cells]
Dropped == [is |-> "dropped"]

\* remapStub: the row of an id alone.
StubOf(shape, e) ==
  IF \E i \in DOMAIN shape : IsId(shape[i]) THEN [is |-> "stub", e |-> e] ELSE Dropped

RECURSIVE FilterPull(_, _), ReadField(_, _, _)
FilterPull(shape, node) ==
  LET Cells_(cells) == IF \E i \in DOMAIN cells : cells[i] = Dropped THEN Dropped ELSE RowCell(cells) IN
  CASE node.is = "id" -> StubOf(shape, node.e)
    [] node.is = "entity" -> Cells_([i \in DOMAIN shape |-> ReadField(shape, shape[i], node.at[i])])
    [] OTHER -> Dropped

\* One field of a row, of the pulled values it has.
PlainCell(node) == IF node.is = "id" THEN IdCell(node.e) ELSE ValueCell(node.v)
ReadField(shape, f, raw) ==
  LET child == IF IsAgain(f) THEN shape ELSE f.sub
      Optional(cell) == IF cell = Dropped /\ (f.wrap = "optional" \/ IsAgain(f)) THEN NoCell ELSE cell
      Kept(cells) == ManyCell(SelectSeq(cells, LAMBDA c : c # Dropped))
  IN  CASE IsMany(f) /\ raw = <<>> -> IF f.wrap = "optional" THEN NoCell ELSE ManyCell(<<>>)
        [] IsMany(f) /\ raw # <<>> -> Kept([i \in DOMAIN raw |-> IF IsNested(f) THEN FilterPull(child, raw[i]) ELSE PlainCell(raw[i])])
        [] ~IsMany(f) /\ raw = <<>> -> IF f.wrap = "default" THEN ValueCell(f.default) ELSE Optional(Dropped)
        [] ~IsMany(f) /\ raw # <<>> -> IF IsNested(f) THEN Optional(FilterPull(child, raw[1])) ELSE PlainCell(raw[1])

\* reshapePullResult: null where nothing is left.
Reshape(shape, node) ==
  LET row == FilterPull(shape, node) IN IF node = Nothing \/ row = Dropped THEN NoCell ELSE row
=============================================================================
