------------------------------ MODULE Builder ------------------------------
(***************************************************************************)
(* Query values (db/query/query.ts): what a pipeline or a body assembles,  *)
(* how a query value is opened by another one, its lowering to the peer's  *)
(* query, how the peer's tuples are read back as rows, and a program that  *)
(* extends such a value and turns its pages.                               *)
(*                                                                         *)
(* A query value is [body, strip, take, seek].  A body is a pipeline       *)
(* [is: "pipe", ns, stages] or one that opens another query value:         *)
(* [is: "refine", of, frag], [is: "enrich", of, over, fn] or               *)
(* [is: "summary", of, by, over, fn, keep], where over and by are       *)
(* fragments one after the other.  A cursor is [is: "none" | "at" | "over",*)
(* keys], without keys before the first page.  A projection is             *)
(* [is: "ids", v], [is: "pull", focus, shape] or [is: "rows", cells].      *)
(***************************************************************************)
EXTENDS Shapes, Forms

CONSTANTS
  Declared,   \* the head of the queries: parameter -> whether it is optional
  Databases,  \* the database values queries are asked of
  Namespace,  \* the namespace the pipeline starts from
  Menus,      \* by place, the lists of stages a pipeline may have there
  Refinements, Enrichments, Summaries,   \* what may be made of a query value
  BindSets,   \* what callers bind
  MaxWraps,   \* bound: how often a query value is extended; one and logic come before
  MaxPages    \* bound: pages turned

ASSUME BuilderAssumption == MaxWraps \in Nat /\ MaxPages \in Nat

CursorAt(is, keys) == [is |-> is, keys |-> keys]
NoSeek == CursorAt("none", <<>>)
FirstPage == CursorAt("at", <<>>)
Value_(body) == [body |-> body, strip |-> FALSE, take |-> "none", seek |-> NoSeek]
Pipe(ns, stages) == [is |-> "pipe", ns |-> ns, stages |-> stages]
Stage(frag) == [kind |-> "frag", frag |-> frag]
SelectOf(shape) == [kind |-> "select", shape |-> shape]
\* A sort key is a selected column's place, or a path.
OrderBy(path, desc, emptyFirst) == [kind |-> "orderBy", col |-> Null, path |-> path, desc |-> desc, emptyFirst |-> emptyFirst]
OrderByColumn(i) == [OrderBy(<<>>, FALSE, FALSE) EXCEPT !.col = i]
LimitOf(n) == [kind |-> "limit", n |-> n]
OffsetOf(n) == [kind |-> "offset", n |-> n]

IdsOf(v) == [is |-> "ids", v |-> v]
PullOf(focus, shape) == [is |-> "pull", focus |-> focus, shape |-> shape]
RowsOf(cells) == [is |-> "rows", cells |-> cells]

(***************************************************************************)
(* Assembling.  What was built is [ok, clauses, proj, focus, order, limit, *)
(* offset, n]; focus is Hole where there is none to hand back.             *)
(***************************************************************************)
Built(clauses, proj, focus, n) ==
  [ok |-> TRUE, clauses |-> clauses, proj |-> proj, focus |-> focus, order |-> <<>>, limit |-> Hole, offset |-> Hole, n |-> n]
Fail(b) == [b EXCEPT !.ok = FALSE]

\* resolveOrderKey: a path of attributes that have one value.
KeyPath(st, proj) == IF st.col = Null THEN st.path ELSE <<[attr |-> proj.shape[st.col].a, reverse |-> FALSE]>>
KeyFits(st, proj) ==
  /\ st.col # Null => proj.is = "pull" /\ st.col \in DOMAIN proj.shape
                      /\ proj.shape[st.col] = Field(proj.shape[st.col].a)
  /\ IsKey(KeyPath(st, proj))

\* One stage of assemblePipeline: nothing filters after the selection.
Assemble(b, st) ==
  LET Ran(r) == [b EXCEPT !.clauses = @ \o r.clauses, !.focus = r.focus, !.proj = IdsOf(r.focus), !.n = r.n]
      key == [path |-> KeyPath(st, b.proj), desc |-> st.desc, emptyFirst |-> st.emptyFirst]
  IN  CASE ~b.ok -> b
        [] b.ok /\ st.kind = "frag" ->
             IF b.proj.is = "pull" THEN Fail(b) ELSE Ran(Contribute(st.frag, b.focus, b.n))
        [] b.ok /\ st.kind = "select" -> [b EXCEPT !.proj = PullOf(b.focus, st.shape)]
        [] b.ok /\ st.kind = "orderBy" -> IF KeyFits(st, b.proj) THEN [b EXCEPT !.order = Append(@, key)] ELSE Fail(b)
        [] b.ok /\ st.kind = "limit" -> [b EXCEPT !.limit = st.n]
        [] b.ok /\ st.kind = "offset" -> [b EXCEPT !.offset = st.n]
AssemblePipeline(pipe, strip, n) ==
  LET root == V(n, "entity")
      all == FoldLeft(Assemble, Built(<<Member(pipe.ns, root)>>, IdsOf(root), root, n + 1), pipe.stages)
  IN  IF strip THEN [all EXCEPT !.order = <<>>, !.limit = Hole, !.offset = Hole] ELSE all

RECURSIVE Build(_, _), Open(_, _)

\* openCommand: a query with a cursor, or with several roots, is not opened;
\* ids are opened as a record.
Cursored(qv, b) == b.order # <<>> \/ b.limit # Hole \/ b.offset # Hole \/ qv.take # "none" \/ qv.seek # NoSeek
Opened(qv, b) ==
  [b EXCEPT !.ok = @ /\ ~Cursored(qv, b) /\ b.focus # Hole, !.proj = IF @.is = "ids" THEN RowsOf(<<@.v>>) ELSE @]
Open(qv, n) == Opened(qv, Build(qv, n))

\* Q.row: the extra cells come first beside a pulled row.
WithCells(proj, extra) == IF proj.is = "pull" THEN RowsOf(extra \o <<proj>>) ELSE RowsOf(proj.cells \o extra)
CellOf(fn, v) == IF fn = "none" THEN v ELSE AggCell(fn, v)

Refined(o, r) == [Built(o.clauses \o r.clauses, o.proj, IF o.proj.is = "pull" THEN o.proj.focus ELSE Hole, r.n) EXCEPT !.ok = o.ok]
Enriched(o, r, fn) ==
  [Built(o.clauses \o r.clauses, WithCells(o.proj, <<CellOf(fn, r.focus)>>), Hole, r.n) EXCEPT !.ok = o.ok]
Summed(o, k, x, body) ==
  LET cell == AggCell(body.fn, x.focus)
      having == [i \in DOMAIN body.keep |-> Cmp(body.keep[i].op, <<cell, body.keep[i].v>>)]
  IN  [Built(o.clauses \o k.clauses \o x.clauses \o having, RowsOf((IF body.by = <<>> THEN <<>> ELSE <<k.focus>>) \o <<cell>>), Hole, x.n)
         EXCEPT !.ok = o.ok]

\* runInto.
Build(qv, n) ==
  LET body == qv.body
      Summary(o, k) == Summed(o, k, Thread(body.over, o.focus, k.n), body)
      Wrapped(o) ==
        CASE ~o.ok -> o
          [] o.ok /\ body.is = "refine" -> Refined(o, Contribute(body.frag, o.focus, o.n))
          [] o.ok /\ body.is = "enrich" -> Enriched(o, Thread(body.over, o.focus, o.n), body.fn)
          [] o.ok /\ body.is = "summary" -> Summary(o, Thread(body.by, o.focus, o.n))
  IN  IF body.is = "pipe" THEN AssemblePipeline(body, qv.strip, n) ELSE Wrapped(Open(body.of, n))

(***************************************************************************)
(* Lowering a query value: [ok, q, proj, limit], q the peer's query.       *)
(***************************************************************************)
CellsOf(proj) == CASE proj.is = "ids" -> <<proj.v>> [] proj.is = "pull" -> <<proj>> [] proj.is = "rows" -> proj.cells
VarOf(cell) == CASE cell.is = "var" -> cell [] cell.is = "agg" -> cell.v [] cell.is = "pull" -> cell.focus
PulledOf(cells) == SelectSeq(cells, LAMBDA c : c.is = "pull")
IsAgg(cell) == cell.is = "agg"

\* An aggregate over values counts the entities that have them.
\* Mutant: equal values of two entities are one.
WithNone(cells, clauses) == {}
WithVars(cells, clauses) ==
  LET shown == {VarOf(cells[i]).n : i \in DOMAIN cells}
      values == {c.v.n : c \in {x \in Range(cells) : IsAgg(x) /\ x.v.kind \notin {"entity", "tx"}}}
      binding == {c \in Range(clauses) : c.is = "fact" /\ Numbers({c.v, c.tx}) \cap values # {} /\ c.e.is = "var"}
  IN  {c.e.n : c \in binding} \ shown

\* :having compares an aggregate cell of the row with a value.
AggPlaces(cells, c) == {i \in DOMAIN cells : cells[i] = c.args[1]}
OfTime(cell) == IsAgg(cell) /\ cell.v.kind = "t" /\ cell.fn = "max"
HavingOf(binds, cells, c) ==
  LET x == IF c.args[2].is = "param" THEN binds[c.args[2].key] ELSE c.args[2].v IN
  [fn |-> c.op, col |-> CHOOSE i \in AggPlaces(cells, c) : TRUE, v |-> IF OfTime(c.args[1]) THEN TxEid(x) ELSE x]
HavingFits(binds, cells, having) ==
  /\ having # <<>> => PulledOf(cells) = <<>>
  /\ \A i \in DOMAIN having : AggPlaces(cells, having[i]) # {} /\ ~Unbound(binds, Range(having[i].args))

\* lowerOrderPath: the value at the end of a path, or Null where there is none.
LowerOrderPath(e, path, fresh) ==
  LET From(i) == IF i = 1 THEN e ELSE fresh + i - 1
      Hop_(i, to) == IF path[i].reverse THEN Pattern(to, Const(path[i].attr), Var(From(i)), Blank, Blank)
                     ELSE Pattern(Var(From(i)), Const(path[i].attr), to, Blank, Blank)
      Hops(to) == [i \in DOMAIN path |-> Hop_(i, IF i = Len(path) THEN to ELSE Var(From(i + 1)))]
      absent == <<Not(Unscoped, Hops(Blank)), Fn("ground", <<Const(Null)>>, FALSE, <<<<fresh, 0>>>>)>>
      value == Or(JoinOn({<<e, 0>>, <<fresh, 0>>}), <<Hops(Var(fresh)), absent>>)
  IN  IF path = <<[attr |-> IdAttr, reverse |-> FALSE]>> THEN [name |-> e, fresh |-> fresh, clauses |-> <<>>]
      ELSE [name |-> fresh, fresh |-> fresh + Len(path), clauses |-> <<value>>]

\* The sort keys, and the clauses that bind them: [order, clauses, fresh].
KeyOf(o, name) == [name |-> <<name, 0>>, desc |-> o.desc, emptyFirst |-> o.emptyFirst]
Added(acc, o, low) == [order |-> Append(acc.order, KeyOf(o, low.name)), clauses |-> acc.clauses \o low.clauses, fresh |-> low.fresh]
OrderOf(order, e, fresh) ==
  FoldLeft(LAMBDA acc, o : Added(acc, o, LowerOrderPath(e, o.path, acc.fresh)),
           [order |-> <<>>, clauses |-> <<>>, fresh |-> fresh], order)
\* A page's rows are in a total order: the entity decides last.
\* Mutant: equal keys are equal.
KeysOnly(order, e) == order
PageOrder(order, e) ==
  IF \E i \in DOMAIN order : order[i].name = <<e, 0>> THEN order ELSE Append(order, Asc(e))

\* A query without its cursor has no take and no seek either, whatever it is told.
Effective(qv) == IF qv.strip THEN [qv EXCEPT !.take = "none", !.seek = NoSeek] ELSE qv
\* boundCount, and what one and oneOrFail ask for.
Count(binds, p) == CASE p = Hole -> Null [] p.is = "param" -> binds[p.key] [] p.is = "const" -> p.v
CountFits(binds, p) == p = Hole \/ (~Unbound(binds, {p}) /\ Count(binds, p) >= 0)
LimitWith(qv, binds, p) == CASE qv.take = "one" -> 1 [] qv.take = "oneOrFail" -> 2 [] OTHER -> Count(binds, p)

Requires(cells, st) ==
  FoldLeft(LAMBDA acc, p : LET r == RequiredClauses(st.names[p.focus.n], p.shape, acc.fresh)
                           IN [clauses |-> acc.clauses \o r.clauses, fresh |-> r.fresh],
           [clauses |-> <<>>, fresh |-> st.fresh], PulledOf(cells))
FindOf(st, cell) ==
  IF IsAgg(cell) THEN Agg(cell.fn, st.names[cell.v.n]) ELSE FindVar(st.names[VarOf(cell).n])

\* The peer's query, of what was lowered.
WireQuery(qv, b, st, binds, clauses, having) ==
  LET cells == CellsOf(b.proj)
      root == IF b.focus = Hole THEN Null ELSE st.names[b.focus.n]
      required == Requires(cells, st)
      paged == qv.seek # NoSeek
      Of(o, order) ==
        [Query([i \in DOMAIN cells |-> FindOf(st, cells[i])] \o (IF paged THEN [i \in DOMAIN order |-> FindVar(order[i].name[1])] ELSE <<>>),
               st.out \o required.clauses \o o.clauses)
           EXCEPT !.with = {<<st.names[n], 0>> : n \in WithVars(cells, clauses)}, !.rules = st.defs, !.order = order,
                  !.after = qv.seek.keys,
                  !.having = [i \in DOMAIN having |-> HavingOf(binds, cells, having[i])],
                  !.offset = IF b.offset = Hole THEN 0 ELSE Count(binds, b.offset), !.limit = LimitWith(qv, binds, b.limit)]
      Ordering(o) == Of(o, IF paged THEN PageOrder(o.order, root) ELSE o.order)
  IN  Ordering(OrderOf(b.order, root, required.fresh))

NoQuery == [ok |-> FALSE, q |-> Query(<<>>, <<>>), proj |-> RowsOf(<<>>)]
LowerQuery(value, declared, binds) ==
  LET qv == Effective(value)
      With_(b, clauses) ==
        LET cells == CellsOf(b.proj)
            having == SelectSeq(clauses, LAMBDA c : c.is = "cmp" /\ \E i \in DOMAIN c.args : IsAgg(c.args[i]))
            rowClauses == SelectSeq(clauses, LAMBDA c : ~(c.is = "cmp" /\ \E i \in DOMAIN c.args : IsAgg(c.args[i])))
            shown == {VarOf(cells[i]).n : i \in DOMAIN cells}
            st == LowerClauses(NameAll(Blankslate, shown), binds, rowClauses, shown)
            fits == /\ st.ok /\ HavingFits(binds, cells, having)
                    /\ qv.take # "none" \/ CountFits(binds, b.limit)
                    /\ CountFits(binds, b.offset)
                    /\ \A p \in Range(PulledOf(cells)) : ShapeFits(p.shape)
                    /\ b.order # <<>> => b.focus # Hole
                    /\ qv.seek # NoSeek => b.offset = Hole /\ b.order # <<>>
            Fitting(q) == [ok |-> Len(qv.seek.keys) \in {0, Len(q.order)}, q |-> q, proj |-> b.proj]
        IN  IF fits THEN Fitting(WireQuery(qv, b, st, binds, clauses, having)) ELSE NoQuery
      Resolved(b) == IF b.ok THEN With_(b, ResolveWhens(b.clauses, declared, binds)) ELSE NoQuery
  IN  IF BindsFit(declared, binds) THEN Resolved(Build(qv, 1)) ELSE NoQuery

(***************************************************************************)
(* Reading the peer's tuples back.                                         *)
(***************************************************************************)
\* readVar, and an aggregate's cell.
ReadCell(view, binds, cell, x) ==
  CASE cell.is = "pull" -> Reshape(cell.shape, Pull(view, x, LowerPattern(cell.shape, binds)))
    [] cell.is = "agg" -> ValueCell(IF OfTime(cell) /\ x # Null THEN x - TxBase ELSE x)
    [] cell.is = "var" /\ cell.kind \in {"entity", "tx"} -> IdCell(x)
    [] cell.is = "var" /\ cell.kind = "t" -> ValueCell(x - TxBase)
    [] cell.is = "var" /\ cell.kind = "value" -> ValueCell(x)

\* Aggregates alone answer one row, over nothing too.
EmptyAgg(fn) == IF fn = "max" THEN Null ELSE 0
EmptyRow(low, cells) ==
  LET row == [i \in DOMAIN cells |-> EmptyAgg(cells[i].fn)] IN
  IF cells # <<>> /\ (\A i \in DOMAIN cells : IsAgg(cells[i]))
     /\ (\A h \in Range(low.q.having) : Compares(h.fn, row[h.col], h.v))
  THEN <<row>> ELSE <<>>

\* finalize: [ok, tuples, rows, cursor, missed]; missed is set when oneOrFail
\* does not find one row.
PageCursor(low, tuples, cells) ==
  IF tuples = <<>> \/ (low.q.limit # Null /\ Len(tuples) < low.q.limit) THEN CursorAt("over", <<>>)
  ELSE CursorAt("at", SubSeq(Last(tuples), Len(cells) + 1, Len(Last(tuples))))
Finalize(view, qv, binds, low, tuples) ==
  LET cells == CellsOf(low.proj)
      Row(t) == [i \in DOMAIN cells |-> ReadCell(view, binds, cells[i], t[i])]
      Of(kept) ==
        [ok |-> TRUE, tuples |-> kept, rows |-> [k \in DOMAIN kept |-> Row(kept[k])],
         cursor |-> IF qv.seek = NoSeek THEN NoSeek ELSE PageCursor(low, tuples, cells),
         missed |-> qv.take = "oneOrFail" /\ Len(kept) # 1]
  IN  Of(IF tuples = <<>> /\ low.proj.is = "rows" THEN EmptyRow(low, cells)
         ELSE IF qv.take = "one" /\ tuples # <<>> THEN <<Head(tuples)>> ELSE tuples)

NoAnswer == [ok |-> FALSE, tuples |-> <<>>, rows |-> <<>>, cursor |-> NoSeek, missed |-> FALSE]
Answered(view, qv, binds, low, answer) == IF answer.ok THEN Finalize(view, qv, binds, low, answer.tuples) ELSE NoAnswer
Asked(view, qv, binds, low) == IF low.ok THEN Answered(view, qv, binds, low, Answer(view, view, QueryForm(low.q))) ELSE NoAnswer
Ask(view, qv, binds) == Asked(view, Effective(qv), binds, LowerQuery(qv, Declared, binds))

(***************************************************************************)
(* A program that makes a query value and reads it.  place says how far    *)
(* the pipeline is, wraps how often the value was extended; shown holds    *)
(* the tuples of the pages turned with the parameters bound.               *)
(***************************************************************************)
VARIABLES world, value, place, wraps, bound, pages, shown
vars == <<world, value, place, wraps, bound, pages, shown>>

View == Plain(Databases[world])
Unasked == -1

Init ==
  /\ world \in DOMAIN Databases
  /\ value = Value_(Pipe(Namespace, <<>>))
  /\ place = 1
  /\ wraps = 0
  /\ bound = <<>>
  /\ pages = Unasked
  /\ shown = <<>>

Complete == place > Len(Menus)
Become(qv) == value' = qv /\ UNCHANGED <<world, place, bound, pages, shown>>

\* pipe: some stages more, or none of this place's.
AddStages ==
  /\ ~Complete
  /\ \E stages \in Menus[place] : value' = [value EXCEPT !.body.stages = @ \o stages]
  /\ place' = place + 1
  /\ UNCHANGED <<world, wraps, bound, pages, shown>>
SkipStages == ~Complete /\ place' = place + 1 /\ UNCHANGED <<world, value, wraps, bound, pages, shown>>

\* The values q.one(), q.oneOrFail(), q.logic(), refine and enrich make.
May == Complete /\ pages = Unasked
Take(take) == May /\ wraps = 0 /\ value.seek = NoSeek /\ value.take = "none" /\ Become([value EXCEPT !.take = take]) /\ UNCHANGED wraps
One == Take("one")
OneOrFail == Take("oneOrFail")
Logic == May /\ wraps = 0 /\ ~value.strip /\ Become([Value_(value.body) EXCEPT !.strip = TRUE]) /\ UNCHANGED wraps
Wrap(body) == May /\ wraps < MaxWraps /\ wraps' = wraps + 1 /\ Become(Value_(body))
Refine == \E f \in Refinements : Wrap([is |-> "refine", of |-> value, frag |-> f])
Enrich == \E x \in Enrichments : Wrap([is |-> "enrich", of |-> value, over |-> x.over, fn |-> x.fn])
Summarise ==
  \E x \in Summaries : Wrap([is |-> "summary", of |-> value, by |-> x.by, over |-> x.over, fn |-> x.fn, keep |-> x.keep])

\* q.after(null), and the next page while there is one.
After ==
  /\ May /\ value.take = "none" /\ value.seek = NoSeek
  /\ value' = [value EXCEPT !.seek = FirstPage]
  /\ pages' = 0
  /\ UNCHANGED <<world, place, wraps, bound, shown>>
Turned(answer) ==
  /\ answer.ok /\ answer.cursor # NoSeek
  /\ value' = [value EXCEPT !.seek = answer.cursor]
  /\ shown' = shown \o answer.tuples
TurnPage ==
  /\ pages \in 0..(MaxPages - 1) /\ value.seek.is = "at"
  /\ bound' \in IF pages = 0 THEN BindSets ELSE {bound}
  /\ \E answer \in {Ask(View, value, bound')} : Turned(answer)
  /\ pages' = pages + 1
  /\ UNCHANGED <<world, place, wraps>>

Next == AddStages \/ SkipStages \/ One \/ OneOrFail \/ Logic \/ Refine \/ Enrich \/ Summarise \/ After \/ TurnPage
Spec == Init /\ [][Next]_vars
=============================================================================
