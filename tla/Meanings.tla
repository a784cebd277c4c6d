------------------------------ MODULE Meanings ------------------------------
(***************************************************************************)
(* What the query values of Builder say, read from the facts themselves:   *)
(* no variables, no clauses, no plan, no pages.                            *)
(***************************************************************************)
EXTENDS Builder

CONSTANTS
  Worlds,   \* the facts of each database
  Meant     \* rule -> the tuples it holds of, by database

Facts == Range(Worlds[world])
ValuesOf(e, a) == {d.v : d \in {x \in Facts : x.e = e /\ x.a = a}}
SubjectsOf(a, v) == {d.e : d \in {x \in Facts : x.a = a /\ x.v = v}}
TimesOf(e) == {d.t : d \in {x \in Facts : x.e = e}}
Says(p, binds) == IF p.is = "param" THEN binds[p.key] ELSE p.v

(***************************************************************************)
(* A fragment moves an entity to others; a filter keeps it or not.         *)
(***************************************************************************)
RECURSIVE Moves(_, _, _)
Holds(frags, e, binds) == \A f \in Range(frags) : Moves(f, e, binds) # {}
Moves(f, e, binds) ==
  LET Kept(b) == IF b THEN {e} ELSE {}
      Args == [i \in DOMAIN f.args |-> Says(f.args[i], binds)]
      About == {t \in Meant[f.rule][world] : SubSeq(t, 1, Len(f.args) + 1) = <<e>> \o Args}
      Linked(h) == SubjectsOf(h.a, e)
  IN  CASE f.frag = "is" -> Kept(IF f.a = IdAttr THEN Says(f.v, binds) = e ELSE Says(f.v, binds) \in ValuesOf(e, f.a))
        [] f.frag = "has" -> Kept(ValuesOf(e, f.a) # {})
        [] f.frag = "missing" -> Kept(ValuesOf(e, f.a) = {})
        [] f.frag = "where" -> Kept(\E x \in ValuesOf(e, f.a) : Compares(f.op, x, Says(f.v, binds)))
        [] f.frag = "whereFlip" -> Kept(\E x \in ValuesOf(e, f.a) : Compares(f.op, Says(f.v, binds), x))
        [] f.frag = "whereIn" -> Kept(ValuesOf(e, f.a) \cap Range(f.list) # {})
        [] f.frag = "follow" -> ValuesOf(e, f.a)
        [] f.frag = "backlink" -> Linked(f)
        [] f.frag = "some" -> Kept(\E x \in Linked(f) : Holds(f.of, x, binds))
        [] f.frag = "none" -> Kept(~\E x \in Linked(f) : Holds(f.of, x, binds))
        [] f.frag = "every" -> Kept(\A x \in Linked(f) : Holds(f.of, x, binds))
        [] f.frag = "not" -> Kept(~Holds(f.of, e, binds))
        [] f.frag = "when" -> Kept(GateOn(Declared, binds, f.gate) => Holds(f.of, e, binds))
        [] f.frag = "either" -> Kept(\E i \in DOMAIN f.of : Holds(f.of[i], e, binds))
        [] f.frag = "updatedSince" -> Kept(\E t \in TimesOf(e) : t >= Says(f.v, binds))
        [] f.frag = "assertedBy" -> Kept(\E t \in TimesOf(e) : Says(f.v, binds) \in ValuesOf(TxEid(t), f.a))
        [] f.frag = "touched" -> TimesOf(e)
        [] f.frag = "compares" -> Kept(Compares(f.op, e, Says(f.v, binds)))
        [] f.frag = "rule" -> IF RuleOf[f.rule].ret = 0 THEN Kept(About # {}) ELSE {Last(t) : t \in About}
        [] f.frag = "others" -> UNION {SubjectsOf(f.a, x) : x \in ValuesOf(e, f.a)} \ {e}

\* Where fragments one after the other end: <<the entity before, the end>>.
Ends(frags, e, binds) ==
  FoldLeft(LAMBDA S, f : UNION {{<<p[2], x>> : x \in Moves(f, p[2], binds)} : p \in S}, {<<e, e>>}, frags)

(***************************************************************************)
(* The rows of a shape.                                                    *)
(***************************************************************************)
\* The one value at the end of a path, or Null.
AtEnd(e, path) ==
  LET Reach(S, s) == UNION {IF s.attr = IdAttr THEN {x} ELSE IF s.reverse THEN SubjectsOf(s.attr, x) ELSE ValuesOf(x, s.attr) : x \in S}
      ends == FoldLeft(Reach, {e}, path)
  IN  IF ends = {} THEN Null ELSE CHOOSE x \in ends : TRUE
KeysAt(e, order) == [i \in DOMAIN order |-> AtEnd(e, order[i].path)]
Sooner(x, y, order) == CompareRows(KeysAt(x, order), KeysAt(y, order), order) < 0

\* What a field reaches, in the order the shape asks for.
Window(f, xs) == SubSeq(xs, f.offset + 1, IF f.limit = Null \/ f.offset + f.limit > Len(xs) THEN Len(xs) ELSE f.offset + f.limit)
Targets(f, e, binds) ==
  LET all == IF f.reverse THEN SubjectsOf(f.a, e) ELSE ValuesOf(e, f.a) IN
  Window(f, SetToSortSeq({x \in all : Holds(f.where, x, binds)}, LAMBDA x, y : Sooner(x, y, f.order) \/ (~Sooner(y, x, f.order) /\ x < y)))

\* above holds the entities the row is within, left how often the shape may still
\* be entered again, Null before it was.
RECURSIVE MeantRow(_, _, _, _, _)
MeantChild(shape, f, x, within, hops, binds) ==
  CASE IsAgain(f) /\ (x \in within \/ hops = 0) -> [is |-> "stub", e |-> x]
    [] IsAgain(f) /\ ~(x \in within \/ hops = 0) -> MeantRow(shape, x, within, hops - 1, binds)
    [] ~IsAgain(f) /\ IsNested(f) -> MeantRow(f.sub, x, within, Null, binds)
    [] ~IsNested(f) -> IF Attr[f.a].ref THEN IdCell(x) ELSE ValueCell(x)
\* A field's cell, of what its targets are read as.
MeantField(f, children) ==
  LET one == IF children = <<>> THEN Dropped ELSE children[1] IN
  CASE IsMany(f) -> ManyCell(SelectSeq(children, LAMBDA c : c # Dropped))
    [] ~IsMany(f) /\ children = <<>> /\ f.wrap = "default" -> ValueCell(f.default)
    [] OTHER -> IF one = Dropped /\ (f.wrap = "optional" \/ IsAgain(f)) THEN NoCell ELSE one
MeantCells(cells) == IF \E i \in DOMAIN cells : cells[i] = Dropped THEN Dropped ELSE RowCell(cells)
MeantRow(shape, e, above, left, binds) ==
  LET Children(f, xs) ==
        [i \in DOMAIN xs |-> MeantChild(shape, f, xs[i], above \cup {e}, IF left = Null THEN f.hops ELSE left, binds)]
      Cell(f) == IF IsId(f) THEN IdCell(e) ELSE MeantField(f, Children(f, Targets(f, e, binds)))
  IN  MeantCells([i \in DOMAIN shape |-> Cell(shape[i])])
RowOf(shape, e, binds) == MeantRow(shape, e, {}, Null, binds)

(***************************************************************************)
(* The entities a query value is about, before its pages.                  *)
(***************************************************************************)
StagesOf(pipe, kind) == SelectSeq(pipe.stages, LAMBDA s : s.kind = kind)
FragsOf(pipe) == [i \in DOMAIN StagesOf(pipe, "frag") |-> StagesOf(pipe, "frag")[i].frag]
MembersOf(ns) == {d.e : d \in {x \in Facts : NsOf[x.a] = ns}}
LastOf(pipe, kind) == LET all == StagesOf(pipe, kind) IN IF all = <<>> THEN Hole ELSE Last(all).n

\* The shape rows are read as, <<>> for bare ids.
RECURSIVE ShapeOf(_)
ShapeOf(body) ==
  IF body.is # "pipe" THEN ShapeOf(body.of.body)
  ELSE IF StagesOf(body, "select") = <<>> THEN <<>> ELSE Last(StagesOf(body, "select")).shape
Readable(body, e, binds) == ShapeOf(body) = <<>> \/ RowOf(ShapeOf(body), e, binds) # Dropped

RECURSIVE Foci(_, _)
Foci(body, binds) ==
  IF body.is = "pipe" THEN UNION {{p[2] : p \in Ends(FragsOf(body), r, binds)} : r \in MembersOf(body.ns)}
  ELSE {e \in Foci(body.of.body, binds) : body.is = "refine" => Moves(body.frag, e, binds) # {}}
About(body, binds) == {e \in Foci(body, binds) : Readable(body, e, binds)}

\* The sort keys of a pipeline, a column's path being its attribute.
KeysOf(body) ==
  LET Path(s) == IF s.col = Null THEN s.path ELSE <<[attr |-> ShapeOf(body)[s.col].a, reverse |-> FALSE]>> IN
  [i \in DOMAIN StagesOf(body, "orderBy") |->
    [path |-> Path(StagesOf(body, "orderBy")[i]), desc |-> StagesOf(body, "orderBy")[i].desc,
     emptyFirst |-> StagesOf(body, "orderBy")[i].emptyFirst]]

\* es is a page of S: n of it, or what there is, from an offset on, in the order
\* of the keys.  Equal keys come as they may.
IsPageOf(es, S, keys, offset, n) ==
  LET left == Cardinality(S) - offset
      most == IF left < 0 THEN 0 ELSE left
  IN  /\ Range(es) \subseteq S
      /\ Len(es) = Cardinality(Range(es))
      /\ Len(es) = IF n = Null \/ n > most THEN most ELSE n
      /\ \A i \in DOMAIN es :
           /\ Cardinality({x \in S : Sooner(x, es[i], keys)}) < offset + i
           /\ Cardinality({x \in S : ~Sooner(es[i], x, keys)}) >= offset + i

(***************************************************************************)
(* What is read beside the entities, and summaries.  Values are counted    *)
(* once for each entity that has them, entities once.                      *)
(***************************************************************************)
EndsIn(frags, kind) ==
  LET f == Last(frags) IN
  CASE kind = "entity" -> f.frag \in {"backlink", "others"} \/ (f.frag = "follow" /\ Attr[f.a].ref)
    [] kind = "value" -> f.frag = "touched" \/ (f.frag = "follow" /\ ~Attr[f.a].ref)
EndCell(frags, x) == IF EndsIn(frags, "entity") THEN IdCell(x) ELSE ValueCell(x)
Counted(frags, S) == IF EndsIn(frags, "value") THEN S ELSE {<<p[2], p[2]>> : p \in S}
Total(fn, frags, S) ==
  LET xs == Counted(frags, S) IN
  CASE fn = "count" -> Cardinality(xs)
    [] fn = "sum" -> FoldSet(LAMBDA p, n : n + p[2], 0, xs)
    [] fn = "max" -> IF xs = {} THEN Null ELSE (CHOOSE p \in xs : \A r \in xs : r[2] <= p[2])[2]

\* Each row an enricher makes: what it adds to an entity's row.
AddedBy(body, ends) ==
  IF body.fn = "none" THEN {EndCell(body.over, p[2]) : p \in ends}
  ELSE IF ends = {} THEN {} ELSE {ValueCell(Total(body.fn, body.over, ends))}
EnrichedRows(body, binds) ==
  LET shape == ShapeOf(body)
      Row(e, row, cell) == IF shape = <<>> THEN <<IdCell(e), cell>> ELSE <<cell, row>>
      RowsFor(e, row) == IF row = Dropped THEN {} ELSE {Row(e, row, cell) : cell \in AddedBy(body, Ends(body.over, e, binds))}
  IN  UNION {RowsFor(e, IF shape = <<>> THEN NoCell ELSE RowOf(shape, e, binds)) : e \in Foci(body, binds)}

\* A summary's groups: by what an entity's key is, all the ends of the group's.
Passing(body, binds, n) == \A k \in Range(body.keep) : Compares(k.op, n, Says(k.v, binds))
EndsOf(frags, S, binds) == UNION {Ends(frags, e, binds) : e \in S}
SummaryRows(body, binds, all) ==
  LET keys == [e \in all |-> {p[2] : p \in Ends(body.by, e, binds)}]
      In(k) == EndsOf(body.over, {e \in all : k \in keys[e]}, binds)
      RowFor(k, ends) ==
        {<<EndCell(body.by, k), ValueCell(n)>> : n \in {m \in {Total(body.fn, body.over, ends)} : ends # {} /\ Passing(body, binds, m)}}
  IN  IF body.by = <<>>
      THEN {<<ValueCell(n)>> : n \in {m \in {Total(body.fn, body.over, EndsOf(body.over, all, binds))} : Passing(body, binds, m)}}
      ELSE UNION {RowFor(k, In(k)) : k \in UNION Range(keys)}

(***************************************************************************)
(* Properties.                                                             *)
(***************************************************************************)
Answering == Complete /\ pages = Unasked
EntitiesOf(tuples) == [i \in DOMAIN tuples |-> tuples[i][1]]

\* one and oneOrFail said of a query without its cursor are dropped when it is
\* lowered (query.ts:1338): such a value answers as if neither had been said.
TakeDropped(qv) == qv.strip /\ qv.take # "none"

\* The pages of an answer to a query value, its take honoured.
BuiltIsMeant(qv, binds, answer) ==
  LET n == LimitWith(qv, binds, IF qv.strip THEN Hole ELSE LastOf(qv.body, "limit"))
      offset == IF qv.strip \/ StagesOf(qv.body, "offset") = <<>> THEN 0 ELSE Count(binds, LastOf(qv.body, "offset"))
      es == EntitiesOf(answer.tuples)
  IN  /\ IF qv.body.is = "pipe"
          THEN IsPageOf(es, About(qv.body, binds), IF qv.strip THEN <<>> ELSE KeysOf(qv.body), offset, n)
          ELSE IsPageOf(es, About(qv.body, binds), <<>>, 0, LimitWith(qv, binds, Hole))
      /\ answer.missed <=> qv.take = "oneOrFail" /\ Len(es) # 1
\* A pipeline, or a query refined, answers the entities its stages say: every
\* filter met, each once, sorted, cut from the offset to the limit, and one or
\* two of them where one is asked for (db/query/lib.ts, query.ts:222-232).  It is
\* said of every value but those whose take is dropped.
BuiltMeansSaid ==
  Answering /\ ~TakeDropped(value) /\ value.body.is \in {"pipe", "refine"} =>
    \A binds \in BindSets : \A answer \in {Ask(View, value, binds)} :
      answer.ok => BuiltIsMeant(value, binds, answer)

\* Every row answered has the fields of its shape: what a nested shape, its
\* filter, its order and its limit say, to the depth it asks for, and no row
\* misses a field it cannot do without (db/shapes.ts, db/Pull.ts,
\* db/query/elemFilter.ts).
RowsAreShapes ==
  Answering /\ value.take = "none" /\ ShapeOf(value.body) # <<>> /\ value.body.is \in {"pipe", "refine"} =>
    \A binds \in BindSets : \A answer \in {Ask(View, value, binds)} :
      \A i \in DOMAIN answer.rows : answer.rows[i] = <<RowOf(ShapeOf(value.body), answer.tuples[i][1], binds)>>

Entire(qv, S, rows) == LET n == LimitWith(qv, <<>>, Hole) IN Len(rows) = IF n = Null \/ n > Cardinality(S) THEN Cardinality(S) ELSE n
RowsOf_(body, binds) == IF body.is = "enrich" THEN EnrichedRows(body, binds) ELSE SummaryRows(body, binds, Foci(body, binds))
\* A query enriched or summarised answers each row once: beside every entity what
\* it leads to, or for every group the total of what its entities lead to, equal
\* values of different entities apart (query.ts).
SummariesAreMeant ==
  Answering /\ ~TakeDropped(value) /\ value.body.is \in {"enrich", "summary"} =>
    \A binds \in BindSets : \A answer \in {Ask(View, value, binds)} : \A S \in {RowsOf_(value.body, binds)} :
      answer.ok =>
        /\ Range(answer.rows) \subseteq S
        /\ Len(answer.rows) = Cardinality(Range(answer.rows))
        /\ Entire(value, S, answer.rows)

\* Turning the pages shows every entity of the answer once, in order, none left
\* out where sort keys are equal or empty (query.ts, the entity as tie-breaker).
PagesCoverOnce ==
  pages > 0 =>
    \A S \in {About(value.body, bound)} :
      /\ IsPageOf(EntitiesOf(shown), S, KeysOf(value.body), 0, Len(shown))
      /\ value.seek.is = "over" => Len(shown) = Cardinality(S)

(***************************************************************************)
(* What the code's comments and tests say, and it does not do.             *)
(***************************************************************************)
\* A total over nothing is answered where nothing matched, never where the group
\* there is was filtered away.
EmptyRowIsEmpty ==
  Answering /\ value.body.is = "summary" /\ value.body.by = <<>> =>
    \A binds \in BindSets : \A answer \in {Ask(View, value, binds)} :
      answer.ok /\ answer.rows = <<<<ValueCell(0)>>>> => \A e \in Foci(value.body, binds) : Ends(value.body.over, e, binds) = {}

\* The row a tree ends at is a row: a select that is entered again may lead nowhere.
TreesMayEnd ==
  Answering /\ value.body.is = "pipe" =>
    \A binds \in BindSets : \A answer \in {Ask(View, value, binds)} :
      answer.ok /\ value.take = "none" /\ LastOf(value.body, "limit") = Hole =>
        \A e \in Foci(value.body, binds) : RowOf(ShapeOf(value.body), e, binds) # Dropped => e \in Range(EntitiesOf(answer.tuples))
=============================================================================
