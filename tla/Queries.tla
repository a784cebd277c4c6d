------------------------------ MODULE Queries ------------------------------
(***************************************************************************)
(* The query engine (internal/core/query/engine.ts): clauses are ordered   *)
(* by cost, each is joined into a relation, rules are expanded or          *)
(* saturated, and the relation is grouped, ordered, cut and projected.     *)
(*                                                                         *)
(* A view of a database is [snap, hidden, extra]: a database value, the    *)
(* <<entity, attribute>> pairs a policy hides, and the references a        *)
(* transaction under check would add.  A relation is a set of rows, each a *)
(* function on its variables.  Values are integers and Null; an op is 0    *)
(* or 1.  Memory budgets and the nested function q are left out.           *)
(***************************************************************************)
EXTENDS Snapshot

CONSTANTS
  NsOf,       \* attribute -> its namespace
  SeekCost    \* SEEK_COST: how many datoms one seek is worth

ASSUME QueriesAssumption == DOMAIN Attr \subseteq DOMAIN NsOf /\ SeekCost \in Nat

Null == -1
Free == -2

Plain(snap) == [snap |-> snap, hidden |-> {}, extra |-> <<>>]

(***************************************************************************)
(* What the engine reads, through the view.                                *)
(***************************************************************************)
Seen(view, d) == <<d.e, d.a>> \notin view.hidden
Keep(view, ds) == SelectSeq(ds, LAMBDA d : Seen(view, d))
Extra(view, index, p) ==
  SortForIndex(index, SelectSeq(view.extra, LAMBDA d : Matches(index, d, p)))
Read(view, index, p) ==
  Keep(view, SortedUnion(index, DatomsOf(view.snap, index, p), Extra(view, index, p)))
KeepEach(view, index, found) ==
  [p \in DOMAIN found |-> Keep(view, SortedUnion(index, found[p], Extra(view, index, p)))]
ReadMany(view, index, prefixes) == KeepEach(view, index, SeekMany(view.snap, index, prefixes))
FirstOf(view, index, p) == HeadOf(Read(view, index, p))
\* An estimate is not filtered.
EstimateOf(view, index, p) == Estimate(view.snap, index, p) + Len(Extra(view, index, p))

(***************************************************************************)
(* Clauses.  A pattern's args are e, a, v, tx, op.  A variable's name is   *)
(* <<what the query calls it, 0>>, or a number for one an expansion made.  *)
(***************************************************************************)
Var(x) == [is |-> "var", name |-> <<x, 0>>]
Const(v) == [is |-> "const", v |-> v]
Blank == [is |-> "blank"]
Unscoped == [given |-> FALSE, vars |-> {}]
JoinOn(vars) == [given |-> TRUE, vars |-> vars]

Pattern(e, a, v, tx, op) == [is |-> "pattern", args |-> <<e, a, v, tx, op>>, origin |-> "caller"]
Pred(fn, args) == [is |-> "pred", fn |-> fn, args |-> args, origin |-> "caller"]
\* out names what each place of a result tuple binds: ground with one name binds
\* it to each of its values.  A scalar Null binds nothing.
Fn(fn, args, scalar, out) == [is |-> "fn", fn |-> fn, args |-> args, scalar |-> scalar, out |-> out, origin |-> "caller"]
Not(join, clauses) == [is |-> "not", join |-> join, branches |-> <<clauses>>, origin |-> "caller"]
Or(join, branches) == [is |-> "or", join |-> join, branches |-> branches, origin |-> "caller"]
Call(name, args) == [is |-> "call", name |-> name, args |-> args, origin |-> "caller"]

Nested(c) == c.is \in {"not", "or"}
VarsOf(terms) == {t.name : t \in {x \in Range(terms) : x.is = "var"}}
RECURSIVE ClauseVars(_)
ClauseVars(c) ==
  IF Nested(c) THEN UNION {UNION {ClauseVars(x) : x \in Range(b)} : b \in Range(c.branches)}
  ELSE VarsOf(c.args) \cup (IF c.is = "fn" THEN Range(c.out) ELSE {})
AllVars(clauses) == UNION {ClauseVars(c) : c \in Range(clauses)}

RECURSIVE Stamp(_, _)
Stamp(c, origin) ==
  IF Nested(c) THEN [c EXCEPT !.origin = origin, !.branches = [i \in DOMAIN @ |-> [j \in DOMAIN @[i] |-> Stamp(@[i][j], origin)]]]
  ELSE [c EXCEPT !.origin = origin]

\* substClause: head maps names to terms; any other name gets the number n.
RECURSIVE Subst(_, _, _)
Subst(c, head, n) ==
  LET To(name) == IF name \in DOMAIN head THEN head[name] ELSE [is |-> "var", name |-> <<name[1], n>>]
      Term(t) == IF t.is = "var" THEN To(t.name) ELSE t
  IN  CASE Nested(c) ->
             [c EXCEPT !.join.vars = {To(v).name : v \in {x \in @ : To(x).is = "var"}},
                       !.branches = [i \in DOMAIN @ |-> [j \in DOMAIN @[i] |-> Subst(@[i][j], head, n)]]]
        [] c.is = "fn" -> [c EXCEPT !.args = [i \in DOMAIN @ |-> Term(@[i])], !.out = [i \in DOMAIN @ |-> To(@[i]).name]]
        [] OTHER -> [c EXCEPT !.args = [i \in DOMAIN @ |-> Term(@[i])]]

(***************************************************************************)
(* Rules.  A definition is [name, args: names, clauses].                   *)
(***************************************************************************)
RECURSIVE CalledRules(_)
CalledRules(clauses) ==
  UNION {IF c.is = "call" THEN {c.name}
         ELSE IF Nested(c) THEN UNION {CalledRules(b) : b \in Range(c.branches)} ELSE {} : c \in Range(clauses)}

\* renameHead: every branch of a rule names its arguments as the first does.
RenameHead(def, args) ==
  LET head == [v \in Range(def.args) |-> [is |-> "var", name |-> args[CHOOSE i \in DOMAIN def.args : def.args[i] = v]]] IN
  [j \in DOMAIN def.clauses |-> Subst(def.clauses[j], head, 0)]

CompileRules(defs) ==
  LET names == {defs[i].name : i \in DOMAIN defs}
      Of(n) == SelectSeq(defs, LAMBDA d : d.name = n)
      Branches(n) == [i \in DOMAIN Of(n) |-> RenameHead(Of(n)[i], Head(Of(n)).args)]
      Direct(n) == UNION {CalledRules(b) : b \in Range(Branches(n))} \cap names
      Step(S) == S \cup UNION {Direct(m) : m \in S}
      Reach(n) == FoldSet(LAMBDA i, S : Step(S), Direct(n), 1..Cardinality(names))
  IN  [n \in names |->
        [args |-> Head(Of(n)).args, branches |-> Branches(n), recursive |-> n \in Reach(n),
         scc |-> {n} \cup (IF n \in Reach(n) THEN {m \in Reach(n) : n \in Reach(m)} ELSE {})]]

(***************************************************************************)
(* Relations.                                                              *)
(***************************************************************************)
Rel(vars, rows) == [ok |-> TRUE, vars |-> vars, rows |-> rows]
Failed == [ok |-> FALSE, vars |-> {}, rows |-> {}]
Unit == Rel({}, {<<>>})
Cut(row, vars) == [x \in vars |-> row[x]]
\* TupleSet: each tuple of the variables once.
DistinctOn(rel, vars) == {Cut(r, vars) : r \in rel.rows}
Project(rel, vars) == Rel(vars, DistinctOn(rel, vars))
HashJoin(a, b) ==
  LET shared == a.vars \cap b.vars
      Partners(r) == {s \in b.rows : \A x \in shared : r[x] = s[x]}
  IN  Rel(a.vars \cup b.vars, UNION {{s @@ r : s \in Partners(r)} : r \in a.rows})

\* What a term is in a row: a constant, the row's value, or Free.
At(t, row) == CASE t.is = "const" -> t.v
                [] t.is = "var" /\ t.name \in DOMAIN row -> row[t.name]
                [] OTHER -> Free
Bound(terms, vars) == VarsOf(terms) \subseteq vars
ArgsIn(terms, row) == [i \in DOMAIN terms |-> At(terms[i], row)]

(***************************************************************************)
(* The access path of a pattern whose e, a and v are known or Free.        *)
(***************************************************************************)
Access(index, prefix, vFilter) == [index |-> index, prefix |-> prefix, vFilter |-> vFilter]
Choose(view, e, a, v) ==
  LET known == a \in DOMAIN Attr IN
  CASE e # Free /\ a # Free /\ v # Free -> Access("eavt", <<e, a, v>>, FALSE)
    [] e # Free /\ a # Free /\ v = Free -> Access("eavt", <<e, a>>, FALSE)
    [] e # Free /\ a = Free -> Access("eavt", <<e>>, v # Free)
    [] e = Free /\ a # Free /\ v # Free ->
         IF known /\ IsAvet(view.snap.schema, a) THEN Access("avet", <<a, v>>, FALSE)
         ELSE IF known /\ Attr[a].ref THEN Access("vaet", <<v, a>>, FALSE)
         ELSE Access("aevt", <<a>>, TRUE)
    [] e = Free /\ a # Free /\ v = Free -> Access("aevt", <<a>>, FALSE)
    [] OTHER -> Access("eavt", <<>>, v # Free)

(***************************************************************************)
(* Planning.  A context is [view, ruleView, rules, fix]: what the caller's *)
(* clauses read, what a rule's read, the compiled rules and, inside a      *)
(* saturation, the tuples found so far of the rules being saturated.       *)
(***************************************************************************)
ViewOf(ctx, c) == IF c.origin = "rule" THEN ctx.ruleView ELSE ctx.view

Never == 4000000      \* Infinity
Last12 == 3000000     \* 1e12
Cold == 2000000       \* 1e9
PatternCost(view, c, bound) ==
  LET Known(t) == t.is = "const" \/ (t.is = "var" /\ t.name \in bound)
      e == Known(c.args[1])
      a == Known(c.args[2])
      v == Known(c.args[3])
      attr == c.args[2].v
      constant == c.args[2].is = "const"
      avet == constant /\ IsAvet(view.snap.schema, attr)
      vaet == constant /\ ~avet /\ Attr[attr].ref
      path == CASE constant /\ v /\ avet -> <<"avet", <<attr, c.args[3].v>>>>
                [] constant /\ v /\ vaet -> <<"vaet", <<c.args[3].v, attr>>>>
                [] constant /\ ~(v /\ (avet \/ vaet)) -> <<"aevt", <<attr>>>>
                [] OTHER -> <<"eavt", <<>>>>
  IN  IF e THEN IF a THEN 1 ELSE 8
      ELSE IF a /\ ~constant THEN IF v THEN 16 ELSE 1000
      ELSE IF v /\ c.args[3].is = "var" /\ (avet \/ vaet)
        THEN IF avet /\ view.snap.schema.unique[attr] # None THEN 1 ELSE 4
      ELSE EstimateOf(view, path[1], path[2]) + IF a THEN 0 ELSE Cold

Cost(ctx, c, bound) ==
  LET vars == IF Nested(c) /\ c.join.given THEN c.join.vars ELSE ClauseVars(c) IN
  CASE c.is = "pred" -> IF Bound(c.args, bound) THEN -1 ELSE Never
    [] c.is = "fn" -> IF Bound(c.args, bound) THEN 0 ELSE Never
    [] c.is = "not" -> IF vars \subseteq bound THEN 50 ELSE Last12
    [] c.is = "or" -> IF vars \cap bound # {} THEN 100 ELSE Last12
    [] c.is = "call" ->
         IF vars = {} \/ vars \cap bound # {} \/ \E t \in Range(c.args) : t.is = "const" THEN 100 ELSE Cold
    [] c.is = "pattern" -> PatternCost(ViewOf(ctx, c), c, bound)

\* The cheapest clause next, the first of equals.
Cheapest(cost) ==
  CHOOSE i \in DOMAIN cost : \A j \in DOMAIN cost : cost[i] < cost[j] \/ (cost[i] = cost[j] /\ i <= j)
RECURSIVE Plan(_, _, _)
Plan(ctx, clauses, bound) ==
  LET Rest(best) == <<clauses[best]>> \o Plan(ctx, RemoveAt(clauses, best), bound \cup ClauseVars(clauses[best]))
  IN  IF clauses = <<>> THEN <<>> ELSE Rest(Cheapest([i \in DOMAIN clauses |-> Cost(ctx, clauses[i], bound)]))

(***************************************************************************)
(* Data patterns.                                                          *)
(***************************************************************************)
TxOf(x) == IF x # Free /\ x < TxBase THEN TxEid(x) ELSE x
Part(d) == <<d.e, d.a, d.v, TxEid(d.t), IF d.op THEN 1 ELSE 0>>
Is(x, want) == want = Free \/ x = want

\* The rows a datom makes of a row: a new variable in two places must agree.
Extend(row, terms, d) ==
  LET places == {i \in 1..5 : terms[i].is = "var" /\ terms[i].name \notin DOMAIN row}
      new == {terms[i].name : i \in places}
  IN  IF \A i, j \in places : terms[i].name = terms[j].name => Part(d)[i] = Part(d)[j]
      THEN {[x \in new |-> Part(d)[CHOOSE i \in places : terms[i].name = x]] @@ row}
      ELSE {}

\* One scan with what is constant in the pattern.
ScanConst(view, c) ==
  LET K(i) == At(c.args[i], <<>>)
      access == Choose(view, K(1), K(2), K(3))
  IN  {d \in Range(Read(view, access.index, access.prefix)) :
         (access.vFilter => d.v = K(3)) /\ Is(TxEid(d.t), TxOf(K(4))) /\ Is(Part(d)[5], K(5))}

\* No variable is bound: the scan, crossed with the rows.
Cross(rel, c, ds) == UNION {UNION {Extend(r, c.args, d) : d \in ds} : r \in rel.rows}
ScanPattern(view, rel, c) == Cross(rel, c, ScanConst(view, c))

\* Mutant: only the first place of a variable is compared.
ProbeFirst(r, c, ds) ==
  {d \in ds : \A i \in 1..5 :
     (c.args[i].is = "var" /\ \A j \in 1..(i - 1) : c.args[j] # c.args[i]) => Is(Part(d)[i], At(c.args[i], r))}
\* The scan, joined: a datom meets the rows that agree with it in every place a
\* bound variable has.
Probe(r, c, ds) == {d \in ds : \A i \in 1..5 : c.args[i].is = "var" => Is(Part(d)[i], At(c.args[i], r))}
Joined(rel, c, ds) == UNION {UNION {Extend(r, c.args, d) : d \in Probe(r, c, ds)} : r \in rel.rows}
HashPattern(view, rel, c) == Joined(rel, c, ScanConst(view, c))

\* One seek per distinct tuple of the bound variables, those of one index and
\* one length together.
Shape(access) == <<access.index, Len(access.prefix)>>
SeekAll(view, paths) ==
  [s \in {Shape(p) : p \in paths} |-> ReadMany(view, s[1], {p.prefix : p \in {x \in paths : Shape(x) = s}})]
\* The rows with what their seek found; path gives the access by tuple.
WithHits(rel, c, joined, path, found) ==
  LET Hits(g) == {d \in Range(found[Shape(path[g])][path[g].prefix]) :
                    /\ path[g].vFilter => d.v = At(c.args[3], g)
                    /\ Is(TxEid(d.t), TxOf(At(c.args[4], g)))
                    /\ Is(Part(d)[5], At(c.args[5], g))}
  IN  UNION {UNION {Extend(r, c.args, d) : d \in Hits(Cut(r, joined))} : r \in rel.rows}
SeekPattern(view, rel, c) ==
  LET joined == VarsOf(c.args) \cap rel.vars
      K(g, i) == At(c.args[i], g)
      path == [g \in DistinctOn(rel, joined) |-> Choose(view, K(g, 1), K(g, 2), K(g, 3))]
  IN  WithHits(rel, c, joined, path, SeekAll(view, Range(path)))

\* How many datoms the scan would read; a bound entity or attribute is not scanned for.
ScanSize(view, rel, c) ==
  LET K(i) == At(c.args[i], <<>>)
      access == Choose(view, K(1), K(2), K(3))
      BoundVar(i) == c.args[i].is = "var" /\ c.args[i].name \in rel.vars
  IN  IF K(1) = Free /\ K(2) = Free /\ (BoundVar(1) \/ BoundVar(2)) THEN Never
      ELSE EstimateOf(view, access.index, access.prefix)
PatternRows(view, rel, c) ==
  LET joined == VarsOf(c.args) \cap rel.vars IN
  IF rel.rows = {} THEN {}
  ELSE IF joined = {} THEN ScanPattern(view, rel, c)
  ELSE IF ScanSize(view, rel, c) < Cardinality(DistinctOn(rel, joined)) * SeekCost THEN HashPattern(view, rel, c)
  ELSE SeekPattern(view, rel, c)
ExecPattern(ctx, rel, c) == Rel(rel.vars \cup VarsOf(c.args), PatternRows(ViewOf(ctx, c), rel, c))

(***************************************************************************)
(* Predicates and functions.                                               *)
(***************************************************************************)
Compares(fn, x, y) ==
  CASE fn = "=" -> x = y [] fn = "!=" -> x # y [] fn = "<" -> x < y
    [] fn = "<=" -> x <= y [] fn = ">" -> x > y [] fn = ">=" -> x >= y

Passes(view, fn, args) ==
  IF fn = "missing?" THEN ~Found(FirstOf(view, "eavt", args)) ELSE Compares(fn, args[1], args[2])
ExecPred(ctx, rel, c) ==
  IF ~Bound(c.args, rel.vars) THEN Failed
  ELSE Rel(rel.vars, {r \in rel.rows : Passes(ViewOf(ctx, c), c.fn, ArgsIn(c.args, r))})

\* The tuples a function gives in a row.
Results(view, c, r) ==
  LET arg == ArgsIn(c.args, r)
      Else(d) == IF Found(d) THEN d.v ELSE arg[3]
      \* The first of the attributes that has a value, of what each has.
      Some(has) == {<<arg[i], has[i].v>> : i \in {j \in DOMAIN has : Found(has[j]) /\ \A k \in DOMAIN has : k < j => ~Found(has[k])}}
  IN  CASE c.fn = "get-else" -> {<<Else(FirstOf(view, "eavt", <<arg[1], arg[2]>>))>>}
        [] c.fn = "get-some" -> Some([i \in 2..Len(arg) |-> FirstOf(view, "eavt", <<arg[1], arg[i]>>)])
        [] c.fn = "ground" -> IF Len(c.out) = 1 THEN {<<arg[i]>> : i \in DOMAIN arg} ELSE {arg}

ExecFn(ctx, rel, c) ==
  LET Binds(r, t) == \A i, j \in DOMAIN c.out :
                       /\ c.out[i] \in rel.vars => r[c.out[i]] = t[i]
                       /\ c.out[i] = c.out[j] => t[i] = t[j]
      New(t) == [x \in Range(c.out) |-> t[CHOOSE i \in DOMAIN c.out : c.out[i] = x]]
  IN  IF ~Bound(c.args, rel.vars) THEN Failed
      ELSE Rel(rel.vars \cup Range(c.out), UNION {{New(t) @@ r : t \in {x \in Results(ViewOf(ctx, c), c, r) : (c.scalar => x[1] # Null) /\ Binds(r, x)}} : r \in rel.rows})

(***************************************************************************)
(* Execution.                                                              *)
(***************************************************************************)
RECURSIVE Exec(_, _, _), ExecClauses(_, _, _), ExecNot(_, _, _), ExecOr(_, _, _), Saturate(_, _, _)

ExecClauses(ctx, rel, clauses) ==
  FoldLeft(LAMBDA r, c : Exec(ctx, r, c), rel, Plan(ctx, clauses, rel.vars))

ExecNot(ctx, rel, c) ==
  LET join == IF c.join.given THEN c.join.vars ELSE ClauseVars(c) \cap rel.vars
      Unmatched(matched) == {r \in rel.rows : Cut(r, join) \notin matched}
      Without(sub) == IF ~sub.ok THEN Failed ELSE Rel(rel.vars, Unmatched(DistinctOn(sub, join)))
  IN  IF rel.rows = {} THEN rel
      ELSE IF ~(join \subseteq rel.vars) THEN Failed
      ELSE Without(ExecClauses(ctx, Project(rel, join), c.branches[1]))

ExecOr(ctx, rel, c) ==
  LET inBranch == {AllVars(b) : b \in Range(c.branches)}
      common == {x \in UNION inBranch : \A S \in inBranch : x \in S}
      exported == IF c.join.given THEN c.join.vars ELSE common
      seed == Project(rel, exported \cap rel.vars)
      With(subs) ==
        IF \E s \in subs : ~s.ok \/ ~(exported \subseteq s.vars) THEN Failed
        ELSE HashJoin(rel, Rel(exported, UNION {Project(s, exported).rows : s \in subs}))
  IN  IF ~c.join.given /\ common # UNION inBranch THEN Failed
      ELSE IF rel.rows = {} THEN Rel(rel.vars \cup exported, {})
      ELSE With({ExecClauses(ctx, seed, b) : b \in Range(c.branches)})

\* applyExtension: the tuples of a rule joined along the call's arguments.
ApplyExtension(rel, tuples, c) ==
  LET places(x) == {i \in DOMAIN c.args : c.args[i] = [is |-> "var", name |-> x]}
      Fits(t) == /\ \A i \in DOMAIN c.args : c.args[i].is = "const" => t[i] = c.args[i].v
                 /\ \A x \in VarsOf(c.args) : \A i, j \in places(x) : t[i] = t[j]
      Row(t) == [x \in VarsOf(c.args) |-> t[CHOOSE i \in places(x) : TRUE]]
  IN  HashJoin(rel, Rel(VarsOf(c.args), {Row(t) : t \in {x \in tuples : Fits(x)}}))

\* execRuleInline: an or over the branches, the arguments in place of the head
\* and the other variables renamed.
Expansion(c, rule) ==
  LET used == {v[2] : v \in VarsOf(c.args)} \cup {0}
      n == 1 + CHOOSE m \in used : \A k \in used : k <= m
      Arg(i) == IF c.args[i].is = "blank" THEN [is |-> "var", name |-> <<rule.args[i][1], n>>] ELSE c.args[i]
      head == [x \in Range(rule.args) |-> Arg(CHOOSE i \in DOMAIN rule.args : rule.args[i] = x)]
  IN  [i \in DOMAIN rule.branches |-> [j \in DOMAIN rule.branches[i] |-> Stamp(Subst(rule.branches[i][j], head, n), c.origin)]]

\* ruleExtension: rounds over the branches of the rules that call each other,
\* each adding its tuples at once, until a round adds none.
Saturate(ctx, current, origin) ==
  LET Derive(cur, n, branch) ==
        LET args == ctx.rules[n].args
            Adding(sub) ==
              IF ~cur.ok \/ ~sub.ok \/ ~(Range(args) \subseteq sub.vars) THEN [cur EXCEPT !.ok = FALSE]
              ELSE [cur EXCEPT !.of[n] = @ \cup {[i \in DOMAIN args |-> r[args[i]]] : r \in sub.rows}]
        IN  Adding(ExecClauses([ctx EXCEPT !.fix = cur.of], Unit, [j \in DOMAIN branch |-> Stamp(branch[j], origin)]))
      Member(n, cur) == FoldLeft(LAMBDA acc, b : Derive(acc, n, b), cur, ctx.rules[n].branches)
      Onward(next) == IF ~next.ok \/ next = current THEN next ELSE Saturate(ctx, next, origin)
  IN  Onward(FoldSet(Member, current, DOMAIN current.of))

ExecCall(ctx, rel, c) ==
  LET rule == ctx.rules[c.name]
      Applied(extension) == IF extension.ok THEN ApplyExtension(rel, extension.of[c.name], c) ELSE Failed
  IN  IF c.name \notin DOMAIN ctx.rules \/ Len(c.args) # Len(rule.args) THEN Failed
      ELSE IF c.name \in DOMAIN ctx.fix THEN ApplyExtension(rel, ctx.fix[c.name], c)
      ELSE IF ~rule.recursive
        THEN ExecOr(ctx, rel, [Or(JoinOn(VarsOf(c.args)), Expansion(c, rule)) EXCEPT !.origin = c.origin])
      ELSE Applied(Saturate(ctx, [ok |-> TRUE, of |-> [n \in rule.scc |-> {}]], c.origin))

Exec(ctx, rel, c) ==
  CASE ~rel.ok -> rel
    [] rel.ok /\ c.is = "pattern" -> ExecPattern(ctx, rel, c)
    [] rel.ok /\ c.is = "pred" -> ExecPred(ctx, rel, c)
    [] rel.ok /\ c.is = "fn" -> ExecFn(ctx, rel, c)
    [] rel.ok /\ c.is = "not" -> ExecNot(ctx, rel, c)
    [] rel.ok /\ c.is = "or" -> ExecOr(ctx, rel, c)
    [] rel.ok /\ c.is = "call" -> ExecCall(ctx, rel, c)

(***************************************************************************)
(* Shape of the answer.  find is a sequence of [is, name, fn]; order of    *)
(* [name, desc, emptyFirst]; after is a cursor, one cell per order key, or *)
(* empty; having compares a find cell with a constant; limit is Null for   *)
(* none.                                                                   *)
(***************************************************************************)
FindVar(x) == [is |-> "var", name |-> <<x, 0>>, fn |-> "none"]
Agg(fn, x) == [is |-> "agg", name |-> <<x, 0>>, fn |-> fn]
Asc(x) == [name |-> <<x, 0>>, desc |-> FALSE, emptyFirst |-> FALSE]
Desc(x) == [name |-> <<x, 0>>, desc |-> TRUE, emptyFirst |-> FALSE]
Query(find, where) ==
  [find |-> find, with |-> {}, where |-> where, rules |-> <<>>, in |-> Unit, order |-> <<>>, after |-> <<>>,
   having |-> <<>>, offset |-> 0, limit |-> Null]

Sign(x, y) == IF x < y THEN -1 ELSE IF x > y THEN 1 ELSE 0
\* compareCells: an empty cell goes where the key puts it, in both directions.
CompareCells(x, y, key) ==
  IF x = Null \/ y = Null
    THEN IF x = y THEN 0 ELSE (IF x = Null THEN 1 ELSE -1) * (IF key.emptyFirst THEN -1 ELSE 1)
  ELSE Sign(x, y) * (IF key.desc THEN -1 ELSE 1)
\* The first key that tells two rows of cells apart decides.
CompareRows(x, y, keys) ==
  LET differ == {i \in DOMAIN keys : CompareCells(x[i], y[i], keys[i]) # 0}
      first == CHOOSE i \in differ : \A j \in differ : i <= j
  IN  IF differ = {} THEN 0 ELSE CompareCells(x[first], y[first], keys[first])
\* afterCursor.
\* Mutant: the cursor's own row comes again.
AfterCursorAgain(cells, after, keys) == after = <<>> \/ CompareRows(cells, after, keys) >= 0
AfterCursor(cells, after, keys) == after = <<>> \/ CompareRows(cells, after, keys) > 0

\* sortRows: rows in the order of their cells; ties as they come.
RECURSIVE SortBy(_, _, _)
SortBy(rows, cells, keys) ==
  IF rows = {} THEN <<>>
  ELSE LET least == CHOOSE r \in rows : \A s \in rows : CompareRows(cells[r], cells[s], keys) <= 0 IN
       <<least>> \o SortBy(rows \ {least}, cells, keys)
Cells(rows, keys) == [r \in rows |-> [i \in DOMAIN keys |-> r[keys[i].name]]]

\* An aggregate over a group's distinct rows that have a value.
Aggregate(fn, x, group) ==
  LET rows == {r \in group : r[x] # Null} IN
  CASE fn = "count" -> Cardinality(rows)
    [] fn = "sum" -> FoldSet(LAMBDA r, n : n + r[x], 0, rows)
    [] fn = "max" -> IF rows = {} THEN Null ELSE (CHOOSE r \in rows : \A s \in rows : s[x] <= r[x])[x]

FindVars(q) == {q.find[i].name : i \in DOMAIN q.find}
Tuple(q, row) == [i \in DOMAIN q.find |-> row[q.find[i].name]]

\* Without an aggregate: sort, cut at the cursor, then keep each distinct
\* tuple's first row.
Rows(q, rel) ==
  LET Sorted(cells) == SelectSeq(SortBy(rel.rows, cells, q.order), LAMBDA r : AfterCursor(cells[r], q.after, q.order))
      CutOf(rows) == [i \in DOMAIN rows |-> Cut(rows[i], FindVars(q) \cup q.with)]
      Firsts(rows) == SelectSeq([i \in DOMAIN rows |-> i], LAMBDA i : \A j \in 1..(i - 1) : rows[j] # rows[i])
      Tuples(rows, kept) == [k \in DOMAIN kept |-> Tuple(q, rows[kept[k]])]
      Of(rows) == Tuples(rows, Firsts(rows))
  IN  Of(CutOf(Sorted(Cells(rel.rows, q.order))))

\* With one: group the distinct rows, filter the groups, sort them.
Groups(q, rel) ==
  LET base == Project(rel, FindVars(q) \cup q.with)
      by == {q.find[i].name : i \in {j \in DOMAIN q.find : q.find[j].is = "var"}}
      Of(g) == {r \in base.rows : Cut(r, by) = g}
      Cell(g, f) == IF f.is = "var" THEN g[f.name] ELSE Aggregate(f.fn, f.name, Of(g))
      tuples == {[i \in DOMAIN q.find |-> Cell(g, q.find[i])] : g \in Project(base, by).rows}
      passing == {t \in tuples : \A h \in Range(q.having) : Compares(h.fn, t[h.col], h.v)}
      Col(name) == CHOOSE i \in DOMAIN q.find : q.find[i].name = name /\ \A j \in DOMAIN q.find : q.find[j].name = name => j <= i
  IN  SortBy(passing, [t \in passing |-> [i \in DOMAIN q.order |-> t[Col(q.order[i].name)]]], q.order)

ShapeResult(q, rel) ==
  LET hasAgg == \E i \in DOMAIN q.find : q.find[i].is = "agg"
      named == {q.order[i].name : i \in DOMAIN q.order}
      Page(tuples) ==
        SubSeq(tuples, q.offset + 1,
               IF q.limit = Null \/ q.offset + q.limit > Len(tuples) THEN Len(tuples) ELSE q.offset + q.limit)
  IN  IF \/ ~rel.ok
         \/ ~(FindVars(q) \cup q.with \subseteq rel.vars)
         \/ q.after # <<>> /\ (hasAgg \/ q.order = <<>>)
         \/ ~(named \subseteq IF hasAgg THEN FindVars(q) ELSE rel.vars)
      THEN [ok |-> FALSE, tuples |-> <<>>]
      ELSE [ok |-> TRUE, tuples |-> Page(IF hasAgg THEN Groups(q, rel) ELSE Rows(q, rel))]

\* query, of a view; rules' clauses read ruleView.
Evaluate(view, ruleView, q) ==
  LET ctx == [view |-> view, ruleView |-> ruleView, rules |-> CompileRules(q.rules), fix |-> <<>>] IN
  ShapeResult(q, ExecClauses(ctx, q.in, q.where))
=============================================================================
