------------------------------- MODULE Reads -------------------------------
(***************************************************************************)
(* Reading and writing as a principal: the connection, the query engine,   *)
(* pulls and the policy together.  A member's write is checked twice, by   *)
(* the peer against the basis it has and by the transactor against the     *)
(* database it applies to (worker/auth.ts ingress, transactor.ts           *)
(* checkWrite); an admin's is not.  The policy in force is a document as   *)
(* it was compiled, or one of version 1.                                   *)
(***************************************************************************)
EXTENDS Charter, Connection

CONSTANTS
  Deployments, \* pairs: what a policy was written as, and what the peer has of it
  Grants(_, _, _, _),  \* what a fragment means: its name, me, the entity, the facts
  Members,     \* the principals that are not admins
  Admin,
  Setup,       \* the first transaction: it makes the members' entities
  AdminTxs, MemberTxs,
  Queries,     \* a set of queries
  Trees,       \* pull patterns, the last spec of each recursive
  Lists,       \* pull specs of a scalar attribute, filtered, ordered by value and cut
  Layouts      \* shapes of rows

VARIABLES
  sent,    \* what a peer has let through and the transactor has not met yet
  by,      \* by t, who wrote it
  charter, \* the document it was compiled from and the attributes it masks, or none
  policy   \* the policy in force
allVars == <<vars, sent, by, charter, policy>>

NotSent == [me |-> Admin, ops |-> <<>>]
Unwritten == [doc |-> <<>>, masked |-> {}]
Deployed(doc) == <<[doc |-> doc, masked |-> Author(doc).masked], Compile(doc)>>
DeployedAsIs(wire) == <<Unwritten, ParsePolicy(wire)>>   \* version 1 was written as it is sent

ReadsInit ==
  /\ Init /\ sent = NotSent /\ by = <<Admin>>
  /\ \E deployed \in Deployments :
       deployed[2].ok /\ charter = deployed[1] /\ policy = deployed[2].policy

(***************************************************************************)
(* Writes.                                                                 *)
(***************************************************************************)
\* ingress: checkTx at the peer.
Send ==
  /\ sent = NotSent
  /\ basisT > 1
  /\ \E me \in Members, items \in MemberTxs : \E checked \in {CheckTx(Snap, policy, me, items)} :
       checked.ok /\ sent' = [me |-> me, ops |-> checked.ops]
  /\ UNCHANGED <<vars, by, charter, policy>>

\* The transactor's own checkTx, then the write; or nothing.
Commit ==
  /\ sent # NotSent
  /\ sent' = NotSent
  /\ \E checked \in {CheckTx(Snap, policy, sent.me, sent.ops)} :
       IF checked.ok /\ ExpandTx(Snap, checked.ops, basisT + 1, NoCap).error = "none"
       THEN Transact(checked.ops) /\ by' = Append(by, sent.me)
       ELSE UNCHANGED <<vars, by>>
  /\ UNCHANGED <<charter, policy>>

AdminWrite(items) == Transact(items) /\ by' = Append(by, Admin) /\ UNCHANGED <<sent, charter, policy>>

ReadsNext ==
  \/ \E items \in IF basisT = 1 THEN {Setup} ELSE AdminTxs : AdminWrite(items)
  \/ Send
  \/ Commit

ReadsSpec == ReadsInit /\ [][ReadsNext]_allVars

(***************************************************************************)
(* What a query means: its clauses one after another, over a set of facts, *)
(* rules as the least set of tuples closed under their branches.           *)
(***************************************************************************)
\* The rows that give terms the values of one of tuples.
Agreeing(row, terms, tuples) ==
  LET open == VarsOf(terms) \ DOMAIN row
      Agrees(r, t) == \A i \in DOMAIN terms : terms[i].is # "blank" => t[i] = (IF terms[i].is = "const" THEN terms[i].v ELSE r[terms[i].name])
      With(t) == [x \in open |-> t[CHOOSE i \in DOMAIN terms : terms[i].is = "var" /\ terms[i].name = x]] @@ row
  IN  {With(t) : t \in {u \in tuples : Agrees(With(u), u)}}

RECURSIVE Sat(_, _, _, _)
Sat(rows, clauses, facts, fix) ==
  IF clauses = <<>> \/ rows = {} THEN rows
  ELSE
    LET c == Head(clauses)
        Val(t, r) == IF t.is = "const" THEN t.v ELSE r[t.name]
        Vals(r, a) == {p[3] : p \in {x \in facts : x[1] = Val(c.args[1], r) /\ x[2] = a}}
        Sub(r, join, b) == Sat({Cut(r, DOMAIN r \cap join)}, b, facts, fix)
        One(r) ==
          CASE c.is = "pattern" -> Agreeing(r, c.args, facts)
            [] c.is = "call" -> Agreeing(r, c.args, fix[c.name])
            [] c.is = "pred" /\ c.fn = "missing?" -> IF Vals(r, c.args[2].v) = {} THEN {r} ELSE {}
            [] c.is = "pred" /\ c.fn # "missing?" -> IF Compares(c.fn, Val(c.args[1], r), Val(c.args[2], r)) THEN {r} ELSE {}
            [] c.is = "fn" ->   \* get-else
                 LET found == Vals(r, c.args[2].v) IN
                 {(c.out[1] :> v) @@ r : v \in IF found = {} THEN {c.args[3].v} ELSE found}
            [] c.is = "not" -> IF Sub(r, IF c.join.given THEN c.join.vars ELSE DOMAIN r, c.branches[1]) = {} THEN {r} ELSE {}
            [] c.is = "or" ->
                 LET join == IF c.join.given THEN c.join.vars ELSE ClauseVars(c) IN
                 UNION {{Cut(s, join) @@ r : s \in Sub(r, join, b)} : b \in Range(c.branches)}
    IN  Sat(UNION {One(r) : r \in rows}, Tail(clauses), facts, fix)

RECURSIVE Closed(_, _, _)
Closed(rules, facts, fix) ==
  LET Of(n) == {rules[i] : i \in {j \in DOMAIN rules : rules[j].name = n}}
      Negates(c) == c.is = "not"   \* asked of what the rest has bound
      NotsLast(body) == SelectSeq(body, LAMBDA c : ~Negates(c)) \o SelectSeq(body, Negates)
      next == [n \in DOMAIN fix |->
                 UNION {{[i \in DOMAIN def.args |-> r[def.args[i]]] : r \in Sat({<<>>}, NotsLast(def.clauses), facts, fix)} : def \in Of(n)}]
  IN  IF next = fix THEN fix ELSE Closed(rules, facts, next)
RulesOver(rules, facts) == Closed(rules, facts, [n \in {rules[i].name : i \in DOMAIN rules} |-> {}])

Ask(snap, q) == Evaluate(Plain(snap), Plain(snap), q).tuples
Answer(q, facts) ==
  LET rows == Sat(q.in.rows, q.where, facts, RulesOver(q.rules, facts))
      base == {Cut(r, FindVars(q)) : r \in rows}
      by1(r) == Cut(r, {q.find[i].name : i \in {j \in DOMAIN q.find : q.find[j].is = "var"}})
      Cell(r, f) == IF f.is = "var" THEN r[f.name] ELSE Cardinality({s \in base : by1(s) = by1(r)})   \* count
  IN  {[i \in DOMAIN q.find |-> Cell(r, q.find[i])] : r \in base}

\* The datoms of a database value, from the log.
Reference(db) ==
  LET ds == SelectSeq(DatomsThrough(basisT), LAMBDA d : d.t <= EffectiveT(db)) IN
  {Part(d) : d \in IF db.history THEN Range(ds) ELSE Range(FactsOf(ds))}

\* In history an attribute has many values, and a function takes the first.
OneValued(q) == \A i \in DOMAIN q.where : q.where[i].is # "fn"
Views == {Snap, History(Snap), AsOf(Snap, basisT - 1)}

\* An expression of a policy of version 1, over facts.
RECURSIVE ExprHolds(_, _, _, _)
ExprHolds(expr, me, e, facts) ==
  CASE expr.is = "const" -> expr.value
    [] expr.is = "class" -> me.class = expr.class
    [] expr.is = "not" -> ~ExprHolds(expr.exprs[1], me, e, facts)
    [] expr.is = "and" -> \A x \in Range(expr.exprs) : ExprHolds(x, me, e, facts)
    [] expr.is = "or" -> \E x \in Range(expr.exprs) : ExprHolds(x, me, e, facts)
    [] expr.is = "eq" -> \E p \in facts : p[1] = e /\ p[2] = expr.a /\ p[3] = (IF expr.operand.is = "lit" THEN expr.operand.v ELSE me.eid)
    [] expr.is = "ref" -> \E p \in facts : p[1] = e /\ p[2] = expr.a /\ ExprHolds(expr.exprs[1], me, p[3], facts)

\* What a member may read: the facts of an attribute whose rules, and whose
\* namespace's rules, show the member the entity, judged on today's facts.
MayRead(me, facts) ==
  LET today == Reference(Snap)
      rules == RulesOver(policy.rules, today)
      ArmHolds(arm, e) ==
        IF arm.is = "rule" THEN (arm.class = {} \/ me.class \in arm.class) /\ (arm.rule = "public" \/ <<me.eid, e>> \in rules[arm.rule])
        ELSE ExprHolds(arm.expr, me, e, today)
      Decided(arms, e) == /\ \E arm \in Range(arms) : ArmHolds(arm, e)
                          /\ \A arm \in Range(arms) : ArmHolds(arm, e) => arm.is # "deny"
      Lists_(a) == {policy.attrs[x] : x \in DOMAIN policy.attrs \cap {<<a, "read">>}}
                   \cup {policy.ns[x] : x \in DOMAIN policy.ns \cap {<<NsOf[a], "read">>}}
      Shown(e, a) == Lists_(a) # {} /\ \A arms \in Lists_(a) : Decided(arms, e)
      hidden == {x \in {<<p[1], p[2]>> : p \in facts} : x[2] \notin SystemAttrs /\ ~Shown(x[1], x[2])}
  IN  {p \in facts : <<p[1], p[2]>> \notin hidden}

(***************************************************************************)
(* Properties.                                                             *)
(***************************************************************************)
Resting == sent = NotSent

\* A query's answer is what its clauses mean over the facts, now, as of an
\* earlier t and in history, however its clauses are listed: the planner, the
\* access paths, the joins and the rules do not show (engine.ts query).  A function
\* of one value is not asked of history.
AnswersAreFacts ==
  Resting => \A db \in Views, q \in Queries : (db.history => OneValued(q)) =>
    LET want == Answer(q, Reference(db)) IN
    \A where \in {q.where, Reverse(q.where)} : Range(Ask(db, [q EXCEPT !.where = where])) = want

\* A member's answer is the same with the read rules in the query as with the
\* filter alone (CHANGELOG.md: "Equivalence (pushdown = filtered-only) is the
\* merge gate").
PushdownIsFilter ==
  Resting => \A me \in Members, q \in Queries :
    Range(QueryAs(Snap, Snap, policy, me, q, TRUE).tuples) = Range(QueryAs(Snap, Snap, policy, me, q, FALSE).tuples)

\* A member's answer is the answer over the facts the member may read, with the
\* rules in the query or in the filter alone, now and as of an earlier t: history
\* is judged by the rules of today (filter.ts, pushdown.ts).
PolicyIsFilter ==
  Resting => \A db \in {Snap, AsOf(Snap, basisT - 1)}, me \in Members, q \in Queries, pushdown \in BOOLEAN :
    Range(QueryAs(db, Snap, policy, me, q, pushdown).tuples) = Answer(q, MayRead(me, Reference(db)))

\* What one check lets through the other lets through unchanged (check.ts: "so
\* ingress + transactor both pass"), and what a member creates in a namespace
\* with a preset carries the member's value, whatever was written between.
WritesAreChecked ==
  /\ Resting => \A me \in Members, items \in MemberTxs :
       LET Stays(checked) == checked.ok => CheckTx(Snap, policy, me, checked.ops) = checked
       IN  \A checked \in {CheckTx(Snap, policy, me, items)} : Stays(checked)
  /\ \A t \in {n \in DOMAIN log : by[n] # Admin} : \A a \in DOMAIN policy.preset :
       \A d \in Range(log[t].datoms) : (d.e \in log[t].fresh /\ d.op /\ NsOf[d.a] = NsOf[a]) =>
         \E x \in Range(log[t].datoms) : x.e = d.e /\ x.a = a /\ x.op /\ x.v = by[t].eid

\* An arm of a document lets me at an entity.
RECURSIVE ArmMeans(_, _, _, _)
ArmMeans(arm, me, e, facts) ==
  CASE arm.is = "true" -> TRUE
    [] arm.is = "frag" -> me.eid # Null /\ Grants(arm.frag, me.eid, e, facts)
    [] arm.is = "gate" -> me.class \in Range(arm.classes) /\ ArmMeans(arm.of, me, e, facts)
\* What a document says of an operation on an attribute of an entity: one arm of
\* its namespace, and one of its own where it has any.
DocumentSays(doc, me, op, a, e, facts) ==
  LET Said(specs) == {spec[op] : spec \in {x \in specs : op \in DOMAIN x /\ x[op] # <<>>}}
      ns == {x \in Range(doc.arms) : x.ns = NsOf[a]}
      lists == Said({x.rules : x \in ns}) \cup Said(UNION {{y.rules : y \in {z \in Range(x.attrs) : z.attr = a}} : x \in ns})
  IN  lists # {} /\ \A list \in lists : \E arm \in Range(list) : ArmMeans(arm, me, e, facts)

\* A compiled policy lets a member do what its document says, to every attribute
\* of every entity (db/Policy.ts compile, eval.ts allowsOp): fragments shared by
\* arms, gates around them, rules that call themselves and what an attribute
\* narrows come through the compilation and the engine.
CharterIsMeant ==
  (Resting /\ charter # Unwritten) => \A me \in Members :
    \A facts \in {{SubSeq(p, 1, 3) : p \in Reference(Snap)}}, ctx \in {Context(Snap, policy, me, <<>>, {})} :
      \A op \in Range(Ops), a \in Catalog, e \in Entities(Snap) :
          AllowsOp(ctx, op, a, e) <=> DocumentSays(charter.doc, me, op, a, e, facts)

\* A level of a shape that asks for something no mask hides.
RECURSIVE Anchored(_, _)
Anchored(masked, shape) ==
  /\ \E f \in Range(shape) : f.wrap = "required" /\ ~IsMany(f) /\ ~IsId(f) /\ f.a \notin masked
  /\ \A f \in Range(shape) : f.sub # <<>> => Anchored(masked, f.sub)
\* A cell without what is masked.
RECURSIVE Redact(_, _, _)
Redact(masked, shape, cell) ==
  CASE cell.is = "row" -> RowCell([i \in DOMAIN shape |-> IF shape[i].a \in masked THEN NoCell ELSE Redact(masked, shape[i].sub, cell.of[i])])
    [] cell.is = "many" -> ManyCell([j \in DOMAIN cell.of |-> Redact(masked, shape, cell.of[j])])
    [] OTHER -> cell

\* A read rule of an attribute redacts its values and costs no row: a shape the
\* deployment's check lets through, and that asks for something else at each
\* level, is read the same but for them (db/Policy.ts checkPulls: "would delete
\* the row instead of redacting the field").
MasksOnlyRedact ==
  (Resting /\ charter # Unwritten) => \A me \in Members :
    LET unmasked == [policy EXCEPT !.attrs = [x \in {y \in DOMAIN @ : y[2] # "read"} |-> @[x]]]
        views == {FilterDb(Snap, Snap, p, me, {}) : p \in {policy, unmasked}}
        Row(view, shape, e) == Redact(charter.masked, shape, Reshape(shape, Pull(view, e, LowerPattern(shape, <<>>))))
        Fits(shape) == Anchored(charter.masked, shape) /\ CheckPulls(charter.masked, shape)
    IN  \A shape \in {x \in Layouts : Fits(x)}, e \in Entities(Snap) :
          Cardinality({Row(view, shape, e) : view \in views}) = 1

\* The walks a pulled tree holds: entities from the root, and whether the last
\* is expanded.
RECURSIVE WalksIn(_)
WalksIn(node) ==
  CASE node.is = "entity" ->
         {<<<<node.e>>, TRUE>>} \cup
         UNION {UNION {{<<<<node.e>> \o w[1], w[2]>> : w \in WalksIn(node.at[i][j])} : j \in DOMAIN node.at[i]} : i \in DOMAIN node.at}
    [] node.is = "id" -> {<<<<node.e>>, FALSE>>}
    [] OTHER -> {}
\* The walks along an attribute's facts that repeat no entity but at their end,
\* expanded where the hops allow and there is something of the pattern.
WalksFrom(facts, e, pattern, spec) ==
  LET from == IF spec.reverse THEN 3 ELSE 1
      Ends(w) == {f[4 - from] : f \in {g \in facts : g[2] = spec.attr /\ g[from] = Last(w)}}
      Shows(x) == \E f \in facts, s \in Range(pattern) : f[2] = s.attr /\ f[IF s.reverse THEN 3 ELSE 1] = x
      Expands(w) == /\ \A i \in 1..(Len(w) - 1) : w[i] # Last(w)
                    /\ spec.hops = Always \/ Len(w) <= spec.hops + 1
                    /\ Shows(Last(w))
      walks[n \in Nat] == IF n = 0 THEN {<<e>>}
                          ELSE {<<e>>} \cup UNION {{Append(w, x) : x \in Ends(w)} : w \in {v \in walks[n - 1] : Expands(v)}}
  IN  IF ~Shows(e) THEN {} ELSE {<<w, Expands(w)>> : w \in walks[Cardinality(Entities(Snap)) + 1]}

\* A recursive pull expands each entity its attribute reaches, along every walk,
\* and stops at the hops it was given or where the walk comes back to an entity
\* above; a sorted, filtered and cut collection holds what comes first of what
\* passes, not what is first in the index (pull.ts pullOne).
PullsReach ==
  Resting => \A e \in Entities(Snap) :
    LET facts == Reference(Snap) IN
    /\ \A pattern \in Trees :
         WalksIn(Pull(Plain(Snap), e, pattern)) = WalksFrom(facts, e, pattern, Last(pattern))
    /\ \A spec \in Lists :
         LET passing == {f[3] : f \in {g \in facts : g[1] = e /\ g[2] = spec.attr /\ Compares(spec.where[1].op, g[3], spec.where[1].v)}}
             Rank(v) == Cardinality({w \in passing : IF spec.order[1].desc THEN w > v ELSE w < v})
             pulled == Pull(Plain(Snap), e, <<spec>>)
         IN  (IF pulled = Nothing THEN {} ELSE {x.v : x \in Range(pulled.at[1])}) =
             {v \in passing : Rank(v) \in spec.offset..(spec.offset + spec.limit - 1)}
=============================================================================
