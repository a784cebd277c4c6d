------------------------------ MODULE Policies ------------------------------
(***************************************************************************)
(* Policy over the data (internal/core/policy): what a principal may read  *)
(* of a database value, the read rules conjoined into a query, and the     *)
(* check of a transaction before it is written.                            *)
(*                                                                         *)
(* A policy is [version, attrs, ns, preset, rules]: arms by <<attribute,   *)
(* op>> and by <<namespace, op>>, operands by attribute, rule definitions. *)
(* An arm is [is: "rule" (rule: a name or "public"; class: the classes it  *)
(* is for, {} for all) | "allow" | "deny" (expr)].  A principal is         *)
(* [class, eid, claim], eid Null when it has no entity.  Memory budgets    *)
(* and the caches of one request are left out, as what they hold does not  *)
(* change within it.                                                       *)
(***************************************************************************)
EXTENDS Queries, Transactions

CONSTANTS
  VisibleSetMax,  \* visibleSetMax
  RetractCap      \* RETRACT_ENTITY_CAP

ASSUME PoliciesAssumption == VisibleSetMax \in Nat /\ RetractCap \in Nat

SystemAttrs == {IndexAttr, UniqueAttr, TxInstant}
IsAdmin(me) == me.class = "admin"

(***************************************************************************)
(* Expression arms.  extra holds the references a checked transaction adds;*)
(* only a ref expression follows them.                                     *)
(***************************************************************************)
Operand(op, me) == CASE op.is = "principal" -> me.eid [] op.is = "claim" -> me.claim [] op.is = "lit" -> op.v

RECURSIVE EvalExpr(_, _, _)
EvalExpr(ctx, expr, e) ==
  CASE expr.is = "const" -> expr.value
    [] expr.is = "class" -> ctx.me.class = expr.class
    [] expr.is = "not" -> ~EvalExpr(ctx, expr.exprs[1], e)
    [] expr.is = "and" -> \A i \in DOMAIN expr.exprs : EvalExpr(ctx, expr.exprs[i], e)
    [] expr.is = "or" -> \E i \in DOMAIN expr.exprs : EvalExpr(ctx, expr.exprs[i], e)
    [] expr.is = "eq" ->
         LET v == Operand(expr.operand, ctx.me) IN
         expr.a \in DOMAIN Attr /\ v # Null /\ Found(First(ctx.snap, "eavt", <<e, expr.a, v>>))
    [] expr.is = "ref" ->
         LET stored == {d.v : d \in Range(DatomsOf(ctx.snap, "eavt", <<e, expr.a>>))}
             added == {d.v : d \in {x \in Range(ctx.extra) : x.e = e /\ x.a = expr.a}}
         IN  expr.a \in DOMAIN Attr /\ Attr[expr.a].ref /\ \E t \in stored \cup added : EvalExpr(ctx, expr.exprs[1], t)

(***************************************************************************)
(* Rule arms.  A context is [snap, policy, me, extra, skip, sets]: the     *)
(* unfiltered database at the current basis, the namespaces whose rule is  *)
(* in the plan already, and by rule what evalNamedRuleSet found.           *)
(***************************************************************************)
MeVar == <<-1, 0>>
FocusVar == <<-2, 0>>
RuleQuery(policy, name, in) ==
  [Query(<<FindVar(-2)>>, <<Call(name, <<Var(-1), Var(-2)>>)>>) EXCEPT !.rules = policy.rules, !.in = in]

\* Every entity the rule shows me, unless there are too many.
SetQuery(policy, me, name) ==
  [RuleQuery(policy, name, Rel({MeVar}, {MeVar :> me.eid})) EXCEPT !.limit = VisibleSetMax + 1]
Recorded(found) == [fallback |-> Len(found) > VisibleSetMax, eids |-> {found[i][1] : i \in DOMAIN found}]
VisibleSet(snap, policy, me, name) == Recorded(Evaluate(Plain(snap), Plain(snap), SetQuery(policy, me, name)).tuples)

\* One entity at a time, over the references a checked transaction adds.
BoundQuery(policy, me, name, e) ==
  [RuleQuery(policy, name, Rel({MeVar, FocusVar}, {(MeVar :> me.eid) @@ (FocusVar :> e)})) EXCEPT !.limit = 1]
EvalNamedRuleBound(ctx, name, e) ==
  LET view == [Plain(ctx.snap) EXCEPT !.extra = ctx.extra] IN
  Evaluate(view, view, BoundQuery(ctx.policy, ctx.me, name, e)).tuples # <<>>

EvalNamedRule(ctx, name, e, useSet) ==
  /\ ctx.me.eid # Null
  /\ ctx.policy.rules # <<>>
  /\ IF useSet /\ ~ctx.sets[name].fallback THEN e \in ctx.sets[name].eids ELSE EvalNamedRuleBound(ctx, name, e)

EvalRuleArm(ctx, arm, e, useSet) ==
  /\ arm.class = {} \/ ctx.me.class \in arm.class
  /\ arm.rule = "public" \/ EvalNamedRule(ctx, arm.rule, e, useSet)
HoldsArm(ctx, arm, e, useSet) ==
  IF arm.is = "rule" THEN EvalRuleArm(ctx, arm, e, useSet) ELSE EvalExpr(ctx, arm.expr, e)
\* Some arm holds, and none that denies.
EvalArms(ctx, arms, e, useSet) ==
  LET Decided(holding) == holding # {} /\ \A arm \in holding : arm.is # "deny"
  IN  Decided({arm \in Range(arms) : HoldsArm(ctx, arm, e, useSet)})

\* skipsNsBackstop: the namespace's rule is in the query.
SkipsNs(ctx, ns) == ns \in ctx.skip

\* The attribute's rule narrows its namespace's; with neither, nothing is allowed.
AllowsOp(ctx, op, a, e) ==
  LET ns == <<NsOf[a], op>>
      inAttrs == IF <<a, op>> \in DOMAIN ctx.policy.attrs THEN {ctx.policy.attrs[<<a, op>>]} ELSE {}
      inNs == IF ns \in DOMAIN ctx.policy.ns THEN {ctx.policy.ns[ns]} ELSE {}
      reading == op = "read" /\ ctx.extra = <<>>
      skipped == reading /\ SkipsNs(ctx, NsOf[a])
  IN  /\ skipped \/ inAttrs \cup inNs # {}
      /\ \A arms \in (IF skipped THEN {} ELSE inNs) \cup inAttrs :
           EvalArms(ctx, arms, e, reading /\ ~skipped /\ VisibleSetMax > 0)

Context(snap, policy, me, extra, skip) ==
  [snap |-> snap, policy |-> policy, me |-> me, extra |-> extra, skip |-> skip,
   sets |-> [name \in {policy.rules[i].name : i \in DOMAIN policy.rules} |-> VisibleSet(snap, policy, me, name)]]

(***************************************************************************)
(* filterDb: a view of snap, judged at ruleSnap whatever snap is as of.    *)
(***************************************************************************)
Entities(snap) == FirstUserEid..(snap.nextEid - 1)
Hiding(context, snap, upTo) ==
  LET Hidden(ctx) == {x \in Entities(upTo) \X (DOMAIN Attr \ SystemAttrs) : ~AllowsOp(ctx, "read", x[2], x[1])}
  IN  [Plain(snap) EXCEPT !.hidden = UNION {Hidden(ctx) : ctx \in {context}}]
\* Mutant: an as-of view is judged by the grants of its own time.
FilterDbThen(snap, ruleSnap, policy, me, skip) ==
  IF IsAdmin(me) THEN Plain(snap) ELSE Hiding(Context(snap, policy, me, <<>>, skip), snap, ruleSnap)
FilterDb(snap, ruleSnap, policy, me, skip) ==
  IF IsAdmin(me) THEN Plain(snap) ELSE Hiding(Context(ruleSnap, policy, me, <<>>, skip), snap, ruleSnap)

(***************************************************************************)
(* conjoinPolicy: the read rule of each namespace an entity variable of    *)
(* the query touches becomes a clause of the query.                        *)
(***************************************************************************)
RECURSIVE Patterns(_)
Patterns(clauses) ==
  UNION {IF c.is = "pattern" THEN {c} ELSE IF Nested(c) THEN UNION {Patterns(b) : b \in Range(c.branches)} ELSE {} :
           c \in Range(clauses)}
RECURSIVE Calls(_)
Calls(clauses) ==
  UNION {IF c.is = "call" THEN {c} ELSE IF Nested(c) THEN UNION {Calls(b) : b \in Range(c.branches)} ELSE {} :
           c \in Range(clauses)}

RuleCall(name, v) ==
  [Call(name, <<Var(-1), [is |-> "var", name |-> v]>>) EXCEPT !.origin = "rule"]
NeverClause == [Pred("=", <<Const(0), Const(1)>>) EXCEPT !.origin = "rule"]

\* The rule is in the query already, as a call or as the one pattern it is.
Entailed(where, name, v, rules) ==
  LET bodies == {rules[i] : i \in {j \in DOMAIN rules : rules[j].name = name}}
      As(def) == Subst(def.clauses[1], (def.args[1] :> Var(-1)) @@ (def.args[2] :> [is |-> "var", name |-> v]), 0)
      Same(c, p) == c.is = "pattern" /\ \A i \in 1..3 : c.args[i] = p.args[i]
  IN  \/ \E c \in Calls(where) : c.name = name /\ Len(c.args) > 1 /\ c.args[2] = [is |-> "var", name |-> v]
      \/ bodies # {} /\ \A def \in bodies :
           Len(def.clauses) = 1 /\ def.clauses[1].is = "pattern" /\ \E c \in Range(where) : Same(c, As(def))

\* nsConjunction: the clauses to add for a variable, none to leave it to the
\* filter.
NsConjunction(policy, me, ns, v, where) ==
  LET arms == IF <<ns, "read">> \in DOMAIN policy.ns THEN policy.ns[<<ns, "read">>] ELSE <<>>
      mine == {arms[i].rule : i \in {j \in DOMAIN arms : arms[j].is = "rule" /\ (arms[j].class = {} \/ me.class \in arms[j].class)}}
      rest == {name \in mine : ~Entailed(where, name, v, policy.rules)}
  IN  CASE arms = <<>> -> {NeverClause}
        [] arms # <<>> /\ (\E i \in DOMAIN arms : arms[i].is # "rule") -> {}
        [] arms # <<>> /\ (\A i \in DOMAIN arms : arms[i].is = "rule") ->
             IF "public" \in mine THEN {}
             ELSE IF mine = {} \/ me.eid = Null THEN {NeverClause}
             ELSE IF Cardinality(rest) < 2 THEN {RuleCall(name, v) : name \in rest}
             ELSE {[Or(Unscoped, [i \in 1..Cardinality(rest) |-> <<RuleCall(SetToSeq(rest)[i], v)>>]) EXCEPT !.origin = "rule"]}

\* [where, rules, me: whether MeVar is bound, covered: the namespaces whose rule
\* every entity variable at the top has].
ConjoinPolicy(q, policy, me) ==
  LET byVar == {p \in Patterns(q.where) : p.args[1].is = "var" /\ p.args[2].is = "const"}
      variableAttr == \E p \in Patterns(q.where) : p.args[1].is = "var" /\ p.args[2].is # "const"
      top == {c.args[1].name : c \in {x \in Range(q.where) : x.is = "pattern" /\ x.args[1].is = "var"}}
      pairs == {x \in {<<p.args[1].name, NsOf[p.args[2].v]>> : p \in byVar} : x[1] \in top}
      added == [x \in pairs |-> NsConjunction(policy, me, x[2], x[1], q.where)]
      injected == UNION {added[x] : x \in pairs}
      names == {policy.rules[i].name : i \in DOMAIN policy.rules}
  IN  IF policy.version # 2 \/ injected = {}
      THEN [where |-> q.where, rules |-> q.rules, me |-> FALSE, covered |-> {}]
      ELSE [where |-> q.where \o SetToSeq(injected),
            rules |-> policy.rules \o SelectSeq(q.rules, LAMBDA d : d.name \notin names),
            me |-> me.eid # Null /\ \E c \in injected : MeVar \in ClauseVars(c),
            covered |-> IF variableAttr THEN {}
                        ELSE {x[2] : x \in {y \in pairs : \A z \in pairs : z[2] = y[2] => added[z] # {}}}]

\* query, as the principal; pushdown is QueryOptions.pushdown.
QueryAs(snap, ruleSnap, policy, me, q, pushdown) ==
  LET In(plan) == IF plan.me THEN HashJoin(q.in, Rel({MeVar}, {MeVar :> me.eid})) ELSE q.in
      Over(plan, view) == Evaluate(view, IF pushdown THEN Plain(ruleSnap) ELSE view,
                                   [q EXCEPT !.where = plan.where, !.rules = plan.rules, !.in = In(plan)])
      Planned(plan) == Over(plan, FilterDb(snap, ruleSnap, policy, me, plan.covered))
  IN  Planned(IF pushdown /\ ~IsAdmin(me) THEN ConjoinPolicy(q, policy, me)
              ELSE [where |-> q.where, rules |-> q.rules, me |-> FALSE, covered |-> {}])

(***************************************************************************)
(* checkTx: the operations to transact, presets added, or a denial.        *)
(***************************************************************************)
Denied == [ok |-> FALSE, ops |-> <<>>]
Granted(ops) == [ok |-> TRUE, ops |-> ops]

\* What each datom of an expansion is judged as.
OpOf(x, i) ==
  LET d == x.out[i + 1] IN   \* out begins with the transaction's instant
  CASE x.how[i] -> "retractEntity"
    [] ~x.how[i] /\ ~d.op -> "retract"
    [] ~x.how[i] /\ d.op -> IF d.e \in x.newEntities THEN "create" ELSE "add"

\* Mutant: a preset is added to what already has it.
PresetOpsAlways(policy, me, created) ==
  FoldSet(LAMBDA ent, acc :
    FoldSet(LAMBDA a, ops :
        IF NsOf[a] \notin {NsOf[b] : b \in ent.attrs} THEN ops
        ELSE IF ~ops.ok \/ Operand(policy.preset[a], me) = Null THEN Denied
        ELSE Granted(Append(ops.ops, Op("add", ent.ref, a, [is |-> "eid", id |-> Operand(policy.preset[a], me)]))),
      acc, DOMAIN policy.preset),
    Granted(<<>>), created)
\* presetOps: created is a set of [ref, attrs].
PresetOps(policy, me, created) ==
  FoldSet(LAMBDA ent, acc :
    FoldSet(LAMBDA a, ops :
        IF a \in ent.attrs \/ NsOf[a] \notin {NsOf[b] : b \in ent.attrs} THEN ops
        ELSE IF ~ops.ok \/ Operand(policy.preset[a], me) = Null THEN Denied
        ELSE Granted(Append(ops.ops, Op("add", ent.ref, a, [is |-> "eid", id |-> Operand(policy.preset[a], me)]))),
      acc, DOMAIN policy.preset),
    Granted(<<>>), created)

\* How a created entity is named: a tempid of the caller's, a generated one, or
\* its number.
RefOf(x, e) ==
  LET names == {id \in DOMAIN x.tempids : x.tempids[id] = e}
      own == {id \in names : id < GeneratedTempid}
  IN  IF names = {} THEN [is |-> "eid", id |-> e]
      ELSE [is |-> "tmp", id |-> IF own # {} THEN CHOOSE id \in own : TRUE ELSE CHOOSE id \in names : TRUE]

\* Datom i may be written.  What a transaction creates is judged with the
\* references it adds.
Allowed(snap, policy, me, x, i) ==
  LET d == x.out[i + 1]
      op == OpOf(x, i)
      added == SelectSeq(Tail(x.out), LAMBDA f : f.op /\ Attr[f.a].ref)
      asserted == [j \in DOMAIN added |-> [added[j] EXCEPT !.t = snap.basisT]]
  IN  /\ d.a \notin SystemAttrs
      /\ IF op = "create" /\ d.a \in DOMAIN policy.preset
         THEN Operand(policy.preset[d.a], me) = d.v
         ELSE \E ctx \in {Context(snap, policy, me, IF op = "create" THEN asserted ELSE <<>>, {})} : AllowsOp(ctx, op, d.a, d.e)

\* x is the expansion of items; flat is the operations it came from.
CheckExpanded(snap, policy, me, items, flat, x) ==
  LET datoms == Tail(x.out)
      made == {i \in DOMAIN datoms : datoms[i].op /\ datoms[i].e \in x.newEntities}
      created == {[ref |-> RefOf(x, e), attrs |-> {datoms[i].a : i \in {j \in made : datoms[j].e = e}}] :
                    e \in {datoms[i].e : i \in made}}
      WithPresets(presets) == IF presets.ok THEN Granted(items \o presets.ops) ELSE Denied
  IN  IF \E i \in DOMAIN flat : flat[i].kind # "retractEntity" /\ flat[i].a \notin DOMAIN Attr \ SystemAttrs THEN Denied
      ELSE IF x.error # "none" \/ \E i \in DOMAIN datoms : ~Allowed(snap, policy, me, x, i) THEN Denied
      ELSE WithPresets(PresetOps(policy, me, created))
CheckTx(snap, policy, me, items) ==
  IF IsAdmin(me) THEN Granted(items)
  ELSE CheckExpanded(snap, policy, me, items, FlattenTxData(items), ExpandTx(snap, items, snap.basisT + 1, RetractCap))
=============================================================================
