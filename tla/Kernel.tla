------------------------------- MODULE Kernel -------------------------------
(***************************************************************************)
(* The clauses of a built query (db/query/kernel.ts, lib.ts) and their     *)
(* lowering to the engine's (db/query/query.ts).                           *)
(*                                                                         *)
(* A fragment is data, a record its field "frag" names; Contribute runs    *)
(* it.  A variable of a built query is its number and kind, and number is  *)
(* also its name on the wire; names an attribute or a rule makes there     *)
(* come from a counter.  Numbers stand for values, and as the wire tells   *)
(* variables from values by their text, text values are left out.          *)
(***************************************************************************)
EXTENDS Pulls

CONSTANT
  RuleOf   \* name -> [head, ret: variables' numbers (ret 0 for none), clauses]

(***************************************************************************)
(* Positions and clauses.                                                  *)
(***************************************************************************)
V(n, kind) == [is |-> "var", n |-> n, kind |-> kind]
K(x) == [is |-> "const", v |-> x]
Param(key) == [is |-> "param", key |-> key]
AggCell(fn, v) == [is |-> "agg", fn |-> fn, v |-> v]
Hole == [is |-> "blank"]
AnyAttr == -1
IdAttr == 0    \* :db/id

Fact(e, a, v) == [is |-> "fact", e |-> e, a |-> a, v |-> v, tx |-> Hole]
FactIn(e, a, v, tx) == [Fact(e, a, v) EXCEPT !.tx = tx]
Cmp(op, args) == [is |-> "cmp", op |-> op, args |-> args, list |-> <<>>]
InList(v, list) == [Cmp("in", <<v>>) EXCEPT !.list = list]
Member(ns, v) == [is |-> "member", ns |-> ns, v |-> v]
AnyOf(branches) == [is |-> "or", branches |-> branches]
NoneOf(clauses) == [is |-> "not", branches |-> <<clauses>>]
When(gate, clauses) == [is |-> "when", gate |-> gate, branches |-> <<clauses>>]
Apply(rule, args, ret) == [is |-> "call", rule |-> rule, args |-> args, ret |-> ret]

\* The variable a fact's value position mints.
Minted(a, n) == V(n, IF a \in DOMAIN Attr /\ Attr[a].ref THEN "entity" ELSE "value")

(***************************************************************************)
(* Fragments.  Contribute gives the clauses of one on the focus e, the     *)
(* focus it hands on, and the number its next variable would have.         *)
(***************************************************************************)
RECURSIVE Contribute(_, _, _), ContributeAll(_, _, _)

Contributed(clauses, e, n) == [clauses |-> clauses, focus |-> e, n |-> n]
ContributeAll(frags, e, n) ==
  FoldLeft(LAMBDA acc, f : LET r == Contribute(f, e, acc.n) IN Contributed(acc.clauses \o r.clauses, e, r.n),
           Contributed(<<>>, e, n), frags)

Contribute(f, e, n) ==
  LET other == V(n, "entity")
      value == Minted(f.a, n)
      t == V(n, "t")
      tx == V(n, "tx")
      link == Fact(other, f.a, e)
      Linking(r) ==
        Contributed(CASE f.frag = "some" -> <<link>> \o r.clauses
                      [] f.frag = "none" -> <<NoneOf(<<link>> \o r.clauses)>>
                      [] f.frag = "every" -> <<NoneOf(<<link, NoneOf(r.clauses)>>)>>, e, r.n)
      Enclosing(r) == Contributed(<<IF f.frag = "not" THEN NoneOf(r.clauses) ELSE When(f.gate, r.clauses)>>, e, r.n)
      Choosing(r) == Contributed(<<AnyOf(r.clauses)>>, e, r.n)
      Branch(acc, of) ==
        LET r == ContributeAll(of, e, acc.n) IN Contributed(Append(acc.clauses, r.clauses), e, r.n)
      ret == V(n, "value")
  IN  CASE f.frag = "is" -> Contributed(<<Fact(e, f.a, f.v)>>, e, n)
        [] f.frag = "has" -> Contributed(<<Fact(e, f.a, Hole)>>, e, n)
        [] f.frag = "missing" -> Contributed(<<NoneOf(<<Fact(e, f.a, Hole)>>)>>, e, n)
        [] f.frag = "where" -> Contributed(<<Fact(e, f.a, value), Cmp(f.op, <<value, f.v>>)>>, e, n + 1)
        [] f.frag = "whereFlip" -> Contributed(<<Fact(e, f.a, value), Cmp(f.op, <<f.v, value>>)>>, e, n + 1)
        [] f.frag = "whereIn" -> Contributed(<<Fact(e, f.a, value), InList(value, f.list)>>, e, n + 1)
        [] f.frag = "follow" -> Contributed(<<Fact(e, f.a, value)>>, value, n + 1)
        [] f.frag = "backlink" -> Contributed(<<link>>, other, n + 1)
        [] f.frag \in {"some", "none", "every"} -> Linking(ContributeAll(f.of, other, n + 1))
        [] f.frag \in {"not", "when"} -> Enclosing(ContributeAll(f.of, e, n))
        [] f.frag = "either" -> Choosing(FoldLeft(Branch, Contributed(<<>>, e, n), f.of))
        [] f.frag = "updatedSince" -> Contributed(<<FactIn(e, AnyAttr, Hole, t), Cmp(">=", <<t, f.v>>)>>, e, n + 1)
        [] f.frag = "assertedBy" -> Contributed(<<FactIn(e, AnyAttr, Hole, tx), Fact(tx, f.a, f.v)>>, e, n + 1)
        [] f.frag = "touched" -> Contributed(<<FactIn(e, AnyAttr, Hole, t)>>, t, n + 1)
        [] f.frag = "compares" -> Contributed(<<Cmp(f.op, <<e, f.v>>)>>, e, n)
        [] f.frag = "rule" ->
             Contributed(<<Apply(f.rule, <<e>> \o f.args, ret)>>, IF RuleOf[f.rule].ret = 0 THEN e ELSE ret, n + 1)
        [] f.frag = "others" ->  \* the entities with a value of the focus, but not itself
             LET mine == Minted(f.a, n + 1) IN
             Contributed(<<Fact(e, f.a, mine), Fact(other, f.a, mine), NoneOf(<<Fact(e, IdAttr, other)>>)>>, other, n + 2)

\* Fragments one after the other, each on the focus the last one left.
Thread(frags, e, n) ==
  FoldLeft(LAMBDA acc, f : LET r == Contribute(f, acc.focus, acc.n) IN Contributed(acc.clauses \o r.clauses, r.focus, r.n),
           Contributed(<<>>, e, n), frags)

(***************************************************************************)
(* A query's parameters: declared is key -> whether it is optional, binds  *)
(* what the caller bound.                                                  *)
(***************************************************************************)
BindsFit(declared, binds) ==
  /\ DOMAIN binds \subseteq DOMAIN declared
  /\ \A key \in DOMAIN declared : ~declared[key] => key \in DOMAIN binds
GateOn(declared, binds, key) == IF declared[key] THEN key \in DOMAIN binds ELSE binds[key]

\* resolveWhens: a gated group's clauses in its place, or none.
RECURSIVE ResolveWhens(_, _, _)
ResolveWhens(clauses, declared, binds) ==
  FlattenSeq([i \in DOMAIN clauses |->
    IF clauses[i].is # "when" THEN <<clauses[i]>>
    ELSE IF GateOn(declared, binds, clauses[i].gate) THEN ResolveWhens(clauses[i].branches[1], declared, binds)
    ELSE <<>>])

(***************************************************************************)
(* The variables of clauses.                                               *)
(***************************************************************************)
Grouped(c) == c.is \in {"or", "not", "when"}
Numbers(ps) == {p.n : p \in {x \in ps : x.is = "var"}}
RECURSIVE NumbersOf(_)
NumbersOf(clauses) ==
  UNION {CASE Grouped(c) -> UNION {NumbersOf(b) : b \in Range(c.branches)}
           [] c.is = "fact" -> Numbers({c.e, c.v, c.tx})
           [] c.is = "cmp" -> Numbers(Range(c.args))
           [] c.is = "member" -> {c.v.n}
           [] c.is = "call" -> Numbers(Range(c.args)) \cup {c.ret.n} : c \in Range(clauses)}
\* Those of the other clauses of a list.
Beside(clauses, i) == NumbersOf(RemoveAt(clauses, i))

(***************************************************************************)
(* Lowering.  Its state is [ok, rules, names, fresh, seen, defs, out]:     *)
(* nothing was refused; the rules there are; the wire name of each         *)
(* variable met; the next name to make up; the rules and namespaces met    *)
(* and what they became; the clauses so far.                               *)
(***************************************************************************)
FirstFresh == 1000
Blankslate == [ok |-> TRUE, rules |-> RuleOf, names |-> <<>>, fresh |-> FirstFresh, seen |-> {}, defs |-> <<>>, out |-> <<>>]
Refused(st) == [st EXCEPT !.ok = FALSE]
Put(st, c) == [st EXCEPT !.out = Append(@, c)]
Fresh(st) == [st EXCEPT !.fresh = @ + 1]

\* nameOf, of each of some variables.
NameAll(st, ns) == [st EXCEPT !.names = @ @@ [n \in ns \ DOMAIN @ |-> n]]
WireName(st, n) == <<st.names[n], 0>>

\* lowerPos, and the term it is read as (toTerm).  An optional parameter that
\* is not bound is refused.
Unbound(binds, ps) == \E p \in ps : p.is = "param" /\ p.key \notin DOMAIN binds
Lowered(st, binds, p) ==
  CASE p.is = "blank" -> Blank
    [] p.is = "var" -> Var(st.names[p.n])
    [] p.is = "const" -> Const(p.v)
    [] p.is = "param" -> Const(binds[p.key])

\* neverClause.
Never_(st) == Put(Fresh(st), Fn("ground", <<>>, FALSE, <<<<st.fresh, 0>>>>))
Ground(st, name, value) == Put(st, Fn("ground", <<value>>, TRUE, <<name>>))

\* lowerIdFact: :db/id is the entity.  Two variables share a name; a value
\* binds the other side; two values never agree.
LowerIdFact(st, binds, c) ==
  LET both == c.e.is = "var" /\ c.v.is = "var"
      known == {n \in {c.e.n, c.v.n} : n \in DOMAIN st.names}
      Sharing(n) == [st EXCEPT !.names = (c.e.n :> n) @@ (c.v.n :> n) @@ @]
      named == NameAll(st, Numbers({c.e, c.v}))
      e == Lowered(named, binds, c.e)
      v == Lowered(named, binds, c.v)
  IN  CASE both /\ Cardinality(known) = 2 ->
             IF st.names[c.e.n] = st.names[c.v.n] THEN st
             ELSE Put(st, Pred("=", <<Var(st.names[c.e.n]), Var(st.names[c.v.n])>>))
        [] both /\ Cardinality(known) < 2 /\ c.e.n # c.v.n ->
             Sharing(IF known = {} THEN c.e.n ELSE st.names[CHOOSE n \in known : TRUE])
        [] ~both /\ (Blank \in {e, v} \/ e = v) -> named
        [] ~both /\ Blank \notin {e, v} /\ e.is = "var" -> Ground(named, e.name, v)
        [] ~both /\ Blank \notin {e, v} /\ v.is = "var" -> Ground(named, v.name, e)
        [] OTHER -> Never_(named)

LowerFact(st, binds, c) ==
  LET named == NameAll(st, Numbers({c.e, c.v, c.tx}))
      Of(p) == Lowered(named, binds, p)
  IN  CASE Unbound(binds, {c.e, c.v}) -> Refused(st)
        [] ~Unbound(binds, {c.e, c.v}) /\ c.a = IdAttr -> LowerIdFact(st, binds, c)
        [] ~Unbound(binds, {c.e, c.v}) /\ c.a # IdAttr ->
             Put(named, Pattern(Of(c.e), IF c.a = AnyAttr THEN Blank ELSE Const(c.a), Of(c.v), Of(c.tx), Blank))

\* lowerCmp: beside a basis t, a number is the entity of the transaction.
\* Mutant: a number is itself.
OperandAsIs(st, binds, args, p) == Lowered(st, binds, p)
OperandIn(st, binds, args, p) ==
  LET tSided == \E i \in DOMAIN args : args[i].is = "var" /\ args[i].kind = "t"
      x == Lowered(st, binds, p)
  IN  IF tSided /\ x.is = "const" THEN Const(TxEid(x.v)) ELSE x
LowerCmp(st, binds, c) ==
  LET named == NameAll(st, Numbers(Range(c.args)))
      Operand(i) == OperandIn(named, binds, c.args, c.args[i])
      Listed(list) == Fn("ground", [i \in DOMAIN list |-> Const(list[i])], FALSE, <<WireName(named, c.args[1].n)>>)
  IN  CASE Unbound(binds, Range(c.args)) \/ \E p \in Range(c.args) : p.is = "agg" -> Refused(st)
        [] c.op = "in" /\ c.list = <<>> -> Never_(st)
        [] c.op = "in" /\ c.list # <<>> -> Put(named, Listed(c.list))
        [] OTHER -> Put(named, Pred(c.op, [i \in DOMAIN c.args |-> Operand(i)]))

\* registerMembership: an entity with any attribute of the namespace.
RegisterMembership(st, ns) ==
  LET e == st.fresh
      attrs == SetToSeq({a \in DOMAIN Attr : NsOf[a] = ns})
      rule == Or(Unscoped, [i \in DOMAIN attrs |-> <<Pattern(Var(e), Const(attrs[i]), Blank, Blank, Blank)>>])
  IN  IF ns \in st.seen THEN st
      ELSE [Fresh(st) EXCEPT !.seen = @ \cup {ns}, !.defs = Append(@, [name |-> ns, args |-> <<<<e, 0>>>>, clauses |-> <<rule>>])]
\* Beside a fact of the namespace membership goes without saying.
Implied(clauses, i) ==
  \E j \in DOMAIN clauses \ {i} :
    /\ clauses[j].is = "fact" /\ clauses[j].a \in DOMAIN Attr /\ NsOf[clauses[j].a] = clauses[i].ns
    /\ clauses[j].e.is = "var" /\ clauses[j].e.n = clauses[i].v.n
LowerMember(st, clauses, i) ==
  LET named == NameAll(RegisterMembership(st, clauses[i].ns), {clauses[i].v.n}) IN
  IF Implied(clauses, i) THEN st ELSE Put(named, Call(clauses[i].ns, <<Var(named.names[clauses[i].v.n])>>))

\* The variables a group shares with what is around it.
\* Mutant: with the clauses beside it only.
JoinBeside(clauses, i, outer) == NumbersOf(<<clauses[i]>>) \cap Beside(clauses, i)
Join(clauses, i, outer) == NumbersOf(<<clauses[i]>>) \cap (Beside(clauses, i) \cup outer)
JoinNames(st, ns) == JoinOn({WireName(st, n) : n \in ns})

RECURSIVE LowerClauses(_, _, _, _), LowerClause(_, _, _, _, _), RegisterRule(_, _, _)

\* The clauses of each branch, in st.out.
LowerBranches(st, binds, branches, scope) ==
  LET Branch(s, b) ==
        LET low == LowerClauses([s EXCEPT !.out = <<>>], binds, b, scope) IN [low EXCEPT !.out = Append(s.out, low.out)]
  IN  FoldLeft(Branch, [st EXCEPT !.out = <<>>], branches)
Closing(low, out, clause) == Put([low EXCEPT !.out = out], clause)

\* An or names its join before its branches are lowered, a not after.
LowerOr(st, binds, c, join, scope) ==
  LET Around(low) == Closing(low, st.out, Or(JoinNames(low, join), low.out))
  IN  IF c.branches = <<>> THEN Never_(st) ELSE Around(LowerBranches(NameAll(st, join), binds, c.branches, scope))
LowerNot(st, binds, c, join, scope) ==
  LET Named(low) == Closing(low, st.out, Not(JoinNames(low, join), low.out[1]))
      Around(low) == IF low.out[1] = <<>> THEN Never_([low EXCEPT !.out = st.out]) ELSE Named(NameAll(low, join))
  IN  Around(LowerBranches(st, binds, c.branches, scope))

\* registerRule: it is known before its body is lowered.
RegisterRule(st, binds, name) ==
  LET rule == st.rules[name]
      head == rule.head \o (IF rule.ret = 0 THEN <<>> ELSE <<rule.ret>>)
      started == [NameAll(st, Range(head)) EXCEPT !.seen = @ \cup {name}, !.out = <<>>]
      Def(low) == [name |-> name, args |-> [i \in DOMAIN head |-> WireName(low, head[i])], clauses |-> low.out]
      Around(low) == [low EXCEPT !.out = st.out, !.defs = Append(@, Def(low))]
  IN  IF name \in st.seen THEN st ELSE Around(LowerClauses(started, binds, rule.clauses, Range(head)))
LowerCall(st, binds, c, scope) ==
  LET places == c.args \o (IF st.rules[c.rule].ret = 0 THEN <<>> ELSE <<c.ret>>)
      Calling(named) == Put(named, Call(c.rule, [i \in DOMAIN places |-> Lowered(named, binds, places[i])]))
  IN  IF Unbound(binds, Range(c.args)) \/ (st.rules[c.rule].ret = 0 /\ c.ret.n \in scope) THEN Refused(st)
      ELSE Calling(NameAll(RegisterRule(st, binds, c.rule), Numbers(Range(places))))

LowerClause(st, binds, clauses, i, outer) ==
  LET c == clauses[i]
      join == Join(clauses, i, outer)
      scope == outer \cup Beside(clauses, i)
  IN  CASE c.is = "fact" -> LowerFact(st, binds, c)
        [] c.is = "cmp" -> LowerCmp(st, binds, c)
        [] c.is = "member" -> LowerMember(st, clauses, i)
        [] c.is = "call" -> LowerCall(st, binds, c, scope)
        [] c.is = "or" -> LowerOr(st, binds, c, join, scope)
        [] c.is = "not" -> LowerNot(st, binds, c, join, scope)
        [] c.is = "when" -> Refused(st)
LowerClauses(st, binds, clauses, outer) ==
  FoldLeft(LAMBDA s, i : LowerClause(s, binds, clauses, i, outer), st, [i \in DOMAIN clauses |-> i])
=============================================================================
