------------------------------- MODULE Forms -------------------------------
(***************************************************************************)
(* A query as it travels (internal/core/query/parse.ts): the form a client *)
(* writes for the engine's query (db/query/query.ts) and how the engine    *)
(* reads it.                                                               *)
(*                                                                         *)
(* A form is an atom or a vector of forms.  A variable begins with "?", a  *)
(* plain symbol is a word, a piece of data stands for itself, an ident or  *)
(* a wrapped constant too.  A query's form is a record of its sections,    *)
(* Absent where it has none.  Reading refuses what it cannot read: the     *)
(* operators named ...Fits say what is read, the others what it is read    *)
(* as.  Texts of EDN, the :in and :keys sections, find specs other than a  *)
(* relation, pulled cells, tuples of one variable or with a place ignored  *)
(* and combinations of predicates in :having are left out.                 *)
(***************************************************************************)
EXTENDS Queries

Word(x) == [form |-> "word", name |-> x]
Variable(name) == [form |-> "var", name |-> name]
Underscore == [form |-> "_"]
Dots == [form |-> "..."]
Data(v) == [form |-> "data", v |-> v]
Vec(items) == [form |-> "vec", items |-> items]
Absent == [form |-> "absent"]

IsVec(f) == f.form = "vec"
IsVarName(f) == f.form = "var"
IsData(fs) == \A i \in DOMAIN fs : fs[i].form = "data"
AreVars(fs) == \A i \in DOMAIN fs : IsVarName(fs[i])
Names(fs) == [i \in DOMAIN fs |-> fs[i].name]
\* asExpr: a vector that begins with a plain symbol.
IsExpr(f) == IsVec(f) /\ f.items # <<>> /\ f.items[1].form = "word"
HeadOfExpr(f) == f.items[1].name

(***************************************************************************)
(* Terms and bindings.                                                     *)
(***************************************************************************)
IsTerm(f) == f.form \in {"_", "var", "data"}
ToTerm(f) ==
  CASE f.form = "_" -> Blank
    [] f.form = "var" -> [is |-> "var", name |-> f.name]
    [] f.form = "data" -> Const(f.v)
AreTerms(fs) == \A i \in DOMAIN fs : IsTerm(fs[i])
Terms(fs) == [i \in DOMAIN fs |-> ToTerm(fs[i])]
\* The list a function is given is its arguments.
ArgsOf(fs) == IF Len(fs) = 1 /\ IsVec(fs[1]) THEN fs[1].items ELSE fs

\* A variable, one with dots for each value of a list, or a tuple of them.
IsColl(f) == IsVec(f) /\ Len(f.items) = 2 /\ f.items[2] = Dots
BindingFits(f) ==
  \/ IsVarName(f)
  \/ IsColl(f) /\ IsVarName(f.items[1])
  \/ IsVec(f) /\ ~IsColl(f) /\ Len(f.items) > 1 /\ AreVars(f.items)
ToBinding(f) ==
  CASE IsVarName(f) -> [scalar |-> TRUE, out |-> <<f.name>>]
    [] IsColl(f) -> [scalar |-> FALSE, out |-> <<f.items[1].name>>]
    [] OTHER -> [scalar |-> FALSE, out |-> Names(f.items)]

(***************************************************************************)
(* Clauses.                                                                *)
(***************************************************************************)
Combinators == {"not", "not-join", "or", "or-join", "and"}
\* [(head ...)] and [(head ...) binding]; a combinator may stand so too.
IsApplied(f) == IsVec(f) /\ f.items # <<>> /\ IsExpr(f.items[1])
IsList(f) == IsExpr(f) \/ (IsApplied(f) /\ HeadOfExpr(f.items[1]) \in Combinators)
ListOf(f) == IF IsExpr(f) THEN f.items ELSE f.items[1].items
\* orBranch: the clauses of an (and ...), or one.
Branch(f) == IF IsExpr(f) /\ HeadOfExpr(f) = "and" THEN Tail(f.items) ELSE <<f>>
\* or-join: [[?a ?b] ?c] is [?a ?b ?c].
Flat(fs) == FlattenSeq([i \in DOMAIN fs |-> IF IsVec(fs[i]) THEN fs[i].items ELSE <<fs[i]>>])

RECURSIVE ClauseFits(_), ToClause(_)
AllFit(fs) == \A i \in DOMAIN fs : ClauseFits(fs[i])
ToClauses(fs) == [i \in DOMAIN fs |-> ToClause(fs[i])]

\* listClause.
ListFits(items) ==
  LET head == items[1].name
      rest == Tail(items)
      joins == rest # <<>> /\ IsVec(rest[1])
  IN  CASE head = "not" -> AllFit(rest)
        [] head = "not-join" -> joins /\ AreVars(rest[1].items) /\ AllFit(Tail(rest))
        [] head = "or" -> \A i \in DOMAIN rest : AllFit(Branch(rest[i]))
        [] head = "or-join" ->
             joins /\ AreVars(Flat(rest[1].items)) /\ \A i \in DOMAIN Tail(rest) : AllFit(Branch(Tail(rest)[i]))
        [] head = "and" -> FALSE
        [] OTHER -> AreTerms(rest)
ToList(items) ==
  LET head == items[1].name
      rest == Tail(items)
      Branches(fs) == [i \in DOMAIN fs |-> ToClauses(Branch(fs[i]))]
      Joined_(fs) == JoinOn(Range(Names(fs)))
  IN  CASE head = "not" -> Not(Unscoped, ToClauses(rest))
        [] head = "not-join" -> Not(Joined_(rest[1].items), ToClauses(Tail(rest)))
        [] head = "or" -> Or(Unscoped, Branches(rest))
        [] head = "or-join" -> Or(Joined_(Flat(rest[1].items)), Branches(Tail(rest)))
        [] OTHER -> Call(head, Terms(rest))

\* toClause: a combinator or a rule's call, a predicate, a function, or a data
\* pattern of one to five places.
ClauseFits(f) ==
  CASE IsList(f) -> ListFits(ListOf(f))
    [] ~IsList(f) /\ IsApplied(f) ->
         /\ AreTerms(ArgsOf(Tail(f.items[1].items)))
         /\ Len(f.items) = 1 \/ (Len(f.items) = 2 /\ BindingFits(f.items[2]))
    [] OTHER -> IsVec(f) /\ Len(f.items) \in 1..5 /\ AreTerms(f.items)
ToClause(f) ==
  LET fn == HeadOfExpr(f.items[1])
      args == Terms(ArgsOf(Tail(f.items[1].items)))
      b == ToBinding(f.items[2])
      Place(i) == IF i \in DOMAIN f.items THEN ToTerm(f.items[i]) ELSE Blank
  IN  CASE IsList(f) -> ToList(ListOf(f))
        [] ~IsList(f) /\ IsApplied(f) -> IF Len(f.items) = 1 THEN Pred(fn, args) ELSE Fn(fn, args, b.scalar, b.out)
        [] OTHER -> Pattern(Place(1), Place(2), Place(3), Place(4), Place(5))

(***************************************************************************)
(* What is found, and in what order.                                       *)
(***************************************************************************)
\* toFindElem: a variable, an aggregate, or one that is given a name.
IsNamed(f) == IsExpr(f) /\ HeadOfExpr(f) = "as"
FindFits(f) ==
  LET IsFound(x) == IsExpr(x) /\ HeadOfExpr(x) \notin {"as", "pull"} /\ Len(x.items) > 1 /\ IsVarName(Last(x.items)) IN
  \/ IsVarName(f) \/ IsFound(f)
  \/ IsNamed(f) /\ Len(f.items) = 3 /\ IsFound(f.items[2]) /\ IsVarName(f.items[3])
ToFindElem(f) ==
  LET elem == IF IsNamed(f) THEN f.items[2] ELSE f
      name == IF IsVarName(elem) THEN elem.name ELSE Last(elem.items).name
  IN  IF IsVarName(elem) THEN [is |-> "var", name |-> name, fn |-> "none"]
      ELSE [is |-> "agg", name |-> name, fn |-> HeadOfExpr(elem)]
ToFind(fs) == [i \in DOMAIN fs |-> ToFindElem(fs[i])]
Aggregates(find) == \E i \in DOMAIN find : find[i].is = "agg"

\* toOrderSpec: a variable, ascending; or with its direction and where empty cells go.
OrderFits(f) ==
  \/ IsVarName(f)
  \/ /\ IsVec(f) /\ Len(f.items) \in 1..3 /\ IsVarName(f.items[1])
     /\ Len(f.items) > 1 => f.items[2] \in {Word("asc"), Word("desc")}
     /\ Len(f.items) > 2 => f.items[3] \in {Word("first"), Word("last")}
ToOrderSpec(f) ==
  LET Given(i, word) == IsVec(f) /\ Len(f.items) >= i /\ f.items[i] = Word(word) IN
  [name |-> IF IsVarName(f) THEN f.name ELSE f.items[1].name, desc |-> Given(2, "desc"), emptyFirst |-> Given(3, "first")]
ToOrder(fs) == [i \in DOMAIN fs |-> ToOrderSpec(fs[i])]

\* toCount, toAfter: a cursor has a value for every key of a sort of rows.
CountIs(f) == f = Absent \/ (f.form = "data" /\ f.v \in Nat)
ToCount(f, otherwise) == IF f = Absent THEN otherwise ELSE f.v
AfterFits(f, order, find) ==
  f = Absent \/ (order # <<>> /\ IsVec(f) /\ Len(f.items) = Len(order) /\ IsData(f.items) /\ ~Aggregates(find))
ToAfter(f) == IF f = Absent THEN <<>> ELSE [i \in DOMAIN f.items |-> f.items[i].v]

(***************************************************************************)
(* Rules and filters of groups.                                            *)
(***************************************************************************)
\* toRuleDef: [[name ?a ...] clause ...], its variables different.
RuleFits(f) ==
  /\ IsVec(f) /\ Len(f.items) > 1 /\ IsExpr(f.items[1])
  /\ LET args == Tail(f.items[1].items) IN args # <<>> /\ AreVars(args) /\ IsInjective(Names(args))
  /\ AllFit(Tail(f.items))
ToRule(f) ==
  [name |-> HeadOfExpr(f.items[1]), args |-> Names(Tail(f.items[1].items)), clauses |-> ToClauses(Tail(f.items))]

\* checkRuleCalls: every rule that is called is there, with as many arguments.
RECURSIVE CallsIn(_)
CallsIn(clauses) ==
  UNION {IF c.is = "call" THEN {c} ELSE IF Nested(c) THEN UNION {CallsIn(b) : b \in Range(c.branches)} ELSE {} :
           c \in Range(clauses)}
CallsFit(clauses, defs) ==
  \A c \in CallsIn(clauses) : \E d \in Range(defs) : d.name = c.name /\ Len(d.args) = Len(c.args)
\* toRules: the branches of a rule have one head.
RulesFit(defs) ==
  /\ \A c, d \in Range(defs) : c.name = d.name => Len(c.args) = Len(d.args)
  /\ \A d \in Range(defs) : CallsFit(d.clauses, defs)

\* havingVars: a cell goes by its name, and without one by its variable, unless
\* another cell before it does.
CellName(f) == IF IsNamed(f) THEN f.items[3].name ELSE ToFindElem(f).name
CellsNamed(fs) ==
  \A i, j \in DOMAIN fs : i < j /\ IsExpr(fs[j]) /\ ~IsNamed(fs[j]) => CellName(fs[i]) # CellName(fs[j])
\* toHaving: an answer with aggregates has its cells compared.
HavingReads(fs, find) ==
  LET On(f) == /\ ClauseFits(f) /\ IsApplied(f) /\ Len(f.items) = 1
               /\ LET args == Tail(f.items[1].items) IN
                  Len(args) = 2 /\ args[2].form = "data" /\ \E i \in DOMAIN find : args[1] = Variable(CellName(find[i]))
  IN  fs # <<>> => Aggregates(ToFind(find)) /\ CellsNamed(find) /\ \A i \in DOMAIN fs : On(fs[i])
ToHaving(fs, find) ==
  LET Of(fn, args) ==
        [fn |-> fn, v |-> args[2].v,
         col |-> CHOOSE i \in DOMAIN find :
                   /\ CellName(find[i]) = args[1].name
                   /\ \A j \in DOMAIN find : CellName(find[j]) = args[1].name => j <= i]
  IN  [k \in DOMAIN fs |-> Of(HeadOfExpr(fs[k].items[1]), Tail(fs[k].items[1].items))]

(***************************************************************************)
(* parseQuery.                                                             *)
(***************************************************************************)
QueryFits(m) ==
  LET defs == [i \in DOMAIN m.rules |-> ToRule(m.rules[i])] IN
  /\ m.find # <<>> /\ \A i \in DOMAIN m.find : FindFits(m.find[i])
  /\ AllFit(m.where) /\ AreVars(m.with)
  /\ \A i \in DOMAIN m.rules : RuleFits(m.rules[i])
  /\ RulesFit(defs) /\ CallsFit(ToClauses(m.where), defs)
  /\ HavingReads(m.having, m.find)
  /\ \A i \in DOMAIN m.order : OrderFits(m.order[i])
  /\ AfterFits(m.after, m.order, ToFind(m.find))
  /\ CountIs(m.limit) /\ CountIs(m.offset)
ParseQuery(m) ==
  [Query(ToFind(m.find), ToClauses(m.where)) EXCEPT
     !.with = Range(Names(m.with)),
     !.rules = [i \in DOMAIN m.rules |-> ToRule(m.rules[i])],
     !.having = ToHaving(m.having, m.find),
     !.order = ToOrder(m.order), !.after = ToAfter(m.after),
     !.limit = ToCount(m.limit, Null), !.offset = ToCount(m.offset, 0)]

(***************************************************************************)
(* What a client writes for the engine's query.                            *)
(***************************************************************************)
TermForm(t) == CASE t.is = "blank" -> Underscore [] t.is = "var" -> Variable(t.name) [] t.is = "const" -> Data(t.v)
TermForms(terms) == [i \in DOMAIN terms |-> TermForm(terms[i])]
NameForms(names) == [i \in DOMAIN names |-> Variable(names[i])]
JoinForm(join) == Vec(NameForms(SetToSeq(join.vars)))
Applied(fn, args) == Vec(<<Word(fn)>> \o args)

\* A pattern is written as far as it says something, its value always.
Places(args) == CHOOSE n \in 3..5 : (n > 3 => args[n] # Blank) /\ \A m \in (n + 1)..5 : args[m] = Blank
RECURSIVE ClauseForm(_)
ClauseForms(clauses) == [i \in DOMAIN clauses |-> ClauseForm(clauses[i])]
NestedForm(c) ==
  LET bodies == [i \in DOMAIN c.branches |-> ClauseForms(c.branches[i])]
      Branch_(body) == IF Len(body) = 1 /\ ~c.join.given THEN body[1] ELSE Applied("and", body)
      branches == [i \in DOMAIN bodies |-> Branch_(bodies[i])]
  IN  CASE c.is = "not" /\ c.join.given -> Applied("not-join", <<JoinForm(c.join)>> \o bodies[1])
        [] c.is = "not" /\ ~c.join.given -> Applied("not", bodies[1])
        [] c.is = "or" /\ c.join.given -> Applied("or-join", <<JoinForm(c.join)>> \o branches)
        [] c.is = "or" /\ ~c.join.given -> Applied("or", branches)
BindingForm(c) ==
  CASE c.scalar -> Variable(c.out[1])
    [] ~c.scalar /\ Len(c.out) = 1 -> Vec(<<Variable(c.out[1]), Dots>>)
    [] OTHER -> Vec(NameForms(c.out))
ClauseForm(c) ==
  CASE Nested(c) -> NestedForm(c)
    [] c.is = "call" -> Applied(c.name, TermForms(c.args))
    [] c.is = "pred" -> Vec(<<Applied(c.fn, TermForms(c.args))>>)
    [] c.is = "fn" ->
         Vec(<<Applied(c.fn, IF c.scalar THEN TermForms(c.args) ELSE <<Vec(TermForms(c.args))>>), BindingForm(c)>>)
    [] c.is = "pattern" -> Vec(TermForms(SubSeq(c.args, 1, Places(c.args))))

\* Where groups are filtered every aggregate has a name, equal ones the same.
Alias(q, i) == <<-Min({j \in DOMAIN q.find : q.find[j] = q.find[i]}), 0>>
FindForm(q, i) ==
  LET f == q.find[i]
      agg == Applied(f.fn, <<Variable(f.name)>>)
  IN  CASE f.is = "var" -> Variable(f.name)
        [] f.is = "agg" /\ q.having = <<>> -> agg
        [] f.is = "agg" /\ q.having # <<>> -> Applied("as", <<agg, Variable(Alias(q, i))>>)
HavingForm(q, h) ==
  Vec(<<Applied(h.fn, <<Variable(IF q.find[h.col].is = "agg" THEN Alias(q, h.col) ELSE q.find[h.col].name), Data(h.v)>>)>>)
OrderForm(o) ==
  Vec(<<Variable(o.name), Word(IF o.desc THEN "desc" ELSE "asc"), Word(IF o.emptyFirst THEN "first" ELSE "last")>>)
RuleForm(d) == Vec(<<Applied(d.name, NameForms(d.args))>> \o ClauseForms(d.clauses))
QueryForm(q) ==
  [find |-> [i \in DOMAIN q.find |-> FindForm(q, i)], where |-> ClauseForms(q.where),
   with |-> NameForms(SetToSeq(q.with)), rules |-> [i \in DOMAIN q.rules |-> RuleForm(q.rules[i])],
   having |-> [i \in DOMAIN q.having |-> HavingForm(q, q.having[i])],
   order |-> [i \in DOMAIN q.order |-> OrderForm(q.order[i])],
   after |-> IF q.after = <<>> THEN Absent ELSE Vec([i \in DOMAIN q.after |-> Data(q.after[i])]),
   limit |-> IF q.limit = Null THEN Absent ELSE Data(q.limit),
   offset |-> IF q.offset = 0 THEN Absent ELSE Data(q.offset)]

\* A query's answer, of its form.
Answer(view, ruleView, m) ==
  IF QueryFits(m) THEN Evaluate(view, ruleView, ParseQuery(m)) ELSE [ok |-> FALSE, tuples |-> <<>>]
=============================================================================
