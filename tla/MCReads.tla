------------------------------ MODULE MCReads ------------------------------
(* Reads with users and documents.                                          *)
EXTENDS Reads

\* 1 :db/index, 2 :db/unique, 3 :db/txInstant; a user's 4 name, 8 best (a user);
\* a document's 5 owner (a user), 6 part (documents), 7 tag.
MCAttr ==
  [a \in 1..8 |-> [many |-> a \in {6, 7}, ref |-> a \in {5, 6, 8}, component |-> a = 6]]
MCNsOf == [a \in 1..8 |-> CASE a < 4 -> "db" [] a \in {4, 8} -> "user" [] OTHER -> "doc"]
MCBoot ==
  <<[e |-> 4, a |-> 2, v |-> 1, t |-> 1, op |-> TRUE],
    [e |-> TxEid(1), a |-> 3, v |-> 0, t |-> 1, op |-> TRUE]>>

(***************************************************************************)
(* The policy.                                                             *)
(***************************************************************************)
ExprArm(is, expr) == [is |-> is, expr |-> expr]
Mine == [is |-> "eq", a |-> 5, operand |-> [is |-> "principal"]]
InMine == [is |-> "ref", a |-> 6, exprs |-> <<Mine>>]
Dull == [is |-> "eq", a |-> 7, operand |-> [is |-> "lit", v |-> 3]]
Yes == [is |-> "const", value |-> TRUE]
Any_(exprs) == [is |-> "or", exprs |-> exprs]
No(expr) == [is |-> "not", exprs |-> <<expr>>]

\* Version 1: mine and what has mine for a part, unless it is dull.
MCLegacy ==
  {[version |-> 1, principal |-> 4, classes |-> <<"member">>,
    attrs |-> (<<5, "add">> :> <<ExprArm("deny", Yes)>>) @@ (<<7, "read">> :> <<ExprArm("allow", Any_(<<No([is |-> "class", class |-> "member"]), Mine>>))>>),
    ns |-> (<<"user", "read">> :> <<ExprArm("allow", Yes)>>)
           @@ (<<"doc", "read">> :> <<ExprArm("allow", Mine), ExprArm("allow", InMine), ExprArm("deny", Dull)>>)
           @@ (<<"doc", "create">> :> <<ExprArm("allow", Yes)>>)
           @@ (<<"doc", "add">> :> <<ExprArm("allow", Mine)>>)
           @@ (<<"doc", "retractEntity">> :> <<ExprArm("allow", Mine)>>),
    preset |-> (5 :> [is |-> "principal"]), rules |-> <<>>]}

\* owned: a document is mine, or a part of one that is.
MCRuleOf ==
  [owned |-> [head |-> <<501, 502>>, ret |-> 0,
              clauses |-> <<AnyOf(<<<<Fact(V(501, "value"), 5, V(502, "value"))>>,
                                    <<Fact(V(503, "entity"), 6, V(501, "value")),
                                      Apply("owned", <<V(503, "entity"), V(502, "value")>>, V(504, "value"))>>>>)>>]]
\* Attribute 90 is of no catalog.
MCFragOf(frag, me) ==
  CASE frag = "mine" -> <<[frag |-> "is", a |-> 5, v |-> me]>>
    [] frag = "owned" -> <<[frag |-> "rule", rule |-> "owned", args |-> <<me>>]>>
    [] frag = "friend" -> <<[frag |-> "not", of |-> <<[frag |-> "is", a |-> 7, v |-> K(3)]>>],
                            [frag |-> "follow", a |-> 5], [frag |-> "is", a |-> 8, v |-> me]>>
    [] frag = "loved" -> <<[frag |-> "some", a |-> 8, of |-> <<[frag |-> "is", a |-> 8, v |-> me]>>]>>
    [] frag = "stray" -> <<[frag |-> "is", a |-> 90, v |-> me]>>
RECURSIVE OwnedBy(_, _, _)
OwnedBy(me, e, facts) ==
  <<e, 5, me>> \in facts \/ \E p \in facts : p[2] = 6 /\ p[3] = e /\ OwnedBy(me, p[1], facts \ {p})
MCGrants(frag, me, e, facts) ==
  CASE frag = "mine" -> <<e, 5, me>> \in facts
    [] frag = "owned" -> OwnedBy(me, e, facts)
    [] frag = "friend" -> <<e, 7, 3>> \notin facts /\ \E u \in FirstUserEid..TxBase : {<<e, 5, u>>, <<u, 8, me>>} \subseteq facts
    [] frag = "loved" -> \E u \in FirstUserEid..TxBase : {<<u, 8, e>>, <<u, 8, me>>} \subseteq facts

True_ == [is |-> "true"]
Frag(f) == [is |-> "frag", frag |-> f]
For(classes, of) == [is |-> "gate", classes |-> classes, of |-> of]
Doc(ns, attrs, preset, specs) == [ns |-> ns, rules |-> specs, attrs |-> attrs, preset |-> preset]
On(a, specs) == [attr |-> a, rules |-> specs]
Paper(docArms) ==
  [principal |-> 4, classes |-> <<"member", "guest">>,
   arms |-> <<Doc("user", <<On(8, [read |-> <<Frag("loved"), For(<<"guest">>, True_)>>, add |-> <<>>])>>, <<>>,
                  [read |-> <<True_>>, add |-> <<For(<<"guest">>, True_)>>]), docArms>>]
DocRules ==
  [read |-> <<Frag("owned"), For(<<"guest">>, Frag("friend"))>>, create |-> <<True_>>,
   add |-> <<For(<<"guest", "member">>, Frag("mine"))>>, retractEntity |-> <<Frag("mine")>>]
MyPreset == <<[attr |-> 5, operand |-> [is |-> "principal"]]>>
MCDocuments ==
  {Paper(Doc("doc", <<On(5, [add |-> <<For(<<"guest">>, Frag("mine"))>>]), On(7, [read |-> <<Frag("mine")>>])>>, MyPreset, DocRules)),
   Paper(Doc("doc", <<>>, MyPreset, [read |-> <<Frag("stray")>>]))}
MCDeployments == {Deployed(doc) : doc \in MCDocuments} \cup {DeployedAsIs(wire) : wire \in MCLegacy}

(***************************************************************************)
(* Principals and their writes.                                            *)
(***************************************************************************)
MCAdmin == [class |-> "admin", eid |-> Null, claim |-> Null]
Human(class, e) == [class |-> class, eid |-> e, claim |-> Null]
MCMembers == {Human("member", 9), Human("guest", 10)}

Eid(n) == [is |-> "eid", id |-> n]
Tmp(n) == [is |-> "tmp", id |-> n]
Named(v) == [is |-> "lookup", a |-> 4, v |-> v]
Att(a, vals) == [a |-> a, back |-> FALSE, vals |-> vals]
Item(id, attrs) == Op("map", NoForm, 0, [is |-> "map", id |-> id, attrs |-> attrs])

\* Two users, the second's best the first, and the first's document with a part of the second's.
Part1 == [is |-> "map", id |-> NoForm, attrs |-> <<Att(7, <<Eid(2)>>), Att(5, <<Tmp(2)>>)>>]
World == <<Item(Tmp(1), <<Att(4, <<Eid(1)>>)>>), Item(Tmp(2), <<Att(4, <<Eid(2)>>), Att(8, <<Tmp(1)>>)>>),
           Item(Tmp(3), <<Att(7, <<Eid(1), Eid(2), Eid(3)>>), Att(5, <<Tmp(1)>>), Att(6, <<Part1>>)>>)>>
SetBest(n, m) == <<Op("add", Named(n), 8, Named(m))>>
MakeDoc(n, tags) == <<Item(Tmp(n), <<Att(7, tags)>>)>>
Nest(n) == <<Item(Tmp(n), <<Att(7, <<Eid(1)>>), Att(6, <<[is |-> "map", id |-> NoForm, attrs |-> <<Att(7, <<Eid(2)>>)>>]>>)>>)>>
Adopt(d, e) == <<Op("add", Eid(d), 6, Eid(e))>>
DropDoc(d) == <<Op("retractEntity", Eid(d), 0, NoForm)>>

MCAdminTxs == {SetBest(2, 2)}
MCMemberTxs == {Nest(1), Adopt(12, 11), Adopt(11, 13), DropDoc(12)}

(***************************************************************************)
(* Queries.                                                                *)
(***************************************************************************)
\* Variables are numbers.
_a == 100
_b == 101
_d == 102
_e == 103
_g == 104
_m == 105
_n == 106
_op == 107
_p == 108
_t == 109
_u == 110
_v == 111
_x == 112
_y == 113
Def(name, args, clauses) == [name |-> name, args |-> [i \in DOMAIN args |-> <<args[i], 0>>], clauses |-> clauses]
P(e, a, v) == Pattern(Var(e), Const(a), Var(v), Blank, Blank)
PC(e, a, v) == Pattern(Var(e), Const(a), Const(v), Blank, Blank)
F(x) == FindVar(x)
Within == <<Def("within", <<_d, _p>>, <<P(_p, 6, _d)>>),
            Def("within", <<_a, _b>>, <<P(_b, 6, _m), Call("within", <<Var(_a), Var(_m)>>)>>)>>
Likes == <<Def("likes", <<_a, _b>>, <<P(_a, 8, _x), P(_x, 8, _b)>>),
           Def("likes", <<_b, _a>>, <<P(_x, 5, _b), PC(_x, 7, 1), P(_b, 8, _a)>>)>>
MCQueries ==
  { Query(<<F(_d), F(_n)>>, <<P(_d, 5, _u), P(_u, 4, _n)>>),
    Query(<<F(_e)>>, <<P(_e, 4, _n), P(_e, 8, _e)>>),
    Query(<<F(_d)>>, <<P(_d, 5, _u), Not(Unscoped, <<PC(_d, 7, 2)>>)>>),
    Query(<<F(_x)>>, <<P(_x, 5, _u), Or(JoinOn({<<_x, 0>>}), <<<<PC(_x, 7, 1)>>, <<P(_x, 6, _p)>>>>)>>),
    Query(<<F(_n), F(_b)>>, <<P(_u, 4, _n), Fn("get-else", <<Var(_u), Const(8), Const(0)>>, TRUE, <<<<_b, 0>>>>)>>),
    [Query(<<F(_d), F(_p)>>, <<PC(_p, 7, 1), Call("within", <<Var(_d), Var(_p)>>)>>) EXCEPT !.rules = Within],
    [Query(<<F(_x), F(_y)>>, <<P(_x, 4, _n), Call("likes", <<Var(_x), Var(_y)>>)>>) EXCEPT !.rules = Likes],
    Query(<<F(_n)>>, <<P(_u, 4, _n), Pred("missing?", <<Var(_u), Const(8)>>)>>),
    Query(<<F(_d), F(_g)>>, <<Pattern(Var(_d), Const(5), Var(_u), Var(_t), Blank),
                                Pattern(Var(_d), Const(7), Var(_g), Var(_t), Blank), Pred(">", <<Var(_g), Const(1)>>)>>),
    Query(<<F(_a), F(_v), F(_op)>>, <<PC(_e, 4, 1), Pattern(Var(_e), Var(_a), Var(_v), Blank, Var(_op))>>),
    Query(<<F(_d)>>, <<PC(_d, 5, 9)>>),
    Query(<<F(_u), Agg("count", _d)>>, <<P(_d, 5, _u)>>) }

\* A nested clause touches a namespace the rest of the query does not.
MCNested == {Query(<<F(_n)>>, <<P(_u, 4, _n), Not(Unscoped, <<PC(_u, 7, 1)>>)>>)}

(***************************************************************************)
(* Pulls.                                                                  *)
(***************************************************************************)
Times(spec, n) == [spec EXCEPT !.hops = n]
MCTrees == {<<Attribute(4), Times(Attribute(8), Always)>>, <<Attribute(4), Times(Backlink(8), 1)>>,
            <<Attribute(7), Times(Attribute(6), Always)>>, <<Attribute(7), Times(Attribute(6), 1)>>}
MCLists == {[Attribute(7) EXCEPT !.where = <<[op |-> "<", path |-> <<>>, v |-> 3]>>,
                                 !.order = <<[path |-> <<>>, desc |-> TRUE, emptyFirst |-> FALSE]>>, !.limit = 1]}

\* The third asks for a default in the place of what a mask hides.
Opt(f) == [f EXCEPT !.wrap = "optional"]
Sub(f, shape) == [f EXCEPT !.sub = shape]
MCLayouts ==
  {<<Field(5), Opt(Field(7)), Sub(Field(6), <<Field(5), Field(7)>>)>>,
   <<Field(4), Opt(Sub(Field(8), <<Field(4), Opt(Field(8))>>)), Sub(Opt(ReverseOf(5)), <<Field(5), Field(7)>>)>>,
   <<Field(4), [Field(8) EXCEPT !.wrap = "default", !.default = 9]>>,
   <<Field(5), Sub(Field(5), <<Field(4), Field(8)>>)>>}
=============================================================================
