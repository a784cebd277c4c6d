----------------------------- MODULE MCBuilder -----------------------------
(* Queries over issues and the users who own them.                          *)
EXTENDS Meanings

\* 1 :db/index, 2 :db/unique, 3 :db/txInstant; an issue's 4 rank, 5 owner (a
\* user), 6 tags, 7 sub (issues, its components), 10 next (an issue); a user's
\* 8 name; a transaction's 9 who (a user).
MCAttr ==
  [a \in 1..10 |-> [many |-> a \in {6, 7}, ref |-> a \in {5, 7, 9, 10}, component |-> a = 7]]
MCNsOf == [a \in 1..10 |-> CASE a < 4 -> "db" [] a = 8 -> "user" [] a = 9 -> "tx" [] OTHER -> "issue"]

(***************************************************************************)
(* Worlds: what their entities have, since when.                           *)
(***************************************************************************)
D(e, a, v, t) == [e |-> e, a |-> a, v |-> v, t |-> t, op |-> TRUE]
Users == <<D(21, 8, 1, 2), D(TxEid(2), 9, 21, 2), D(TxEid(3), 9, 22, 3)>>
MCWorlds ==
  << Users \o <<D(23, 4, 2, 2), D(23, 5, 21, 2), D(23, 6, 1, 2), D(23, 6, 2, 2), D(23, 7, 24, 3), D(23, 10, 26, 3),
                D(24, 4, 2, 3), D(24, 5, 22, 3), D(24, 6, 2, 3), D(24, 7, 25, 3),
                D(25, 4, 1, 3), D(25, 6, 3, 3), D(25, 5, 21, 4),
                D(26, 5, 21, 4), D(26, 6, 1, 4), D(26, 10, 23, 4)>> >>
\* An issue's rank and a tag were others before.
Off(d) == [d EXCEPT !.op = FALSE]
Earlier == <<D(25, 4, 5, 2), Off(D(25, 4, 5, 3)), D(26, 6, 2, 2), Off(D(26, 6, 2, 3))>>
MCDatabases ==
  [w \in DOMAIN MCWorlds |-> Db(BuildRoots(Bootstrap, MCWorlds[w] \o Earlier), NoNovelty, 4, Bootstrap, 27)]

\* under: an issue is somewhere within another.  ownerOf: whose it is.
MCRuleOf ==
  [under |-> [head |-> <<501, 502>>, ret |-> 0,
              clauses |-> <<AnyOf(<<<<Fact(V(502, "value"), 7, V(501, "value"))>>,
                                    <<Fact(V(502, "value"), 7, V(503, "entity")),
                                      Apply("under", <<V(501, "value"), V(503, "entity")>>, V(504, "value"))>>>>)>>],
   ownerOf |-> [head |-> <<511>>, ret |-> 512, clauses |-> <<Fact(V(511, "value"), 5, V(512, "entity"))>>]]
MCMeant ==
  [under |-> <<{<<24, 23>>, <<25, 24>>, <<25, 23>>}>>,
   ownerOf |-> <<{<<23, 21>>, <<24, 22>>, <<25, 21>>, <<26, 21>>}>>]

MCDeclared == [me |-> FALSE, since |-> TRUE]
MCBindSets == {[me |-> 21], [me |-> 22, since |-> 4]}

(***************************************************************************)
(* Fragments.                                                              *)
(***************************************************************************)
Is_(a, v) == [frag |-> "is", a |-> a, v |-> v]
Has_(a) == [frag |-> "has", a |-> a]
Missing_(a) == [frag |-> "missing", a |-> a]
Where_(a, op, v) == [frag |-> "where", a |-> a, op |-> op, v |-> v]
In_(a, list) == [frag |-> "whereIn", a |-> a, list |-> list]
Follow(a) == [frag |-> "follow", a |-> a]
Back(a) == [frag |-> "backlink", a |-> a]
Linked_(kind, a, of) == [frag |-> kind, a |-> a, of |-> of]
Not_(of) == [frag |-> "not", of |-> of]
Rule_(name, args) == [frag |-> "rule", rule |-> name, args |-> args]

MyIssues == Is_(5, Param("me"))
Either(branches) == [frag |-> "either", of |-> branches]
Ranked == Either(<<<<Where_(4, ">=", K(2))>>, <<In_(6, <<1, 3>>), Missing_(4)>>>>)
Recent == [frag |-> "when", gate |-> "since", of |-> <<[frag |-> "updatedSince", v |-> Param("since")], Ranked>>]
NoneRanked == Linked_("none", 7, <<Where_(4, ">", K(1))>>)
AllTagged == Linked_("every", 7, <<In_(6, <<1>>)>>)
Filed == [frag |-> "assertedBy", a |-> 9, v |-> Param("me")]
Strict == Either(<<<<NoneRanked>>, <<Filed, Not_(<<AllTagged>>)>>, <<Is_(IdAttr, K(26))>>>>)
Outside == Not_(<<Has_(5), Rule_("under", <<K(23)>>)>>)

(***************************************************************************)
(* Shapes, keys and summaries.                                             *)
(***************************************************************************)
Opt(f) == [f EXCEPT !.wrap = "optional"]
OrElse(f, v) == [f EXCEPT !.wrap = "default", !.default = v]
Sub(f, shape) == [f EXCEPT !.sub = shape]
To(a) == [attr |-> a, reverse |-> FALSE]
Up(a) == [attr |-> a, reverse |-> TRUE]
UserRow == <<Field(IdAttr), Field(8)>>
Owned == <<Field(4), Sub(Field(5), UserRow), Sub(Opt(ReverseOf(7)), <<Field(IdAttr), Field(4)>>)>>
SomeSub == [Sub(Field(7), <<Field(4), Field(5)>>) EXCEPT
              !.where = <<MyIssues, Not_(<<Missing_(6)>>)>>, !.order = <<[path |-> <<To(4)>>, desc |-> TRUE, emptyFirst |-> FALSE]>>]
Tree == <<Field(IdAttr), Opt(Field(4)), [Field(7) EXCEPT !.hops = 1, !.limit = 2], [Opt(Field(10)) EXCEPT !.hops = 2]>>
Deep == <<OrElse(Field(4), 0), Field(IdAttr), [Field(6) EXCEPT !.where = <<[frag |-> "compares", op |-> "<", v |-> K(3)]>>], SomeSub>>

MCNamespace == "issue"
Descending == [OrderByColumn(1) EXCEPT !.desc = TRUE, !.emptyFirst = TRUE]
Paths == OrderBy(<<Up(7), To(5)>>, FALSE, FALSE)
MCMenus ==
  << {<<Stage(MyIssues), Stage(Back(7))>>, <<Stage(Recent), Stage([frag |-> "others", a |-> 5])>>,
      <<Stage(Strict)>>, <<Stage(Outside)>>},
     {<<SelectOf(Owned)>>, <<SelectOf(Tree)>>, <<SelectOf(Deep)>>},
     {<<Descending>>, <<Paths, LimitOf(K(3))>>} >>
MCRefinements == {Linked_("some", 7, <<Where_(4, ">", K(1))>>)}
MCEnrichments == {[over |-> <<Follow(5), Follow(8)>>, fn |-> "none"], [over |-> <<Follow(7), Follow(4)>>, fn |-> "sum"]}
AtLeast(n) == <<[op |-> ">=", v |-> K(n)]>>
MCSummaries ==
  {[by |-> <<>>, over |-> <<Follow(4)>>, fn |-> "sum", keep |-> <<>>],
   [by |-> <<Rule_("ownerOf", <<>>)>>, over |-> <<Follow(4)>>, fn |-> "count", keep |-> AtLeast(2)],
   [by |-> <<Follow(5)>>, over |-> <<[frag |-> "touched"]>>, fn |-> "max", keep |-> AtLeast(4)]}
=============================================================================
