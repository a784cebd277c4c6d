---------------------------- MODULE MCConnection ----------------------------
(* Connection with a small schema and a few transactions.                   *)
EXTENDS Connection

One(ref) == [many |-> FALSE, ref |-> ref, component |-> FALSE]
\* 1 :db/index, 2 :db/unique, 3 :db/txInstant; 4 name, 5 tags, 6 parts, 7 best.
MCAttr ==
  [a \in 1..7 |->
     CASE a = 5 -> [many |-> TRUE, ref |-> FALSE, component |-> FALSE]
       [] a = 6 -> [many |-> TRUE, ref |-> TRUE, component |-> TRUE]
       [] a = 7 -> One(TRUE)
       [] OTHER -> One(FALSE)]
MCBoot ==
  <<[e |-> 4, a |-> 2, v |-> 1, t |-> 1, op |-> TRUE],
    [e |-> TxEid(1), a |-> 3, v |-> 0, t |-> 1, op |-> TRUE]>>

Eid(n) == [is |-> "eid", id |-> n]
Tmp(n) == [is |-> "tmp", id |-> n]
Named(v) == [is |-> "lookup", a |-> 4, v |-> v]
MapOf(id, attrs) == [is |-> "map", id |-> id, attrs |-> attrs]
Is(a, vals) == [a |-> a, back |-> FALSE, vals |-> vals]
Of(a, vals) == [a |-> a, back |-> TRUE, vals |-> vals]
Item(form) == Op("map", NoForm, 0, form)

\* An entity with tags; made, or added to when the name is taken.
Make(n, tags) == <<Item(MapOf(NoForm, <<Is(4, <<Eid(n)>>), Is(5, tags)>>))>>
\* A whole with a named part, in one nested map.
MakeWhole == <<Item(MapOf(NoForm, <<Is(4, <<Eid(2)>>), Is(6, <<MapOf(NoForm, <<Is(4, <<Eid(3)>>)>>)>>)>>))>>
\* Two tempids that turn out to be one entity.
MakeTwice == <<Op("add", Tmp(1), 4, Eid(1)), Op("add", Tmp(2), 4, Eid(1)), Op("add", Tmp(2), 5, Eid(2))>>
\* Two entities that claim one name in one transaction.
Clash == <<Op("add", Tmp(1), 5, Eid(1)), Op("add", Tmp(2), 5, Eid(2)),
           Op("add", Tmp(1), 4, Eid(3)), Op("retract", Named(1), 4, Eid(1)), Op("add", Named(1), 4, Eid(3))>>
\* Two names for one entity, and a reference to one that is then retracted.
TwoNames == <<Op("add", Tmp(1), 4, Eid(1)), Op("add", Tmp(1), 4, Eid(2))>>
PointAndDrop == <<Op("add", Tmp(1), 4, Eid(3)), Op("add", Tmp(1), 7, Named(1)), Op("retractEntity", Named(1), 0, NoForm)>>
Rename == <<Op("add", Named(1), 4, Eid(2))>>
\* An entity and, through a reverse reference, a new one whose best it is.
Befriend == <<Item(MapOf(NoForm, <<Is(4, <<Eid(1)>>), Of(7, <<MapOf(NoForm, <<Is(4, <<Eid(3)>>)>>)>>)>>))>>
Drop(n) == <<Op("retractEntity", Named(n), 0, NoForm)>>
Untag == <<Op("retractAll", Named(1), 5, NoForm)>>

Flag == <<Op("add", Eid(5), 1, Eid(1))>>

MCTxs == {Make(1, <<Eid(1), Eid(2)>>), MakeWhole, MakeTwice, Clash, Rename, Befriend, TwoNames, PointAndDrop,
          Drop(1), Drop(2), Untag, Flag}
\* An attribute is flagged after it was used.
LateTxs == {Make(1, <<Eid(1)>>), Make(2, <<Eid(1)>>), Flag}
=============================================================================
