---------------------------- MODULE Transactions ----------------------------
(***************************************************************************)
(* What a transaction's data becomes: the datoms of one t                  *)
(* (internal/core/tx.ts).                                                  *)
(*                                                                         *)
(* An entity or value form is a record with a field "is":                  *)
(*   eid (id: a number, also a plain value), tmp (id), tx, lookup (a, v),  *)
(*   map (id: a form, or "none"; attrs: <<[a, back, vals]>>).              *)
(* Idents are left out: an attribute is named by its id.                   *)
(***************************************************************************)
EXTENDS Snapshot

NoCap == -1   \* ExpandOptions.closureCap when there is none
GeneratedTempid == 100   \* GENERATED_TEMPID_PREFIX: above every tempid a caller uses

(***************************************************************************)
(* flattenTxData: maps become adds, in the order they are met.             *)
(***************************************************************************)
Op(kind, e, a, v) == [kind |-> kind, e |-> e, a |-> a, v |-> v]
NoForm == [is |-> "none"]

RECURSIVE ExpandForm(_, _)
\* [s.ops, s.n: generated tempids so far, s.form: what now stands for the form]
ExpandForm(s, form) ==
  IF form.is # "map" THEN [s EXCEPT !.form = form]
  ELSE
    LET generated == form.id.is = "none"
        e == IF generated THEN [is |-> "tmp", id |-> GeneratedTempid + s.n + 1] ELSE form.id
        Attribute(acc, attr) ==
          FoldLeft(LAMBDA r, v :
                     LET x == ExpandForm(r, v) IN
                     [x EXCEPT !.ops = Append(@, IF attr.back THEN Op("add", x.form, attr.a, e)
                                                 ELSE Op("add", e, attr.a, x.form))],
                   acc, attr.vals)
    IN  [FoldLeft(Attribute, [s EXCEPT !.n = IF generated THEN @ + 1 ELSE @], form.attrs) EXCEPT !.form = e]

FlattenTxData(items) ==
  FoldLeft(LAMBDA s, item :
             IF item.kind = "map" THEN ExpandForm(s, item.v)
             ELSE LET x == ExpandForm(s, item.v) IN [x EXCEPT !.ops = Append(@, [item EXCEPT !.v = x.form])],
           [ops |-> <<>>, n |-> 0, form |-> NoForm], items).ops

(***************************************************************************)
(* The state of an expansion.                                              *)
(***************************************************************************)
\* how says of each datom whether a retractEntity made it (fromRetractEntity).
\* facts is the overlay `cur`: the current view and this transaction so far,
\* each fact with whether this transaction asserted it.
Start(db, t, cap) ==
  [t |-> t, cap |-> cap, nextEid |-> db.nextEid, tempids |-> <<>>, aliases |-> <<>>, claims |-> <<>>, uniqueSeen |-> <<>>,
   facts |-> {[e |-> d.e, a |-> d.a, v |-> d.v, mine |-> FALSE] : d \in Range(DatomsOf(db, "eavt", <<>>))},
   out |-> <<>>, how |-> <<>>, retracted |-> <<>>, inClosure |-> FALSE, closureCount |-> 0, newEntities |-> {TxEid(t)}, error |-> "none"]

Fail(s, code) == [s EXCEPT !.error = code]
Bind(f, x, y) == (x :> y) @@ f
Current(s, e, a) == {f \in s.facts : f.e = e /\ f.a = a}
Has(s, e, a, v) == \E f \in s.facts : f.e = e /\ f.a = a /\ f.v = v

Emit(s, e, a, v, op) ==
  LET n == s.closureCount + 1
      emitted == [s EXCEPT !.out = Append(@, [e |-> e, a |-> a, v |-> v, t |-> s.t, op |-> op]),
                           !.how = Append(@, s.inClosure),
                           !.facts = {f \in @ : ~(f.e = e /\ f.a = a /\ f.v = v)}
                                     \cup (IF op THEN {[e |-> e, a |-> a, v |-> v, mine |-> TRUE]} ELSE {})]
  IN  IF ~s.inClosure THEN emitted
      ELSE IF s.cap # NoCap /\ n > s.cap THEN Fail(s, "closure-cap") ELSE [emitted EXCEPT !.closureCount = n]
Retractions(s, F) == FoldSet(LAMBDA f, r : Emit(r, f.e, f.a, f.v, FALSE), s, F)

\* Tempids that a shared unique identity made one entity have one canonical name.
RECURSIVE AliasOf(_, _)
AliasOf(s, id) == IF id \in DOMAIN s.aliases THEN AliasOf(s, s.aliases[id]) ELSE id

\* resolveEntity: [s, e], e None for a tempid that is not known and not allocated.
Resolve(db, s, form, allocate) ==
  CASE form.is = "eid" -> [s |-> s, e |-> form.id]
    [] form.is = "tx" -> [s |-> s, e |-> TxEid(s.t)]
    [] form.is = "lookup" ->
         LET To(e) == [s |-> IF db.schema.unique[form.a] = None \/ e = None THEN Fail(s, "lookup-ref") ELSE s, e |-> e]
         IN  To(EntidOf(db, form.a, form.v))
    [] form.is = "tmp" ->
         LET canonical == AliasOf(s, form.id)
             known == canonical \in DOMAIN s.tempids
             e == IF known THEN s.tempids[canonical] ELSE s.nextEid
             bound == [s EXCEPT !.tempids = Bind(Bind(@, canonical, e), form.id, e)]
         IN  IF known THEN [s |-> bound, e |-> e]
             ELSE IF ~allocate THEN [s |-> s, e |-> None]
             ELSE [s |-> [bound EXCEPT !.nextEid = e + 1, !.newEntities = @ \cup {e}], e |-> e]

(***************************************************************************)
(* The upsert pass: tempids that assert a unique identity.                 *)
(***************************************************************************)
Upserts(db, op) ==
  /\ op.kind = "add"
  /\ op.e.is = "tmp"
  /\ db.schema.unique[op.a] = Identity
  /\ Attr[op.a].ref => op.v.is = "eid"

\* Both tempids denote the entity of the value.
Unify(s, canonical, claimant) ==
  LET target == AliasOf(s, claimant)
      Known(id) == id \in DOMAIN s.tempids
  IN  IF target = canonical THEN s
      ELSE IF Known(canonical) /\ Known(target) /\ s.tempids[canonical] # s.tempids[target]
           THEN Fail(s, "unique-conflict")
      ELSE [s EXCEPT !.aliases = Bind(@, canonical, target),
                     !.tempids = IF Known(canonical) /\ ~Known(target) THEN Bind(@, target, s.tempids[canonical]) ELSE @]

UpsertTo(s, op, existing) ==
    LET claim == <<op.a, op.v.id>>
        canonical == AliasOf(s, op.e.id)
        found == IF existing = None THEN s ELSE [s EXCEPT !.tempids = Bind(@, canonical, existing)]
    IN  IF existing # None /\ canonical \in DOMAIN s.tempids /\ s.tempids[canonical] # existing
        THEN Fail(s, "unique-conflict")
        ELSE IF claim \in DOMAIN s.claims THEN Unify(found, canonical, s.claims[claim])
        ELSE [found EXCEPT !.claims = Bind(@, claim, canonical)]

Upsert(db, s, op) == IF Upserts(db, op) THEN UpsertTo(s, op, EntidOf(db, op.a, op.v.id)) ELSE s
UpsertStep(db, s, op) ==
  IF s.error # "none" THEN s
  ELSE IF op.kind = "add" /\ op.a \notin DOMAIN Attr THEN Fail(s, "unknown-attribute")
  ELSE Upsert(db, s, op)

(***************************************************************************)
(* The main pass.                                                          *)
(***************************************************************************)
\* A unique value is another entity's: asserted for it here, or its own in the
\* database and not retracted here.
Taken(db, s, e, a, v) ==
  \/ <<a, v>> \in DOMAIN s.uniqueSeen /\ s.uniqueSeen[<<a, v>>] # e
  \/ \E other \in {EntidOf(db, a, v)} \ {None, e} : Has(s, other, a, v)

EmitAdd(db, s, e, a, v) ==
  LET unique == db.schema.unique[a] # None
      claimed == IF unique THEN [s EXCEPT !.uniqueSeen = Bind(@, <<a, v>>, e)] ELSE s
      alone == IF Attr[a].many THEN claimed ELSE Retractions(claimed, Current(s, e, a))
  IN  IF Has(s, e, a, v) THEN s
      ELSE IF unique /\ Taken(db, s, e, a, v) THEN Fail(s, "unique-conflict")
      ELSE Emit(alone, e, a, v, TRUE)

EmitRetract(s, e, a, v) == IF Has(s, e, a, v) THEN Emit(s, e, a, v, FALSE) ELSE s

\* retractEntity: the entity's facts and its components', what the database has
\* pointing at it, and what this transaction pointed at it.
\* retracted says of each entity how many datoms there were when it was.
MarkRetracted(s, e) == [s EXCEPT !.retracted = Bind(@, e, Len(s.out))]
\* Mutant: references to the entity are kept.
RECURSIVE RetractEntityKeepingRefs(_, _, _)
RetractEntityKeepingRefs(db, s, e) ==
  IF e \in DOMAIN s.retracted THEN s
  ELSE FoldLeft(LAMBDA r, d :
         LET own == EmitRetract(r, e, d.a, d.v) IN
         IF Attr[d.a].component /\ Attr[d.a].ref THEN RetractEntityKeepingRefs(db, own, d.v) ELSE own,
         MarkRetracted(s, e), DatomsOf(db, "eavt", <<e>>))
RECURSIVE RetractEntity(_, _, _), RetractOwn(_, _, _, _)
RetractOwn(db, s, e, ds) ==
  FoldLeft(LAMBDA r, d :
             LET one == EmitRetract(r, e, d.a, d.v) IN
             IF Attr[d.a].component /\ Attr[d.a].ref THEN RetractEntity(db, one, d.v) ELSE one, s, ds)
RetractIncoming(s, ds) == FoldLeft(LAMBDA r, d : EmitRetract(r, d.e, d.a, d.v), s, ds)
RetractAdded(s, e) == Retractions(s, {f \in s.facts : f.mine /\ Attr[f.a].ref /\ f.v = e})
RetractEntity(db, s, e) ==
  IF e \in DOMAIN s.retracted THEN s
  ELSE RetractAdded(RetractIncoming(RetractOwn(db, MarkRetracted(s, e), e, DatomsOf(db, "eavt", <<e>>)),
                                    DatomsOf(db, "vaet", <<e>>)), e)

ValidSchemaValue(a, v) == a = UniqueAttr => v \in {Identity, Value}

\* valueFor: a reference is resolved, anything else is itself.
ValueFor(db, s, op) ==
  CASE op.kind = "retractAll" -> [s |-> s, e |-> None]
    [] op.kind # "retractAll" /\ Attr[op.a].ref -> Resolve(db, s, op.v, TRUE)
    [] op.kind # "retractAll" /\ ~Attr[op.a].ref -> [s |-> s, e |-> op.v.id]

\* The operation on entity e, with its value resolved.
Perform(db, op, e, v) ==
  IF v.s.error # "none" THEN v.s
  ELSE CASE op.kind = "retractAll" -> Retractions(v.s, Current(v.s, e, op.a))
         [] op.kind = "retract" -> EmitRetract(v.s, e, op.a, v.e)
         [] op.kind = "add" -> IF ValidSchemaValue(op.a, v.e) THEN EmitAdd(db, v.s, e, op.a, v.e) ELSE Fail(v.s, "schema")

\* The operation, with its entity resolved to r.
PerformOn(db, op, r) ==
  IF r.e = None \/ r.s.error # "none" THEN r.s
  ELSE IF op.kind = "retractEntity"
    THEN [RetractEntity(db, [r.s EXCEPT !.inClosure = TRUE], r.e) EXCEPT !.inClosure = FALSE]
  ELSE Perform(db, op, r.e, ValueFor(db, r.s, op))

Step(db, s, op) ==
  IF s.error # "none" THEN s
  ELSE IF op.kind # "retractEntity" /\ op.a \notin DOMAIN Attr THEN Fail(s, "unknown-attribute")
  ELSE PerformOn(db, op, Resolve(db, s, op.e, op.kind = "add"))

ExpandOps(db, ops, start) ==
  FoldLeft(LAMBDA s, op : Step(db, s, op), FoldLeft(LAMBDA s, op : UpsertStep(db, s, op), start, ops), ops)
\* expandTx: the datoms of transaction t, or an error, and then nothing counts.
\* cap is the most datoms a retractEntity may produce, or NoCap.
ExpandTx(db, items, t, cap) ==
  LET Instant(s) == [s EXCEPT !.out = <<[e |-> TxEid(t), a |-> TxInstant, v |-> 0, t |-> t, op |-> TRUE]>> \o @] IN
  Instant(ExpandOps(db, FlattenTxData(items), Start(db, t, cap)))
=============================================================================
