----------------------------- MODULE Connection -----------------------------
(***************************************************************************)
(* The single-writer connection over the trees (internal/core/conn.ts):    *)
(* it transacts, merges novelty into new roots, hands out database values  *)
(* that share its novelty object, and is restored from roots and a log.    *)
(***************************************************************************)
EXTENDS Transactions

CONSTANTS
  Boot,     \* the datoms of t = 1, a sequence
  Txs,      \* the transactions clients send
  MaxT,     \* bound: the last t
  MaxIndexes, MaxRestores   \* bounds

ASSUME ConnectionAssumption == MaxT \in Nat \ {0} /\ MaxIndexes \in Nat /\ MaxRestores \in Nat

VARIABLES
  roots,      \* Connection.roots
  novelties,  \* every novelty object there was; the last is Connection.novelty
  schema,     \* Connection.schema
  basisT,     \* Connection.basisT
  nextEid,    \* Connection.nextEid
  log,        \* by t, the datoms of each transaction, the entities it made, and those it
              \* retracted, each with how many datoms there were before
  saved,      \* the nextEid stored with the roots
  held,       \* a database value a reader holds, or NoneHeld
  indexed, restores   \* bounds
vars == <<roots, novelties, schema, basisT, nextEid, log, saved, held, indexed, restores>>

Novelty == Last(novelties)
Snap == Db(roots, Novelty, basisT, schema, nextEid)
NoneHeld == [novelty |-> 0]
\* A held value reads the novelty object it was made with, as it is now.
HeldDb == [held.db EXCEPT !.nov = novelties[held.novelty]]

DatomsThrough(t) == FlattenSeq([i \in 1..t |-> log[i].datoms])

Init ==
  LET first == ApplySchema(Bootstrap, Boot) IN
  /\ roots = EmptyRoots
  /\ schema = first
  /\ novelties = <<NoveltyAdd(NoNovelty, Boot, first)>>
  /\ basisT = 1
  /\ nextEid = FirstUserEid
  /\ log = <<[datoms |-> Boot, fresh |-> {}, gone |-> <<>>]>>
  /\ saved = FirstUserEid
  /\ held = NoneHeld
  /\ indexed = 0
  /\ restores = 0

\* transact.  One that fails changes nothing.
Adopted(res) ==
  LET next == ApplySchema(schema, res.out)
  IN  /\ res.error = "none"
      /\ nextEid' = res.nextEid
      /\ schema' = next
      /\ novelties' = Front(novelties) \o <<NoveltyAdd(Novelty, res.out, next)>>
      /\ basisT' = basisT + 1
      /\ log' = Append(log, [datoms |-> res.out, fresh |-> res.newEntities, gone |-> res.retracted])
      /\ UNCHANGED <<roots, saved, held, indexed, restores>>
Transact(tx) == basisT < MaxT /\ Adopted(ExpandTx(Snap, tx, basisT + 1, NoCap))

\* index: the novelty that is left moves to a new object.
IndexStep(upTo) ==
  /\ indexed < MaxIndexes
  /\ upTo > roots.t
  /\ upTo <= basisT
  /\ roots' = MergeRoots(roots, Novelty, upTo)
  /\ novelties' = Append(novelties, NoveltyAdd(NoNovelty, SelectSeq(Novelty.index["eavt"], LAMBDA d : d.t > upTo), schema))
  /\ saved' = nextEid
  /\ indexed' = indexed + 1
  /\ UNCHANGED <<schema, basisT, nextEid, log, held, restores>>

\* applyDatoms: [schema, nov, basisT, nextEid] with logged datoms applied.
\* Mutant: replayed entities do not count as allocated.
ApplyDatomsOnly(c, ds) ==
  LET next == ApplySchema(c.schema, ds) IN
  [schema |-> next, nov |-> NoveltyAdd(c.nov, ds, next), basisT |-> LatestT(ds, c.basisT),
   nextEid |-> c.nextEid]
ApplyDatoms(c, ds) ==
  LET next == ApplySchema(c.schema, ds)
      own == {d.e : d \in {x \in Range(ds) : x.e < TxBase}}
      highest == FoldSet(LAMBDA e, n : IF e > n THEN e ELSE n, c.nextEid - 1, own)
  IN  [schema |-> next, nov |-> NoveltyAdd(c.nov, ds, next), basisT |-> LatestT(ds, c.basisT),
       nextEid |-> highest + 1]

\* restore: from the roots and what the log holds beyond them.
Restored ==
  LET tail == SelectSeq(FlattenSeq([i \in DOMAIN log |-> log[i].datoms]), LAMBDA d : d.t > roots.t) IN
  ApplyDatoms([schema |-> DeriveSchema(roots), nov |-> NoNovelty, basisT |-> roots.t, nextEid |-> saved], tail)
Restore ==
  /\ restores < MaxRestores
  /\ roots.t > 0
  /\ schema' = Restored.schema
  /\ novelties' = <<Restored.nov>>
  /\ basisT' = Restored.basisT
  /\ nextEid' = Restored.nextEid
  /\ held' = NoneHeld
  /\ restores' = restores + 1
  /\ UNCHANGED <<roots, log, saved, indexed>>

\* db(), asOf() and history(): a reader takes a value and keeps it.
Take(asOf, history) ==
  /\ held = NoneHeld
  /\ held' = [novelty |-> Len(novelties), db |-> [Snap EXCEPT !.asOf = asOf, !.history = history, !.nov = NoNovelty]]
  /\ UNCHANGED <<roots, novelties, schema, basisT, nextEid, log, saved, indexed, restores>>

Next ==
  \/ \E tx \in Txs : Transact(tx)
  \/ \E upTo \in 1..MaxT : IndexStep(upTo)
  \/ Restore
  \/ \E asOf \in {None, 1, MaxT}, history \in BOOLEAN : Take(asOf, history)

Spec == Init /\ [][Next]_vars

(***************************************************************************)
(* What the log says: the reference the reads are checked against.         *)
(***************************************************************************)
\* The fact of an assertion holds at t if nothing later denies it.  Within a t
\* an assertion comes after a retraction.
Holds(d, seen) ==
  /\ d.op
  /\ \A x \in seen : SameFact(x, d) => (x.t < d.t \/ (x.t = d.t /\ ~x.op) \/ x = d)
FactsOf(ds) == LET seen == Range(ds) IN SelectSeq(ds, LAMBDA d : Holds(d, seen))
Facts == Range(FactsOf(DatomsThrough(basisT)))

\* What a database value over the datoms ds reads under a prefix.
Expected(db, ds, index, p) ==
  LET under == SelectSeq(ds, LAMBDA d :
                 d.t <= EffectiveT(db) /\ Belongs(db.schema, index, d) /\ Matches(index, d, p))
  IN  SortForIndex(index, IF db.history THEN under ELSE FactsOf(under))

\* The attributes in AVET that were flagged before their first datom.
SchemaAt(t) == ApplySchema(Bootstrap, DatomsThrough(t))
Settled == {a \in DOMAIN Attr : /\ IsAvet(schema, a)
                               /\ \A t \in DOMAIN log : ~IsAvet(SchemaAt(t), a) =>
                                    \A d \in Range(log[t].datoms) : d.a # a}

\* The prefixes worth asking for, of n components: those of some datom, or none.
PrefixesOf(index, ds, n) ==
  {p \in {SubSeq(Order(index, d), 1, n) : d \in Range(ds)} \cup {[i \in 1..n |-> TxBase - 1]} :
     index = "avet" => n > 0 /\ p[1] \in Settled}

(***************************************************************************)
(* Properties.                                                             *)
(***************************************************************************)
\* Every index, asked with any prefix, gives the facts the log gives, in order
\* and each once, now and as of any t, and all of history when asked for it
\* (db.ts datoms).  Of AVET only what was flagged from its first datom on.
ReadsAreFacts ==
  LET ds == DatomsThrough(basisT)
      views == {Snap, History(Snap)} \cup {AsOf(Snap, t) : t \in 1..(basisT - 1)} \cup {AsOf(History(Snap), 2)}
  IN  held = NoneHeld =>
        \A index \in Indexes, n \in 0..2 : \A p \in PrefixesOf(index, ds, n) : \A db \in views :
          DatomsOf(db, index, p) = Expected(db, ds, index, p)

\* And a batched seek gives each prefix what a seek of its own gives, whichever
\* prefixes share the cursor (db.ts seekMany, tree.ts scanMany).
BatchIsScan ==
  held = NoneHeld =>
    \A index \in Indexes, n \in 1..2 :
      LET all == PrefixesOf(index, DatomsThrough(basisT), n)
          single == [p \in all |-> DatomsOf(Snap, index, p)]
      IN  \A ps \in {all} \cup (IF n = 1 THEN {{p, q} : p, q \in all} ELSE {}) :
            LET got == SeekMany(Snap, index, ps) IN \A p \in ps : got[p] = single[p]

IndexesAreFacts == ReadsAreFacts /\ BatchIsScan

\* A database value a reader holds never changes: not by later transactions in
\* the novelty it shares, not by an index step (db.ts: "Snapshot isolation is
\* by t").
SnapshotsAreStable ==
  held # NoneHeld =>
    LET ds == DatomsThrough(held.db.basisT) IN
    \A index \in Indexes \ {"avet"} : DatomsOf(HeldDb, index, <<>>) = Expected(HeldDb, ds, index, <<>>)

\* An estimate counts the datoms of its prefix, however the tree is cut
\* (tree.ts estimateCount, which the planner orders clauses by).
EstimatesCount ==
  LET ds == DatomsThrough(basisT) IN
  held = NoneHeld => \A index \in Indexes, n \in 0..2 : \A p \in PrefixesOf(index, ds, n) :
    Estimate(Snap, index, p) = Len(SelectSeq(ds, LAMBDA d : Belongs(schema, index, d) /\ Matches(index, d, p)))

RECURSIVE WellFormed(_, _)
WellFormed(index, node) ==
  IF node.leaf THEN 2 * Len(node.datoms) <= 3 * LeafSize
  ELSE /\ Len(node.refs) <= Fanout
       /\ \A i \in DOMAIN node.refs :
            LET ds == Datoms(node.refs[i]) IN
            /\ WellFormed(index, node.refs[i])
            /\ i > 1 => Compare(index, Head(ds), node.keys[i]) >= 0
            /\ i < Len(node.refs) => Compare(index, Last(ds), node.keys[i + 1]) < 0
\* Merging keeps the trees within their sizes and their keys true, so that a
\* descent by keys finds what it looks for (tree.ts mergeNode).
TreesAreWellFormed == \A index \in Indexes : WellFormed(index, roots.tree[index])

TreesAreTrue == TreesAreWellFormed /\ EstimatesCount

\* The last a transaction says of a fact, in the order it was expanded in.  A
\* fact it asserts and then takes back is read all the same: at one t a retraction
\* sorts before an assertion, whichever came first (datom.ts:213-215).
LastSaid(f) == CHOOSE i \in DOMAIN log[f.t].datoms :
  /\ SameFact(log[f.t].datoms[i], f)
  /\ \A j \in DOMAIN log[f.t].datoms : SameFact(log[f.t].datoms[j], f) => j <= i
Kept == {f \in Facts : log[f.t].datoms[LastSaid(f)].op}

\* What a transaction must keep true of all facts (tx.ts): a cardinality-one
\* attribute has one value, no two entities have the same value of a unique
\* attribute, and no reference asserted before an entity was retracted, in the
\* same transaction or an earlier one, outlives it.  Said of every fact but those
\* their own transaction took back.
ConstraintsHold ==
  \A kept \in {Kept} :
    /\ \A f, g \in kept :
         /\ (f.e = g.e /\ f.a = g.a /\ ~Attr[f.a].many) => f.v = g.v
         /\ (f.a = g.a /\ f.v = g.v /\ schema.unique[f.a] # None) => f.e = g.e
    /\ \A f \in {x \in kept : Attr[x.a].ref}, t \in DOMAIN log :
         f.v \in DOMAIN log[t].gone => f.t > t \/ (f.t = t /\ LastSaid(f) > log[t].gone[f.v] + 1)

\* The entities a transaction makes are new: no earlier transaction wrote them,
\* whatever was restored between (tx.ts newEntities "never seen before").
FreshIsNew ==
  \A t \in DOMAIN log : \A d \in Range(DatomsThrough(t - 1)) : d.e \notin log[t].fresh

\* A restart gives the connection the schema and the basis it had, whatever of
\* the schema was in the trees and whatever in the log (conn.ts restore).
RestoredIsLive == roots.t > 0 => Restored.schema = schema /\ Restored.basisT = basisT

RestoreIsFaithful == RestoredIsLive /\ FreshIsNew

\* An indexed attribute's facts are found by value (catalog.mdx: "keeps a
\* value-ordered index, so you can look a record up by value").
IndexFindsFacts ==
  \A f \in Facts : IsAvet(schema, f.a) => Found(First(Snap, "avet", <<f.a, f.v, f.e>>))
=============================================================================
