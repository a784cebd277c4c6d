------------------------------ MODULE Snapshot ------------------------------
(***************************************************************************)
(* A database value: index roots, the novelty they do not hold, a basis t  *)
(* and a schema (internal/core/db.ts, novelty.ts, schema.ts and the root   *)
(* functions of conn.ts).                                                  *)
(*                                                                         *)
(* An attribute's type, cardinality and isComponent are fixed here; whether*)
(* it is indexed or unique comes from its datoms.                          *)
(***************************************************************************)
EXTENDS Segments

CONSTANTS
  Attr,         \* attribute id -> [many, ref, component, user] : its fixed part
  IndexAttr,    \* DB_INDEX
  UniqueAttr,   \* DB_UNIQUE; its values are Identity and Value
  TxInstant,    \* DB_TX_INSTANT
  FirstUserEid, \* FIRST_USER_EID
  TxBase        \* TX_BASE

ASSUME SnapshotAssumption ==
  /\ {IndexAttr, UniqueAttr, TxInstant} \subseteq DOMAIN Attr
  /\ \A a \in DOMAIN Attr : a < FirstUserEid
  /\ FirstUserEid < TxBase

Identity == 1
Value == 2
None == -1
TxEid(t) == TxBase + t

(***************************************************************************)
(* Schema.                                                                 *)
(***************************************************************************)
\* Schema.bootstrap: no user attribute, and :db/txInstant indexed.
Bootstrap == [index |-> {TxInstant}, unique |-> [a \in DOMAIN Attr |-> None]]

\* Schema.apply: the schema's own datoms, one after another.
ApplySchema(schema, ds) ==
  LET own == SelectSeq(ds, LAMBDA d : d.a \in {IndexAttr, UniqueAttr}) IN
  FoldLeft(LAMBDA s, d :
             CASE d.a = IndexAttr -> [s EXCEPT !.index = IF d.op THEN @ \cup {d.e} ELSE @ \ {d.e}]
               [] d.a = UniqueAttr -> [s EXCEPT !.unique[d.e] = IF d.op THEN d.v ELSE None],
           schema, own)

IsAvet(schema, a) == a \in schema.index \/ schema.unique[a] # None
IsVaet(schema, a) == Attr[a].ref
\* The datoms that belong in an index.
Belongs(schema, index, d) ==
  CASE index = "avet" -> IsAvet(schema, d.a)
    [] index = "vaet" -> IsVaet(schema, d.a)
    [] OTHER -> TRUE

(***************************************************************************)
(* Novelty: per index the datoms that are in no tree yet.                  *)
(***************************************************************************)
NoNovelty == [index |-> [i \in Indexes |-> <<>>], maxT |-> 0]
LatestT(ds, t) == LET later == {ds[i].t : i \in DOMAIN ds} \cup {t} IN CHOOSE n \in later : \A m \in later : m <= n
NoveltyAdd(nov, ds, schema) ==
  [index |-> [i \in Indexes |->
     SortedUnion(i, nov.index[i], SortForIndex(i, SelectSeq(ds, LAMBDA d : Belongs(schema, i, d))))],
   maxT |-> LatestT(ds, nov.maxT)]
NoveltyRange(nov, index, p) == SelectSeq(nov.index[index], LAMBDA d : Matches(index, d, p))

(***************************************************************************)
(* Roots.                                                                  *)
(***************************************************************************)
BuildRoots(schema, ds) ==
  [t |-> LatestT(ds, 0),
   tree |-> [i \in Indexes |-> BuildTree(SortForIndex(i, SelectSeq(ds, LAMBDA d : Belongs(schema, i, d))))]]
EmptyRoots == BuildRoots(Bootstrap, <<>>)
\* mergeRoots, up to and with maxT.
MergeRoots(roots, nov, maxT) ==
  [t |-> maxT,
   tree |-> [i \in Indexes |-> MergeTree(i, roots.tree[i], SelectSeq(nov.index[i], LAMBDA d : d.t <= maxT))]]

(***************************************************************************)
(* Reads.  asOf is None when the view has no bound but its basis.          *)
(***************************************************************************)
Db(roots, nov, basisT, schema, nextEid) ==
  [roots |-> roots, nov |-> nov, basisT |-> basisT, schema |-> schema, nextEid |-> nextEid,
   asOf |-> None, history |-> FALSE]
AsOf(db, t) == [db EXCEPT !.asOf = t]
History(db) == [db EXCEPT !.history = TRUE]

\* Mutant: an as-of view of a later t than the basis sees what came since.
EffectiveTUnbounded(db) == IF db.asOf # None THEN db.asOf ELSE db.basisT
EffectiveT(db) == IF db.asOf # None /\ db.asOf < db.basisT THEN db.asOf ELSE db.basisT

\* A history read that needs no filter: nothing is beyond its bound.
Unfiltered(db) ==
  /\ db.asOf = None
  /\ EffectiveT(db) >= db.nov.maxT
  /\ EffectiveT(db) >= db.roots.t
Visible(db, ds) == IF Unfiltered(db) THEN ds ELSE SelectSeq(ds, LAMBDA d : d.t <= EffectiveT(db))

\* datoms and datomsArray.
DatomsOf(db, index, p) ==
  LET All(chunks) == FlattenSeq([i \in DOMAIN chunks |-> chunks[i].datoms])
      View(chunks) == IF db.history THEN Visible(db, All(chunks)) ELSE CurrentView(chunks, EffectiveT(db))
      nov == NoveltyRange(db.nov, index, p)
  IN  View(MergeChunks(index, Scan(index, db.roots.tree[index], p),
                       [datoms |-> nov, whole |-> nov = db.nov.index[index]]))

\* seekMany: the same, of a batch of prefixes.
ViewOfMerged(db, ds) == IF db.history THEN Visible(db, ds) ELSE CollapseCurrent(ds, EffectiveT(db))
MergeEach(db, index, tree) ==
  [p \in DOMAIN tree |-> ViewOfMerged(db, SortedUnion(index, tree[p], NoveltyRange(db.nov, index, p)))]
SeekMany(db, index, prefixes) == MergeEach(db, index, ScanMany(index, db.roots.tree[index], prefixes))

NoDatom == [e |-> None, a |-> None, v |-> None, t |-> None, op |-> FALSE]
Found(d) == d.e # None
HeadOf(ds) == IF ds = <<>> THEN NoDatom ELSE Head(ds)
First(db, index, p) == HeadOf(DatomsOf(db, index, p))
Estimate(db, index, p) == EstimateCount(index, db.roots.tree[index], p) + Len(NoveltyRange(db.nov, index, p))

\* entid of a lookup ref, and exists.
EntidOf(db, a, v) == First(db, "avet", <<a, v>>).e
Exists(db, e) == Found(First(db, "eavt", <<e>>))
\* entity: an entity's values by attribute, the last one of a cardinality-one.
ByAttribute(ds) ==
  LET Values(a) == LET own == SelectSeq(ds, LAMBDA d : d.a = a) IN [i \in DOMAIN own |-> own[i].v]
  IN  [a \in {ds[i].a : i \in DOMAIN ds} |-> IF Attr[a].many THEN Range(Values(a)) ELSE {Last(Values(a))}]
EntityOf(db, e) == ByAttribute(DatomsOf(db, "eavt", <<e>>))

\* deriveSchema: the schema from the attributes' own facts under the roots.
DeriveSchema(roots) ==
  LET db == Db(roots, NoNovelty, roots.t, Bootstrap, 0) IN
  ApplySchema(Bootstrap, SelectSeq(DatomsOf(db, "eavt", <<>>), LAMBDA d : d.e \in DOMAIN Attr))
=============================================================================
