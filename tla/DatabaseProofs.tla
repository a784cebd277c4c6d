---------------------------- MODULE DatabaseProofs ----------------------------
(***************************************************************************)
(* What Database guarantees for every set of requests, every slice, tail   *)
(* and number of retained roots, and any number of crashes and faults.     *)
(*                                                                         *)
(* What is stored, the root in meta and the rows above it, is the log of a *)
(* writer without an indexer: every step of Database is a step of          *)
(* Transactor on it, and so the invariant of TransactorProofs holds of it. *)
(* The indexer's own invariant says how far each of its copies, the roots, *)
(* the chunks and the trees of the live connection, has come along it.     *)
(***************************************************************************)
EXTENDS Database, FiniteSetTheorems, TLAPS

\* The writer on what is stored.
Writer == INSTANCE TransactorProofs WITH log <- Stored

\* The writer's assumptions are this module's.
LEMMA WriterAssumptions ==
  Writer!RequestAssumption /\ Writer!BoundAssumption /\ Writer!NoAckAssumption
BY RequestAssumption, BoundAssumption, NoAckAssumption
   DEF Writer!RequestAssumption, Writer!BoundAssumption, Writer!NoAckAssumption, Writer!Ack, Ack

-----------------------------------------------------------------------------
(* Prefixes of a database.                                                 *)

\* What is stored, from the root and the rows above it.
RowsInv ==
  /\ metaRoot.t \in Nat /\ IsDb(metaRoot.db) /\ IsDb(log)
  /\ DOMAIN metaRoot.db = 1..metaRoot.t
  /\ \A t \in DOMAIN log : t \in DOMAIN Stored /\ log[t] = Stored[t]

\* The entries up to a t.
LEMMA UpToFacts ==
  ASSUME NEW db, IsDb(db), NEW n \in Nat
  PROVE  /\ IsDb(UpTo(db, n)) /\ DOMAIN UpTo(db, n) = {t \in DOMAIN db : t <= n}
         /\ \A t \in DOMAIN UpTo(db, n) : UpTo(db, n)[t] = db[t]
BY DEF UpTo, IsDb

\* The entries above a t.
LEMMA AboveFacts ==
  ASSUME NEW db, IsDb(db), NEW n \in Int
  PROVE  /\ IsDb(Above(db, n)) /\ DOMAIN Above(db, n) = {t \in DOMAIN db : t > n}
         /\ \A t \in DOMAIN Above(db, n) : Above(db, n)[t] = db[t]
BY DEF Above, IsDb

\* Merging two databases: the second one wins where both have a t.
LEMMA MergeOf ==
  ASSUME NEW f, NEW g, IsDb(f), IsDb(g)
  PROVE  /\ IsDb(Merge(f, g))
         /\ DOMAIN Merge(f, g) = DOMAIN f \cup DOMAIN g
         /\ \A t \in DOMAIN g : Merge(f, g)[t] = g[t]
         /\ \A t \in DOMAIN f \ DOMAIN g : Merge(f, g)[t] = f[t]
BY DEF Merge, IsDb

\* Two databases with the same entries are one.
LEMMA SameDb ==
  ASSUME NEW f, NEW g, IsDb(f), IsDb(g), DOMAIN f = DOMAIN g,
         \A t \in DOMAIN f : f[t] = g[t]
  PROVE  f = g
BY DEF IsDb

\* What a boot restores: the root up to its t, the rows above it.
LEMMA MergeAbove ==
  ASSUME NEW db, NEW rows, NEW n \in Nat, IsDb(db), IsDb(rows), DOMAIN db = 1..n
  PROVE  /\ IsDb(Merge(db, Above(rows, n)))
         /\ \A t : t \in DOMAIN Merge(db, Above(rows, n)) <=>
                    t \in 1..n \/ (t \in DOMAIN rows /\ t > n)
         /\ \A t \in 1..n : Merge(db, Above(rows, n))[t] = db[t]
         /\ \A t \in DOMAIN rows : t > n => Merge(db, Above(rows, n))[t] = rows[t]
<1> DEFINE g == Above(rows, n)
<1>1. /\ IsDb(g) /\ DOMAIN g = {t \in DOMAIN rows : t > n}
      /\ \A t \in DOMAIN g : g[t] = rows[t]
  <2>1. n \in Int
    OBVIOUS
  <2> QED BY <2>1, AboveFacts
<1> HIDE DEF g
<1>2. /\ IsDb(Merge(db, g)) /\ DOMAIN Merge(db, g) = DOMAIN db \cup DOMAIN g
      /\ \A t \in DOMAIN g : Merge(db, g)[t] = g[t]
      /\ \A t \in DOMAIN db \ DOMAIN g : Merge(db, g)[t] = db[t]
  <2>1. IsDb(db) /\ IsDb(g)
    BY ONLY <1>1, IsDb(db)
  <2> QED BY ONLY <2>1, MergeOf
<1>3. \A t \in 1..n : t \in DOMAIN db \ DOMAIN g
  BY <1>1
<1>4. /\ IsDb(Merge(db, g))
      /\ \A t : t \in DOMAIN Merge(db, g) <=> t \in 1..n \/ (t \in DOMAIN rows /\ t > n)
      /\ \A t \in 1..n : Merge(db, g)[t] = db[t]
  BY <1>1, <1>2, <1>3
<1>5. \A t \in DOMAIN rows : t > n => Merge(db, g)[t] = rows[t]
  BY <1>1, <1>2
<1> QED BY <1>4, <1>5 DEF g

\* The same of what is stored.
LEMMA StoredFacts ==
  ASSUME RowsInv
  PROVE  /\ IsDb(Stored)
         /\ \A t : t \in DOMAIN Stored <=> t \in 1..metaRoot.t \/ (t \in DOMAIN log /\ t > metaRoot.t)
         /\ \A t \in 1..metaRoot.t : Stored[t] = metaRoot.db[t]
         /\ \A t \in DOMAIN log : t > metaRoot.t => Stored[t] = log[t]
BY MergeAbove DEF RowsInv, Stored

\* A root that is the database db as of its t.
IsPrefix(r, db) == r.t \in Nat /\ (r.t = 0 \/ r.t \in DOMAIN db) /\ r.db = UpTo(db, r.t)

Dense(db) == IsDb(db) /\ \E n \in Nat \ {0} : DOMAIN db = 1..n
Grows(db, more) == \A t \in DOMAIN db : t \in DOMAIN more /\ more[t] = db[t]

\* A prefix of a dense database is a prefix of what it grows to.
LEMMA PrefixGrows ==
  ASSUME NEW db, NEW more, Dense(db), Dense(more), Grows(db, more),
         NEW n \in Nat, n = 0 \/ n \in DOMAIN db
  PROVE  UpTo(more, n) = UpTo(db, n) /\ (n = 0 \/ n \in DOMAIN more)
<1>1. PICK m \in Nat \ {0} : DOMAIN db = 1..m
  BY DEF Dense
<1>2. PICK k \in Nat \ {0} : DOMAIN more = 1..k
  BY DEF Dense
<1>3. n <= m /\ 1..m \subseteq 1..k
  BY <1>1, <1>2 DEF Grows
<1>4. /\ IsDb(UpTo(db, n)) /\ DOMAIN UpTo(db, n) = 1..n
      /\ \A t \in 1..n : UpTo(db, n)[t] = db[t]
  <2>1. {t \in DOMAIN db : t <= n} = 1..n
    BY <1>1, <1>3
  <2> QED BY <2>1, UpToFacts DEF Dense
<1>5. /\ IsDb(UpTo(more, n)) /\ DOMAIN UpTo(more, n) = 1..n
      /\ \A t \in 1..n : UpTo(more, n)[t] = more[t]
  <2>1. {t \in DOMAIN more : t <= n} = 1..n
    BY <1>2, <1>3
  <2> QED BY <2>1, UpToFacts DEF Dense
<1>6. \A t \in 1..n : more[t] = db[t]
  BY <1>1, <1>3 DEF Grows
<1>7. UpTo(more, n) = UpTo(db, n)
  BY <1>4, <1>5, <1>6, SameDb
<1> QED BY <1>7 DEF Grows

\* The entries up to the t of a dense database.
LEMMA DensePrefix ==
  ASSUME NEW db, Dense(db), NEW n \in Nat, n = 0 \/ n \in DOMAIN db
  PROVE  /\ IsDb(UpTo(db, n)) /\ DOMAIN UpTo(db, n) = 1..n /\ 1..n \subseteq DOMAIN db
         /\ \A t \in 1..n : UpTo(db, n)[t] = db[t]
<1>1. PICK m \in Nat \ {0} : DOMAIN db = 1..m
  BY DEF Dense
<1>2. {t \in DOMAIN db : t <= n} = 1..n /\ 1..n \subseteq DOMAIN db
  BY <1>1
<1> QED BY <1>2, UpToFacts DEF Dense

\* A prefix stays one as the database grows.
LEMMA PrefixStays ==
  ASSUME NEW db, NEW more, Dense(db), Dense(more), Grows(db, more),
         NEW r, IsPrefix(r, db)
  PROVE  IsPrefix(r, more)
<1>1. r.t \in Nat /\ (r.t = 0 \/ r.t \in DOMAIN db)
  BY DEF IsPrefix
<1>2. UpTo(more, r.t) = UpTo(db, r.t) /\ (r.t = 0 \/ r.t \in DOMAIN more)
  BY <1>1, PrefixGrows
<1> QED BY <1>1, <1>2 DEF IsPrefix

\* The entries between two t's.
LEMMA SliceFacts ==
  ASSUME NEW db, IsDb(db), NEW n \in Nat, NEW m \in Nat
  PROVE  /\ IsDb(UpTo(Above(db, n), m))
         /\ \A t : t \in DOMAIN UpTo(Above(db, n), m) <=> t \in DOMAIN db /\ t > n /\ t <= m
         /\ \A t \in DOMAIN UpTo(Above(db, n), m) : UpTo(Above(db, n), m)[t] = db[t]
<1> DEFINE f == Above(db, n)
<1>1. /\ IsDb(f) /\ DOMAIN f = {t \in DOMAIN db : t > n}
      /\ \A t \in DOMAIN f : f[t] = db[t]
  <2>1. n \in Int
    OBVIOUS
  <2> QED BY <2>1, AboveFacts
<1> HIDE DEF f
<1>2. /\ IsDb(UpTo(f, m)) /\ DOMAIN UpTo(f, m) = {t \in DOMAIN f : t <= m}
      /\ \A t \in DOMAIN UpTo(f, m) : UpTo(f, m)[t] = f[t]
  BY <1>1, UpToFacts
<1>3. /\ IsDb(UpTo(f, m))
      /\ \A t : t \in DOMAIN UpTo(f, m) <=> t \in DOMAIN db /\ t > n /\ t <= m
      /\ \A t \in DOMAIN UpTo(f, m) : UpTo(f, m)[t] = db[t]
  BY <1>1, <1>2
<1> QED BY <1>3 DEF f

\* A slice of a dense database is a slice of what it grows to.
LEMMA SliceStays ==
  ASSUME NEW db, NEW more, Dense(db), Dense(more), Grows(db, more),
         NEW n \in Nat, NEW m \in DOMAIN db
  PROVE  UpTo(Above(more, n), m) = UpTo(Above(db, n), m)
<1>1. IsDb(db) /\ IsDb(more) /\ m \in Nat
  BY DEF Dense
<1>2. \A t \in DOMAIN more : t <= m => t \in DOMAIN db
  BY DEF Dense
<1> DEFINE f == UpTo(Above(db, n), m)
           g == UpTo(Above(more, n), m)
<1>3. /\ IsDb(f) /\ \A t : t \in DOMAIN f <=> t \in DOMAIN db /\ t > n /\ t <= m
      /\ \A t \in DOMAIN f : f[t] = db[t]
  BY <1>1, SliceFacts
<1>4. /\ IsDb(g) /\ \A t : t \in DOMAIN g <=> t \in DOMAIN more /\ t > n /\ t <= m
      /\ \A t \in DOMAIN g : g[t] = more[t]
  BY <1>1, SliceFacts
<1> HIDE DEF f, g
<1>5. DOMAIN g = DOMAIN f
  BY <1>2, <1>3, <1>4 DEF Grows
<1>6. \A t \in DOMAIN g : g[t] = f[t]
  BY <1>3, <1>4, <1>5 DEF Grows
<1>7. g = f
  BY <1>3, <1>4, <1>5, <1>6, SameDb
<1> QED BY <1>7 DEF f, g

-----------------------------------------------------------------------------
(* Every step of Database is one of the writer on what is stored, but that *)
(* a run that fails counts a fault.                                        *)

\* The indexer's own variables do not matter to what is stored.
LEMMA StoredStays == UNCHANGED <<log, metaRoot>> => UNCHANGED Stored
BY DEF Stored

\* The callers.
LEMMA CallerSteps ==
  ASSUME NEW r \in Requests, Caller(r), UNCHANGED Stored
  PROVE  Writer!Caller(r)
<1> USE DEF Writer!durable, Writer!memory, Writer!loopVars, durable, memory, loopVars,
            Settle, Writer!Settle, Enqueue, Writer!Enqueue, Submittable, Writer!Submittable,
            Remembered, Writer!Remembered, RememberedAck, Writer!RememberedAck,
            Keys, Writer!Keys, Lookup, Writer!Lookup, ReplayKey, Writer!ReplayKey, Writer!Caller
<1>1. CASE OpLookup(r)
  BY <1>1 DEF OpLookup, Writer!OpLookup
<1>2. CASE Transact(r)
  BY <1>2 DEF Transact, Writer!Transact
<1>3. CASE TransactReplay(r)
  BY <1>3 DEF TransactReplay, Writer!TransactReplay
<1>4. CASE RecordOpAck(r)
  BY <1>4 DEF RecordOpAck, Writer!RecordOpAck, RememberAll, Writer!RememberAll, SetAll,
              Writer!SetAll, MapSet, Writer!MapSet, Newest, Writer!Newest
<1>5. CASE ProvisionLookup(r)
  BY <1>5 DEF ProvisionLookup, Writer!ProvisionLookup, ProvisionedIn, Writer!ProvisionedIn
<1>6. CASE ProvisionSubmit(r)
  BY <1>6 DEF ProvisionSubmit, Writer!ProvisionSubmit
<1>7. CASE Refuse(r)
  BY <1>7 DEF Refuse, Writer!Refuse
<1> QED BY <1>1, <1>2, <1>3, <1>4, <1>5, <1>6, <1>7 DEF Caller

\* The commit loop, but for the write.
LEMMA LoopSteps ==
  ASSUME Loop, ~Write, UNCHANGED Stored
  PROVE  Writer!Loop
<1> USE DEF Writer!durable, Writer!memory, Writer!loopVars, Writer!callers, durable, memory,
            loopVars, callers, Keys, Writer!Keys, Lookup, Writer!Lookup, ReplayKey,
            Writer!ReplayKey, Replayed, Writer!Replayed, AfterItem, Writer!AfterItem, Writer!Loop
<1>1. CASE TakeBatch
  BY <1>1 DEF TakeBatch, Writer!TakeBatch, EmptyDb, Writer!EmptyDb, BootEntry, Writer!BootEntry
<1>2. CASE ReplayItem
  BY <1>2 DEF ReplayItem, Writer!ReplayItem, Settle, Writer!Settle
<1>3. CASE ProvisionItem
  BY <1>3 DEF ProvisionItem, Writer!ProvisionItem, NeedsProvision, Writer!NeedsProvision,
              ProvisionedIn, Writer!ProvisionedIn, Assign, Writer!Assign, Merge, Writer!Merge,
              Row, Writer!Row
<1>4. CASE AcceptItem
  BY <1>4 DEF AcceptItem, Writer!AcceptItem, OpOf, Writer!OpOf, Assign, Writer!Assign,
              Merge, Writer!Merge, Row, Writer!Row
<1>5. CASE DenyItem
  BY <1>5 DEF DenyItem, Writer!DenyItem
<1>6. CASE AckItem
  BY <1>6 DEF AckItem, Writer!AckItem, MapSet, Writer!MapSet
<1>7. CASE AckItemFails
  BY <1>7 DEF AckItemFails, Writer!AckItemFails
<1>8. CASE WriteFails
  BY <1>8 DEF WriteFails, Writer!WriteFails, Die, Writer!Die
<1>9. CASE Reply
  BY <1>9 DEF Reply, Writer!Reply, RememberAll, Writer!RememberAll, SetAll, Writer!SetAll,
              MapSet, Writer!MapSet, Newest, Writer!Newest, Persists, Writer!Persists,
              Operations, Writer!Operations
<1>10. CASE LoopFails
  BY <1>10 DEF LoopFails, Writer!LoopFails, Die, Writer!Die
<1>11. CASE LoopAgain
  BY <1>11 DEF LoopAgain, Writer!LoopAgain
<1> QED BY <1>1, <1>2, <1>3, <1>4, <1>5, <1>6, <1>7, <1>8, <1>9, <1>10, <1>11 DEF Loop

\* The write adds the batch to what is stored, above everything there is.
LEMMA WriteStores ==
  ASSUME RowsInv, Writer!IInv, Write, UNCHANGED metaRoot
  PROVE  Writer!Write /\ RowsInv'
<1>1. /\ IsDb(entries)
      /\ \E n \in Nat \ {0} : /\ DOMAIN Stored = 1..n /\ n <= basisT
                              /\ DOMAIN entries = (n + 1)..basisT
  BY DEF Writer!IInv, Writer!TypeInv, Writer!TypeOK, Writer!LogInv, Writer!Resolving, Write,
         Writer!IsDb, IsDb, Writer!Entry, Entry
<1>2. PICK n \in Nat \ {0} : DOMAIN Stored = 1..n /\ DOMAIN entries = (n + 1)..basisT
  BY <1>1
<1>3. /\ IsDb(Stored)
      /\ \A t : t \in DOMAIN Stored <=> t \in 1..metaRoot.t \/ (t \in DOMAIN log /\ t > metaRoot.t)
      /\ \A t \in 1..metaRoot.t : Stored[t] = metaRoot.db[t]
      /\ \A t \in DOMAIN log : t > metaRoot.t => Stored[t] = log[t]
  BY StoredFacts
<1>4. metaRoot.t \in Nat /\ metaRoot.t <= n
  <2>1. CASE metaRoot.t = 0
    BY <2>1
  <2>2. CASE metaRoot.t # 0
    <3>1. metaRoot.t \in Nat /\ metaRoot.t \in 1..metaRoot.t
      BY <2>2 DEF RowsInv
    <3> QED BY <1>2, <1>3, <3>1
  <2> QED BY <2>1, <2>2
<1>5. /\ log' = Merge(log, entries) /\ metaRoot' = metaRoot
      /\ Stored' = Merge(metaRoot.db, Above(log', metaRoot.t))
  BY DEF Write, Stored
<1>6. /\ IsDb(log') /\ DOMAIN log' = DOMAIN log \cup DOMAIN entries
      /\ \A t \in DOMAIN entries : log'[t] = entries[t]
      /\ \A t \in DOMAIN log \ DOMAIN entries : log'[t] = log[t]
  <2>1. IsDb(log) /\ IsDb(entries)
    BY <1>1 DEF RowsInv
  <2>2. /\ IsDb(Merge(log, entries))
        /\ DOMAIN Merge(log, entries) = DOMAIN log \cup DOMAIN entries
        /\ \A t \in DOMAIN entries : Merge(log, entries)[t] = entries[t]
        /\ \A t \in DOMAIN log \ DOMAIN entries : Merge(log, entries)[t] = log[t]
    BY <2>1, MergeOf
  <2> QED BY <1>5, <2>2
<1>7. /\ IsDb(Stored')
      /\ \A t : t \in DOMAIN Stored' <=> t \in 1..metaRoot.t \/ (t \in DOMAIN log' /\ t > metaRoot.t)
      /\ \A t \in 1..metaRoot.t : Stored'[t] = metaRoot.db[t]
      /\ \A t \in DOMAIN log' : t > metaRoot.t => Stored'[t] = log'[t]
  BY <1>4, <1>5, <1>6, MergeAbove DEF RowsInv
<1>8. /\ IsDb(Merge(Stored, entries)) /\ DOMAIN Merge(Stored, entries) = DOMAIN Stored \cup DOMAIN entries
      /\ \A t \in DOMAIN entries : Merge(Stored, entries)[t] = entries[t]
      /\ \A t \in DOMAIN Stored \ DOMAIN entries : Merge(Stored, entries)[t] = Stored[t]
  <2>1. IsDb(Stored) /\ IsDb(entries)
    BY <1>1, <1>3
  <2> QED BY <2>1, MergeOf
<1>9. \A t \in DOMAIN entries : t \in Nat /\ t > n /\ t \notin DOMAIN Stored
  BY <1>1, <1>2 DEF IsDb
<1>10. DOMAIN Stored' = DOMAIN Merge(Stored, entries)
  BY <1>3, <1>4, <1>6, <1>7, <1>8, <1>9
<1>11. \A t \in DOMAIN Stored' : Stored'[t] = Merge(Stored, entries)[t]
  BY <1>3, <1>4, <1>6, <1>7, <1>8, <1>9, <1>10
<1>12. Stored' = Merge(Stored, entries)
  BY <1>7, <1>8, <1>10, <1>11, SameDb
<1>13. Writer!Write
  BY <1>9, <1>12 DEF Write, Writer!Write, SetAll, Writer!SetAll, MapSet, Writer!MapSet, Newest,
     Writer!Newest, Keys, Writer!Keys, Persists, Writer!Persists, Operations, Writer!Operations,
     Merge, Writer!Merge, Writer!loopVars, loopVars, Writer!callers, callers
<1>14. \A t \in DOMAIN log' : t \in DOMAIN Stored' /\ log'[t] = Stored'[t]
  BY <1>3, <1>4, <1>6, <1>7, <1>9, <1>10, <1>11, <1>8 DEF RowsInv
<1> QED BY <1>5, <1>6, <1>13, <1>14 DEF RowsInv

-----------------------------------------------------------------------------
(* The index run: the trees of a live connection are what is stored up to  *)
(* their t, and the slice of a run continues them.                         *)

IndexInv ==
  inst = "up" =>
    /\ IsPrefix(connRoot, Stored) /\ metaRoot.t <= connRoot.t
    /\ ix # "idle" => run.to \in DOMAIN Stored
    /\ ix \in {"flush", "merge", "merged"} => connRoot.t < run.to
    /\ ix = "flush" => run.entries = UpTo(Above(Stored, connRoot.t), run.to)
    /\ ix \in {"publish", "flip", "adopt", "gc"} => connRoot.t = run.to
    /\ ix \in {"adopt", "gc"} => current = connRoot
    /\ ix = "gc" => metaRoot = connRoot

\* A run waits for the collection it has started.
WaitInv == inst = "up" /\ gc # "idle" /\ keep.byRun => ix = "gc"

\* An instance that is down has neither a run nor a collection.
DownInv == inst = "down" => ix = "idle" /\ gc = "idle"

\* What the writer's invariant says of what is stored and of the connection.
LEMMA StoredIsDense == Writer!IInv /\ RowsInv => Dense(Stored)
BY StoredFacts DEF Writer!IInv, Writer!LogInv, Dense

\* The same, after a step.
LEMMA StoredStaysDense == Writer!IInv' /\ RowsInv' => Dense(Stored)'
BY StoredIsDense, PTL

\* What the connection of a live instance holds.
LEMMA ConnFacts ==
  ASSUME Writer!IInv, RowsInv, inst = "up"
  PROVE  /\ Dense(conn) /\ Grows(Stored, conn) /\ DOMAIN conn = 1..basisT /\ basisT \in Nat
         /\ pc \notin {"resolve", "authorize", "ack", "write"} => conn = Stored
<1>1. /\ IsDb(conn) /\ IsDb(entries) /\ basisT \in Nat /\ DOMAIN conn = 1..basisT
      /\ pc \notin {"resolve", "authorize", "ack", "write"} => conn = Stored
      /\ pc \in {"resolve", "authorize", "ack", "write"} =>
           /\ conn = Merge(Stored, entries)
           /\ \E n \in Nat \ {0} : /\ DOMAIN Stored = 1..n /\ n <= basisT
                                  /\ DOMAIN entries = (n + 1)..basisT
  BY DEF Writer!IInv, Writer!TypeInv, Writer!TypeOK, Writer!LogInv, Writer!Resolving,
         Writer!MemoryIsLogPlusBatch, Writer!Merge, Merge, Writer!IsDb, IsDb, Writer!Entry, Entry
<1>2. Dense(Stored)
  BY StoredIsDense
<1>3. PICK n \in Nat \ {0} : DOMAIN Stored = 1..n
  BY <1>2 DEF Dense
<1>4. Grows(Stored, conn)
  <2>1. CASE pc \notin {"resolve", "authorize", "ack", "write"}
    BY <1>1, <2>1 DEF Grows
  <2>2. CASE pc \in {"resolve", "authorize", "ack", "write"}
    <3>1. PICK k \in Nat \ {0} : DOMAIN Stored = 1..k /\ DOMAIN entries = (k + 1)..basisT
      BY <1>1, <2>2
    <3>2. /\ DOMAIN Merge(Stored, entries) = DOMAIN Stored \cup DOMAIN entries
          /\ \A t \in DOMAIN Stored \ DOMAIN entries : Merge(Stored, entries)[t] = Stored[t]
      BY <1>1, <1>2, MergeOf DEF Dense
    <3>3. \A t \in DOMAIN Stored : t \notin DOMAIN entries
      BY <3>1
    <3> QED BY <1>1, <2>2, <3>2, <3>3 DEF Grows
  <2> QED BY <2>1, <2>2
<1>5. basisT # 0
  BY <1>1, <1>3, <1>4 DEF Grows
<1> QED BY <1>1, <1>4, <1>5 DEF Dense

\* A boot restores what is stored, and the last t of it.
LEMMA BootRestores ==
  ASSUME Writer!IInv, RowsInv, DbBoot
  PROVE  Writer!Boot /\ conn' = Stored
<1>1. PICK n \in Nat \ {0} : DOMAIN Stored = 1..n
  BY StoredIsDense DEF Dense
<1> DEFINE rows == {t \in DOMAIN log : t > metaRoot.t}
           all == {t \in DOMAIN Stored : t > 0}
<1>2. /\ metaRoot.t \in Nat
      /\ \A t : t \in DOMAIN Stored <=> t \in 1..metaRoot.t \/ (t \in DOMAIN log /\ t > metaRoot.t)
  BY StoredFacts DEF RowsInv
<1>3. MaxOf(rows \cup {metaRoot.t}) = n
  <2>1. rows \cup {metaRoot.t} \in SUBSET Int
    BY <1>2 DEF RowsInv, IsDb
  <2>2. metaRoot.t # 0 => metaRoot.t \in DOMAIN Stored
    BY <1>2
  <2>3. metaRoot.t <= n
    BY <1>1, <1>2, <2>2
  <2>4. \A x \in rows \cup {metaRoot.t} : x <= n
    BY <1>1, <1>2, <2>3
  <2>5. n \in rows \cup {metaRoot.t}
    <3>1. n \in DOMAIN Stored
      BY <1>1
    <3> QED BY <1>2, <2>3, <3>1
  <2> QED BY <2>1, <2>4, <2>5, Writer!MaxOfFact, WriterAssumptions DEF MaxOf, Writer!MaxOf
<1>4. all = 1..n /\ all = DOMAIN Stored
  BY <1>1
<1>5. Writer!MaxOf(all \cup {0}) = n
  <2>1. all \cup {0} \in SUBSET Int /\ n \in all \cup {0} /\ \A x \in all \cup {0} : x <= n
    BY <1>4
  <2> QED BY <2>1, Writer!MaxOfFact, WriterAssumptions
<1>6. [t \in all |-> Stored[t]] = Stored
  BY <1>4, StoredFacts DEF IsDb
<1>7. Writer!Merge(Writer!EmptyDb, Stored) = Stored
  BY <1>4, StoredFacts DEF Writer!Merge, Writer!EmptyDb, IsDb
<1>8. conn' = Stored /\ basisT' = n
  BY <1>3 DEF DbBoot, BootFrom, Stored, Above
<1>9. UNCHANGED Stored
  BY StoredStays DEF DbBoot, BootFrom, durable
<1> QED BY <1>5, <1>6, <1>7, <1>8, <1>9
        DEF DbBoot, BootFrom, Writer!Boot, Writer!BootFrom, durable, Writer!durable, loopVars,
            Writer!loopVars, callers, Writer!callers

\* Above the root the log has what is stored.
LEMMA AboveStored ==
  ASSUME RowsInv, NEW n \in Nat, metaRoot.t <= n
  PROVE  Above(log, n) = Above(Stored, n)
<1>1. /\ IsDb(Above(log, n)) /\ DOMAIN Above(log, n) = {t \in DOMAIN log : t > n}
      /\ \A t \in DOMAIN Above(log, n) : Above(log, n)[t] = log[t]
  <2>1. n \in Int /\ IsDb(log)
    BY DEF RowsInv
  <2> QED BY <2>1, AboveFacts
<1>2. /\ IsDb(Above(Stored, n)) /\ DOMAIN Above(Stored, n) = {t \in DOMAIN Stored : t > n}
      /\ \A t \in DOMAIN Above(Stored, n) : Above(Stored, n)[t] = Stored[t]
  <2>1. n \in Int /\ IsDb(Stored)
    BY StoredFacts
  <2> QED BY <2>1, AboveFacts
<1>3. metaRoot.t \in Nat
  BY DEF RowsInv
<1>4. \A t \in DOMAIN Stored : t > n => t \in DOMAIN log
  <2>1. \A t : t \in DOMAIN Stored => t \in 1..metaRoot.t \/ t \in DOMAIN log
    BY StoredFacts
  <2> QED BY <1>3, <2>1
<1>5. \A t \in DOMAIN log : t \in DOMAIN Stored /\ log[t] = Stored[t]
  BY DEF RowsInv
<1>6. DOMAIN Above(log, n) = DOMAIN Above(Stored, n)
  BY <1>1, <1>2, <1>4, <1>5
<1> QED BY <1>1, <1>2, <1>5, <1>6, SameDb

\* Adopting the trees of a run and pruning the rows they hold changes nothing
\* of what is stored.
LEMMA AdoptKeeps ==
  ASSUME Writer!IInv, RowsInv, IndexInv, Adopt
  PROVE  Stored' = Stored /\ RowsInv'
<1>1. /\ IsPrefix(connRoot, Stored) /\ metaRoot.t <= connRoot.t /\ connRoot.t = run.to
      /\ metaRoot' = connRoot /\ log' = Above(log, run.to - LogKeepTxs)
  BY DEF Adopt, IndexInv
<1>2. /\ connRoot.t \in Nat /\ metaRoot.t \in Nat /\ run.to - LogKeepTxs \in Int
      /\ run.to - LogKeepTxs <= connRoot.t
  BY <1>1, DatabaseAssumption DEF IsPrefix, RowsInv
<1>3. /\ IsDb(log') /\ DOMAIN log' = {t \in DOMAIN log : t > run.to - LogKeepTxs}
      /\ \A t \in DOMAIN log' : log'[t] = log[t]
  <2>1. IsDb(log)
    BY DEF RowsInv
  <2>2. /\ IsDb(Above(log, run.to - LogKeepTxs))
        /\ DOMAIN Above(log, run.to - LogKeepTxs) = {t \in DOMAIN log : t > run.to - LogKeepTxs}
        /\ \A t \in DOMAIN Above(log, run.to - LogKeepTxs) :
             Above(log, run.to - LogKeepTxs)[t] = log[t]
    BY <1>2, <2>1, AboveFacts
  <2> QED BY <1>1, <2>2
<1>4. /\ IsDb(connRoot.db) /\ DOMAIN connRoot.db = 1..connRoot.t
      /\ 1..connRoot.t \subseteq DOMAIN Stored
      /\ \A t \in 1..connRoot.t : connRoot.db[t] = Stored[t]
  BY <1>1, StoredIsDense, DensePrefix DEF IsPrefix
<1>5. /\ IsDb(Stored')
      /\ \A t : t \in DOMAIN Stored' <=>
                 t \in 1..connRoot.t \/ (t \in DOMAIN log' /\ t > connRoot.t)
      /\ \A t \in 1..connRoot.t : Stored'[t] = connRoot.db[t]
      /\ \A t \in DOMAIN log' : t > connRoot.t => Stored'[t] = log'[t]
  <2>1. Stored' = Merge(connRoot.db, Above(log', connRoot.t))
    BY <1>1 DEF Stored
  <2>2. /\ IsDb(Merge(connRoot.db, Above(log', connRoot.t)))
        /\ \A t : t \in DOMAIN Merge(connRoot.db, Above(log', connRoot.t)) <=>
                   t \in 1..connRoot.t \/ (t \in DOMAIN log' /\ t > connRoot.t)
        /\ \A t \in 1..connRoot.t :
             Merge(connRoot.db, Above(log', connRoot.t))[t] = connRoot.db[t]
        /\ \A t \in DOMAIN log' : t > connRoot.t =>
             Merge(connRoot.db, Above(log', connRoot.t))[t] = log'[t]
    BY <1>2, <1>3, <1>4, MergeAbove
  <2> QED BY <2>1, <2>2
<1>6. /\ IsDb(Stored)
      /\ \A t : t \in DOMAIN Stored <=> t \in 1..metaRoot.t \/ (t \in DOMAIN log /\ t > metaRoot.t)
      /\ \A t \in DOMAIN log : log[t] = Stored[t] /\ t \in DOMAIN Stored /\ t \in Nat
  BY StoredFacts DEF RowsInv, IsDb
<1>7. DOMAIN Stored' = DOMAIN Stored
  <2>1. ASSUME NEW t \in DOMAIN Stored'
        PROVE  t \in DOMAIN Stored
    BY <1>3, <1>4, <1>5, <1>6
  <2>2. ASSUME NEW t \in DOMAIN Stored
        PROVE  t \in DOMAIN Stored'
    <3>1. t \in Nat
      BY <1>6 DEF IsDb
    <3>2. CASE t <= connRoot.t
      <4>1. t \in 1..connRoot.t
        BY <1>1, <1>2, <1>6, <3>1, <3>2
      <4> QED BY <1>5, <4>1
    <3>3. CASE t > connRoot.t
      <4>1. t \in DOMAIN log
        BY <1>1, <1>2, <1>6, <3>1, <3>3
      <4> QED BY <1>1, <1>2, <1>3, <1>5, <3>1, <3>3, <4>1
    <3> QED BY <1>2, <3>1, <3>2, <3>3
  <2> QED BY <2>1, <2>2
<1>8. \A t \in DOMAIN Stored' : Stored'[t] = Stored[t]
  BY <1>1, <1>2, <1>3, <1>4, <1>5, <1>6
<1>9. Stored' = Stored
  BY <1>5, <1>6, <1>7, <1>8, SameDb
<1>10. \A t \in DOMAIN log' : t \in DOMAIN Stored' /\ log'[t] = Stored'[t]
  BY <1>3, <1>6, <1>9
<1> QED BY <1>1, <1>2, <1>3, <1>4, <1>9, <1>10 DEF RowsInv

\* Every step is one of the writer on what is stored, but that a run that
\* fails counts a fault.
LEMMA Simulates ==
  ASSUME Writer!IInv, RowsInv, IndexInv, [DbNext]_allVars
  PROVE  ([Writer!Next]_(Writer!vars) \/ RunFails) /\ RowsInv'
<1> USE DEF Writer!durable, Writer!memory, Writer!loopVars, Writer!callers, durable, memory,
            loopVars, callers
<1>1. CASE UNCHANGED <<log, metaRoot>> /\ (Writer!Next \/ RunFails \/ UNCHANGED vars)
  <2>1. UNCHANGED Stored /\ RowsInv'
    BY <1>1, StoredStays DEF RowsInv
  <2> QED BY <1>1, <2>1 DEF vars, Writer!vars
<1>2. CASE DbBoot
  BY <1>1, <1>2, BootRestores DEF DbBoot, BootFrom, Writer!Next
<1>3. CASE DbEnd
  <2>1. UNCHANGED <<log, metaRoot>>
    BY <1>3 DEF DbEnd, Crash, Discard
  <2>2. UNCHANGED Stored
    BY <2>1, StoredStays
  <2>3. Writer!Crash \/ Writer!Discard
    BY <1>3, <2>2 DEF DbEnd, Crash, Discard, Writer!Crash, Writer!Discard, Fresh, Writer!Fresh,
        Abandon, Writer!Abandon, EmptyDb, Writer!EmptyDb, BootEntry, Writer!BootEntry
  <2> QED BY <1>1, <2>1, <2>3 DEF Writer!Next
<1>4. CASE DbSchedule
  <2>1. LoopAgain /\ UNCHANGED <<log, metaRoot>>
    BY <1>4 DEF DbSchedule, LoopAgain
  <2>2. Loop /\ ~Write /\ UNCHANGED Stored
    BY <2>1, StoredStays DEF Loop, LoopAgain, Write
  <2> QED BY <1>1, <2>1, <2>2, LoopSteps DEF Writer!Next
<1>5. CASE DbStep
  <2>1. metaRoot' = metaRoot
    BY <1>5 DEF DbStep, dbVars
  <2>2. CASE BootFails
    <3>1. UNCHANGED <<log, metaRoot>>
      BY <2>1, <2>2 DEF BootFails
    <3>2. Writer!BootFails
      BY <2>2, <3>1, StoredStays DEF BootFails, Writer!BootFails
    <3> QED BY <1>1, <3>1, <3>2 DEF Writer!Next
  <2>3. ASSUME NEW r \in Requests, Caller(r)
        PROVE  UNCHANGED <<log, metaRoot>> /\ Writer!Next
    <3>1. UNCHANGED <<log, metaRoot>>
      BY <2>1, <2>3 DEF Caller, OpLookup, Transact, TransactReplay, RecordOpAck,
         ProvisionLookup, ProvisionSubmit, Refuse, Enqueue
    <3>2. UNCHANGED Stored
      BY <3>1, StoredStays
    <3> QED BY <2>3, <3>1, <3>2, CallerSteps DEF Writer!Next
  <2>4. CASE Write
    BY <2>1, <2>4, WriteStores DEF Writer!Next, Writer!Loop
  <2>5. CASE Loop /\ ~Write
    <3>1. UNCHANGED <<log, metaRoot>>
      BY <2>1, <2>5 DEF Loop, TakeBatch, ReplayItem, ProvisionItem, AcceptItem, DenyItem,
         AckItem, AckItemFails, WriteFails, Reply, LoopFails, LoopAgain, Die
    <3> QED BY <1>1, <2>5, <3>1, StoredStays, LoopSteps DEF Writer!Next
  <2> QED BY <1>1, <1>5, <2>2, <2>3, <2>4, <2>5 DEF DbStep, Loop
<1>6. CASE RunFails
  BY <1>1, <1>6 DEF RunFails
<1>7. CASE Adopt
  <2>1. Stored' = Stored /\ RowsInv'
    BY <1>7, AdoptKeeps
  <2> QED BY <1>7, <2>1 DEF Adopt, Writer!vars
<1>8. CASE Alarm \/ AdminIndex \/ Collection \/ (IndexRun /\ ~Adopt) \/ UNCHANGED allVars
  <2>1. UNCHANGED vars /\ metaRoot' = metaRoot
    BY <1>8 DEF Alarm, AdminIndex, StartRun, Collection, GcStart, GcList, GcDelete, GcDropRoots,
       IndexRun, PutLogChunk, MergePut, MergeDone, PutRoot, FlipCurrent, allVars, dbVars
  <2> QED BY <1>1, <2>1 DEF vars
<1> QED BY <1>2, <1>3, <1>4, <1>5, <1>6, <1>7, <1>8 DEF DbNext

\* The writer's invariant is one of Database.
LEMMA WriterStep ==
  ASSUME Writer!IInv, [Writer!Next]_(Writer!vars) \/ RunFails
  PROVE  Writer!IInv'
<1>1. CASE [Writer!Next]_(Writer!vars)
  BY <1>1, Writer!TypeStep, Writer!LogStep, Writer!FlightStep, Writer!AckStep, WriterAssumptions
     DEF Writer!IInv
<1>2. CASE RunFails
  <2>1. faults' \in Nat
    BY <1>2 DEF RunFails, Writer!IInv, Writer!TypeInv, Writer!TypeOK
  <2>2. UNCHANGED <<Writer!durable, inst, Writer!memory, pc, Writer!callers, told, crashes>>
    BY <1>2, StoredStays DEF RunFails, durable, Writer!durable, memory, Writer!memory, loopVars,
       Writer!loopVars, callers, Writer!callers
  <2> QED BY <2>1, <2>2, Writer!FaultsAlone, WriterAssumptions
<1> QED BY <1>1, <1>2

-----------------------------------------------------------------------------
(* What a step does to the indexer's state.                                *)

\* The writer goes on, the indexer does nothing.
Quiet == /\ UNCHANGED <<metaRoot, bucket, indexer, collector>>
         /\ inst' = "up" => inst = "up"
         /\ inst' = "down" => inst = "down"
         /\ faults' = 0 => faults = 0

\* The writer's own steps, but the boot and the end of an instance, are quiet.
LEMMA QuietSteps ==
  ASSUME Writer!IInv, DbSchedule \/ DbStep \/ UNCHANGED allVars
  PROVE  Quiet
<1>1. /\ faults \in Nat
      /\ inst # "up" => pc = "idle"
      /\ inst \in {"down", "up", "dead", "poisoned"}
  BY DEF Writer!IInv, Writer!TypeInv, Writer!TypeOK, Writer!Phases
<1>2. UNCHANGED <<metaRoot, bucket, indexer, collector>>
  BY DEF DbSchedule, DbStep, dbVars, allVars, bucket, indexer, collector
<1>3. CASE UNCHANGED allVars
  BY <1>2, <1>3 DEF Quiet, allVars, vars
<1>4. CASE DbSchedule
  BY <1>2, <1>4 DEF Quiet, DbSchedule, LoopAgain
<1>5. CASE DbStep
  <2>1. CASE BootFails
    BY <1>1, <1>2, <2>1 DEF Quiet, BootFails
  <2>2. CASE \E r \in Requests : Caller(r)
    BY <1>2, <2>2 DEF Quiet, Caller, OpLookup, Transact, TransactReplay, RecordOpAck,
       ProvisionLookup, ProvisionSubmit, Refuse, Enqueue
  <2>3. CASE Loop \/ LoopFails
    <3>1. pc # "idle" /\ inst' \in {inst, "dead"} /\ faults' \in {faults, faults + 1}
      BY <2>3 DEF Loop, TakeBatch, ReplayItem, ProvisionItem, AcceptItem, DenyItem, AckItem,
         AckItemFails, Write, WriteFails, Reply, LoopFails, LoopAgain, Die
    <3> QED BY <1>1, <1>2, <3>1 DEF Quiet
  <2> QED BY <1>5, <2>1, <2>2, <2>3 DEF DbStep
<1> QED BY <1>3, <1>4, <1>5

\* The steps of Database, by what they do to the indexer.
LEMMA Steps ==
  ASSUME Writer!IInv, [DbNext]_allVars
  PROVE  \/ Quiet \/ DbBoot \/ DbEnd \/ (\E b \in BOOLEAN : StartRun(b)) \/ RunFails
         \/ PutLogChunk \/ MergePut \/ MergeDone \/ PutRoot \/ FlipCurrent \/ Adopt
         \/ GcStart \/ GcList \/ GcDelete \/ GcDropRoots
<1>1. CASE DbSchedule \/ DbStep \/ UNCHANGED allVars
  BY <1>1, QuietSteps
<1>2. CASE Alarm
  <2>1. CASE StartRun(TRUE)
    BY <2>1
  <2>2. CASE ~StartRun(TRUE)
    BY <1>2, <2>2 DEF Alarm, Quiet, vars
  <2> QED BY <2>1, <2>2
<1>3. CASE AdminIndex
  BY <1>3 DEF AdminIndex
<1>4. CASE DbBoot \/ DbEnd \/ IndexRun \/ RunFails \/ Collection
  BY <1>4 DEF IndexRun, Collection
<1> QED BY <1>1, <1>2, <1>3, <1>4 DEF DbNext

\* What is stored grows, and only while the indexer does nothing.
LEMMA StoredGrows ==
  ASSUME Writer!IInv, Writer!IInv', RowsInv, RowsInv', IndexInv, [DbNext]_allVars
  PROVE  /\ Dense(Stored) /\ Dense(Stored') /\ Grows(Stored, Stored')
         /\ Quiet \/ Stored' = Stored
<1>1. Dense(Stored) /\ Dense(Stored')
  BY StoredIsDense, StoredStaysDense
<1>2. [Writer!Next]_(Writer!vars) \/ RunFails
  BY Simulates
<1>3. CASE RunFails
  <2>1. Stored' = Stored
    BY <1>3, StoredStays DEF RunFails, durable
  <2> QED BY <1>1, <2>1 DEF Grows
<1>4. CASE [Writer!Next]_(Writer!vars)
  <2>1. Grows(Stored, Stored')
    <3>1. CASE Writer!Write
      BY <3>1, Writer!LogWrite, WriterAssumptions DEF Writer!IInv, Grows
    <3>2. CASE ~Writer!Write
      BY <1>4, <3>2, Writer!LogChangesByWrite, WriterAssumptions DEF Grows
    <3> QED BY <3>1, <3>2
  <2>2. Quiet \/ Stored' = Stored
    <3>1. CASE Adopt
      BY <3>1, AdoptKeeps
    <3>2. CASE Quiet
      BY <3>2
    <3>3. CASE ~Adopt /\ ~Quiet
      <4>1. UNCHANGED <<log, metaRoot>>
        BY <3>3, Steps DEF DbBoot, DbEnd, Crash, Discard, BootFrom, StartRun, RunFails, PutLogChunk,
           MergePut, MergeDone, PutRoot, FlipCurrent, GcStart, GcList, GcDelete, GcDropRoots,
           vars, durable
      <4> QED BY <4>1, StoredStays
    <3> QED BY <3>1, <3>2, <3>3
  <2> QED BY <1>1, <2>1, <2>2
<1> QED BY <1>2, <1>3, <1>4

-----------------------------------------------------------------------------
(* The index run keeps to what is stored.                                  *)

\* The root that a boot starts from is a prefix of what is stored.
LEMMA MetaRootIsPrefix ==
  ASSUME Dense(Stored), RowsInv
  PROVE  IsPrefix(metaRoot, Stored)
<1>1. /\ metaRoot.t \in Nat /\ IsDb(metaRoot.db) /\ DOMAIN metaRoot.db = 1..metaRoot.t
      /\ \A t \in 1..metaRoot.t : t \in DOMAIN Stored /\ Stored[t] = metaRoot.db[t]
  BY StoredFacts DEF RowsInv
<1>2. metaRoot.t = 0 \/ metaRoot.t \in DOMAIN Stored
  BY <1>1
<1>3. /\ IsDb(UpTo(Stored, metaRoot.t)) /\ DOMAIN UpTo(Stored, metaRoot.t) = 1..metaRoot.t
      /\ \A t \in 1..metaRoot.t : UpTo(Stored, metaRoot.t)[t] = Stored[t]
  BY <1>1, <1>2, DensePrefix
<1>4. metaRoot.db = UpTo(Stored, metaRoot.t)
  BY <1>1, <1>3, SameDb
<1> QED BY <1>1, <1>2, <1>4 DEF IsPrefix

\* The slice of a run, when it does not end in a batch that is not yet written.
LEMMA StartFacts ==
  ASSUME ~overran', Writer!IInv, RowsInv, IndexInv, NEW b \in BOOLEAN, StartRun(b)
  PROVE  /\ inst = "up" /\ ix = "idle" /\ ix' \in {"flush", "merge"}
         /\ run'.to \in DOMAIN Stored /\ connRoot.t < run'.to
         /\ run'.to <= connRoot.t + MaxTxsPerRun
         /\ \A t \in DOMAIN Stored : t <= connRoot.t + MaxTxsPerRun => t <= run'.to
         /\ run'.entries = UpTo(Above(Stored, connRoot.t), run'.to)
         /\ ix' = "flush"
<1> DEFINE to == IF basisT < connRoot.t + MaxTxsPerRun THEN basisT ELSE connRoot.t + MaxTxsPerRun
           slice == UpTo(Above(log, connRoot.t), to)
<1>1. /\ inst = "up" /\ ix = "idle" /\ basisT > connRoot.t
      /\ to \in DOMAIN log
      /\ run' = [to |-> to, entries |-> slice, byAlarm |-> b]
      /\ ix' = IF DOMAIN slice # {} THEN "flush" ELSE "merge"
  BY DEF StartRun
<1>2. /\ Dense(Stored) /\ basisT \in Nat /\ connRoot.t \in Nat /\ metaRoot.t <= connRoot.t
      /\ \A t \in DOMAIN Stored : t \in Nat /\ t <= basisT
  <2>1. Dense(Stored) /\ Grows(Stored, conn) /\ DOMAIN conn = 1..basisT /\ basisT \in Nat
    BY <1>1, StoredIsDense, ConnFacts
  <2> QED BY <1>1, <2>1 DEF Grows, IndexInv, IsPrefix
<1>3. to \in DOMAIN Stored /\ connRoot.t < to /\ to <= connRoot.t + MaxTxsPerRun
  <2>1. to \in DOMAIN Stored
    BY <1>1 DEF RowsInv
  <2> QED BY <1>1, <1>2, <2>1, DatabaseAssumption
<1>4. \A t \in DOMAIN Stored : t <= connRoot.t + MaxTxsPerRun => t <= to
  BY <1>2, DatabaseAssumption
<1>5. slice = UpTo(Above(Stored, connRoot.t), to)
  BY <1>2, AboveStored
<1>6. to \in DOMAIN slice
  <2>1. IsDb(Stored) /\ to \in Nat
    BY <1>2, <1>3 DEF Dense
  <2> HIDE DEF to, slice
  <2>2. \A t : t \in DOMAIN UpTo(Above(Stored, connRoot.t), to) <=>
               t \in DOMAIN Stored /\ t > connRoot.t /\ t <= to
    BY <1>2, <2>1, SliceFacts
  <2>3. to \in DOMAIN Stored /\ to > connRoot.t /\ to <= to
    BY <1>2, <1>3, <2>1
  <2>4. to \in DOMAIN UpTo(Above(Stored, connRoot.t), to)
    BY <2>2, <2>3
  <2> QED BY <1>5, <2>4
<1> HIDE DEF to, slice
<1> QED BY <1>1, <1>2, <1>3, <1>4, <1>5, <1>6

\* The trees that a run merges are the database as of the end of its slice.
LEMMA MergeFacts ==
  ASSUME Writer!IInv, RowsInv, IndexInv, inst = "up", ix # "idle"
  PROVE  UpTo(conn, run.to) = UpTo(Stored, run.to) /\ run.to \in Nat
<1>1. run.to \in DOMAIN Stored
  BY DEF IndexInv
<1>2. Dense(Stored) /\ Dense(conn) /\ Grows(Stored, conn)
  BY StoredIsDense, ConnFacts
<1>3. run.to \in Nat
  BY <1>1, <1>2 DEF Dense
<1> QED BY <1>1, <1>2, <1>3, PrefixGrows

\* Every step keeps the run on what is stored.
LEMMA IndexStep ==
  ASSUME ~overran', Writer!IInv, Writer!IInv', RowsInv, RowsInv', IndexInv, DownInv,
         [DbNext]_allVars
  PROVE  IndexInv' /\ DownInv'
<1>1. /\ Dense(Stored) /\ Dense(Stored') /\ Grows(Stored, Stored')
      /\ Quiet \/ Stored' = Stored
  BY StoredGrows
<1>2. CASE Quiet
  <2>1. DownInv'
    BY <1>2 DEF Quiet, DownInv, indexer, collector
  <2>2. CASE inst' # "up"
    BY <2>1, <2>2 DEF IndexInv
  <2>3. CASE inst' = "up"
    <3>1. /\ inst = "up" /\ ix' = ix /\ run' = run /\ connRoot' = connRoot
          /\ metaRoot' = metaRoot /\ current' = current
      BY <1>2, <2>3 DEF Quiet, indexer, bucket
    <3>2. IsPrefix(connRoot, Stored')
      BY <1>1, <3>1, PrefixStays DEF IndexInv
    <3>3. ix # "idle" => run.to \in DOMAIN Stored'
      BY <1>1, <3>1 DEF IndexInv, Grows
    <3>4. ix = "flush" => run.entries = UpTo(Above(Stored', connRoot.t), run.to)
      <4>1. SUFFICES ASSUME ix = "flush"
                     PROVE  run.entries = UpTo(Above(Stored', connRoot.t), run.to)
        OBVIOUS
      <4>2. /\ connRoot.t \in Nat /\ run.to \in DOMAIN Stored
            /\ run.entries = UpTo(Above(Stored, connRoot.t), run.to)
        BY <3>1, <4>1 DEF IndexInv, IsPrefix
      <4>3. UpTo(Above(Stored', connRoot.t), run.to) = UpTo(Above(Stored, connRoot.t), run.to)
        BY <1>1, <4>2, SliceStays
      <4> QED BY <4>2, <4>3
    <3> QED BY <2>1, <3>1, <3>2, <3>3, <3>4 DEF IndexInv
  <2> QED BY <2>2, <2>3
<1>3. CASE Stored' = Stored
  <2>1. CASE Quiet
    BY <1>2, <2>1
  <2>2. CASE DbBoot
    <3>1. IsPrefix(metaRoot, Stored) /\ metaRoot.t \in Nat
      BY <1>1, MetaRootIsPrefix DEF IsPrefix
    <3>2. /\ connRoot' = metaRoot /\ metaRoot' = metaRoot /\ ix' = ix /\ ix = "idle" /\ inst' = "up"
      BY <2>2 DEF DbBoot, BootFrom, DownInv
    <3> QED BY <1>3, <3>1, <3>2 DEF IndexInv, DownInv
  <2>3. CASE DbEnd
    BY <2>3 DEF DbEnd, Crash, Discard, Fresh, IndexInv, DownInv
  <2>4. ASSUME NEW b \in BOOLEAN, StartRun(b)
        PROVE  IndexInv' /\ DownInv'
    <3>1. /\ inst = "up" /\ ix' = "flush" /\ run'.to \in DOMAIN Stored
          /\ connRoot.t < run'.to /\ run'.entries = UpTo(Above(Stored, connRoot.t), run'.to)
      BY <2>4, StartFacts
    <3>2. inst' = inst /\ metaRoot' = metaRoot /\ connRoot' = connRoot
      BY <2>4 DEF StartRun, vars
    <3> QED BY <1>3, <3>1, <3>2 DEF IndexInv, DownInv
  <2>5. CASE RunFails
    BY <1>3, <2>5 DEF RunFails, IndexInv, DownInv
  <2>6. CASE PutLogChunk
    BY <1>3, <2>6 DEF PutLogChunk, vars, IndexInv, DownInv
  <2>7. CASE MergePut
    BY <1>3, <2>7 DEF MergePut, vars, IndexInv, DownInv
  <2>8. CASE MergeDone
    <3>1. /\ inst = "up" /\ inst' = "up" /\ ix = "merged" /\ ix' = "publish" /\ run' = run
          /\ metaRoot' = metaRoot /\ connRoot' = Root(run.to, UpTo(conn, run.to))
      BY <2>8 DEF MergeDone, vars
    <3>2. UpTo(conn, run.to) = UpTo(Stored, run.to) /\ run.to \in Nat
      BY <3>1, MergeFacts
    <3>3. /\ run.to \in DOMAIN Stored /\ connRoot.t < run.to /\ metaRoot.t <= connRoot.t
          /\ connRoot.t \in Nat /\ metaRoot.t \in Nat
      BY <3>1 DEF IndexInv, IsPrefix, RowsInv
    <3>4. connRoot'.t = run.to /\ connRoot'.db = UpTo(Stored, run.to)
      BY <3>1, <3>2 DEF Root
    <3>5. IsPrefix(connRoot', Stored') /\ metaRoot'.t <= connRoot'.t
      BY <1>3, <3>1, <3>2, <3>3, <3>4 DEF IsPrefix
    <3> QED BY <1>3, <3>1, <3>3, <3>4, <3>5 DEF IndexInv, DownInv
  <2>9. CASE PutRoot
    BY <1>3, <2>9 DEF PutRoot, vars, IndexInv, DownInv
  <2>10. CASE FlipCurrent
    BY <1>3, <2>10 DEF FlipCurrent, vars, IndexInv, DownInv
  <2>11. CASE Adopt
    <3>1. /\ inst = "up" /\ inst' = "up" /\ ix = "adopt" /\ metaRoot' = connRoot
          /\ connRoot' = connRoot /\ current' = current
          /\ (ix' = "gc" /\ run' = run) \/ ix' = "idle"
      BY <2>11 DEF Adopt, EndOfRun, bucket
    <3>2. connRoot.t \in Nat
      BY <3>1 DEF IndexInv, IsPrefix
    <3> QED BY <1>3, <3>1, <3>2 DEF IndexInv, DownInv
  <2>12. CASE GcStart \/ GcList \/ GcDelete
    <3>1. /\ inst = "up" /\ inst' = "up" /\ connRoot' = connRoot /\ metaRoot' = metaRoot
          /\ current' = current /\ ix' = ix /\ run' = run
      BY <2>12 DEF GcStart, GcList, GcDelete, vars, indexer, bucket
    <3> QED BY <1>3, <3>1 DEF IndexInv, DownInv
  <2>13. CASE GcDropRoots
    <3>1. /\ inst = "up" /\ inst' = "up" /\ connRoot' = connRoot /\ metaRoot' = metaRoot
          /\ current' = current /\ gc' = "idle"
          /\ (ix' = "idle" \/ (ix' = ix /\ run' = run))
      BY <2>13 DEF GcDropRoots, EndOfRun, vars
    <3> QED BY <1>3, <3>1 DEF IndexInv, DownInv
  <2> QED BY <2>1, <2>2, <2>3, <2>4, <2>5, <2>6, <2>7, <2>8, <2>9, <2>10, <2>11, <2>12, <2>13, Steps
<1> QED BY <1>1, <1>2, <1>3

\* Every step that ends the wait ends the collection.
LEMMA WaitStep ==
  ASSUME Writer!IInv, DownInv, WaitInv, [DbNext]_allVars
  PROVE  WaitInv'
<1>1. SUFFICES ASSUME inst' = "up", gc' # "idle", keep'.byRun
               PROVE  ix' = "gc"
  BY DEF WaitInv
<1>2. CASE Quiet
  BY <1>1, <1>2 DEF Quiet, indexer, collector, WaitInv
<1>3. CASE DbBoot \/ DbEnd
  BY <1>1, <1>3 DEF DbBoot, BootFrom, DbEnd, DownInv, collector
<1>4. CASE GcStart
  BY <1>1, <1>4 DEF GcStart, indexer
<1>5. CASE GcList \/ GcDelete
  BY <1>1, <1>5 DEF GcList, GcDelete, indexer, WaitInv
<1>6. CASE GcDropRoots
  BY <1>1, <1>6 DEF GcDropRoots
<1>7. CASE (\E b \in BOOLEAN : StartRun(b)) \/ RunFails \/ PutLogChunk \/ MergePut \/ MergeDone
           \/ PutRoot \/ FlipCurrent \/ Adopt
  BY <1>1, <1>7 DEF StartRun, RunFails, PutLogChunk, MergePut, MergeDone, PutRoot,
     FlipCurrent, Adopt, collector, WaitInv
<1> QED BY <1>2, <1>3, <1>4, <1>5, <1>6, <1>7, Steps

-----------------------------------------------------------------------------
(* The chunks hold every t up to the trees of the live connection, and     *)
(* nothing that is not stored.                                             *)

InChunks(n) == \A t \in 1..n : \E c \in chunks : t \in DOMAIN c

ChunkInv ==
  /\ \A c \in chunks : Grows(c, Stored)
  /\ InChunks(metaRoot.t)
  /\ inst = "up" => InChunks(connRoot.t)
  /\ inst = "up" /\ ix \in {"merge", "merged"} => InChunks(run.to)

\* Every step keeps the chunks on what is stored and ahead of the trees.
LEMMA ChunkStep ==
  ASSUME ~overran', Writer!IInv, Writer!IInv', RowsInv, RowsInv', IndexInv, DownInv,
         ChunkInv, [DbNext]_allVars
  PROVE  ChunkInv'
<1>1. /\ Dense(Stored) /\ Dense(Stored') /\ Grows(Stored, Stored')
      /\ Quiet \/ Stored' = Stored
  BY StoredGrows
<1>2. CASE Quiet
  <2>1. /\ inst' = "up" => inst = "up"
        /\ ix' = ix /\ run' = run /\ connRoot' = connRoot /\ metaRoot' = metaRoot /\ chunks' = chunks
    BY <1>2 DEF Quiet, indexer, bucket
  <2>2. \A c \in chunks : Grows(c, Stored')
    BY <1>1 DEF ChunkInv, Grows
  <2> QED BY <2>1, <2>2 DEF ChunkInv, InChunks
<1>3. CASE Stored' = Stored /\ PutLogChunk
  <2>1. /\ inst = "up" /\ ix = "flush" /\ metaRoot' = metaRoot /\ connRoot' = connRoot /\ run' = run
        /\ chunks' = {c \in chunks : DOMAIN c # DOMAIN run.entries} \cup {run.entries}
    BY <1>3 DEF PutLogChunk, vars
  <2>2. /\ connRoot.t \in Nat /\ run.to \in DOMAIN Stored /\ run.to \in Nat /\ IsDb(Stored)
        /\ run.entries = UpTo(Above(Stored, connRoot.t), run.to)
    BY <1>1, <2>1 DEF IndexInv, IsPrefix, Dense
  <2>3. /\ \A t : t \in DOMAIN run.entries <=> t \in DOMAIN Stored /\ t > connRoot.t /\ t <= run.to
        /\ \A t \in DOMAIN run.entries : run.entries[t] = Stored[t]
    BY <2>2, SliceFacts
  <2>4. \A c \in chunks' : Grows(c, Stored)
    BY <2>1, <2>3 DEF ChunkInv, Grows
  <2>5. ASSUME NEW t, NEW c \in chunks, t \in DOMAIN c
        PROVE  \E d \in chunks' : t \in DOMAIN d
    BY <2>1, <2>5
  <2>6. InChunks(metaRoot.t)' /\ InChunks(connRoot.t)'
    BY <2>1, <2>5 DEF ChunkInv, InChunks
  <2>7. InChunks(run.to)'
    <3>1. ASSUME NEW t \in 1..run.to
          PROVE  \E c \in chunks' : t \in DOMAIN c
      <4>1. CASE t <= connRoot.t
        <5>1. t \in 1..connRoot.t
          BY <2>2, <4>1
        <5> QED BY <2>1, <2>5, <5>1 DEF ChunkInv, InChunks
      <4>2. CASE t > connRoot.t
        <5>1. t \in DOMAIN Stored
          BY <1>1, <2>2 DEF Dense
        <5>2. t \in DOMAIN run.entries
          BY <2>2, <2>3, <4>2, <5>1
        <5> QED BY <2>1, <5>2
      <4> QED BY <2>2, <4>1, <4>2
    <3> QED BY <2>1, <3>1 DEF InChunks
  <2> QED BY <1>3, <2>1, <2>4, <2>6, <2>7 DEF ChunkInv
<1>4. CASE Stored' = Stored /\ ~PutLogChunk /\ ~Quiet
  <2>1. chunks' = chunks
    BY <1>4, Steps DEF DbBoot, DbEnd, StartRun, RunFails, MergePut, MergeDone, PutRoot,
       FlipCurrent, Adopt, GcStart, GcList, GcDelete, GcDropRoots, bucket
  <2>2. \A n : InChunks(n) => InChunks(n)'
    BY <2>1 DEF InChunks
  <2>3. metaRoot' = metaRoot \/ (inst = "up" /\ metaRoot' = connRoot)
    BY <1>4, Steps DEF DbBoot, DbEnd, StartRun, RunFails, MergePut, MergeDone, PutRoot,
       FlipCurrent, Adopt, GcStart, GcList, GcDelete, GcDropRoots
  <2>4. InChunks(metaRoot.t)'
    BY <2>2, <2>3 DEF ChunkInv, InChunks
  <2>5. inst' = "up" => \/ inst = "up" /\ connRoot' = connRoot
                        \/ connRoot' = metaRoot
                        \/ inst = "up" /\ ix = "merged" /\ connRoot'.t = run.to
    BY <1>4, Steps DEF DbBoot, DbEnd, Crash, Discard, Fresh, StartRun, RunFails, MergePut,
       MergeDone, Root, PutRoot, FlipCurrent, Adopt, GcStart, GcList, GcDelete, GcDropRoots, vars,
       indexer
  <2>6. inst' = "up" => InChunks(connRoot.t)'
    BY <2>1, <2>5 DEF ChunkInv, InChunks
  <2>7. ASSUME inst' = "up", ix' \in {"merge", "merged"}
        PROVE  inst = "up" /\ ix \in {"merge", "merged"} /\ run' = run
    <3>1. ~ \E b \in BOOLEAN : StartRun(b)
      BY <2>7, StartFacts
    <3> QED BY <1>4, <2>7, <3>1, Steps DEF DbBoot, BootFrom, DownInv, DbEnd, RunFails, MergePut,
       MergeDone, PutRoot, FlipCurrent, Adopt, EndOfRun, GcStart, GcList, GcDelete, GcDropRoots,
       vars, indexer
  <2>8. inst' = "up" /\ ix' \in {"merge", "merged"} => InChunks(run.to)'
    BY <2>1, <2>7 DEF ChunkInv, InChunks
  <2> QED BY <1>4, <2>1, <2>4, <2>6, <2>8 DEF ChunkInv
<1> QED BY <1>1, <1>2, <1>3, <1>4

-----------------------------------------------------------------------------
(* The published roots are what is stored as of their t, and root/current  *)
(* is not behind the root a boot starts from.                              *)

PublishInv ==
  /\ \A t \in DOMAIN roots : IsPrefix(Root(t, roots[t]), Stored)
  /\ IsPrefix(current, Stored)
  /\ metaRoot.t <= current.t

\* Every step keeps the roots on what is stored.
LEMMA PublishStep ==
  ASSUME Writer!IInv, Writer!IInv', RowsInv, RowsInv', IndexInv, PublishInv, [DbNext]_allVars
  PROVE  PublishInv'
<1>1. /\ Dense(Stored) /\ Dense(Stored') /\ Grows(Stored, Stored')
      /\ Quiet \/ Stored' = Stored
  BY StoredGrows
<1>2. CASE Quiet
  <2>1. roots' = roots /\ current' = current /\ metaRoot' = metaRoot
    BY <1>2 DEF Quiet, bucket
  <2>2. \A t \in DOMAIN roots : IsPrefix(Root(t, roots[t]), Stored')
    BY <1>1, PrefixStays DEF PublishInv
  <2>3. IsPrefix(current, Stored')
    BY <1>1, PrefixStays DEF PublishInv
  <2> QED BY <2>1, <2>2, <2>3 DEF PublishInv
<1>3. CASE Stored' = Stored /\ PutRoot
  <2>1. /\ inst = "up" /\ current' = current /\ metaRoot' = metaRoot
        /\ roots' = [t \in DOMAIN roots \cup {connRoot.t} |->
                       IF t = connRoot.t THEN connRoot.db ELSE roots[t]]
    BY <1>3 DEF PutRoot, vars
  <2>2. ASSUME NEW t \in DOMAIN roots'
        PROVE  IsPrefix(Root(t, roots'[t]), Stored)
    <3>1. CASE t = connRoot.t
      BY <2>1, <3>1 DEF IndexInv, IsPrefix, Root
    <3>2. CASE t # connRoot.t
      BY <2>1, <2>2, <3>2 DEF PublishInv
    <3> QED BY <3>1, <3>2
  <2> QED BY <1>3, <2>1, <2>2 DEF PublishInv
<1>4. CASE Stored' = Stored /\ FlipCurrent
  BY <1>4 DEF FlipCurrent, vars, PublishInv, IndexInv
<1>5. CASE Stored' = Stored /\ Adopt
  <2>1. /\ metaRoot' = connRoot /\ current = connRoot /\ current' = current /\ roots' = roots
        /\ connRoot.t \in Nat
    BY <1>5 DEF Adopt, IndexInv, IsPrefix, bucket
  <2> QED BY <1>5, <2>1 DEF PublishInv
<1>6. CASE Stored' = Stored /\ GcDropRoots
  BY <1>6 DEF GcDropRoots, PublishInv
<1>7. CASE Stored' = Stored /\ ~(Quiet \/ PutRoot \/ FlipCurrent \/ Adopt \/ GcDropRoots)
  <2>1. roots' = roots /\ current' = current /\ metaRoot' = metaRoot
    BY <1>7, Steps DEF DbBoot, DbEnd, StartRun, RunFails, PutLogChunk, MergePut, MergeDone,
       GcStart, GcList, GcDelete, bucket
  <2> QED BY <1>7, <2>1 DEF PublishInv
<1> QED BY <1>1, <1>2, <1>3, <1>4, <1>5, <1>6, <1>7

-----------------------------------------------------------------------------
(* As long as no call has failed, root/current is at most one run ahead of *)
(* the root a boot starts from, and a live run is not behind it.           *)

ForwardInv ==
  faults = 0 =>
    /\ current.t <= metaRoot.t + MaxTxsPerRun
    /\ inst = "up" /\ ix \in {"idle", "flush", "merge", "merged"} => connRoot = metaRoot
    /\ inst = "up" /\ ix # "idle" =>
         current.t <= run.to /\ run.to <= metaRoot.t + MaxTxsPerRun

\* Every step without a failed call keeps the run ahead of root/current.
LEMMA ForwardStep ==
  ASSUME ~overran', Writer!IInv, Writer!IInv', RowsInv, RowsInv', IndexInv, DownInv,
         WaitInv, PublishInv, ForwardInv, [DbNext]_allVars
  PROVE  ForwardInv'
<1>1. SUFFICES ASSUME faults' = 0
               PROVE  /\ current'.t <= metaRoot'.t + MaxTxsPerRun
                      /\ inst' = "up" /\ ix' \in {"idle", "flush", "merge", "merged"} =>
                           connRoot' = metaRoot'
                      /\ inst' = "up" /\ ix' # "idle" =>
                           current'.t <= run'.to /\ run'.to <= metaRoot'.t + MaxTxsPerRun
  BY DEF ForwardInv
<1>2. faults = 0 /\ ~RunFails
  <2>1. faults \in Nat
    BY DEF Writer!IInv, Writer!TypeInv, Writer!TypeOK
  <2> QED BY <1>1, <2>1, Steps DEF Quiet, DbBoot, BootFrom, DbEnd, Crash, Discard, StartRun,
     RunFails, PutLogChunk, MergePut, MergeDone, PutRoot, FlipCurrent, Adopt, GcStart, GcList,
     GcDelete, GcDropRoots, vars
<1>3. /\ current.t \in Nat /\ metaRoot.t \in Nat /\ MaxTxsPerRun \in Nat
      /\ current.t = 0 \/ current.t \in DOMAIN Stored
  BY DatabaseAssumption DEF PublishInv, IsPrefix, RowsInv
<1>4. CASE Quiet
  BY <1>2, <1>4 DEF Quiet, indexer, bucket, ForwardInv
<1>5. CASE DbBoot
  BY <1>2, <1>5 DEF DbBoot, BootFrom, bucket, DownInv, ForwardInv
<1>6. CASE DbEnd
  BY <1>2, <1>6 DEF DbEnd, Crash, Discard, Fresh, bucket, ForwardInv
<1>7. ASSUME NEW b \in BOOLEAN, StartRun(b)
      PROVE  /\ current'.t <= metaRoot'.t + MaxTxsPerRun
             /\ inst' = "up" /\ ix' \in {"idle", "flush", "merge", "merged"} =>
                  connRoot' = metaRoot'
             /\ inst' = "up" /\ ix' # "idle" =>
                  current'.t <= run'.to /\ run'.to <= metaRoot'.t + MaxTxsPerRun
  <2>1. /\ inst = "up" /\ ix = "idle" /\ run'.to \in DOMAIN Stored
        /\ run'.to <= connRoot.t + MaxTxsPerRun
        /\ \A t \in DOMAIN Stored : t <= connRoot.t + MaxTxsPerRun => t <= run'.to
    BY <1>7, StartFacts
  <2>2. connRoot = metaRoot /\ current.t <= metaRoot.t + MaxTxsPerRun
    BY <1>2, <2>1 DEF ForwardInv
  <2>3. run'.to \in Nat
    BY <2>1, StoredIsDense DEF Dense
  <2>4. current.t <= run'.to
    BY <1>3, <2>1, <2>2, <2>3
  <2>5. current' = current /\ metaRoot' = metaRoot /\ connRoot' = connRoot
    BY <1>7 DEF StartRun, bucket
  <2> QED BY <2>1, <2>2, <2>4, <2>5
<1>8. CASE PutLogChunk \/ MergePut \/ MergeDone \/ PutRoot
  BY <1>2, <1>8 DEF PutLogChunk, MergePut, MergeDone, PutRoot, bucket, vars, ForwardInv
<1>9. CASE FlipCurrent
  <2>1. /\ inst = "up" /\ ix = "flip" /\ ix' = "adopt" /\ current' = connRoot /\ run' = run
        /\ metaRoot' = metaRoot /\ connRoot.t = run.to /\ connRoot.t \in Nat
    BY <1>9 DEF FlipCurrent, IndexInv, IsPrefix, vars
  <2> QED BY <1>2, <2>1 DEF ForwardInv
<1>10. CASE Adopt
  <2>1. /\ inst = "up" /\ ix = "adopt" /\ ix' \in {"gc", "idle"} /\ metaRoot' = connRoot
        /\ connRoot' = connRoot /\ current' = current /\ current = connRoot
        /\ connRoot.t = run.to /\ connRoot.t \in Nat
    BY <1>10 DEF Adopt, EndOfRun, IndexInv, IsPrefix, bucket
  <2>2. ix' = "gc" => run' = run
    BY <1>10 DEF Adopt, EndOfRun
  <2> QED BY <1>3, <2>1, <2>2
<1>11. CASE GcStart \/ GcList \/ GcDelete
  <2>1. /\ inst' = inst /\ current' = current /\ metaRoot' = metaRoot
        /\ connRoot' = connRoot /\ ix' = ix /\ run' = run
    BY <1>11 DEF GcStart, GcList, GcDelete, bucket, indexer, vars
  <2> QED BY <1>2, <2>1 DEF ForwardInv
<1>12. CASE GcDropRoots
  <2>1. /\ inst = "up" /\ inst' = inst /\ current' = current /\ metaRoot' = metaRoot
        /\ connRoot' = connRoot
        /\ (ix' = "idle" /\ connRoot = metaRoot) \/ (ix' = ix /\ run' = run)
    BY <1>12 DEF GcDropRoots, EndOfRun, vars, IndexInv, WaitInv
  <2> QED BY <1>2, <2>1 DEF ForwardInv, IndexInv
<1> QED BY <1>2, <1>4, <1>5, <1>6, <1>7, <1>8, <1>9, <1>10, <1>11, <1>12, Steps

-----------------------------------------------------------------------------
(* The collection.  One that begins where the writer boots from, publishes  *)
(* and reads one root, and during which no run begins, finds what it marked *)
(* retained until its last delete.                                          *)

CollectInv ==
  /\ IsFiniteSet(DOMAIN roots)
  /\ metaRoot = NoRoot \/ metaRoot.t \in DOMAIN roots
  /\ inst = "up" /\ gc # "idle" =>
       Quiescent /\ keep.all = DOMAIN roots /\ keep.kept = Retained /\ keep.marked = Marked
  /\ inst = "up" /\ gc \in {"listed", "deleted"} => doomed \cap Marked = {}
  /\ inst = "up" /\ ix \in {"flip", "adopt", "gc"} => connRoot.t \in DOMAIN roots
  /\ current # NoRoot => current.t \in DOMAIN roots

\* What is retained and marked is read from the roots and meta.root.
LEMMA RetainedStays ==
  UNCHANGED <<roots, metaRoot>> => UNCHANGED <<Retained, Marked>>
BY DEF Retained, Marked

\* Every step keeps the collection on what is retained.
LEMMA CollectStep ==
  ASSUME ~swept', Writer!IInv, IndexInv, DownInv, CollectInv, [DbNext]_allVars
  PROVE  CollectInv'
<1>1. CASE Quiet
  <2>1. UNCHANGED <<metaRoot, roots, current, connRoot, ix, gc, keep, doomed>>
    BY <1>1 DEF Quiet, bucket, indexer, collector
  <2>2. inst' = "up" => inst = "up"
    BY <1>1 DEF Quiet
  <2>3. Quiescent' = Quiescent
    BY <2>1 DEF Quiescent
  <2> QED BY <2>1, <2>2, <2>3, RetainedStays DEF CollectInv
<1>2. CASE DbBoot \/ DbEnd
  <2>1. UNCHANGED <<roots, current, metaRoot>>
    BY <1>2 DEF DbBoot, DbEnd, bucket
  <2>2. gc' = "idle" /\ ix' = "idle"
    BY <1>2 DEF DbBoot, BootFrom, DbEnd, DownInv, collector
  <2> QED BY <2>1, <2>2 DEF CollectInv
<1>3. CASE (\E b \in BOOLEAN : StartRun(b)) \/ RunFails \/ PutLogChunk \/ MergePut \/ MergeDone
  <2>1. /\ UNCHANGED <<roots, current, gc, metaRoot>> /\ inst = "up" /\ ix # "gc"
        /\ ix' \in {"idle", "flush", "merge", "merged", "publish"}
    BY <1>3 DEF StartRun, RunFails, PutLogChunk, MergePut, MergeDone, bucket, collector
  <2>2. gc = "idle"
    <3>1. CASE \E b \in BOOLEAN : StartRun(b)
      BY <3>1 DEF StartRun
    <3>2. CASE ~(\E b \in BOOLEAN : StartRun(b))
      BY <1>3, <2>1, <3>2
         DEF RunFails, PutLogChunk, MergePut, MergeDone, CollectInv, Quiescent
    <3> QED BY <3>1, <3>2
  <2> QED BY <2>1, <2>2 DEF CollectInv
<1>4. CASE PutRoot
  <2>1. /\ inst = "up" /\ ix = "publish" /\ ix' = "flip"
        /\ UNCHANGED <<current, connRoot, gc, metaRoot>>
        /\ DOMAIN roots' = DOMAIN roots \cup {connRoot.t}
    BY <1>4 DEF PutRoot, collector
  <2>2. IsFiniteSet(DOMAIN roots')
    BY <2>1, FS_AddElement DEF CollectInv
  <2>3. gc = "idle"
    BY <2>1 DEF CollectInv, Quiescent
  <2> QED BY <2>1, <2>2, <2>3 DEF CollectInv
<1>5. CASE FlipCurrent
  <2>1. /\ inst = "up" /\ ix = "flip" /\ ix' = "adopt"
        /\ UNCHANGED <<roots, connRoot, gc, metaRoot>> /\ current' = connRoot
    BY <1>5 DEF FlipCurrent, collector
  <2>2. gc = "idle"
    BY <2>1 DEF CollectInv, Quiescent
  <2> QED BY <2>1, <2>2 DEF CollectInv
<1>6. CASE Adopt
  <2>1. /\ inst = "up" /\ ix = "adopt" /\ UNCHANGED <<roots, connRoot, current, gc>>
        /\ metaRoot' = connRoot
    BY <1>6 DEF Adopt, collector, bucket
  <2>2. gc = "idle"
    BY <2>1 DEF CollectInv, Quiescent
  <2> QED BY <2>1, <2>2 DEF CollectInv
<1>7. CASE GcStart
  <2>1. /\ inst = "up" /\ gc' = "marked" /\ Quiescent
        /\ UNCHANGED <<inst, metaRoot, roots, current, connRoot, ix>>
        /\ keep' = [all |-> DOMAIN roots, kept |-> Retained, byRun |-> ix = "gc", marked |-> Marked]
    BY <1>7 DEF GcStart, vars, bucket, indexer
  <2>2. keep'.all = DOMAIN roots /\ keep'.kept = Retained /\ keep'.marked = Marked
    BY <2>1
  <2>3. Retained' = Retained /\ Marked' = Marked /\ Quiescent'
    BY <2>1, RetainedStays DEF Quiescent
  <2> QED BY <2>1, <2>2, <2>3 DEF CollectInv
<1>8. CASE GcList
  <2>1. /\ inst = "up" /\ gc = "marked" /\ gc' = "listed" /\ doomed' = nodes \ keep.marked
        /\ UNCHANGED <<inst, metaRoot, roots, current, connRoot, ix, keep>>
    BY <1>8 DEF GcList, vars, bucket, indexer
  <2>2. Retained' = Retained /\ Marked' = Marked /\ Quiescent' = Quiescent
    BY <2>1, RetainedStays DEF Quiescent
  <2>3. doomed' \cap Marked = {}
    BY <2>1 DEF CollectInv
  <2> QED BY <2>1, <2>2, <2>3 DEF CollectInv
<1>9. CASE GcDelete
  <2>1. /\ inst = "up" /\ gc = "listed" /\ gc' = "deleted"
        /\ UNCHANGED <<inst, metaRoot, roots, current, connRoot, ix, keep, doomed>>
    BY <1>9 DEF GcDelete, vars, indexer
  <2>2. Retained' = Retained /\ Marked' = Marked /\ Quiescent' = Quiescent
    BY <2>1, RetainedStays DEF Quiescent
  <2> QED BY <2>1, <2>2 DEF CollectInv
<1>10. CASE GcDropRoots
  <2>1. /\ inst = "up" /\ gc = "deleted" /\ gc' = "idle"
        /\ UNCHANGED <<current, metaRoot, connRoot>>
        /\ DOMAIN roots' = DOMAIN roots \ (keep.all \ keep.kept)
    BY <1>10 DEF GcDropRoots
  <2>2. DOMAIN roots' = DOMAIN roots \cap Retained
    BY <2>1 DEF CollectInv
  <2>3. IsFiniteSet(DOMAIN roots')
    BY <2>2, FS_Subset DEF CollectInv
  <2>4. connRoot = metaRoot /\ current = metaRoot /\ metaRoot.t \in DOMAIN roots'
    BY <2>1, <2>2 DEF CollectInv, Quiescent, Retained
  <2> QED BY <2>1, <2>3, <2>4 DEF CollectInv
<1> QED BY <1>1, <1>2, <1>3, <1>4, <1>5, <1>6, <1>7, <1>8, <1>9, <1>10, Steps

-----------------------------------------------------------------------------
(* The nodes.                                                              *)

RetainedNodes == \A t \in Retained \cap DOMAIN roots : NodesOf(roots[t]) \subseteq nodes

NodesInv ==
  /\ NodesOf(metaRoot.db) \cup NodesOf(current.db) \subseteq nodes
  /\ inst = "up" => NodesOf(connRoot.db) \subseteq nodes
  /\ inst = "up" /\ ix = "merged" => NodesOf(UpTo(Stored, run.to)) \subseteq nodes
  /\ RetainedNodes

\* A new root pushes others out of what is retained, and brings none in.
LEMMA PutRootRetains ==
  ASSUME CollectInv, PutRoot, NEW t \in Retained' \cap DOMAIN roots', t # connRoot.t
  PROVE  t \in Retained \cap DOMAIN roots /\ roots'[t] = roots[t]
<1>1. /\ DOMAIN roots' = DOMAIN roots \cup {connRoot.t} /\ metaRoot' = metaRoot
      /\ t \in DOMAIN roots /\ roots'[t] = roots[t]
  BY DEF PutRoot
<1>2. CASE t = metaRoot.t
  BY <1>1, <1>2 DEF Retained
<1>3. CASE t # metaRoot.t
  <2> DEFINE newer == {u \in DOMAIN roots : u > t}
             newer2 == {u \in DOMAIN roots' : u > t}
  <2>1. Cardinality(newer2) < RetainRoots
    BY <1>1, <1>3 DEF Retained
  <2>2. IsFiniteSet(DOMAIN roots) /\ IsFiniteSet(DOMAIN roots')
    BY <1>1, FS_AddElement DEF CollectInv
  <2>3. IsFiniteSet(newer2) /\ newer \subseteq newer2
    BY <1>1, <2>2, FS_Subset
  <2>4. IsFiniteSet(newer) /\ Cardinality(newer) <= Cardinality(newer2)
    BY <2>3, FS_Subset
  <2>5. Cardinality(newer) \in Nat /\ Cardinality(newer2) \in Nat
    BY <2>3, <2>4, FS_CardinalityType
  <2>6. Cardinality(newer) < RetainRoots
    BY <2>1, <2>4, <2>5, DatabaseAssumption
  <2> QED BY <1>1, <2>6 DEF Retained
<1> QED BY <1>2, <1>3

\* The tree of a retained root that the connection, or root/current, holds.
LEMMA RootOfConn ==
  ASSUME PublishInv, IndexInv, inst = "up", connRoot.t \in DOMAIN roots
  PROVE  roots[connRoot.t] = connRoot.db
BY DEF PublishInv, IndexInv, IsPrefix, Root

\* Every step keeps the nodes that can be reached.
LEMMA NodesStep ==
  ASSUME ~overran', ~swept', Writer!IInv, Writer!IInv', RowsInv, RowsInv',
         IndexInv, DownInv, PublishInv, CollectInv, NodesInv, [DbNext]_allVars
  PROVE  NodesInv'
<1>1. /\ Dense(Stored) /\ Dense(Stored') /\ Grows(Stored, Stored')
      /\ Quiet \/ Stored' = Stored
  BY StoredGrows
<1>2. ASSUME UNCHANGED <<roots, metaRoot>>, nodes \subseteq nodes'
      PROVE  RetainedNodes'
  BY <1>2, RetainedStays DEF NodesInv, RetainedNodes
<1>3. CASE Quiet
  <2>1. /\ UNCHANGED <<metaRoot, roots, current, nodes, connRoot, ix, run>>
        /\ inst' = "up" => inst = "up"
    BY <1>3 DEF Quiet, bucket, indexer
  <2>2. ASSUME inst' = "up", ix' = "merged"
        PROVE  UpTo(Stored', run'.to) = UpTo(Stored, run.to)
    <3>1. run.to \in DOMAIN Stored
      BY <2>1, <2>2 DEF IndexInv
    <3>2. run.to \in Nat
      BY <1>1, <3>1 DEF Dense
    <3> QED BY <1>1, <2>1, <3>1, <3>2, PrefixGrows
  <2> QED BY <1>2, <2>1, <2>2 DEF NodesInv
<1>4. CASE DbBoot \/ DbEnd
  <2>1. /\ UNCHANGED <<metaRoot, roots, current, nodes>> /\ ix' = "idle"
        /\ inst' = "up" => connRoot' = metaRoot
    BY <1>4 DEF DbBoot, BootFrom, DbEnd, Crash, Discard, Fresh, DownInv, bucket
  <2> QED BY <1>2, <2>1 DEF NodesInv
<1>5. CASE (\E b \in BOOLEAN : StartRun(b)) \/ RunFails \/ PutLogChunk
  <2>1. /\ UNCHANGED <<metaRoot, roots, current, nodes, connRoot>> /\ inst = "up"
        /\ ix' \in {"idle", "flush", "merge"}
    BY <1>5 DEF StartRun, RunFails, PutLogChunk, bucket
  <2> QED BY <1>2, <2>1 DEF NodesInv
<1>6. CASE Stored' = Stored /\ MergePut
  <2>1. /\ inst = "up" /\ ix = "merge" /\ UNCHANGED <<metaRoot, roots, current, connRoot, run>>
        /\ nodes' = nodes \cup (NodesOf(UpTo(conn, run.to)) \ NodesOf(connRoot.db))
    BY <1>6 DEF MergePut
  <2>2. UpTo(conn, run.to) = UpTo(Stored, run.to)
    BY <2>1, MergeFacts
  <2>3. nodes \subseteq nodes' /\ NodesOf(UpTo(Stored, run.to)) \subseteq nodes'
    BY <2>1, <2>2 DEF NodesInv
  <2> QED BY <1>2, <1>6, <2>1, <2>3 DEF NodesInv
<1>7. CASE Stored' = Stored /\ MergeDone
  <2>1. /\ inst = "up" /\ ix = "merged" /\ ix' = "publish"
        /\ UNCHANGED <<metaRoot, roots, current, nodes, run>>
        /\ connRoot' = Root(run.to, UpTo(conn, run.to))
    BY <1>7 DEF MergeDone, bucket
  <2>2. connRoot'.db = UpTo(Stored, run.to)
    BY <2>1, MergeFacts DEF Root
  <2> QED BY <1>2, <1>7, <2>1, <2>2 DEF NodesInv
<1>8. CASE PutRoot
  <2>1. /\ inst = "up" /\ ix' = "flip" /\ UNCHANGED <<metaRoot, current, nodes, connRoot>>
        /\ connRoot.t \in DOMAIN roots' => roots'[connRoot.t] = connRoot.db
    BY <1>8 DEF PutRoot
  <2>2. RetainedNodes'
    <3>1. ASSUME NEW t \in Retained' \cap DOMAIN roots'
          PROVE  NodesOf(roots'[t]) \subseteq nodes'
      <4>1. CASE t = connRoot.t
        BY <2>1, <3>1, <4>1 DEF NodesInv
      <4>2. CASE t # connRoot.t
        <5>1. t \in Retained \cap DOMAIN roots /\ roots'[t] = roots[t]
          BY <1>8, <4>2, PutRootRetains
        <5> QED BY <2>1, <5>1 DEF NodesInv, RetainedNodes
      <4> QED BY <4>1, <4>2
    <3> QED BY <3>1 DEF RetainedNodes
  <2> QED BY <2>1, <2>2 DEF NodesInv
<1>9. CASE FlipCurrent
  <2>1. /\ inst = "up" /\ ix' = "adopt" /\ UNCHANGED <<metaRoot, roots, nodes, connRoot>>
        /\ current' = connRoot
    BY <1>9 DEF FlipCurrent
  <2> QED BY <1>2, <2>1 DEF NodesInv
<1>10. CASE Adopt
  <2>1. /\ inst = "up" /\ ix = "adopt" /\ ix' \in {"gc", "idle"}
        /\ UNCHANGED <<roots, current, nodes, connRoot>> /\ metaRoot' = connRoot
    BY <1>10 DEF Adopt, EndOfRun, bucket
  <2>2. connRoot.t \in DOMAIN roots /\ roots[connRoot.t] = connRoot.db
    BY <2>1, RootOfConn DEF CollectInv
  <2>3. Retained' \subseteq Retained \cup {connRoot.t}
    BY <2>1 DEF Retained
  <2>4. RetainedNodes'
    BY <2>1, <2>2, <2>3 DEF NodesInv, RetainedNodes
  <2> QED BY <2>1, <2>4 DEF NodesInv
<1>11. CASE GcStart \/ GcList
  <2>1. /\ UNCHANGED <<inst, metaRoot, roots, current, nodes, connRoot, ix, run>> /\ inst = "up"
        /\ ix # "merged"
    BY <1>11 DEF GcStart, GcList, CollectInv, Quiescent, vars, bucket, indexer
  <2> QED BY <1>2, <2>1 DEF NodesInv
<1>12. CASE GcDelete
  <2>1. /\ inst = "up" /\ gc = "listed" /\ nodes' = nodes \ doomed
        /\ UNCHANGED <<metaRoot, roots, current, connRoot, ix>>
    BY <1>12 DEF GcDelete, indexer
  <2>2. /\ ix # "merged" /\ doomed \cap Marked = {} /\ metaRoot = connRoot /\ current = connRoot
        /\ connRoot.t \in DOMAIN roots /\ roots[connRoot.t] = connRoot.db
    BY <2>1, RootOfConn DEF CollectInv, Quiescent
  <2>3. \A t \in Retained \cap DOMAIN roots : NodesOf(roots[t]) \subseteq nodes'
    BY <2>1, <2>2 DEF NodesInv, RetainedNodes, Marked
  <2>4. connRoot.t \in Retained \cap DOMAIN roots
    BY <2>2 DEF Retained
  <2>5. NodesOf(connRoot.db) \subseteq nodes'
    BY <2>2, <2>3, <2>4
  <2>6. RetainedNodes'
    BY <2>1, <2>3, RetainedStays DEF RetainedNodes
  <2> QED BY <2>1, <2>2, <2>5, <2>6 DEF NodesInv
<1>13. CASE GcDropRoots
  <2>1. /\ inst = "up" /\ gc = "deleted" /\ ix' # "merged"
        /\ UNCHANGED <<metaRoot, current, nodes, connRoot>>
        /\ roots' = [t \in DOMAIN roots \ (keep.all \ keep.kept) |-> roots[t]]
    BY <1>13 DEF GcDropRoots, EndOfRun, CollectInv, Quiescent
  <2>2. \A t \in DOMAIN roots' : t \in Retained \cap DOMAIN roots /\ roots'[t] = roots[t]
    BY <2>1 DEF CollectInv
  <2>3. RetainedNodes'
    BY <2>1, <2>2 DEF NodesInv, RetainedNodes
  <2> QED BY <2>1, <2>3 DEF NodesInv
<1> QED BY <1>1, <1>3, <1>4, <1>5, <1>6, <1>7, <1>8, <1>9, <1>10, <1>11, <1>12, <1>13, Steps

-----------------------------------------------------------------------------
(* Theorems.  They say of every behaviour what holds as long as no run has  *)
(* taken a slice that ends in a batch not yet written (overran): runOnce    *)
(* reads conn.t, which is that of transactions that may never be.           *)

\* What is stored and how far each copy of it has come: inductive, whoever
\* starts a collection.
DbIInv == /\ Writer!IInv /\ RowsInv
          /\ IndexInv /\ DownInv /\ WaitInv /\ ChunkInv /\ PublishInv /\ ForwardInv

\* A history variable stays set.
LEMMA HistoryStays ==
  ASSUME [DbNext]_allVars
  PROVE  (~overran' => ~overran) /\ (~swept' => ~swept)
<1>1. ASSUME NEW b, StartRun(b) PROVE (overran => overran') /\ (swept => swept')
  BY ONLY <1>1, Zenon DEF StartRun
<1>0. CASE Alarm \/ AdminIndex
  <2>1. CASE \E b : StartRun(b)
    BY ONLY <1>1, <2>1, Zenon
  <2>2. CASE UNCHANGED history
    BY ONLY <2>2 DEF history
  <2>3. (\E b : StartRun(b)) \/ UNCHANGED history
    BY <1>0 DEF Alarm, AdminIndex
  <2> QED BY ONLY <2>1, <2>2, <2>3, Zenon
<1>2. CASE GcStart
  BY <1>2 DEF GcStart
<1>3. CASE DbBoot \/ DbEnd \/ DbSchedule \/ DbStep \/ RunFails \/ UNCHANGED allVars
  BY <1>3 DEF DbBoot, DbEnd, DbSchedule, DbStep, RunFails, allVars, dbVars, history
<1>4. CASE IndexRun \/ GcList \/ GcDelete \/ GcDropRoots
  BY <1>4 DEF IndexRun, PutLogChunk, MergePut, MergeDone, PutRoot, FlipCurrent, Adopt, GcList,
     GcDelete, GcDropRoots, history
<1> QED BY <1>0, <1>2, <1>3, <1>4 DEF DbNext, Collection

\* A fresh database stores the bootstrap transaction.
LEMMA StartIsStored == DbInit => RowsInv /\ Stored = Row(1, BootEntry)
<1> SUFFICES ASSUME DbInit PROVE RowsInv /\ Stored = Row(1, BootEntry)
  OBVIOUS
<1>1. metaRoot = NoRoot /\ log = Row(1, BootEntry)
  BY DEF DbInit, Init
<1>2. /\ NoRoot.t = 0 /\ NoRoot.db = EmptyDb /\ DOMAIN EmptyDb = {} /\ IsDb(EmptyDb)
  BY DEF NoRoot, Root, EmptyDb, IsDb
<1>3. /\ DOMAIN log = {1} /\ log[1] = BootEntry /\ IsDb(log)
  BY <1>1 DEF Row, BootEntry, IsDb, Entry
<1>4. RowsInv
  <2>1. /\ metaRoot.t = 0 /\ metaRoot.db = EmptyDb /\ DOMAIN metaRoot.db = 1..metaRoot.t
    BY <1>1, <1>2
  <2>2. /\ \A t \in DOMAIN log : t > metaRoot.t =>
             t \in DOMAIN Merge(metaRoot.db, Above(log, metaRoot.t))
             /\ Merge(metaRoot.db, Above(log, metaRoot.t))[t] = log[t]
    BY <1>2, <1>3, <2>1, MergeAbove
  <2> QED BY <1>2, <1>3, <2>1, <2>2 DEF RowsInv, Stored
<1>5. IsDb(Stored) /\ DOMAIN Stored = {1} /\ Stored = log
  <2>1. IsDb(Stored) /\ \A t : t \in DOMAIN Stored <=> t \in 1..0 \/ (t = 1 /\ t > 0)
    BY <1>1, <1>2, <1>3, <1>4, StoredFacts
  <2>2. DOMAIN Stored = {1}
    BY <2>1
  <2> QED BY <1>3, <1>4, <2>1, <2>2, SameDb DEF RowsInv
<1> QED BY <1>1, <1>4, <1>5

\* A fresh database satisfies the invariants.
LEMMA DbInitInv == DbInit => DbIInv /\ CollectInv /\ NodesInv
<1> SUFFICES ASSUME DbInit PROVE DbIInv /\ CollectInv /\ NodesInv
  OBVIOUS
<1>1. /\ Init /\ metaRoot = NoRoot /\ roots = EmptyDb /\ current = NoRoot /\ chunks = {}
      /\ nodes = NodesOf(EmptyDb) /\ ix = "idle" /\ gc = "idle" /\ inst = "down" /\ pc = "idle"
      /\ log = Row(1, BootEntry)
  BY DEF DbInit, Init
<1>2. /\ NoRoot.t = 0 /\ NoRoot.db = EmptyDb /\ DOMAIN EmptyDb = {} /\ IsDb(EmptyDb)
      /\ EmptyDb = [t \in {} |-> BootEntry]
  BY DEF NoRoot, Root, EmptyDb, IsDb
<1>3. RowsInv /\ Stored = log
  BY <1>1, StartIsStored
<1>4. Writer!IInv
  <2>1. Writer!Init
    BY <1>1, <1>3 DEF Init, Writer!Init, Row, Writer!Row, BootEntry, Writer!BootEntry, EmptyDb,
       Writer!EmptyDb
  <2> QED BY <2>1, Writer!TypeInit, Writer!LogInit, Writer!FlightInit, Writer!AckInit,
      WriterAssumptions DEF Writer!IInv
<1>5. IndexInv /\ DownInv /\ WaitInv /\ ForwardInv /\ ChunkInv
  BY <1>1, <1>2, DatabaseAssumption DEF IndexInv, DownInv, WaitInv, ForwardInv, ChunkInv, InChunks
<1>6. PublishInv
  <2>1. IsPrefix(NoRoot, Stored)
    BY <1>1, <1>3, <1>4, MetaRootIsPrefix, StoredIsDense
  <2> QED BY <1>1, <1>2, <2>1 DEF PublishInv
<1>7. CollectInv
  BY <1>1, <1>2, FS_EmptySet DEF CollectInv
<1>8. NodesInv
  BY <1>1, <1>2 DEF NodesInv, RetainedNodes
<1> QED BY <1>3, <1>4, <1>5, <1>6, <1>7, <1>8 DEF DbIInv

\* Every step keeps the invariant.
LEMMA DbStepInv ==
  ASSUME ~overran', DbIInv, [DbNext]_allVars
  PROVE  DbIInv'
<1>1. ([Writer!Next]_(Writer!vars) \/ RunFails) /\ RowsInv'
  BY Simulates DEF DbIInv
<1>2. Writer!IInv'
  BY <1>1, WriterStep DEF DbIInv
<1> QED BY <1>1, <1>2, IndexStep, WaitStep, ChunkStep, PublishStep, ForwardStep DEF DbIInv

\* The root in meta, the roots in the bucket, root/current, the chunks, the
\* trees of the live connection and the slice of its run all agree with what
\* is stored, and each is as far as the run says (indexer.ts:71-120).
THEOREM DbInvariance == DbSpec => [](~overran => DbIInv)
<1>1. DbInit => DbIInv
  BY DbInitInv
<1>2. (~overran => DbIInv) /\ [DbNext]_allVars => (~overran => DbIInv)'
  <2> SUFFICES ASSUME ~overran => DbIInv, [DbNext]_allVars, ~overran'
               PROVE  DbIInv'
    OBVIOUS
  <2>1. ~overran
    BY HistoryStays
  <2> QED BY <2>1, DbStepInv
<1> QED BY <1>1, <1>2, PTL DEF DbSpec

\* A live connection reads what a boot at that moment would restore, and the
\* batch it is resolving: adopting trees and pruning rows loses nothing.
THEOREM ReadsAreOfStored == DbSpec => []ReadsAreStored
<1>1. (~overran => DbIInv) => ReadsAreStored
  BY DEF DbIInv, ReadsAreStored, Writer!IInv, Writer!LogInv, Writer!MemoryIsLogPlusBatch,
     Writer!Merge, Merge
<1> QED BY <1>1, DbInvariance, PTL

\* Whatever was pruned from the SQL log is in a log chunk, unaltered.
THEOREM PrunedIsInChunks == DbSpec => []CatchUp
<1>1. (~overran => DbIInv) => CatchUp
  <2> SUFFICES ASSUME DbIInv
               PROVE  /\ \A t \in DOMAIN Stored : Covered(t)
                      /\ \A c \in chunks : \A t \in DOMAIN c : t \in DOMAIN Stored /\ c[t] = Stored[t]
    BY DEF CatchUp
  <2>1. \A t : t \in DOMAIN Stored => t \in 1..metaRoot.t \/ t \in DOMAIN log
    BY StoredFacts DEF DbIInv
  <2>2. \A t \in DOMAIN Stored : Covered(t)
    BY <2>1 DEF DbIInv, ChunkInv, InChunks, Covered
  <2> QED BY <2>2 DEF DbIInv, ChunkInv, Grows
<1> QED BY <1>1, DbInvariance, PTL

\* root/current is never behind the root a boot starts from, and goes back
\* only when a call has failed.
THEOREM CurrentGoesForward == DbSpec => CurrentNeverRegresses
<1>1. (~overran => DbIInv) /\ (~overran => DbIInv)' /\ [DbNext]_allVars =>
        [~overran' => /\ current'.t >= metaRoot'.t
                      /\ faults = 0 => current'.t >= current.t]_allVars
  <2> SUFFICES ASSUME ~overran => DbIInv, ~overran' => DbIInv', [DbNext]_allVars, ~overran'
               PROVE  /\ current'.t >= metaRoot'.t
                      /\ faults = 0 => current'.t >= current.t
    OBVIOUS
  <2>0. DbIInv /\ DbIInv'
    BY HistoryStays
  <2>1. /\ current.t \in Nat /\ current'.t \in Nat /\ metaRoot'.t \in Nat
        /\ metaRoot'.t <= current'.t
    BY <2>0 DEF DbIInv, PublishInv, IsPrefix, RowsInv
  <2>2. CASE FlipCurrent
    <3>1. /\ inst = "up" /\ ix = "flip" /\ current' = connRoot /\ connRoot.t = run.to
      BY <2>0, <2>2 DEF FlipCurrent, DbIInv, IndexInv
    <3> QED BY <2>0, <2>1, <3>1 DEF DbIInv, ForwardInv
  <2>3. CASE ~FlipCurrent
    <3>1. current' = current
      BY <2>0, <2>3, Steps DEF DbIInv, Quiet, DbBoot, DbEnd, StartRun, RunFails, PutLogChunk,
         MergePut, MergeDone, PutRoot, Adopt, GcStart, GcList, GcDelete, GcDropRoots, bucket
    <3> QED BY <2>1, <3>1
  <2> QED BY <2>2, <2>3
<1> QED BY <1>1, DbInvariance, PTL DEF DbSpec, CurrentNeverRegresses

-----------------------------------------------------------------------------
(* The collections, as long as none was begun beside a run or before the    *)
(* writer had adopted a published root (swept): POST /admin/gc then deletes *)
(* nodes that a root not yet published, or not yet retained, has.           *)

\* What a collection marked stays what is retained, and what can be reached
\* stays in the bucket.
THEOREM CollectInvariance == DbSpec => [](~overran /\ ~swept => CollectInv /\ NodesInv)
<1>1. DbInit => CollectInv /\ NodesInv
  BY DbInitInv
<1>2. /\ (~overran => DbIInv) /\ (~overran => DbIInv)' /\ [DbNext]_allVars
      /\ ~overran /\ ~swept => CollectInv /\ NodesInv
      => (~overran /\ ~swept => CollectInv /\ NodesInv)'
  <2> SUFFICES ASSUME ~overran => DbIInv, ~overran' => DbIInv', [DbNext]_allVars,
                      ~overran /\ ~swept => CollectInv /\ NodesInv, ~overran', ~swept'
               PROVE  CollectInv' /\ NodesInv'
    OBVIOUS
  <2>1. DbIInv /\ DbIInv' /\ CollectInv /\ NodesInv
    BY HistoryStays
  <2> QED BY <2>1, CollectStep, NodesStep DEF DbIInv
<1> QED BY <1>1, <1>2, DbInvariance, PTL DEF DbSpec

\* A published root is the database as of its t, and root/current is among the
\* roots (publishRoot), unless a collection beside a run took it.
THEOREM PublishedRootsAreStored == DbSpec => []PublishedIsStored
<1>1. (~overran => DbIInv) /\ (~overran /\ ~swept => CollectInv /\ NodesInv) => PublishedIsStored
  BY DEF DbIInv, CollectInv, PublishInv, IsPrefix, Root, PublishedIsStored
<1> QED BY <1>1, DbInvariance, CollectInvariance, PTL

\* The collector deletes no node a reader can reach (gcSweep).
THEOREM ReachableStays == DbSpec => []ReachableIsKept
<1>1. (~overran /\ ~swept => CollectInv /\ NodesInv) => ReachableIsKept
  BY DEF NodesInv, RetainedNodes, ReachableIsKept
<1> QED BY <1>1, CollectInvariance, PTL

\* With an indexer, a bucket and a pruned log the writer still implements the
\* promise of the single writer.
THEOREM DbRefinement == DbSpec => StoredImplementsCommittedLog
<1>1. DbInit => DbPromise!Init
  <2> SUFFICES ASSUME DbInit PROVE DbPromise!Init
    OBVIOUS
  <2>1. Stored = Row(1, BootEntry)
    BY StartIsStored
  <2> QED BY <2>1 DEF DbInit, Init, DbPromise!Init, Row
<1>2. (~overran => DbIInv) /\ (~overran => DbIInv)' /\ [DbNext]_allVars =>
        [~overran' => [DbPromise!Next]_(DbPromise!vars)]_allVars
  <2> SUFFICES ASSUME ~overran => DbIInv, ~overran' => DbIInv', [DbNext]_allVars, ~overran'
               PROVE  [DbPromise!Next]_(DbPromise!vars)
    OBVIOUS
  <2>0. DbIInv /\ DbIInv'
    BY HistoryStays
  <2>1. CASE RunFails
    <3>1. UNCHANGED <<Stored, outcome, reply, told>>
      BY <2>1, StoredStays DEF RunFails, durable, callers
    <3> QED BY <3>1 DEF DbPromise!vars
  <2>2. CASE [Writer!Next]_(Writer!vars)
    <3>1. [Writer!Promise!Next]_(Writer!Promise!vars)
      BY <2>0, <2>2, Writer!StepRefines, WriterAssumptions DEF DbIInv
    <3> QED BY <3>1 DEF Writer!Promise!Next, Writer!Promise!vars, DbPromise!Next, DbPromise!vars,
        Writer!Promise!Commit, Writer!Promise!Answer, Writer!Promise!LastT, DbPromise!Commit,
        DbPromise!Answer, DbPromise!LastT, Writer!IsWrite, IsWrite, Writer!Entry, Entry
  <2> QED BY <2>0, <2>1, <2>2, Simulates DEF DbIInv
<1> QED BY <1>1, <1>2, DbInvariance, PTL DEF DbSpec, StoredImplementsCommittedLog
===============================================================================
