------------------------------ MODULE Database ------------------------------
(***************************************************************************)
(* The writer of Transactor.tla with its indexer                           *)
(* (internal/transactor/indexer.ts) and the object store both share        *)
(* (internal/storage/index.ts).                                            *)
(*                                                                         *)
(* An index run takes a slice of the log, puts it in the bucket as a log   *)
(* chunk, merges it into new trees, publishes their root, adopts the root  *)
(* and prunes the SQL log; it awaits the bucket between these steps, and   *)
(* commits, evictions and the garbage collector come in between.           *)
(*                                                                         *)
(* A tree is the function t -> entry it stores.  Its nodes are one top and *)
(* one leaf per t: trees over the same entries share leaves, as the merge  *)
(* shares the nodes it does not touch.                                     *)
(***************************************************************************)
EXTENDS Transactor

CONSTANTS
  MaxTxsPerRun,   \* config.indexMaxTxsPerRun
  LogKeepTxs,     \* config.logKeepTxs
  RetainRoots,    \* config.retainRoots
  GcEachRun,      \* whether gcEveryN is 1 (TRUE) or 0 (FALSE)
  AdminGc         \* whether somebody calls POST /admin/gc

ASSUME DatabaseAssumption ==
  /\ MaxTxsPerRun \in Nat \ {0} /\ LogKeepTxs \in Nat /\ RetainRoots \in Nat \ {0}
  /\ GcEachRun \in BOOLEAN /\ AdminGc \in BOOLEAN

VARIABLES
  metaRoot,       \* SQL: meta.root, [t, db]
  alarm,          \* the runtime's: an alarm is set
  \* The bucket.
  roots,          \* objects roots/<t>: t -> tree
  current,        \* object root/current, [t, db], or NoRoot
  chunks,         \* objects log/<t0>-<t1>: a set of functions t -> entry
  nodes,          \* objects seg/ and n/
  \* The instance.
  connRoot,       \* conn.roots, [t, db]
  ix,             \* where the index run is; "idle" is running = false
  run,            \* its slice: [to, entries, byAlarm]
  gc,             \* where the garbage collection is
  keep, doomed,   \* its retained roots, and the objects it lists for deletion
  \* History variables, which no step reads.
  overran,        \* a run has taken a slice that ends in a batch not yet written
  swept           \* a collection was begun where a run is not done with its root

bucket == <<roots, current, chunks, nodes>>
indexer == <<connRoot, ix, run>>
collector == <<gc, keep, doomed>>
history == <<overran, swept>>
dbVars == <<metaRoot, alarm, bucket, indexer, collector, history>>
allVars == <<vars, dbVars>>

UpTo(db, n) == [t \in {u \in DOMAIN db : u <= n} |-> db[t]]
Above(db, n) == [t \in {u \in DOMAIN db : u > n} |-> db[t]]
Root(t, db) == [t |-> t, db |-> db]
NoRoot == Root(0, EmptyDb)
\* Mutant: -1 for "no slice".
NoRunNegative == [to |-> -1, entries |-> EmptyDb, byAlarm |-> FALSE]
NoRun == [to |-> 0, entries |-> EmptyDb, byAlarm |-> FALSE]
NoGc == [all |-> {}, kept |-> {}, marked |-> {}, byRun |-> FALSE]

NodesOf(db) == {db} \cup {Row(t, db[t]) : t \in DOMAIN db}

DbInit ==
  /\ Init
  /\ metaRoot = NoRoot /\ alarm = FALSE
  /\ roots = EmptyDb /\ current = NoRoot /\ chunks = {} /\ nodes = NodesOf(EmptyDb)
  /\ connRoot = NoRoot /\ ix = "idle" /\ run = NoRun
  /\ gc = "idle" /\ keep = NoGc /\ doomed = {}
  /\ overran = FALSE /\ swept = FALSE

-----------------------------------------------------------------------------
(* The writer's steps, and what they do to the rest.                       *)

\* Mutant: the root is forgotten, the rows that are left are replayed.
DbBootRootless ==
  /\ BootFrom(0, EmptyDb)
  /\ connRoot' = NoRoot
  /\ alarm' = TRUE
  /\ UNCHANGED <<metaRoot, bucket, ix, run, collector, history>>

\* boot restores from meta.root and the log above it, and sees to an alarm
\* when there is something to index.
DbBoot ==
  /\ BootFrom(metaRoot.t, metaRoot.db)
  /\ connRoot' = metaRoot
  /\ alarm' = (alarm \/ basisT' > metaRoot.t)
  /\ UNCHANGED <<metaRoot, bucket, ix, run, collector, history>>

\* The run and the collection go with their instance; the runtime repeats an
\* alarm whose handler did not return.
DbEnd ==
  /\ Crash \/ Discard
  /\ alarm' = (alarm \/ (ix # "idle" /\ run.byAlarm))
  /\ connRoot' = NoRoot /\ ix' = "idle" /\ run' = NoRun
  /\ gc' = "idle" /\ keep' = NoGc /\ doomed' = {}
  /\ UNCHANGED <<metaRoot, bucket, history>>

\* maybeSchedule, after each batch.
DbSchedule ==
  /\ LoopAgain
  /\ alarm' = TRUE
  /\ UNCHANGED <<metaRoot, bucket, indexer, collector, history>>

DbStep ==
  /\ \/ BootFails
     \/ \E r \in Requests : Caller(r)
     \/ Loop /\ pc # "schedule"
     \/ LoopFails
  /\ UNCHANGED dbVars

-----------------------------------------------------------------------------
(* The index run.                                                          *)

\* runOnce, up to its first await; a batch may be awaiting a cold node of the trees
\* meanwhile.  The slice ends at conn.t, committed or not; its entries are rows of
\* the SQL log.
StartRun(byAlarm) ==
  LET to == IF basisT < connRoot.t + MaxTxsPerRun THEN basisT ELSE connRoot.t + MaxTxsPerRun
      slice == UpTo(Above(log, connRoot.t), to)
  IN  /\ inst = "up"
      /\ ix = "idle" /\ basisT > connRoot.t
      /\ run' = [to |-> to, entries |-> slice, byAlarm |-> byAlarm]
      /\ ix' = IF DOMAIN slice # {} THEN "flush" ELSE "merge"
      /\ overran' = (overran \/ to \notin DOMAIN log)
      /\ swept' = (swept \/ gc # "idle")
      /\ UNCHANGED <<vars, metaRoot, bucket, connRoot, collector>>

\* onAlarm.  While a run is on the alarm sets itself again.
Alarm ==
  /\ alarm
  /\ \/ StartRun(TRUE) /\ alarm' = FALSE
     \/ /\ inst = "up" /\ ix = "idle" /\ basisT <= connRoot.t
        /\ alarm' = FALSE
        /\ UNCHANGED <<vars, metaRoot, bucket, indexer, collector, history>>

\* POST /admin/index.
AdminIndex == StartRun(FALSE) /\ UNCHANGED alarm

\* Mutant: every chunk goes under the same key.
PutOnlyChunk ==
  /\ inst = "up" /\ ix = "flush"
  /\ chunks' = {run.entries}
  /\ ix' = "merge"
  /\ UNCHANGED <<vars, metaRoot, alarm, roots, current, nodes, connRoot, run, collector, history>>

\* The objects are put one await after the other; the merge reads what the
\* connection holds up to the end of the slice.
PutLogChunk ==
  /\ inst = "up" /\ ix = "flush"
  /\ chunks' = {c \in chunks : DOMAIN c # DOMAIN run.entries} \cup {run.entries}
  /\ ix' = "merge"
  /\ UNCHANGED <<vars, metaRoot, alarm, roots, current, nodes, connRoot, run, collector, history>>

MergePut ==
  /\ inst = "up" /\ ix = "merge"
  /\ nodes' = nodes \cup (NodesOf(UpTo(conn, run.to)) \ NodesOf(connRoot.db))
  /\ ix' = "merged"
  /\ UNCHANGED <<vars, metaRoot, alarm, roots, current, chunks, connRoot, run, collector, history>>

\* Mutant: the novelty above the slice is merged too.
MergeAll ==
  /\ inst = "up" /\ ix = "merged"
  /\ connRoot' = Root(run.to, conn)
  /\ ix' = "publish"
  /\ UNCHANGED <<vars, metaRoot, alarm, bucket, run, collector, history>>

MergeDone ==
  /\ inst = "up" /\ ix = "merged"
  /\ connRoot' = Root(run.to, UpTo(conn, run.to))
  /\ ix' = "publish"
  /\ UNCHANGED <<vars, metaRoot, alarm, bucket, run, collector, history>>

PutRoot ==
  /\ inst = "up" /\ ix = "publish"
  /\ roots' = [t \in DOMAIN roots \cup {connRoot.t} |->
                 IF t = connRoot.t THEN connRoot.db ELSE roots[t]]
  /\ ix' = "flip"
  /\ UNCHANGED <<vars, metaRoot, alarm, current, chunks, nodes, connRoot, run, collector, history>>

FlipCurrent ==
  /\ inst = "up" /\ ix = "flip"
  /\ current' = connRoot
  /\ ix' = "adopt"
  /\ UNCHANGED <<vars, metaRoot, alarm, roots, chunks, nodes, connRoot, run, collector, history>>

\* Mutant: what remains is left to the next commit.
EndOfRunQuietly == ix' = "idle" /\ run' = NoRun /\ UNCHANGED alarm

\* runOnce returns, and onAlarm sets the alarm again if something remains.
EndOfRun ==
  /\ ix' = "idle" /\ run' = NoRun
  /\ alarm' = (alarm \/ (run.byAlarm /\ basisT > run.to))

\* Mutant: the rows of later transactions are pruned too.
AdoptPrunesAll ==
  /\ inst = "up" /\ ix = "adopt"
  /\ metaRoot' = connRoot
  /\ log' = Above(log, basisT - LogKeepTxs)
  /\ IF GcEachRun THEN ix' = "gc" /\ UNCHANGED <<run, alarm>> ELSE EndOfRun
  /\ UNCHANGED <<metaAcks, inst, memory, pc, callers, told, crashes, faults,
                 bucket, connRoot, collector, history>>

\* adoptRoot and pruneLog, in one turn of the event loop; then the collection,
\* or the end of the run.
Adopt ==
  /\ inst = "up" /\ ix = "adopt"
  /\ metaRoot' = connRoot
  /\ log' = Above(log, run.to - LogKeepTxs)
  /\ IF GcEachRun THEN ix' = "gc" /\ UNCHANGED <<run, alarm>> ELSE EndOfRun
  /\ UNCHANGED <<metaAcks, inst, memory, pc, callers, told, crashes, faults,
                 bucket, connRoot, collector, history>>

\* A call to the bucket fails: the run ends there.  The runtime repeats the
\* alarm; an admin's caller gets the error.
RunFails ==
  /\ inst = "up" /\ ix \in {"flush", "merge", "merged", "publish", "flip"}
  /\ faults < MaxFaults
  /\ faults' = faults + 1
  /\ ix' = "idle" /\ run' = NoRun
  /\ alarm' = (alarm \/ run.byAlarm)
  /\ UNCHANGED <<durable, inst, memory, pc, callers, told, crashes,
                 metaRoot, bucket, connRoot, collector, history>>

-----------------------------------------------------------------------------
(* gcSweep: mark from the retained roots, list, delete.                    *)

\* The newest roots and the current one are kept.
Retained ==
  {t \in DOMAIN roots : Cardinality({u \in DOMAIN roots : u > t}) < RetainRoots}
    \cup {metaRoot.t}

\* Mutant: the roots' own nodes only.
MarkedTops == {roots[t] : t \in Retained \cap DOMAIN roots}

Marked == UNION {NodesOf(roots[t]) : t \in Retained \cap DOMAIN roots}

\* The writer boots from, publishes and reads one and the same root, which no
\* run is about to replace.
Quiescent ==
  /\ ix \in {"idle", "gc"}
  /\ metaRoot # NoRoot /\ connRoot = metaRoot /\ current = metaRoot

\* The end of a run, or POST /admin/gc, whatever the indexer does.
GcStart ==
  /\ inst = "up" /\ gc = "idle"
  /\ ix = "gc" \/ AdminGc
  /\ gc' = "marked"
  /\ keep' = [all |-> DOMAIN roots, kept |-> Retained, byRun |-> ix = "gc",
              marked |-> Marked]
  /\ swept' = (swept \/ ~Quiescent)
  /\ UNCHANGED <<vars, metaRoot, alarm, bucket, indexer, doomed, overran>>

GcList ==
  /\ inst = "up" /\ gc = "marked"
  /\ doomed' = nodes \ keep.marked
  /\ gc' = "listed"
  /\ UNCHANGED <<vars, metaRoot, alarm, bucket, indexer, keep, history>>

GcDelete ==
  /\ inst = "up" /\ gc = "listed"
  /\ nodes' = nodes \ doomed
  /\ gc' = "deleted"
  /\ UNCHANGED <<vars, metaRoot, alarm, roots, current, chunks, indexer, keep, doomed, history>>

GcDropRoots ==
  /\ inst = "up" /\ gc = "deleted"
  /\ roots' = [t \in DOMAIN roots \ (keep.all \ keep.kept) |-> roots[t]]
  /\ gc' = "idle" /\ keep' = NoGc /\ doomed' = {}
  /\ IF keep.byRun THEN EndOfRun ELSE UNCHANGED <<ix, run, alarm>>
  /\ UNCHANGED <<vars, metaRoot, current, chunks, nodes, connRoot, history>>

IndexRun == PutLogChunk \/ MergePut \/ MergeDone \/ PutRoot \/ FlipCurrent \/ Adopt
Collection == GcStart \/ GcList \/ GcDelete \/ GcDropRoots

DbNext ==
  \/ DbBoot \/ DbEnd \/ DbSchedule \/ DbStep
  \/ Alarm \/ AdminIndex \/ IndexRun \/ RunFails \/ Collection

DbSpec == DbInit /\ [][DbNext]_allVars

\* The event loop of a live instance runs what is ready, the runtime fires the
\* alarm, and somebody still uses the database: it is booted again.
DbFairSpec ==
  /\ DbSpec
  /\ WF_allVars(DbBoot) /\ WF_allVars(DbEnd /\ inst = "dead")
  /\ WF_allVars(DbSchedule) /\ WF_allVars(Loop /\ DbStep)
  /\ WF_allVars(Alarm) /\ WF_allVars(IndexRun) /\ WF_allVars(Collection)

-----------------------------------------------------------------------------
(* Properties.                                                             *)

\* The database: what a boot restores.
Stored == Merge(metaRoot.db, Above(log, metaRoot.t))

Covered(t) == t \in DOMAIN log \/ \E c \in chunks : t \in DOMAIN c

IsRoot(r) == r.t \in Nat /\ IsDb(r.db)

\* Every variable keeps the type its code counterpart has.
DbTypeOK ==
  /\ TypeOK
  /\ IsRoot(metaRoot) /\ IsRoot(current) /\ IsRoot(connRoot) /\ alarm \in BOOLEAN
  /\ \A t \in DOMAIN roots : t \in Nat /\ IsDb(roots[t])
  /\ \A c \in chunks : IsDb(c)
  /\ \A n \in nodes : IsDb(n)
  /\ ix \in {"idle", "flush", "merge", "merged", "publish", "flip", "adopt", "gc"}
  /\ run.to \in Nat /\ IsDb(run.entries) /\ run.byAlarm \in BOOLEAN
  /\ gc \in {"idle", "marked", "listed", "deleted"}
  /\ keep.kept \subseteq Nat /\ keep.all \subseteq Nat /\ keep.byRun \in BOOLEAN
  /\ \A n \in doomed : IsDb(n)
  /\ overran \in BOOLEAN /\ swept \in BOOLEAN

\* What follows is said of a database whose runs have taken no slice that ends in
\* a batch not yet written: runOnce reads conn.t, and while a batch awaits a cold
\* node conn.t is that of transactions which may never be (README, known divergences).

\* Pruning and adopting lose nothing: a live connection reads what a boot at
\* this moment would restore, and the batch it is resolving.
ReadsAreStored ==
  inst = "up" /\ ~overran =>
    conn = IF pc \in {"resolve", "authorize", "ack", "write"}
           THEN Merge(Stored, entries) ELSE Stored

\* A published root is the database as of its t: none has an entry that was not
\* committed, or lacks one that was, and root/current has its own roots/<t>
\* (publishRoot), which no collection beside a run has taken.
PublishedIsStored ==
  ~overran =>
    /\ \A t \in DOMAIN roots : roots[t] = UpTo(Stored, t)
    /\ current.db = UpTo(Stored, current.t)
    /\ current # NoRoot /\ gc = "idle" /\ ~swept => current.t \in DOMAIN roots

\* Whatever was pruned from the SQL log can be had from a log chunk, unaltered
\* (runOnce flushes the slice before it prunes it).
CatchUp ==
  ~overran =>
    /\ \A t \in DOMAIN Stored : Covered(t)
    /\ \A c \in chunks : \A t \in DOMAIN c : t \in DOMAIN Stored /\ c[t] = Stored[t]

\* The collector never deletes a node that a reader can reach from the root the
\* writer boots from, the root a replica starts from, the trees the live
\* connection reads, or the roots that are retained; but POST /admin/gc does when
\* it is called before the first run has adopted its root, during one, or after
\* one that failed (README, known divergences).
ReachableIsKept ==
  ~overran /\ ~swept =>
    /\ NodesOf(metaRoot.db) \cup NodesOf(current.db) \subseteq nodes
    /\ inst = "up" => NodesOf(connRoot.db) \subseteq nodes
    /\ \A t \in Retained \cap DOMAIN roots : NodesOf(roots[t]) \subseteq nodes

\* root/current is never behind the root the writer boots from, and it never
\* goes back, also when a run is repeated after a crash between its put and
\* meta.root.  A run that failed at the put of root/current has adopted its
\* trees already: the next one publishes a later root, and when it too ends
\* before meta.root an instance that boots from there publishes an earlier one.
CurrentNeverRegresses ==
  [][~overran' => /\ current'.t >= metaRoot'.t
                  /\ faults = 0 => current'.t >= current.t]_allVars

\* With the log pruned and the roots adopted, the writer still implements
\* CommittedLog.
DbPromise == INSTANCE CommittedLog WITH
  Bootstrap <- BootEntry,
  IsWriteOf <- LAMBDA e, r : e.op = "tx" /\ e.req = r,
  log <- Stored,
  answered <- [r \in Requests |->
                IF outcome[r] = "acked" /\ IsWrite(r) /\ reply[r].of = r
                THEN reply[r].t ELSE 0]
StoredImplementsCommittedLog ==
  DbPromise!Init /\ [][~overran' => [DbPromise!Next]_(DbPromise!vars)]_allVars

\* Every committed transaction reaches a published root: the runs are bounded
\* slices, and each leaves an alarm behind while something remains.
Indexed ==
  \A t \in 1..(2 * Cardinality(Requests) + 1) : t \in DOMAIN Stored ~> current.t >= t

=============================================================================
