# Ramose: a verification project

TLA+ modules, TLC runs and TLAPS proofs about Ramose (`src/packages/ramose`), a
Datomic-like database on Cloudflare: one *writer* per database (a Durable
Object), *replicas* that follow it, a *peer Worker* that routes requests and
holds live sessions, and a *client* with an optimistic overlay. Paths below are
relative to `src/packages/ramose/src/`.

## Inventory

| Component | State | Operations | Talks to |
| --- | --- | --- | --- |
| **Transactor** `internal/transactor/transactor.ts`, `transactor-do.ts`, `host.ts` | SQL `log` (t -> datoms) and `meta` (root, next_eid, op_acks); in memory the connection, the queue, the two ack maps, `committing`, `dead` | boot, transact, /op-ack, /provision, commit loop, die, subscribe, catch-up | Worker (fetch), replicas (WebSocket), SQL, indexer |
| **Connection** `internal/core/conn.ts` | roots, novelty, schema, basis t | restore, transact, index | node store |
| **Indexer** `internal/transactor/indexer.ts` | `running`, the alarm | runOnce, alarm, admin index, gc | connection, bucket, transactor |
| **Object store** `internal/storage/index.ts` | `seg/`, `n/`, `log/`, `roots/<t>`, `root/current` | put/read nodes, chunks, roots; mark and sweep | R2 |
| **Replica** `internal/replica/replica-do.ts` | SQL novelty and root; entries; upstream socket | handleFrame, fillGap, catchUpFromR2, sync, sessions | transactor, R2, Worker |
| **Sessions** `worker/session.ts`, `session-sync.ts` | principal, follow cursor, queue of entries | consider, refresh, resync | replica, client |
| **Peer Worker** `worker/index.ts`, `peer.ts`, `operations.ts`, `auth.ts` | basis cache per isolate | /op, /transact, /query, /session | transactor, replica |
| **Client** `db/overlay.ts`, `session.ts`, `token.ts`, `Db.ts` | confirmed facts, pending layers, socket, token | transact, applyFrame, sync, mint | Worker |
| **Pure parts** `internal/core/tx.ts`, `tree.ts`, `novelty.ts`, `policy/*`, `query/*` | none | resolve a transaction, merge a tree, evaluate a policy or a query | - |
| React bindings, Better Auth plugin, deployment, telemetry | | | |

What is hard, and what makes each part correct:

- **Transactor.** `t` is assigned in memory before it is stored; every `await`
  of the commit loop lets another handler in, and the instance can disappear
  between any two. The log must have neither gaps nor duplicates, memory must
  be exactly the log (plus the batch being written), whatever a caller, a
  replay or a subscriber was told must be in the log, one id must write once,
  and a queued request must be answered.
- **Indexer and storage.** A run spans many awaits and several objects; a commit,
  a crash, a failure or a collection may fall between any two. Published roots
  must be exactly the database at their t, pruning must lose nothing, what a
  reader can reach must not be collected, and everything committed must be
  indexed in the end.
- **Replica.** Frames, gap fills, chunks and root flips overlap and repeat; the
  entries must stay dense above the root and equal to the writer's.
- **Sessions.** A session sees each visible commit once and in order, and a
  resync whenever its access changes.
- **Overlay.** Ack, frame and resync of one write arrive in any order; a pending
  layer is dropped exactly when the confirmed data covers it, and an edit queued
  behind a create must land on what the create made, whose number the server chooses.
- **Connection, transactions, trees.** Four sorted trees and the novelty over
  them are one set of facts in four orders, while roots are replaced under
  readers that hold older ones; tempids, upserts and the schema are resolved
  against the database the transaction changes.
- **Queries and policy.** The planner may pick any order and any access path, a
  policy may be applied as a filter or pushed into the query, a write is checked by
  the peer and again by the writer: none of it may show in an answer.
- **Wire.** One token source, one socket and one isolate serve many calls, and
  each of them awaits; a sign-out, a close, a drop or a commit may fall
  between any two steps of each.
- **Builder.** A pipeline becomes clauses, clauses rows and rows shapes; what is asked
  must be what is read back, over pages too.

The hazards, each at its line, are in `PROJECT.json`.

## Modules

| Module | Models |
| --- | --- |
| `CommittedLog` | what the writer promises: a dense log; a batch lands whole at the next t's; answers and broadcasts are of the log |
| `Transactor` | `internal/transactor/transactor.ts`, its fetch callers and `conn.ts` as far as the log goes |
| `Database` | `Transactor` with `indexer.ts` and `storage/index.ts` |
| `Follower` | what a read copy promises: a prefix of the log that only grows |
| `Replica` | `internal/replica/replica-do.ts` with the sessions on it (`worker/session.ts`, `session-sync.ts`) and what a client is pushed |
| `Orders` | `core/datom.ts`, `tree.ts`: the orders of the indexes, prefixes, `sortedUnion` |
| `Views` | `core/novelty.ts`: novelty merged into a scan, history collapsed into the facts of a t, streamed and at once |
| `Segments` | `core/tree.ts`: build, merge, scan, multi-seek, estimates |
| `Snapshot` | `core/db.ts`, `schema.ts`: a database value, its schema from its datoms |
| `Transactions` | `core/tx.ts`: forms, tempids, upserts, uniqueness, cardinality, retractEntity |
| `Connection` | `core/conn.ts`: transact, index, restore, held snapshots |
| `Queries`, `Pulls` | `core/query/engine.ts`, `pull.ts`: planner, access paths, rules, aggregates, order and pages; trees of entities |
| `Policies`, `Charter` | `core/policy/*`, `db/Policy.ts`: evaluation, filter, pushdown, check of a write; a policy as it is written and its compilation |
| `Reads` | the connection, the engine and the policy together: what a principal reads and writes |
| `Overlay` | `db/overlay.ts` with its stream and its post queue |
| `Forms` | `core/query/parse.ts`, `db/query/query.ts`: the form of a query, as the client writes it and the engine reads it |
| `Kernel`, `Shapes`, `Builder` | `db/query/*`, `db/shapes.ts`, `db/Pull.ts`: clauses, shapes, query values, their lowering and the reading of rows |
| `Meanings` | what such query values say of the facts, without clauses |
| `Tokens`, `Peer`, `Wire` | `db/token.ts`; `worker/index.ts`, `peer.ts`, `auth.ts`; `db/Databases.ts`, `http.ts`, `session.ts` and both ends of the socket |
| `MCTransactor`, `MCDatabase`, `MCReplica`, `MCConnection`, `MCReads`, `MCBuilder`, `MCWire` | the small instances TLC explores |
| `TransactorProofs`, `ReplayProofs`, `DatabaseProofs`, `ReplicaProofs`, `SessionProofs`, `OverlayProofs`, `WireProofs`, `ViewsProofs` | theorems about the module each extends |

`Database` extends `Transactor`; `Reads` extends `Charter` and `Connection`, and those
the pure modules under them; `Meanings` extends `Builder`, that `Forms`, and so the engine;
`Wire` extends `Peer` and that `Tokens`. `Replica` and `Overlay` do not repeat the writer: they
start from what `Transactor`, `Database` and (for `Overlay`) `Replica` show of it,
as their headers say.

Operators commented as mutants are wrong versions of the definition they precede;
no specification uses them. Putting one in place of its definition must break the
property it is listed with in `PROJECT.json`, which shows that the property
notices that mistake.

### Transactor

One action per stretch of code between two awaits. `pc` says where the commit
loop is: `open` (the yield that opens the batching window), `resolve`,
`authorize` and `ack` (the awaits of one request: `applyProvision`,
`authorize`/`conn.transact`, `ackDatoms`), `write` (the storage transaction),
`reply` (acks and broadcast), `schedule` (`await maybeSchedule`). `idle` is
`committing = false`.

| Action | Code |
| --- | --- |
| `Boot`, `BootFails` | `boot`; a failed one stays in `ready` |
| `Crash`, `Discard` | eviction; `host.abort` |
| `Transact`, `TransactReplay` | `transact`: queue, or answer from the ack maps |
| `OpLookup`, `RecordOpAck` | the Worker's /op around the operation body: ask for the ack, and record that of an operation that wrote nothing |
| `ProvisionLookup`, `ProvisionSubmit` | `provision` before and after its await |
| `TakeBatch`, `ReplayItem`, `ProvisionItem`, `AcceptItem`/`DenyItem`, `AckItem`/`AckItemFails` | the resolve loop |
| `Write`, `WriteFails` | the one storage transaction, and `die` when it throws |
| `Reply`, `LoopFails`, `LoopAgain` | acks and frames; the loop's `catch`; its condition and `finally` |

Abstractions: a transaction is the request that made it; `conn` is roots and
novelty together, a function t -> entry; an entry also records, in the field `by`
that no guard reads, which instance assigned it. An operation without an output
behaves like a plain transaction, since its ack is not persisted. Whether policy
and schema accept a transaction is nondeterministic. `NoId` (no `clientTxId`)
never enters an ack map.

`effects`, `outcome`, `reply` and `told` are what the outside has seen: operation
bodies run, promises settled, frames broadcast. `crashes` and `faults` count
instances ended and storage calls failed, and carry their bounds.

### Database

`Database` extends `Transactor`: `DbBoot` boots from `meta.root`, `DbEnd` ends the
run with the instance, `DbSchedule` sets the alarm after a batch; the other
writer steps are taken as they are.

A run is `StartRun` (slice chosen, `ix` leaves `idle`), `PutLogChunk`, `MergePut`
(the new nodes), `MergeDone` (the connection's roots and novelty replaced),
`PutRoot`, `FlipCurrent`, `Adopt` (meta.root and the pruning, in one turn),
then the collection or `EndOfRun`. A collection is `GcStart` (list the roots, mark),
`GcList`, `GcDelete`, `GcDropRoots`. `RunFails` is a failed call to the bucket
anywhere in the run.

A tree is the function t -> entry it stores; its nodes are one top and one leaf
per t, so that two trees share the leaves of their common entries as the merge
shares what it does not touch. Node names are content hashes, so a node is its
content.

A batch that is being resolved may wait for a node that is not in the cache, and a run
may begin there, as `POST /admin/gc` may begin anywhere. Both are steps of the module.
Two history variables say what has happened: `overran`, that a slice ended in a batch that
was not yet written, and `swept`, that a collection was begun where a run was not done with
its root. What the code does after them is in the first two known divergences; the
properties and theorems are of every behaviour up to there.

### Replica and its sessions

The writer is what `Database` shows of it: `Assign`/`Commit` (an entry is assigned
in memory, then durable and broadcast), `WriterDies`, `PutChunk`, `PublishRoot`,
`IndexerAdopts` (the root record and the pruning of SQL).

| Action | Code |
| --- | --- |
| `SyncStart`, `Connect`, `ConnectFails`, `SyncDone`, `UpstreamDrops` | `sync`, `ensureConnected`, `connectUpstream`, the writer's `onSubscribe`; the close of the socket |
| `HandleRoot`, `HandleGap`, `HandleTx` | `handleFrame`, one handler per socket, in the order of its chain of promises |
| `ReadWriterLog`, `ReadBucket`, `ReadFails`, `ApplyRead` | `fillGap` and `catchUpFromR2`, up to each await and behind it |
| `ApplyFrame`, `Notify` | the entry applied; the sessions told, one after the other |
| `Boot`, `Hibernate`, `Crash` | boot from SQL; hibernation that keeps the sockets and restores their sessions from the attachments (`Restored`); eviction that loses them |
| `AcceptSocket`, `OpenSession` | `upgradeSession`: the socket is accepted, the principal's row awaited, the session made |
| `EarlyConsider`, `EarlyDump` | what a walk does with a socket between the two: a session without a principal, made by `sessionOf` |
| `AskSync`, `TakeSync`, `CloseSession` | the client's `sync`; its socket goes |
| `RunJob`, `Consider`, `Considered`, `PushResync` | the session's queue: a walk over entries with an await at each, the decision for one entry, and a dump |
| `Deliver` | the client applies a frame |

An entry never changes, so it is its t; what it is to the one caller whose access
changes (public, private, a grant, a revoke) is its kind in `log`. Two sessions
share nothing but the replica, and `sessions` has one of them.

There is no `root/current` until the first run publishes one, and a replica adopts it only
if there is one. Until the writer's hello it has no root: it applies entries, serves
none (`Copy` is empty, as /basis and /query answer 503), passes them over in its sessions, and
a restart leaves what it held unread. `strayed` remembers the clients for which a session
without a principal was walked, or whose session was told of entries without a root.

### Overlay

The server commits (`Foreign`, `Land`) and pushes (`TakeSync` and the session's
cursor). The client drafts a write (`Transact` makes an entity, `Run` edits a fact it
sees), pushes its layer (`Push`, behind the await of `processTx`), posts it
(`StartPost`, `Lose`, `TakeAck`, `TakeError`) and follows its stream (`Ask`, `Drop`,
`ApplyTx`, `ApplyResync`, `ReplaceConfirmed`, `Synced`); `LiveRead` is the loop of a
live query in `Db.ts`. A number the client gave an entity it made is replaced by the
server's in the ack (`RemapQueued`: the item's facts and what its operation is on).
Visibility does not change here: that is `Replica`'s.

### Connection, engine, policy

`Orders`, `Views`, `Segments`, `Snapshot`, `Transactions`, `Queries`, `Pulls`, `Policies` and
`Charter` are pure: operators on datoms, trees and clauses. `Connection` gives them state
(`Transact`, `IndexStep`, `Restore`, `Take` of a snapshot that later steps must not
change), and `Reads` a policy, a peer and a writer: `AdminWrite`, `Send` (the
peer checks a member's write against the basis it has) and `Commit` (the
writer checks it again).

### Tokens, Peer, Wire

`Tokens` is the refreshing source: one cached token, one mint shared by its readers,
the epoch that `invalidate` bumps. `Peer` is one isolate: requests arrive, provision
their principal, use the cached basis or ask the replica, forward a write; each await
is a step. `Wire` adds the client: tasks that call over the socket or HTTPS, the
connect (`Dial`, `Opens`, `UpgradeRefused`, `SocketDrops`, `Shutdown`, `Close`), auth
frames and their acks, the ladder of retries, the clock.

### Kernel, Shapes, Forms, Builder, Meanings

`Kernel` has the clauses of a built query and their lowering, `Shapes` what a row is
pulled and read as, `Builder` pipelines and the query values made of them (refined,
enriched, summarised, taken one, paged) and a program that makes and runs them;
`Meanings` says what they mean without clauses.

Between the lowering and the engine a query travels as a form, vectors of words, variables
and data. `Forms` has both ends: `QueryForm` writes it, `QueryFits` and `ParseQuery` read it
clause by clause, with what the parser refuses (a rule that is not there or has another
arity, a cursor that does not fit the order, `:having` on a cell that has no name).
`Builder!Asked` evaluates what is read of what was written, so that `built` fails if a
query arrives as another one.

## Runs

| Run | Shows |
| --- | --- |
| `writers` | acks are durable, replays are the writer's own, a principal's row comes before its writes, refinement of `CommittedLog` |
| `operations` | an operation applies once across restarts; every queued request is answered (fairness) |
| `indexer` | every committed transaction reaches `root/current`, one eviction anywhere (fairness) |
| `faults` | exact roots, reads = stored, chunks cover what was pruned, reachable nodes kept, `root/current` goes forward, refinement with the log pruned; one failed call, one eviction and `/admin/gc` anywhere |
| `replica` | the replica, with a root or without, implements `Follower`, and catches up (fairness) |
| `sessions` | a client told all its session walked shows what its caller may read at that t |
| `data` | the indexes are the facts, snapshots are stable, trees are sound, uniqueness, cardinality and references hold, a restore is faithful |
| `reads` | plans do not change answers, pushdown is the filter, checked writes are what the policy allows, a compiled policy is its document, masks cost no row, pulls reach what they should |
| `pushed` | violation: a `not` that touches another namespace, where pushdown drops rows the filter keeps |
| `overlay` | at rest the client shows the server, a parked live query is fresh, edits land on what they edit |
| `built` | what is built, lowered, evaluated and read back is what the stages say |
| `wire` | tokens are current, reads no older than asked, the session's principal is its socket's, a close is final, every call ends (fairness) |

`pushed` is the one violation: the finding in `PROJECT.json` quotes the sentence it
contradicts. The others known are listed below.

Some properties are as weak as the code. `OpAppliedOnce` allows a second write of a key
whose first writer was told of an error: when `ackDatoms` fails the entry is already
part of the batch. `AckIsDurable` speaks of replays only once the original is
acknowledged. `CurrentNeverRegresses` is about `root/current` before a call has failed:
a failed `publishRoot` leaves the connection's roots ahead of `meta.root`, so a later
run publishes a higher root, and a crash before its adoption makes the next instance
publish a lower one again. `EditsLand` speaks of edits that were
pushed behind the layer of the write that makes their entity, and of the time in which
no number the client minted is another entity's too. `MasksOnlyRedact` asks for an
unmasked required field at each level, since a row of which all is masked is no row.
`PolicyIsFilter` leaves out the queries of `pushed`. The properties of `Database` hold until
`overran` or `swept`; `ShowsView` is of the clients that have not `strayed`;
`PrincipalIsSockets` leaves out a socket on which swaps of different principals overlapped,
until one has run alone (`crossed`), and is of what the acks say. `ConstraintsHold` is of
the facts that stay (`Kept`): not those that a later form of the transaction that asserts
them takes back. `BuiltMeansSaid` and `SummariesAreMeant` honour `one()` and `oneOrFail()` in every
value but those that drop them with the cursor (`TakeDropped`). `AckedMeansDurable`
(`Transactor`), `IndexFindsFacts` (`Connection`), `TreesMayEnd` and `EmptyRowIsEmpty`
(`Meanings`) are statements the documentation makes and the code does not keep; no
run checks them, the divergences below say what happens.

### Bounds

- *writers*: four requests of two principals: a write, its retry, a write without
  an id, a foreign write with the first one's id, one provisionable principal.
  That is the least with which a replay can meet its original in every place (queue,
  same batch, `recentAcks`), with a batch that has both a replay and a new write.
  One eviction and one fault: a second adds no new kind of interference with
  the durable state, since an instance starts from it alone.
- *operations*: an operation, its retry, an operation that writes nothing,
  a /provision. `MaxBatch = 1` so that a queue remains behind a batch. `Limit` is
  256 in the code; 2 and 3 here are such that no id is evicted.
- *indexer*, *faults*: with the bootstrap two writes are three t's; slices have two, so
  that a run leaves a rest and a second one meets the first one's chunk, root and nodes. A
  tail of zero or one row, one or two retained roots, a collection after each run, and in
  `faults` one that anybody asks for. The requests of `faults` differ in nothing, so they are
  symmetric; it stops where a slice has overrun a batch (`SlicesAreWritten`), of which its
  properties say nothing.
- *replica*: two entries, two sockets, one restart, one failed read and one death of the
  writer: a frame, a gap fill and a chunk of the same t can all be under way at once, and a
  restart meets entries held without a root.
- *sessions*: three entries around a grant (granted, shown, revoked; private before the
  grant), one client that opens twice. `Focused` explores the three entries over one
  upstream socket without restarts and failures, and two (one after a chunk or a failure)
  with a second upstream socket, a restart or hibernation while sessions are open and a
  failed read.
- *data*: `LeafSize = Fanout = 2`, so that a few datoms make a tree of three levels, three
  transactions out of a family that meets each branch of `tx.ts` modelled (with one that
  writes a fact twice, and one that points at an entity and drops it), two index steps and
  one restore between them.
- *reads*, *pushed*: every database that the family of writes reaches by t = 4,
  `VisibleSetMax = 1` so that both sides of the limit happen, `RetractCap = 6`.
- *overlay*: two writes of the client and a foreign one (whose entity takes the number
  the client gave its own), two attempts, one lost socket, one resync.
- *built*: sixty pipelines, one wrap, three pages; `LeafSize = 50`: trees are `data`'s.
- *wire*: two tasks, loads of one or two calls each, a token that lives two ticks, a TTL of one:
  a basis and a token can each expire while somebody uses them.

Deadlock checking is off in every run: requests, writes and calls are finitely many, and
a system that has answered all of them is at rest.

### Fairness

- `Transactor!FairSpec`: weak fairness of the loop (the event loop of a live instance runs
  what is ready, and each await it waits for settles), of `Boot` (the callee
  of a request is booted), of `Discard` (the runtime discards what `abort`ed) and
  of `ProvisionSubmit` (an await that settles). None of callers, failures or
  crashes. `WF(Loop)` does not choose between success and failure of a step.
- `Database!DbFairSpec` adds weak fairness of the alarm (the runtime fires it), of an index
  run and of the collection (their awaits settle), and of `DbBoot`: a crash between the
  write and `setAlarm` leaves no alarm, and only the next boot sets one, so somebody
  must go on using the database. `Indexed` is checked without failed calls: after
  a failed publish, `runOnce` sees nothing to do until the next commit
  (`conn.t <= currentRoots.t`).
- `Replica`: the handlers' awaits settle, a request comes again (`Connecting`), a session's
  queue runs and a frame on an open socket arrives. Sockets need not drop, reads need
  not fail, the writer need not commit.
- `Wire`: tasks and requests run on, a mint and an upgrade are answered one way or the
  other, a shutdown comes to its end. No call need be made, nothing need be
  lost and time need not pass.

## Proofs

Each theorem holds for every value of the constants under the named `ASSUME`s of the
modules; hypotheses beyond those are in the table. "Run" names the run that
checks the same property on a small instance; the properties without one are proved only.

| Module | Theorem | States | Run |
| --- | --- | --- | --- |
| `TransactorProofs` | `Invariance` | `Spec => []IInv` | |
| | `TypeCorrect` | `TypeOK` | writers |
| | `LogIsDense` | `DenseLog` | |
| | `MemoryFollowsLog` | `MemoryIsLogPlusBatch` | |
| | `BroadcastsAreDurable` | `BroadcastIsDurable` | |
| | `LogGrows` | `LogOnlyGrows`, an action property | |
| | `RememberedAcksAreDurable` | `RememberedIsDurable` | |
| | `AcksAreDurable` | `AckIsDurable` | writers |
| | `PromisesSettleOnce` | `SettlesOnce`, an action property | |
| | `Refinement` | `ImplementsCommittedLog` | writers |
| `ReplayProofs` | `ReplaysAreOwn` | `ReplayIsOwn` | writers |
| | `RowsComeFirst` | `ProvisionedFirst` | writers |
| | `OpsApplyOnce` (`NoEviction`) | `OpAppliedOnce` | operations |
| | `InstanceAppliesOnce` (`NoEviction`) | `AppliedOncePerInstance` | |
| `DatabaseProofs` | `DbInvariance` | `DbSpec => [](~overran => DbIInv)` | |
| | `ReadsAreOfStored` | `ReadsAreStored` | faults |
| | `PrunedIsInChunks` | `CatchUp` | faults |
| | `CurrentGoesForward` | `CurrentNeverRegresses`, an action property | faults |
| | `CollectInvariance` | `DbSpec => [](~overran /\ ~swept => CollectInv /\ NodesInv)` | |
| | `PublishedRootsAreStored` | `PublishedIsStored` | faults |
| | `ReachableStays` | `ReachableIsKept` | faults |
| | `DbRefinement` | `StoredImplementsCommittedLog` | faults |
| `ReplicaProofs` | `ReplicaInvariance` | `Spec => []ReplicaInv` | |
| | `ReplicaFollows` | `ImplementsFollower` | replica |
| `SessionProofs` | `SessionsShowViews` | `ShowsView` | sessions |
| `OverlayProofs` | `OverlayInvariance` | `Spec => [](LogInv /\ OverlayInv /\ LiveIsFresh)` | |
| | `SettlesOnServer` | `SettledIsServer` | overlay |
| | `ParkedIsFresh` | `LiveIsFresh` | overlay |
| | `EditsFollowTheirEntity` | `EditsLand` | overlay |
| `WireProofs` | `ReadersGetTheirTenant` | `TokenIsCurrent` | wire |
| | `AnswersAreFresh` | `ReadsAreFresh` | wire |
| | `SessionSaysWho` | `PrincipalIsSockets` | wire |
| | `CloseIsFinal` | `ClosedLeaksNothing` | wire |
| `ViewsProofs` | `ViewIsWhatHolds` (`History`, `Cuts`) | `CurrentView` is what holds as of a t | |
| | `CollapseIsWhatHolds` (`History`) | `CollapseCurrent` is what holds as of a t | |
| | `ViewsAgree` (`History`, `Cuts`) | both are equal | |
| | `UnionIsSorted` (`Sorted`) | `SortedUnion` is in order and has the datoms of both, each once | |
| | `MergeIsUnion` (`Sorted`, `Cuts`) | `MergeChunks` cuts up the `SortedUnion` of scan and novelty | |
| | `ReadsAreNewest` (`Sorted`, `Cuts`) | a streamed read is `Holding`, in order | |
| | `BatchIsRead` (`Sorted`, `Cuts`) | a batched seek reads the same | |

What a property sets apart (`overran`, `swept`, `strayed`, `crossed`) is a history variable in its
own statement and no hypothesis: each theorem is of every behaviour. The hypotheses:

- `NoEviction`: the replay keys in use are finitely many and at most `Limit`. It holds in
  `operations` (two keys, `Limit = 2`); with eviction an operation
  may apply twice, the fourth known divergence.
- `History`: the datoms of one fact lie together, as every index order has it
  (`SortedIsHistory`). `Cuts`: the chunks, none empty, are that history one after the other, as
  a scan yields it. `Sorted`: what a scan yields and the novelty are each in the order of the
  index, none twice. Of the trees `data` checks it (`TreesAreTrue`); novelty starts empty and
  grows by its `SortedUnion` with the sorted datoms of a transaction (`NoveltyAdd`), and a read
  takes a part of it (`NoveltyRange`).

### The writer

`IInv == TypeInv /\ LogInv /\ FlightInv /\ AckInv`.

- `TypeInv`: types, and that the phases of the loop which look at the head of the
  batch or the queue find one there.
- `LogInv`: the log's domain is `1..n`; a live instance's memory is the log merged with
  the entries of the batch, whose t are exactly those after the log's last; outside a batch
  there are none. `DenseLog` alone is not inductive: that `Write` keeps it dense needs the
  batch to start right after the log, which needs memory to follow the log, which needs
  the death of the instance whenever a write fails.
- `FlightInv`: each request is in at most one place (queue, batch, acks), and pending
  while it is there. That is why nothing settles twice, also when `Die`
  rejects the batch and the queue.
- `AckInv`: an ack that waits for delivery, or that the batch remembers, is of an
  entry of the batch at its t; an ack in a map, in meta or given to its own
  writer is of a row of the log. The awaited write turns the first kind into the
  second, all at once.

The ack maps are folded by a recursive function (`SetAll`); that it only ever holds old or
new acks is proved by well-founded descent on the length of the prefix. The refinement maps
an answered write to its own t and a batch to one `Commit`; every other step stutters or is
an `Answer`.

`ReplayProofs` adds three invariants on top of `IInv`. `OwnInv`: every ack, wherever it is
kept, stands under the replay key of the request it is of. `ProvisionInv`: each write in
memory by a provisionable principal has the principal's row before it, and between
`ProvisionItem` and the write there is such a row. `OnceInv == MapsInv /\ LoggedInv /\ MadeInv`:
each map has one ack a key and room for all; what was logged and not told an error is remembered by the map that
its replay will ask (`recentAcks` for this instance's writes, meta's acks for operations,
which a boot loads); what the batch has made is in `batchAcks`, so a key at the head of
the batch that passed the check has no entry.

### The database

`Writer == INSTANCE TransactorProofs WITH log <- Stored`: what is stored, the root in meta
and the rows above it, is the log of a writer without an indexer. Every step of `Database`
is a step of `Transactor` on it or leaves it alone, so `Writer!IInv` holds of it without a
second proof, and so does the refinement of `CommittedLog`. The indexer's own part says
how far each copy has come along `Stored`: `RowsInv` (meta.root and the rows), `IndexInv` (the
trees of the live connection and the slice of the run), `ChunkInv` (the chunks cover what
those trees hold), `PublishInv` and `ForwardInv` (the roots and `root/current`), `CollectInv`
and `NodesInv` (what a collection marked is what is retained until its last delete,
since nothing is published in between). The invariants are of states with `~overran`, the last
two with `~swept` too; both variables only rise, so a step into such a state comes from one.

### The replica and its sessions

`ReplicaInv`: the root and the entries are one dense run of the log, in memory and in SQL, where
a boot without a root may have left more of the log than memory holds (`CopyInv`); frames, lists
read and roots on their way are of the log. Refinement of `Follower` then needs of each step that
what is served keeps its prefix and grows, which a restart without a root does as nothing is
served.
The lemmas on order (`Ascending`, `Above`) are proved from the least element of a set of
naturals, not by an induction over sequences.

`SessionsInv` follows each client through the states it will go through when it applies the
frames on their way: in each, the client holds the view at its cursor and what was
pushed since, over which the caller's access did not change. The last of them is what the
session relates to: it has walked past nothing readable that the client lacks
(`Walked`), a dump being read is of a t the client does not go back to (`Dumps`), and an
answered `sync` means that all was walked or the walk that covers it is queued (`Told`,
`Owed`). `WalkInv`: handlers pass on what the replica has. `Kept`: no step changes
what was readable at a t the replica has. `EarlyOK`: no attachment of a client that has not strayed
holds a session without a principal, so what hibernation restores is the session itself. All of
it is of the clients that have not strayed; TLC checked it on small instances before it was proved.

### The overlay

`OverlayInv == FollowerInv /\ WritesInv /\ QueueInv /\ EntityInv`, checked by TLC on the
`overlay` instance (8,373,717 states) and on one of three writes before it was proved.

- `FollowerInv`: what is painted is a dump of `1..b` with every later entry whose t is
  painted, and no hole up to the cursors. At rest that is the whole log, and a dump says
  of every fact what its datoms say, whatever came twice or was covered in between.
- `EntityInv` follows the number of an entity the client made through drafts, layers,
  the queue of posts and the log (`NumbersInv`): while no number stands for two entities,
  it is the layer's as long as the layer is on and the server's after the ack; a write
  behind another is posted after it (`OrderInv`); a resync leaves nothing that goes by a
  layer it took (`ResyncInv`).

TLC's counterexample with three writes showed that `EditsLand` must speak of edits whose fact
is of a write that *makes* the entity; an edit of an edit goes by the same entity but not by
its number's layer.

### The wire

`TokenInv`: each attempt under way has a reader that waits for it (so the attempts never run
out), what is cached and what is shared is of this epoch, nothing is handed out that was
minted before its reader read. `PeerInv`: a basis is recent when it is used, whatever became of
the cache. `QueueInv`: unless swaps crossed, the last ack on the wire names the principal of the
replica's end, and when none is on its way the last that came did; a swap that runs alone makes
it so again. `FlagsInv`: what `closed`, the connect and
the socket allow together.

### The views

A collapse has read n datoms of a history. What it has put out is, in order, the datoms that
count of those n (`Live`: the last visible of their fact, and assertions), but for what it keeps
back, and that is one of three things: nothing, and every fact visible so far is over (`AtRest`);
the newest visible datom (`Pends`); a whole chunk of datoms that all count (`Holds`). A datom
(`TakeDatomSteps`), the opening of what is kept back by the next chunk's first datom
(`OpenHeldSteps`, `EndPendingSteps`) and a chunk passed through (`PlainIsLive`) keep this. That
a chunk may be passed through rests on the facts being together: a plain chunk has no two
neighbours of one fact, so no two datoms of one. The loops are folds; `FoldExists` and `UpTo` do
the induction, from the least-number principle. What is picked in order from given places is one
sequence (`PicksUnique`), hence `ViewsAgree`.

What a reader is given is such a history. The four orders are one lexicographic order of five
numbers (`CompareIsLex`): total, strict, and with nothing between two datoms of a fact but
datoms of that fact (`BeforeIsOrder`). A sorted union that has come to i and j has put out, in
order, what is before them, and all of it sorts before what is left (`UnionAt`). A merge that
has come to the end of a chunk has put out the datoms of the scan up to there and the novelty
not after its last datom (`ThroughSplits`), cut into chunks, and all of it sorts before what is
left of both (`MergeAt`); that the novelty taken is neither too little nor too much for the next
chunk is what `MergedFurther` shows. Sorted sequences of the same datoms are equal
(`SortedUnique`), so the chunks are the sorted union, cut up. In an order where the datoms of a
fact are by t, and a retraction before an assertion of the same t, what is live is what no later
datom of its fact follows (`LiveIsHolding`).

### Only model-checked

- Liveness under fairness (`Answered`, `Indexed`, `CatchesUp`, `EveryCallEnds`), and with
  it ENABLED: out of the prover's reach.
- The invariants of `data`, `reads` and `built`. Their modules (`Segments`, `Transactions`,
  `Connection`, `Queries`, `Policies`, `Charter`, `Pulls`, `Reads`, `Kernel`, `Shapes`,
  `Forms`, `Builder`, `Meanings`; `Snapshot` through `Segments`) have RECURSIVE operators, which
  the prover does not take, and most of what they state is an induction over data (what
  a tree merge, a plan or a lowering computes for every input). The part of it that is
  proved is what loops over sequences: the sorted union, the merge of novelty into a scan and
  the collapse of history (`ViewsProofs`). That the scan yields the datoms of the tree is not.

## Known divergences

Where the code disagrees with its documentation, comments or tests, or with itself. The one
that `pushed` shows is a finding in `PROJECT.json`; the others, met while modelling, have no run.

- `overran`: `indexer.ts:95` ends a slice at `conn.t`, which counts a batch that is being
  resolved, while the slice is read from the SQL log. The batch is merged into a root that is
  published and adopted, and is in no chunk (`indexer.ts:99`: "replicas can always catch up from
  log/ chunks"), also when it is written later: its rows may be pruned. When its write fails, the
  next instance boots from that root with the batch in it.
- `swept`: `/admin/gc` does not look at a run in progress (`storage/index.ts:379`): it deletes the
  nodes the run has put since the mark (`:372` "never deleted (in-flight index runs)"), and the
  nodes of the empty first root, which is in meta only (`:387`, `:371`).
- A transaction that asserts a fact and then takes it back (`[add e a 1] [add e a 2]`, or a
  reference to an entity it retracts) emits add before retract at one t; `datom.ts:213-215` sorts
  the retract first, so the fact is still read: two values of an attribute of cardinality one, or a
  reference to what is gone (`tx.ts:419`: "are dropped too").
- A duplicate id in one batch is answered before the write (`transactor.ts:434`), so an ack may
  be of a write that then fails (`architecture.mdx:47`).
- An operation that only `recentOpAcks` remembers is not found by the check at dequeue
  (`transactor.ts:432`) and gets a second t (`:159`).
- A plain id is forgotten by a restart (`transactor.ts:217`, `server.mdx:29`); a denied write's
  provisioning spends a t (`:439`, `transactions.mdx:147`); two concurrent calls of one operation
  both run its body (`worker/index.ts:281`, `operations.test.ts:147`).
- A failed boot leaves `ready` rejected (`transactor.ts:188`), and /provision answers from memory,
  before the write (`:475`).
- `root/current` can go back after a failed publish and a crash (`indexer.ts:71-120`).
- An attribute flagged as indexed after it has facts has an AVET without them
  (`conn.ts:223`, `engine.ts:1136`; `catalog.mdx:94`, `:138`).
- A replica without a root (`replica-do.ts:217-220`, `:235-238`) applies and walks entries: its
  sieve skips each (`:297`), the cursors move past what the client may read, and nothing heals
  that client later; a dump is empty, of t 0 (`:315`). `boot` (`:103-107`) leaves its SQL unread.
- `upgradeSession` accepts the socket before the principal is known (`:481-486`), and a walk in
  between makes it a session without one (`:366-374`, `:389`): that starts at 0, so entry 1 goes out
  whole (`session-sync.ts:169`) and a later one is a hole, answered with the dump anybody may
  read. Its state may overwrite the attachment (`:392`), and hibernation then restores a session
  without a principal.
- The `auth` frames of one socket are not serialised (`replica-do.ts:491-496`), and a swap awaits
  three times before its ack (`worker/session.ts:421-432`): two that overlap may be acked in
  either order, and the client then reports the principal of the one acked last, which need not
  be the socket's.
- The sessions of a replica that adopts a root beyond its basis stay behind it
  (`session.ts:128`), and a client that followed another region's replica may be ahead
  (`session.ts:316-322`).
- An edit that is being drafted (`overlay.ts:621-644`, `720-800`) when the ack of the write
  that makes its entity arrives keeps the local number: `remapQueued` (`:418-451`)
  rewrites pushed layers only. It is then posted with that number, and lands on another
  entity when the server's differs.
- `peer.ts` and `worker/index.ts:371`: "a write through this Worker must be visible to this
  isolate's next cached read", but a basis fetch begun before the write may insert an older
  basis after it. `errors.mdx:54`: "nothing landed", but an answer may be lost behind the commit.
  `Databases.ts:315-323` reads the generation after the answer it belongs to. The header of
  `db/session.ts` ("Nothing standing is torn down by that swap"): an expired principal closes the
  socket even if an `auth` came in between. Attempts over HTTPS reuse the token
  read before the first one (`errors.mdx:63`).
- `finalizeRows` (`query.ts:1185`) answers an empty set with a row also when `:having`
  removed the group (`:1271`). A query that has recursed to a required `again` field drops the
  row whose tree ends (`shapes.ts:706-709`, `catalog.test.ts:229`). `one()` or
  `oneOrFail()` after `logic()` is dropped with the cursor (`query.ts:1338`): every row is answered,
  where at most one, or exactly one or `NotOne`, is documented (`query.ts:222-232`; `:215-217` is
  of a cursor that came before). `Q.not` before the facts that name the
  same entities is order-dependent. A text constant "_" or "?x" lowers to a blank or a variable
  (`parse.ts:8`). A full last page has a cursor (`client-api.mdx`).
- An attribute with an empty list of arms is skipped, not denied. A fragment that does not
  bind its focus works for writes (`policy.test.ts:38-69`) and fails in a read's visible set
  (`eval.ts:373-407`). `checkPulls` does not look at the `where` and `order` of a collection.

## Not modelled

- React bindings, the Better Auth plugin, deployment, telemetry: state that is React's, a
  library's or nobody's; reasons in `PROJECT.json`.
- Encodings (segments, nodes, EDN, JSON), the node cache tiers, budgets and statistics.
- Writer: puts of a dead instance that reach R2 after its successor has started; two
  collections at once; `LIMIT 100_000` of `readLogEntries`; SQL writes outside the batch
  transaction that fail halfway.
- Data: an attribute's type, cardinality and component flag are static, index and unique flags
  are not; idents are their ids; the instant of a transaction is 0. Pulls: the default limit of a
  collection.
- Sessions: ping, the caps on frames, a second client with another caller, a socket the client
  closes and whose handler goes on with a session nobody can reach. Overlay: changes of
  visibility, raw numeric references.
- Wire: verification of a token is one step that holds for its lifetime; `/op` is the
  writer's; upstream errors are 500 or 503; an upgrade is one step; handlers
  that go on for a socket that has dropped and still provision; that `principal()`
  (`Databases.ts:315-323`) tells the same as the socket (`PrincipalIsSockets` is of the acks). Tokens: the fixed token, a
  token without expiry, `claims()`.
- Builder: text constants, wildcard shapes, names of fields, regular expressions. Forms: the
  texts of EDN, `:in` and `:keys`, find specs other than a relation, pulled cells, combinations
  of predicates in `:having`.

## Plan

Done: the writer, the indexer, the replica and its sessions, the overlay, the wire, data,
queries, policy and builder, each with its run; proofs of the safety of all but the last four.
Left, in this order:

1. The RECURSIVE operators of `Segments` and `Transactions` as recursive functions, so that of
   `Connection` what needs no induction over trees can be proved: snapshots are stable,
   uniqueness and cardinality.
2. The find specs of `query/parse.ts`, `db/Db.ts` (standing reads), `db/Pull.ts`, `db/Tx.ts`.
3. What a database does after `overran` and `swept`, where something of it is still promised.
