----------------------------- MODULE Transactor -----------------------------
(***************************************************************************)
(* The single writer of one database: internal/transactor/transactor.ts    *)
(* with the Connection it owns (internal/core/conn.ts).                    *)
(*                                                                         *)
(* A request is queued, the commit loop takes everything queued as one     *)
(* batch, resolves it request by request (each assigns the next t in       *)
(* memory), writes the whole batch to the SQL log in one storage           *)
(* transaction, answers the writers and broadcasts the entries.  Every     *)
(* `await` of the loop is a point where another handler, or the death of   *)
(* the instance, may come in between, so each stretch between two awaits   *)
(* is an action.                                                           *)
(*                                                                         *)
(* This module has no indexer: the roots are the empty roots of a fresh    *)
(* database and a boot replays the whole log.  Database.tla extends it     *)
(* with the indexer, the published roots and the pruning of the log.       *)
(***************************************************************************)
EXTENDS Integers, Sequences, FiniteSets

CONSTANTS
  Requests,       \* the calls of transact, /provision and POST /op-ack
  Principals,     \* writers, as the Worker verified them
  Ids, NoId,      \* clientTxIds, and "no clientTxId"
  Kind,           \* [Requests -> {"tx", "op", "system", "emptyOp"}]
  Who,            \* [Requests -> Principals]
  ClientTxId,     \* [Requests -> Ids \cup {NoId}]; a retry is another request
  Provisionable,  \* principals with shouldProvision under the deployed policy
  NoAck,
  Limit,          \* RECENT_CLIENT_TX_LIMIT
  MaxBatch,       \* host.config.maxBatch, 0 = unbounded
  MaxCrashes,     \* bound: no eviction once this many instances have ended
  MaxFaults       \* bound: how many storage calls of the loop throw

ASSUME RequestAssumption ==
  /\ Kind \in [Requests -> {"tx", "op", "system", "emptyOp"}]
  /\ Who \in [Requests -> Principals]
  /\ ClientTxId \in [Requests -> Ids \cup {NoId}]
  /\ NoId \notin Ids
  /\ \A r \in Requests : Kind[r] = "system" => ClientTxId[r] = NoId
  /\ \A r \in Requests : Kind[r] = "emptyOp" => ClientTxId[r] # NoId
  /\ Provisionable \subseteq Principals

ASSUME BoundAssumption ==
  /\ Limit \in Nat \ {0}
  /\ MaxBatch \in Nat /\ MaxCrashes \in Nat /\ MaxFaults \in Nat

Ack == [t : Nat, of : Requests]
ASSUME NoAckAssumption == NoAck \notin Ack

VARIABLES
  \* Durable: the SQL tables log and meta.
  log,            \* rows of table log: t -> entry
  metaAcks,       \* meta.op_acks, oldest first
  \* The instance.
  inst,           \* "down", "up", "dead" (die), "poisoned" (boot rejected)
  conn,           \* the Connection: t -> entry (roots and novelty together)
  basisT,         \* conn.t
  recentAcks,     \* Map replay key -> ack, in insertion order
  recentOpAcks,   \* the same for operation acks
  queue,          \* requests waiting for a batch
  \* The commit loop; committing is pc # "idle".
  pc,
  batch,          \* requests of this batch still to be resolved, head first
  entries,        \* log entries of this batch: t -> entry
  acks,           \* requests of this batch with an ack to deliver, and it
  batchAcks,      \* Map replay key -> ack of this batch
  \* What the callers and the subscribers have been told.
  outcome,        \* request -> how its promise stands
  reply,          \* request -> the ack its promise resolved with
  effects,        \* operation requests whose body the Worker has run
  told,           \* every <<t, entry>> ever broadcast
  \* How many instances have ended, and how many storage calls have failed.
  crashes, faults

durable == <<log, metaAcks>>
loopVars == <<batch, entries, acks, batchAcks>>
memory == <<conn, basisT, recentAcks, recentOpAcks, queue, loopVars>>
callers == <<outcome, reply, effects>>
vars == <<durable, inst, memory, pc, callers, told, crashes, faults>>

-----------------------------------------------------------------------------
(* Log entries, replay keys and the two ack maps.                          *)

\* by says which instance assigned the t; no code reads it.
Entry == [op : {"boot", "tx", "provision"},
          req : Requests \cup {NoId}, by : Nat]
BootEntry == [op |-> "boot", req |-> NoId, by |-> 0]

\* clientTxReplayKey.  Mutant: the id alone.
IdAsKey(r) == <<CHOOSE w \in Principals : TRUE, ClientTxId[r]>>
ReplayKey(r) == <<Who[r], ClientTxId[r]>>

OpOf(r) == IF Kind[r] = "system" THEN "provision" ELSE "tx"

\* The writer's principal row, as conn.db() shows it.
ProvisionedIn(db, w) ==
  \E t \in DOMAIN db : /\ db[t].op = "provision"
                       /\ Who[db[t].req] = w

Keys(map) == {map[i].k : i \in DOMAIN map}
\* Mutant: the entry of the map instead of its value.
LookupEntry(map, k) == map[CHOOSE i \in DOMAIN map : map[i].k = k]
Lookup(map, k) == map[CHOOSE i \in DOMAIN map : map[i].k = k].ack

\* Map.set: a key already there keeps its place.
MapSet(map, k, a) ==
  IF k \in Keys(map)
  THEN [i \in DOMAIN map |-> IF map[i].k = k THEN [k |-> k, ack |-> a] ELSE map[i]]
  ELSE Append(map, [k |-> k, ack |-> a])

\* The newest n keys: FIFO eviction, and slice(-n).
Newest(map, n) == IF Len(map) > n THEN SubSeq(map, Len(map) - n + 1, Len(map)) ELSE map

\* The acks of the requests in who, set one after the other, the map cut to
\* n keys after each.
SetAll(map, new, who, n) ==
  LET after[i \in 0..Len(new)] ==
        IF i = 0 THEN map
        ELSE IF new[i].ack.of \in who
             THEN Newest(MapSet(after[i - 1], new[i].k, new[i].ack), n)
             ELSE after[i - 1]
  IN  after[Len(new)]

\* rememberAck, for each of the acks.
RememberAll(map, new, who) == SetAll(map, new, who, Limit)

\* Only the ack of an operation with an output persists (one without an output
\* is a "tx" here).  Mutant: only those that /op-ack records.
RecordedOperations == {r \in Requests : Kind[r] = "emptyOp"}
Operations == {r \in Requests : Kind[r] \in {"op", "emptyOp"}}

Merge(f, g) == [t \in DOMAIN f \cup DOMAIN g |-> IF t \in DOMAIN g THEN g[t] ELSE f[t]]
MaxOf(S) == CHOOSE m \in S : \A x \in S : x <= m

EmptyDb == [t \in {} |-> BootEntry]
Row(t, e) == [x \in {t} |-> e]

-----------------------------------------------------------------------------
(* Boot and death of an instance.                                          *)

Init ==
  /\ log = Row(1, BootEntry)
  /\ metaAcks = <<>>
  /\ inst = "down"
  /\ conn = EmptyDb /\ basisT = 0
  /\ recentAcks = <<>> /\ recentOpAcks = <<>>
  /\ queue = <<>> /\ pc = "idle"
  /\ batch = <<>> /\ entries = EmptyDb /\ acks = <<>> /\ batchAcks = <<>>
  /\ outcome = [r \in Requests |-> "new"]
  /\ reply = [r \in Requests |-> NoAck]
  /\ effects = {} /\ told = {}
  /\ crashes = 0 /\ faults = 0

\* Mutants of boot: the first row above the root is skipped; the tables are
\* set up as those of a fresh database.
BootSkipsRow(rootT, rootDb) ==
  LET rows == {t \in DOMAIN log : t > rootT + 1}
  IN  /\ inst = "down"
      /\ inst' = "up"
      /\ conn' = Merge(rootDb, [t \in rows |-> log[t]])
      /\ basisT' = MaxOf(rows \cup {rootT})
      /\ recentOpAcks' = metaAcks /\ recentAcks' = metaAcks
      /\ UNCHANGED <<durable, queue, pc, loopVars, callers, told, crashes, faults>>

BootAfresh(rootT, rootDb) ==
  /\ inst = "down"
  /\ inst' = "up"
  /\ log' = Row(1, BootEntry)
  /\ conn' = log' /\ basisT' = 1
  /\ recentOpAcks' = metaAcks /\ recentAcks' = metaAcks
  /\ UNCHANGED <<metaAcks, queue, pc, loopVars, callers, told, crashes, faults>>

\* boot: the connection is the roots, and the log rows above them; the acks of
\* operations come back from meta, every other replay id is forgotten.
BootFrom(rootT, rootDb) ==
  LET rows == {t \in DOMAIN log : t > rootT}
  IN  /\ inst = "down"
      /\ inst' = "up"
      /\ conn' = Merge(rootDb, [t \in rows |-> log[t]])
      /\ basisT' = MaxOf(rows \cup {rootT})
      /\ recentOpAcks' = metaAcks
      /\ recentAcks' = metaAcks
      /\ UNCHANGED <<durable, queue, pc, loopVars, callers, told, crashes, faults>>

Boot == BootFrom(0, EmptyDb)

\* A read of the object store failed during boot: the rejected promise stays
\* in this.ready, so the instance answers every later request with the error.
BootFails ==
  /\ inst = "down"
  /\ faults < MaxFaults
  /\ inst' = "poisoned"
  /\ faults' = faults + 1
  /\ UNCHANGED <<durable, memory, pc, callers, told, crashes>>

Fresh ==
  /\ inst' = "down"
  /\ conn' = EmptyDb /\ basisT' = 0
  /\ recentAcks' = <<>> /\ recentOpAcks' = <<>>
  /\ queue' = <<>> /\ pc' = "idle"
  /\ batch' = <<>> /\ entries' = EmptyDb /\ acks' = <<>> /\ batchAcks' = <<>>

\* A caller whose promise never settles learns nothing.
Abandon == outcome' = [r \in Requests |->
                         IF outcome[r] \in {"pending", "preparing"}
                         THEN "lost" ELSE outcome[r]]

\* The runtime evicts or loses the instance between two awaits.
Crash ==
  /\ inst \in {"up", "poisoned"}
  /\ crashes < MaxCrashes
  /\ Fresh /\ Abandon
  /\ crashes' = crashes + 1
  /\ UNCHANGED <<durable, reply, effects, told, faults>>

\* host.abort: the runtime discards the instance that died.
Discard ==
  /\ inst = "dead"
  /\ Fresh /\ Abandon
  /\ crashes' = crashes + 1
  /\ UNCHANGED <<durable, reply, effects, told, faults>>

\* Mutant: the promises are rejected, the instance goes on with its in-memory t.
DieAlive(inflight) ==
  /\ outcome' = [r \in Requests |->
                   IF \E i \in DOMAIN inflight : inflight[i].of = r
                   THEN "failed" ELSE outcome[r]]
  /\ pc' = IF queue # <<>> THEN "open" ELSE "idle"
  /\ faults < MaxFaults
  /\ faults' = faults + 1
  /\ UNCHANGED <<durable, inst, memory, reply, effects, told, crashes>>

\* die: the in-flight promises and the queue are rejected.
Die(inflight) ==
  /\ inst' = "dead"
  /\ outcome' = [r \in Requests |->
                   IF \/ \E i \in DOMAIN inflight : inflight[i].of = r
                      \/ \E i \in DOMAIN queue : queue[i] = r
                   THEN "failed" ELSE outcome[r]]
  /\ queue' = <<>>
  /\ pc' = "idle"
  /\ faults < MaxFaults
  /\ faults' = faults + 1
  /\ UNCHANGED <<durable, conn, basisT, recentAcks, recentOpAcks, batch,
                 entries, acks, batchAcks, reply, effects, told, crashes>>

-----------------------------------------------------------------------------
(* The callers.                                                            *)

Settle(r, a) ==
  /\ outcome' = [outcome EXCEPT ![r] = "acked"]
  /\ reply' = [reply EXCEPT ![r] = a]

Enqueue(r) ==
  /\ queue' = Append(queue, r)
  /\ pc' = IF pc = "idle" THEN "open" ELSE pc
  /\ outcome' = [outcome EXCEPT ![r] = "pending"]
  /\ UNCHANGED <<durable, inst, conn, basisT, recentAcks, recentOpAcks,
                 loopVars, reply, effects, told, crashes, faults>>

Remembered(r) == ReplayKey(r) \in Keys(recentOpAcks) \cup Keys(recentAcks)
RememberedAck(r) ==
  IF ReplayKey(r) \in Keys(recentOpAcks) THEN Lookup(recentOpAcks, ReplayKey(r))
                                         ELSE Lookup(recentAcks, ReplayKey(r))

\* POST /op-ack without an ack, from the Worker before it runs an operation:
\* a miss lets the body, and its effects, run.
OpLookup(r) ==
  /\ inst = "up"
  /\ outcome[r] = "new" /\ Kind[r] \in {"op", "emptyOp"}
  /\ IF Remembered(r)
     THEN Settle(r, RememberedAck(r)) /\ UNCHANGED effects
     ELSE /\ outcome' = [outcome EXCEPT ![r] = "running"]
          /\ effects' = effects \cup {r}
          /\ UNCHANGED reply
  /\ UNCHANGED <<durable, inst, memory, pc, told, crashes, faults>>

Submittable(r) == \/ Kind[r] = "tx" /\ outcome[r] = "new"
                  \/ Kind[r] = "op" /\ outcome[r] = "running"

Transact(r) ==
  /\ inst = "up"
  /\ Submittable(r)
  /\ ~Remembered(r)
  /\ Enqueue(r)

TransactReplay(r) ==
  /\ inst = "up"
  /\ Submittable(r)
  /\ Remembered(r)
  /\ Settle(r, RememberedAck(r))
  /\ UNCHANGED <<durable, inst, memory, pc, effects, told, crashes, faults>>

\* POST /op-ack with an ack: an operation that wrote nothing is remembered
\* under its id, with the basis the Worker ran it on (here, the basis now).
RecordOpAck(r) ==
  LET a == [t |-> basisT, of |-> r]
      new == <<[k |-> ReplayKey(r), ack |-> a]>>
  IN  /\ inst = "up"
      /\ Kind[r] = "emptyOp" /\ outcome[r] = "running"
      /\ recentAcks' = RememberAll(recentAcks, new, {r})
      /\ recentOpAcks' = RememberAll(recentOpAcks, new, {r})
      /\ metaAcks' = recentOpAcks'
      /\ Settle(r, a)
      /\ UNCHANGED <<log, inst, conn, basisT, queue, pc, loopVars, effects,
                     told, crashes, faults>>

\* POST /provision: the row is looked up in memory, which may be ahead of the
\* log, and the ops go through the queue only when it is not there.
ProvisionLookup(r) ==
  /\ inst = "up"
  /\ outcome[r] = "new" /\ Kind[r] = "system"
  /\ IF Who[r] \in Provisionable /\ ~ProvisionedIn(conn, Who[r])
     THEN outcome' = [outcome EXCEPT ![r] = "preparing"] /\ UNCHANGED reply
     ELSE Settle(r, [t |-> basisT, of |-> r])
  /\ UNCHANGED <<durable, inst, memory, pc, effects, told, crashes, faults>>

ProvisionSubmit(r) ==
  /\ inst = "up"
  /\ outcome[r] = "preparing"
  /\ Enqueue(r)

\* Any request to an instance that died or never booted.
Refuse(r) ==
  /\ inst \in {"dead", "poisoned"}
  /\ outcome[r] \in {"new", "preparing", "running"}
  /\ outcome' = [outcome EXCEPT ![r] = "failed"]
  /\ UNCHANGED <<durable, inst, memory, pc, reply, effects, told, crashes, faults>>

-----------------------------------------------------------------------------
(* The commit loop: one action per stretch between two awaits.             *)

\* takeBatch, after the yield that opened the batching window.
TakeBatch ==
  LET n == IF MaxBatch > 0 /\ Len(queue) > MaxBatch THEN MaxBatch ELSE Len(queue)
  IN  /\ pc = "open"
      /\ batch' = SubSeq(queue, 1, n)
      /\ queue' = SubSeq(queue, n + 1, Len(queue))
      /\ entries' = EmptyDb /\ acks' = <<>> /\ batchAcks' = <<>>
      /\ pc' = "resolve"
      /\ UNCHANGED <<durable, inst, conn, basisT, recentAcks, recentOpAcks,
                     callers, told, crashes, faults>>

\* The next request of the batch, once this one is resolved; then the write,
\* or nothing to write and back to the queue.
AfterItem(es) ==
  /\ batch' = Tail(batch)
  /\ pc' = IF Len(batch) > 1 THEN "resolve"
           ELSE IF DOMAIN es # {} THEN "write"
           ELSE IF queue # <<>> THEN "open" ELSE "idle"

\* Mutant: the acks of this batch are not looked at.
ReplayedByRecent(r) == ClientTxId[r] # NoId /\ ReplayKey(r) \in Keys(recentAcks)

Replayed(r) ==
  ClientTxId[r] # NoId /\ ReplayKey(r) \in Keys(recentAcks) \cup Keys(batchAcks)

\* A second request with a key of this batch, or of an earlier one, is
\* answered on the spot with the ack of the first.
ReplayItem ==
  LET r == Head(batch)
      k == ReplayKey(r)
  IN  /\ pc = "resolve"
      /\ Replayed(r)
      /\ Settle(r, IF k \in Keys(recentAcks) THEN Lookup(recentAcks, k)
                                             ELSE Lookup(batchAcks, k))
      /\ AfterItem(entries)
      /\ UNCHANGED <<durable, inst, conn, basisT, recentAcks, recentOpAcks, queue,
                     entries, acks, batchAcks, effects, told, crashes, faults>>

\* conn.transact: the next t exists in memory, and is part of the coming write.
Assign(r, op) ==
  LET t == basisT + 1
      e == [op |-> op, req |-> r, by |-> crashes]
  IN  /\ basisT' = t
      /\ conn' = Merge(conn, Row(t, e))
      /\ entries' = Merge(entries, Row(t, e))

\* Mutant: only the requests that ask for their row get it.
NeedsProvisionIfSystem(r) ==
  /\ Kind[r] = "system"
  /\ Who[r] \in Provisionable /\ ~ProvisionedIn(conn, Who[r])

NeedsProvision(r) ==
  /\ Kind[r] # "system"
  /\ Who[r] \in Provisionable /\ ~ProvisionedIn(conn, Who[r])

\* The head of the batch is no replay.
ProvisionItem ==
  LET r == Head(batch)
  IN  /\ pc = "resolve"
      /\ ~Replayed(r)
      /\ IF NeedsProvision(r) THEN Assign(r, "provision")
                              ELSE UNCHANGED <<conn, basisT, entries>>
      /\ pc' = "authorize"
      /\ UNCHANGED <<durable, inst, recentAcks, recentOpAcks, queue, batch, acks,
                     batchAcks, callers, told, crashes, faults>>

\* authorize and processTx accept the transaction ...
AcceptItem ==
  /\ pc = "authorize"
  /\ Assign(Head(batch), OpOf(Head(batch)))
  /\ pc' = "ack"
  /\ UNCHANGED <<durable, inst, recentAcks, recentOpAcks, queue, batch, acks,
                 batchAcks, callers, told, crashes, faults>>

\* ... or refuse it (policy, schema, unique conflict): it is rejected alone,
\* its provisioning entry stays in the batch.
DenyItem ==
  LET r == Head(batch)
  IN  /\ pc = "authorize"
      /\ Kind[r] # "system"
      /\ outcome' = [outcome EXCEPT ![r] = "denied"]
      /\ AfterItem(entries)
      /\ UNCHANGED <<durable, inst, conn, basisT, recentAcks, recentOpAcks, queue,
                     entries, acks, batchAcks, reply, effects, told, crashes, faults>>

AckItem ==
  LET r == Head(batch)
      a == [t |-> basisT, of |-> r]
  IN  /\ pc = "ack"
      /\ acks' = Append(acks, a)
      /\ batchAcks' = IF ClientTxId[r] = NoId THEN batchAcks
                      ELSE MapSet(batchAcks, ReplayKey(r), a)
      /\ AfterItem(entries)
      /\ UNCHANGED <<durable, inst, conn, basisT, recentAcks, recentOpAcks, queue,
                     entries, callers, told, crashes, faults>>

\* A read of the object store fails in ackDatoms: the caller gets the error,
\* the entry is in the batch already.
AckItemFails ==
  LET r == Head(batch)
  IN  /\ pc = "ack"
      /\ faults < MaxFaults
      /\ outcome' = [outcome EXCEPT ![r] = "failed"]
      /\ AfterItem(entries)
      /\ faults' = faults + 1
      /\ UNCHANGED <<durable, inst, conn, basisT, recentAcks, recentOpAcks, queue,
                     entries, acks, batchAcks, reply, effects, told, crashes>>

Persists == \E i \in DOMAIN batchAcks : batchAcks[i].ack.of \in Operations

\* ONE storage transaction for the batch: rows and operation acks.  t is the
\* primary key, so a t already in the table fails the transaction.
Write ==
  LET room == Len(recentOpAcks) + Len(batchAcks)
      opAcks == SetAll(recentOpAcks, batchAcks, Operations, room)
  IN  /\ pc = "write"
      /\ DOMAIN entries \cap DOMAIN log = {}
      /\ log' = Merge(log, entries)
      /\ recentOpAcks' = opAcks
      /\ metaAcks' = IF Persists THEN Newest(opAcks, Limit) ELSE metaAcks
      /\ pc' = "reply"
      /\ UNCHANGED <<inst, conn, basisT, recentAcks, queue, loopVars, callers,
                     told, crashes, faults>>

\* Mutant: the loop goes on to the answers.
WriteFailsUnnoticed ==
  /\ pc = "write"
  /\ faults < MaxFaults
  /\ faults' = faults + 1
  /\ pc' = "reply"
  /\ UNCHANGED <<durable, inst, memory, callers, told, crashes>>

\* Nothing landed: the acks of the batch are rejected and the instance dies.
WriteFails == pc = "write" /\ Die(acks)

\* rememberAck, the answers, the broadcast.
Reply ==
  /\ pc = "reply"
  /\ recentAcks' = RememberAll(recentAcks, batchAcks, Requests)
  /\ recentOpAcks' = RememberAll(recentOpAcks, batchAcks, Operations)
  /\ metaAcks' = IF Persists THEN recentOpAcks' ELSE metaAcks
  /\ outcome' = [r \in Requests |->
                   IF \E i \in DOMAIN acks : acks[i].of = r THEN "acked" ELSE outcome[r]]
  /\ reply' = [r \in Requests |->
                 IF \E i \in DOMAIN acks : acks[i].of = r
                 THEN acks[CHOOSE i \in DOMAIN acks : acks[i].of = r] ELSE reply[r]]
  /\ told' = told \cup {<<t, entries[t]>> : t \in DOMAIN entries}
  /\ pc' = "schedule"
  /\ UNCHANGED <<log, inst, conn, basisT, queue, loopVars, effects, crashes, faults>>

\* Mutant: the catch rejects the batch that was just answered.
LoopFailsRejecting == pc \in {"reply", "schedule"} /\ Die(acks)

\* The loop's catch: rememberAck's write, or setting the alarm, threw.  The
\* batch is durable; nobody settles what it has not answered yet.
LoopFails == pc \in {"reply", "schedule"} /\ Die(<<>>)

\* Mutant: the loop ends, whatever was queued while it ran.
LoopEnds ==
  /\ pc = "schedule"
  /\ pc' = "idle"
  /\ UNCHANGED <<durable, inst, memory, callers, told, crashes, faults>>

\* await maybeSchedule, then the loop's condition (or its finally).
LoopAgain ==
  /\ pc = "schedule"
  /\ pc' = IF queue # <<>> THEN "open" ELSE "idle"
  /\ UNCHANGED <<durable, inst, memory, callers, told, crashes, faults>>

Caller(r) ==
  \/ OpLookup(r) \/ Transact(r) \/ TransactReplay(r) \/ RecordOpAck(r)
  \/ ProvisionLookup(r) \/ ProvisionSubmit(r) \/ Refuse(r)

Loop ==
  \/ TakeBatch \/ ReplayItem \/ ProvisionItem \/ AcceptItem \/ DenyItem
  \/ AckItem \/ AckItemFails \/ Write \/ WriteFails \/ Reply \/ LoopFails
  \/ LoopAgain

Next ==
  \/ Boot \/ BootFails \/ Crash \/ Discard
  \/ \E r \in Requests : Caller(r)
  \/ Loop

Spec == Init /\ [][Next]_vars

\* The event loop of a live instance runs what is ready, an aborted one is
\* discarded, and a callee that a request waits for is booted.
Fairness ==
  /\ WF_vars(Loop) /\ WF_vars(Boot) /\ WF_vars(Discard)
  /\ \A r \in Requests : WF_vars(ProvisionSubmit(r))
FairSpec == Spec /\ Fairness

-----------------------------------------------------------------------------
(* Properties.                                                             *)

IsWrite(r) == Kind[r] \in {"tx", "op"}
Landed(a) == /\ a.t \in DOMAIN log
             /\ log[a.t].op = "tx" /\ log[a.t].req = a.of

Statuses == {"new", "preparing", "running", "pending",
             "acked", "denied", "failed", "lost"}
AckMap == Seq([k : Principals \X (Ids \cup {NoId}), ack : Ack])
IsDb(f) == DOMAIN f \subseteq Nat /\ f \in [DOMAIN f -> Entry]

\* Every variable keeps the type its code counterpart has.
TypeOK ==
  /\ IsDb(log) /\ metaAcks \in AckMap
  /\ inst \in {"down", "up", "dead", "poisoned"}
  /\ IsDb(conn) /\ basisT \in Nat
  /\ recentAcks \in AckMap /\ recentOpAcks \in AckMap
  /\ queue \in Seq(Requests)
  /\ pc \in {"idle", "open", "resolve", "authorize", "ack", "write", "reply", "schedule"}
  /\ batch \in Seq(Requests)
  /\ IsDb(entries) /\ acks \in Seq(Ack) /\ batchAcks \in AckMap
  /\ outcome \in [Requests -> Statuses]
  /\ reply \in [Requests -> Ack \cup {NoAck}]
  /\ effects \subseteq Requests
  /\ told \subseteq Nat \X Entry
  /\ crashes \in Nat /\ faults \in Nat

\* The durable log has neither gaps nor duplicates (transactor.ts, header):
\* its rows are exactly t = 1 .. n, whatever instances died in the middle of
\* a batch and however their in-memory t ran ahead.
DenseLog == DOMAIN log = 1..MaxOf(DOMAIN log)

\* What a live instance reads is the durable log plus the batch being written:
\* nothing else is in memory, and nothing durable is missing.
MemoryIsLogPlusBatch ==
  inst = "up" =>
    /\ conn = IF pc \in {"resolve", "authorize", "ack", "write"}
              THEN Merge(log, entries) ELSE log
    /\ DOMAIN conn = 1..basisT

\* A subscriber never hears of an entry that a death can take back: what was
\* broadcast is in the durable log, under the same t, for ever.
BroadcastIsDurable ==
  \A m \in told : m[1] \in DOMAIN log /\ log[m[1]] = m[2]

\* Every ack a replay may be answered with (recentAcks, recentOpAcks and the
\* persisted op_acks) is of a write that is in the durable log.
RememberedIsDurable ==
  \A map \in {recentAcks, recentOpAcks, metaAcks} :
    \A i \in DOMAIN map : IsWrite(map[i].ack.of) => Landed(map[i].ack)

\* A write whose own promise resolved is in the log, at the t it was told;
\* so is what its replays were told, once the write itself is acknowledged.
AckIsDurable ==
  \A r \in Requests :
    LET a == reply[r]
    IN  /\ outcome[r] = "acked" /\ IsWrite(r)
        /\ IsWrite(a.of) /\ outcome[a.of] = "acked"
        => Landed(a)

\* A replay is answered with the ack of the same writer's same id, never with
\* another principal's (clientTxReplayKey).
ReplayIsOwn ==
  \A r \in Requests :
    outcome[r] = "acked" /\ reply[r].of # r =>
      Who[reply[r].of] = Who[r] /\ ClientTxId[reply[r].of] = ClientTxId[r]

\* As long as no id is evicted, one instance writes two entries of one replay
\* key only if the first writer was told of an error: its ack could not be
\* built.  The retry of anything else finds the ack.
AppliedOncePerInstance ==
  \A t, u \in DOMAIN log :
    /\ t < u /\ log[t].op = "tx" /\ log[u].op = "tx"
    /\ ClientTxId[log[t].req] # NoId
    /\ ReplayKey(log[t].req) = ReplayKey(log[u].req)
    => log[t].by # log[u].by \/ outcome[log[t].req] = "failed"

\* An operation's ack is stored in the transaction of its rows, so the same is
\* true of an operation across every crash and restart.
OpAppliedOnce ==
  \A t, u \in DOMAIN log :
    /\ t < u /\ log[t].op = "tx" /\ log[u].op = "tx"
    /\ Kind[log[t].req] = "op" /\ ClientTxId[log[t].req] # NoId
    /\ ReplayKey(log[t].req) = ReplayKey(log[u].req)
    => outcome[log[t].req] = "failed"

\* A principal's own row is committed before (at an earlier t than) the first
\* write that is authorized as that principal.
ProvisionedFirst ==
  \A u \in DOMAIN log :
    log[u].op = "tx" /\ Who[log[u].req] \in Provisionable =>
      \E t \in DOMAIN log : /\ t < u /\ log[t].op = "provision"
                            /\ Who[log[t].req] = Who[log[u].req]

\* The log only grows, and no row ever changes: a t that was durable is never
\* assigned to another transaction.
LogOnlyGrows ==
  [][\A t \in DOMAIN log : t \in DOMAIN log' /\ log'[t] = log[t]]_vars

\* A promise settles once: nothing that was answered is answered again, not
\* even by the death of the instance that answered it.
SettlesOnce ==
  [][\A r \in Requests : outcome[r] \in {"acked", "denied", "failed"} =>
        outcome'[r] = outcome[r] /\ reply'[r] = reply[r]]_vars

\* A queued request does not wait for ever: the loop that runs takes it, the
\* loop that ends restarts for it, and the instance that dies settles it.
Answered ==
  \A r \in Requests : outcome[r] = "pending" ~> outcome[r] # "pending"

\* The writer implements CommittedLog: a write counts as answered when its
\* own promise resolves.
Promise == INSTANCE CommittedLog WITH
  Bootstrap <- BootEntry,
  IsWriteOf <- LAMBDA e, r : e.op = "tx" /\ e.req = r,
  answered <- [r \in Requests |->
                IF outcome[r] = "acked" /\ IsWrite(r) /\ reply[r].of = r
                THEN reply[r].t ELSE 0]
ImplementsCommittedLog == Promise!Spec

(* What the documentation says, and the code does not do.                  *)

\* "If db.transact returns, the write is durable"
\* (website/src/content/docs/concepts/architecture.mdx:47).
AckedMeansDurable ==
  \A r \in Requests :
    /\ outcome[r] = "acked" /\ IsWrite(r) /\ IsWrite(reply[r].of)
    /\ pc = "idle"
    => Landed(reply[r])

=============================================================================
