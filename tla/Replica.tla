------------------------------- MODULE Replica -------------------------------
(***************************************************************************)
(* A query replica (internal/replica/replica-do.ts) following the writer,  *)
(* and the live sessions attached to it (worker/session.ts,                *)
(* worker/session-sync.ts).                                                *)
(*                                                                         *)
(* The writer is reduced to what Transactor.tla and Database.tla           *)
(* establish of it: its log is dense, frames are of committed rows, a row  *)
(* pruned from SQL is in a chunk, and a root is published after its chunk. *)
(* A log entry never changes, so it is its t; what it holds for the one    *)
(* caller whose access changes is its kind in log.                         *)
(***************************************************************************)
EXTENDS Integers, Sequences, FiniteSets, SequencesExt

CONSTANTS
  MaxT,          \* bound: entries committed
  Histories,     \* the logs explored: each entry is what it is to the caller
  LogKeepTxs,    \* config.logKeepTxs
  Sessions,      \* client sockets attached to the replica
  MaxSockets,    \* bound: upstream sockets opened
  MaxRestarts,   \* bound: evictions of the replica
  MaxFails,      \* bound: calls of the replica that fail
  MaxDeaths,     \* bound: instances of the writer that end
  MaxOpens       \* bound: sockets one client opens

ASSUME ReplicaAssumption ==
  /\ {MaxT, LogKeepTxs, MaxSockets, MaxRestarts, MaxFails, MaxDeaths}
       \subseteq Nat
  /\ MaxOpens \in Nat
  /\ IsFiniteSet(Sessions)
  \* What one commit is to the caller: readable by all, private to those with
  \* access, or a change of the caller's own access.
  /\ Histories \subseteq [1..MaxT -> {"public", "private", "grant", "revoke"}]

VARIABLES
  \* The writer and the bucket.
  log,        \* committed entries
  assigned,   \* conn.t: the last t, counting a batch that is not yet written
  earliest,   \* the first t still in the SQL log
  chunked,    \* the last t in a log chunk of the bucket
  current,    \* t of root/current
  rootRecord, \* t of the writer's root record
  run,        \* the index run: [at, to]
  \* The replica's SQL.
  sqlRoot, sqlNovelty,
  \* The replica's memory.
  root,       \* t of this.root, or NoRoot
  entries,    \* this.entries
  ws,         \* the upstream socket in this.ws, or 0
  syncing,    \* the connection attempt of sync()
  chain,      \* per upstream socket: frames sent and not yet handled
  handler,    \* per upstream socket, and 0 for sync()'s own catch-up: where it is
  opened,     \* upstream sockets opened so far
  restarts, fails, deaths,
  \* The sessions.
  session,    \* per client: the protocol object at the replica
  early,      \* per client: its socket before it has that object
  inbox,      \* frames on the way to the client
  client,     \* per client: the confirmed facts and cursor it keeps
  \* History: clients whose socket was walked before its session was made, or
  \* told of entries by a replica that had no root.
  strayed

writer == <<log, assigned, earliest, chunked, current, rootRecord, run, deaths>>
durable == <<sqlRoot, sqlNovelty>>
memory == <<root, entries>>
upstream == <<ws, syncing, chain, handler, opened>>
counters == <<restarts, fails>>
sessions == <<session, early, inbox, client, strayed>>
vars == <<writer, durable, memory, upstream, counters, sessions>>

NoRoot == -1
Sockets == 1..MaxSockets
Handlers == 0..MaxSockets
Max0(S) == Max(S \cup {0})

\* Ascending, as ORDER BY t.
Ascending(S) ==
  CHOOSE q \in [1..Cardinality(S) -> S] : \A i, j \in DOMAIN q : i < j => q[i] < q[j]
\* A log is ascending, and what a filter by t leaves of it.
Above(q, t) == Ascending({u \in Range(q) : u > t})

(***************************************************************************)
(* What the caller may read.                                               *)
(***************************************************************************)
Access(t) ==
  LET changes == {u \in 1..t : log[u] \in {"grant", "revoke"}}
  IN  changes # {} /\ log[Max0(changes)] = "grant"

Readable(u, t) == log[u] = "public" \/ (log[u] = "private" /\ Access(t))

\* currentViewDatoms: the current facts through the read view at t.
View(t) == {u \in 1..t : Readable(u, t)}
\* What anonymousPrincipal may.
PublicView(t) == {u \in 1..t : log[u] = "public"}

RuleViewChanged(t) == Access(t) # Access(t - 1)

Decide(t) ==
  IF RuleViewChanged(t) THEN "resync" ELSE IF Readable(t, t) THEN "tx" ELSE "skip"

(***************************************************************************)
(* Replica state.                                                          *)
(***************************************************************************)
BasisT == IF entries # <<>> THEN Last(entries) ELSE Max0({root})

\* Where a handler is: the range it fetches, the entries read, the frame that
\* started it, the entry it walks, the sockets still to walk and the one walked.
Idle == [at |-> "idle", from |-> 0, to |-> 0, list |-> <<>>, frame |-> 0,
         walk |-> 0, wait |-> {}, on |-> {}]

\* A session: its cursor, the logs it has to consider (by: the handler that
\* awaits, or -1 for the reply to a sync), and where the one it considers is.
\* It is the caller's, or nobody's when it was made without a principal.
NewSession ==
  [open |-> TRUE, who |-> "caller", watermark |-> 0, queue |-> <<>>,
   at |-> "idle", cursor |-> 0, rest |-> <<>>, snapT |-> 0]
Closed == [NewSession EXCEPT !.open = FALSE]
NewClient == [facts |-> {}, painted |-> {}, confirmedT |-> 0, asked |-> "no", from |-> 0, opens |-> 0]
\* A socket that is accepted and has no session yet: the temporary session,
\* nobody's, that a walk makes for it, and whether its state is the attachment.
NotEarly == [accepted |-> FALSE, watermark |-> 0, queue |-> <<>>, at |-> "idle", snapT |-> 0,
             stored |-> FALSE]
\* getWebSockets: the sockets accepted and not closed.
Attached == {s \in Sessions : session[s].open \/ early[s].accepted}

\* appendEntry.  The session walk of handler h follows: one socket after the other.
ApplyDatoms(t) ==
  /\ entries' = Append(entries, t)
  /\ sqlNovelty' = sqlNovelty \cup {t}
Walking(hd, at, t) == [hd EXCEPT !.at = at, !.walk = t, !.wait = Attached]

\* Mutant: an adopted root keeps the entries it covers.
AdoptRootKeeping(t) ==
  /\ root' = t /\ sqlRoot' = t
  /\ sqlNovelty' = {u \in sqlNovelty : u > t}
  /\ UNCHANGED entries
\* Mutant: an older root is adopted too.
AdoptRootBack(t) ==
  /\ root' = t /\ sqlRoot' = t
  /\ entries' = Above(entries, t)
  /\ sqlNovelty' = {u \in sqlNovelty : u > t}
\* adoptRoot: the root, and the novelty above it.
AdoptRoot(t) ==
  IF t <= root THEN UNCHANGED <<root, sqlRoot, entries, sqlNovelty>>
  ELSE /\ root' = t /\ sqlRoot' = t
       /\ entries' = Above(entries, t)
       /\ sqlNovelty' = {u \in sqlNovelty : u > t}

(***************************************************************************)
(* The writer.                                                             *)
(***************************************************************************)
Hello == [kind |-> "hello", t |-> rootRecord]
RootFrame(t) == [kind |-> "root", t |-> t]
GapFrame(t) == [kind |-> "gap", t |-> t]
TxFrame(t) == [kind |-> "tx", t |-> t]

\* The sockets the writer still holds: those the replica has open.
Broadcast(f) == [c \in Sockets |-> IF c = ws THEN Append(chain[c], f) ELSE chain[c]]

\* readLogEntries: rows after from, up to to.
ReadLog(from, to) == Ascending({t \in earliest..Len(log) : from < t /\ t <= to})
EarliestLogT == IF earliest > Len(log) THEN 0 ELSE earliest

\* Mutant: catch-up starts one row late.
SendCatchUpLate(from) ==
  [i \in DOMAIN ReadLog(from + 1, assigned) |-> TxFrame(ReadLog(from + 1, assigned)[i])]
\* sendCatchUp: a gap frame where the log no longer reaches back, then the rows.
SendCatchUp(from) ==
  LET gap == from < assigned /\ (EarliestLogT = 0 \/ EarliestLogT > from + 1)
      start == IF gap THEN Max0({from, EarliestLogT - 1}) ELSE from
      rows == ReadLog(start, assigned)
  IN  (IF gap THEN <<GapFrame(start)>> ELSE <<>>) \o [i \in DOMAIN rows |-> TxFrame(rows[i])]

NotRunning == [at |-> "idle", to |-> 0]
replica == <<durable, memory, upstream, counters, sessions>>

Assign ==
  /\ assigned = Len(log) /\ assigned < MaxT
  /\ assigned' = assigned + 1
  /\ UNCHANGED <<log, earliest, chunked, current, rootRecord, run, deaths, replica>>

\* The batch is in the log; only now is it broadcast.
Commit ==
  /\ assigned > Len(log)
  /\ \E h \in Histories :
       IsPrefix(log, h) /\ log' = SubSeq(h, 1, assigned)
  /\ chain' = Broadcast(TxFrame(assigned))
  /\ UNCHANGED <<assigned, earliest, chunked, current, rootRecord, run, deaths,
                 durable, memory, ws, syncing, handler, opened, counters, sessions>>

\* Frames already sent may arrive or not.
Lose(c) == \E n \in 0..Len(chain[c]) : chain' = [chain EXCEPT ![c] = SubSeq(@, 1, n)]
DropWs == IF ws = 0 THEN UNCHANGED <<ws, chain>> ELSE ws' = 0 /\ Lose(ws)

\* A write fails, or the instance is evicted: the batch and the index run are
\* gone, and the sockets with them.
WriterDies ==
  /\ deaths < MaxDeaths /\ (ws # 0 => opened < MaxSockets)
  /\ deaths' = deaths + 1
  /\ assigned' = Len(log) /\ run' = NotRunning
  /\ DropWs
  /\ UNCHANGED <<log, earliest, chunked, current, rootRecord, durable, memory, syncing,
                 handler, opened, counters, sessions>>

\* An index run: the chunk, the published root, and in one turn the writer's
\* own root, the pruning and the root frame.
PutChunk ==
  /\ run.at = "idle"
  /\ \E t \in rootRecord + 1 .. Len(log) :
       /\ run' = [at |-> "publish", to |-> t]
       /\ chunked' = Max0({chunked, t})
  /\ UNCHANGED <<log, assigned, earliest, current, rootRecord, deaths, replica>>

PublishRoot ==
  /\ run.at = "publish"
  /\ current' = run.to /\ run' = [run EXCEPT !.at = "adopt"]
  /\ UNCHANGED <<log, assigned, earliest, chunked, rootRecord, deaths, replica>>

IndexerAdopts ==
  /\ run.at = "adopt"
  /\ run' = NotRunning
  /\ rootRecord' = run.to
  /\ earliest' = Max0({earliest, run.to - LogKeepTxs + 1})
  /\ chain' = Broadcast(RootFrame(run.to))
  /\ UNCHANGED <<log, assigned, chunked, current, deaths, durable, memory, ws, syncing,
                 handler, opened, counters, sessions>>

Writer == Assign \/ Commit \/ WriterDies \/ PutChunk \/ PublishRoot
          \/ IndexerAdopts

(***************************************************************************)
(* Connecting: sync, ensureConnected, connectUpstream.                     *)
(***************************************************************************)
NotSyncing == [at |-> "no", from |-> 0]

\* A request: nothing to do with a socket in hand.  A replica with no root adopts
\* root/current, when there is one yet.
SyncStart ==
  /\ syncing.at = "no" /\ ws = 0 /\ opened < MaxSockets
  /\ IF root = NoRoot
     THEN /\ AdoptRoot(current)
          /\ syncing' = [at |-> "connect", from |-> Max0({current, BasisT})]
     ELSE /\ syncing' = [at |-> "connect", from |-> BasisT]
          /\ UNCHANGED <<durable, memory>>
  /\ UNCHANGED <<writer, ws, chain, handler, opened, counters, sessions>>

\* The writer's onSubscribe answers from its state when the request arrives.
Connect ==
  /\ syncing.at = "connect"
  /\ syncing' = NotSyncing
  /\ opened' = opened + 1
  /\ ws' = opened'
  /\ chain' = [chain EXCEPT ![opened'] = <<Hello>> \o SendCatchUp(syncing.from)]
  /\ UNCHANGED <<writer, durable, memory, handler, counters, sessions>>

\* The writer is unreachable: read the bucket instead.
ConnectFails ==
  /\ syncing.at = "connect" /\ fails < MaxFails
  /\ fails' = fails + 1
  /\ syncing' = [syncing EXCEPT !.at = "bucket"]
  /\ handler' = [handler EXCEPT ![0] = [Idle EXCEPT !.at = "bucket", !.from = BasisT, !.to = MaxT]]
  /\ UNCHANGED <<writer, durable, memory, ws, chain, opened, restarts, sessions>>

SyncDone ==
  /\ syncing.at = "bucket" /\ handler[0].at = "idle"
  /\ syncing' = NotSyncing
  /\ UNCHANGED <<writer, durable, memory, ws, chain, handler, opened, counters, sessions>>

\* close or error on the upstream socket: what was received is still handled.
UpstreamDrops ==
  /\ ws # 0 /\ opened < MaxSockets
  /\ ws' = 0 /\ Lose(ws)
  /\ UNCHANGED <<writer, durable, memory, syncing, handler, opened, counters, sessions>>

(***************************************************************************)
(* Frames: handleFrame, fillGap, catchUpFromR2.                            *)
(***************************************************************************)
Frame(c) == Head(chain[c])
Take(c) == chain' = [chain EXCEPT ![c] = Tail(@)]
Ready(c, kind) == handler[c].at = "idle" /\ chain[c] # <<>> /\ Frame(c).kind = kind
Goto(h, to) == handler' = [handler EXCEPT ![h] = to]

HandleRoot(c) ==
  /\ Ready(c, "hello") \/ Ready(c, "root")
  /\ Take(c) /\ AdoptRoot(Frame(c).t)
  /\ UNCHANGED <<writer, ws, syncing, handler, opened, counters, sessions>>

HandleGap(c) ==
  /\ Ready(c, "gap")
  /\ Take(c)
  /\ Goto(c, [Idle EXCEPT !.at = "bucket", !.from = Frame(c).t, !.to = MaxT])
  /\ UNCHANGED <<writer, durable, memory, ws, syncing, opened, counters, sessions>>

HandleTx(c) ==
  LET t == Frame(c).t IN
  /\ Ready(c, "tx")
  /\ Take(c)
  /\ \/ t <= BasisT /\ UNCHANGED <<entries, sqlNovelty, handler>>
     \/ /\ t = BasisT + 1 /\ ApplyDatoms(t)
        /\ Goto(c, Walking(Idle, "last", t))
     \/ /\ t > BasisT + 1 /\ UNCHANGED <<entries, sqlNovelty>>
        /\ Goto(c, [Idle EXCEPT !.at = "log", !.from = BasisT, !.to = t - 1, !.frame = t])
  /\ UNCHANGED <<writer, root, sqlRoot, ws, syncing, opened, counters, sessions>>

\* fillGap: the writer's /log answers, or the bucket must.
ReadWriterLog(c) ==
  LET from == handler[c].from IN
  /\ handler[c].at = "log"
  /\ Goto(c, IF EarliestLogT # 0 /\ EarliestLogT <= from + 1
             THEN [handler[c] EXCEPT !.at = "apply", !.list = ReadLog(from, handler[c].to)]
             ELSE [handler[c] EXCEPT !.at = "bucket"])
  /\ UNCHANGED <<writer, durable, memory, ws, syncing, chain, opened, counters, sessions>>

\* catchUpFromR2: a first root, when one is published, then the chunks after
\* from and the basis.  With none the entries are kept all the same.
ReadBucket(h) ==
  LET basis == IF root = NoRoot THEN Max0({current, BasisT}) ELSE BasisT
      from == Max0({handler[h].from, basis})
  IN
  /\ handler[h].at = "bucket"
  /\ IF root = NoRoot THEN AdoptRoot(current) ELSE UNCHANGED <<durable, memory>>
  /\ Goto(h, [handler[h] EXCEPT !.at = "apply",
                                !.list = Ascending({t \in from + 1 .. chunked : t <= handler[h].to})])
  /\ UNCHANGED <<writer, ws, syncing, chain, opened, counters, sessions>>

\* A call that fails abandons the frame; a /log that refuses sends fillGap to
\* the bucket.
ReadFails(h) ==
  /\ handler[h].at \in {"log", "bucket"} /\ fails < MaxFails
  /\ fails' = fails + 1
  /\ Goto(h, Idle) \/ (handler[h].at = "log" /\ Goto(h, [handler[h] EXCEPT !.at = "bucket"]))
  /\ UNCHANGED <<writer, durable, memory, ws, syncing, chain, opened, restarts, sessions>>

\* One entry read: only the next one is applied.
ApplyRead(h) ==
  /\ handler[h].at = "apply" /\ handler[h].list # <<>>
  /\ LET t == Head(handler[h].list)
         rest == [handler[h] EXCEPT !.list = Tail(@)]
     IN  IF t = BasisT + 1 THEN ApplyDatoms(t) /\ Goto(h, Walking(rest, "next", t))
         ELSE Goto(h, rest) /\ UNCHANGED <<entries, sqlNovelty>>
  /\ UNCHANGED <<writer, root, sqlRoot, ws, syncing, chain, opened, counters, sessions>>

\* The list is done: the frame that found the gap comes last, if it is next.
ApplyFrame(h) ==
  /\ handler[h].at = "apply" /\ handler[h].list = <<>>
  /\ IF handler[h].frame = BasisT + 1
     THEN ApplyDatoms(handler[h].frame) /\ Goto(h, Walking(Idle, "last", handler[h].frame))
     ELSE Goto(h, Idle) /\ UNCHANGED <<entries, sqlNovelty>>
  /\ UNCHANGED <<writer, root, sqlRoot, ws, syncing, chain, opened, counters, sessions>>

\* notifySessions: hand the entry to one more socket, or return.  For a socket
\* that has no session yet sessionOf makes one, without a principal.
Notify(h) ==
  /\ handler[h].at \in {"next", "last"} /\ handler[h].on = {}
  /\ IF handler[h].wait = {}
     THEN /\ Goto(h, IF handler[h].at = "last" THEN Idle ELSE [handler[h] EXCEPT !.at = "apply", !.walk = 0])
          /\ UNCHANGED <<session, early, strayed>>
     ELSE \E s \in handler[h].wait :
            LET job == [t |-> handler[h].walk, rootT |-> Max0({root}),
                        entries |-> <<handler[h].walk>>, by |-> h]
            IN  /\ Goto(h, [handler[h] EXCEPT !.wait = @ \ {s}, !.on = {s}])
                /\ \/ /\ session[s].open
                      /\ session' = [session EXCEPT ![s].queue = Append(@, job)]
                      /\ UNCHANGED <<early, strayed>>
                   \/ /\ ~ session[s].open
                      /\ early' = [early EXCEPT ![s].queue = Append(@, job)]
                      /\ strayed' = strayed \cup {s}
                      /\ UNCHANGED session
  /\ UNCHANGED <<writer, durable, memory, ws, syncing, chain, opened, counters, inbox, client>>

Handle(h) ==
  \/ h # 0 /\ (HandleRoot(h) \/ HandleGap(h) \/ HandleTx(h) \/ ReadWriterLog(h))
  \/ ReadBucket(h) \/ ApplyRead(h) \/ ApplyFrame(h) \/ Notify(h)

(***************************************************************************)
(* Restarts.  boot: the root and the novelty above it, from SQL; what is   *)
(* there without a root is left in SQL and not read.                       *)
(***************************************************************************)
Boot ==
  /\ root' = sqlRoot
  /\ entries' = IF sqlRoot = NoRoot THEN <<>> ELSE Ascending({t \in sqlNovelty : t > sqlRoot})
  /\ ws' = 0 /\ syncing' = NotSyncing
  /\ chain' = [c \in Sockets |-> <<>>]
  /\ handler' = [h \in Handlers |-> Idle]
  /\ UNCHANGED <<writer, durable, opened, fails>>

SessionIdle(s) == session[s].at = "idle" /\ session[s].queue = <<>>
EarlyIdle(s) == ~ early[s].accepted /\ early[s].queue = <<>>
\* The session an attachment restores: nobody's, if a temporary one wrote it last.
Restored(s) ==
  IF early[s].stored
  THEN [NewSession EXCEPT !.who = "nobody", !.watermark = early[s].watermark]
  ELSE session[s]

\* Hibernation: nothing is running, sockets and their attachments survive.
Hibernate ==
  /\ restarts < MaxRestarts /\ opened < MaxSockets
  /\ root # NoRoot /\ ws = 0 /\ syncing.at = "no"
  /\ \A h \in Handlers : handler[h].at = "idle" /\ (h # 0 => chain[h] = <<>>)
  /\ \A s \in Sessions : SessionIdle(s) /\ EarlyIdle(s)
  /\ restarts' = restarts + 1
  /\ Boot
  /\ session' = [s \in Sessions |-> Restored(s)]
  /\ early' = [s \in Sessions |-> NotEarly]
  /\ UNCHANGED <<inbox, client, strayed>>

LostSockets == [s \in Sessions |-> [client[s] EXCEPT !.asked = "no"]]
Crash ==
  /\ restarts < MaxRestarts /\ opened < MaxSockets
  /\ restarts' = restarts + 1
  /\ Boot
  /\ session' = [s \in Sessions |-> Closed]
  /\ early' = [s \in Sessions |-> NotEarly]
  /\ inbox' = [s \in Sessions |-> <<>>]
  /\ client' = LostSockets
  /\ UNCHANGED strayed

(***************************************************************************)
(* Sessions: upgradeSession, onMessage(sync), consider.                    *)
(***************************************************************************)
Set(s, to) == session' = [session EXCEPT ![s] = to]
Send(s, frames) == inbox' = [inbox EXCEPT ![s] = @ \o frames]
TxPush(t) == [op |-> "tx", t |-> t]
Resync(who, t) == [op |-> IF who = "nobody" THEN "anyones" ELSE "resync", t |-> t]
Reply(t) == [op |-> "reply", t |-> t]

\* A request is served once sync() has returned.
Served == syncing.at = "no" /\ (ws # 0 \/ fails > 0)

\* upgradeSession: the socket is accepted, and provisionPrincipal awaited.
AcceptSocket(s) ==
  /\ s \notin Attached /\ early[s].queue = <<>> /\ client[s].opens < MaxOpens /\ Served
  /\ early' = [early EXCEPT ![s] = [NotEarly EXCEPT !.accepted = TRUE]]
  /\ client' = [client EXCEPT ![s].opens = @ + 1]
  /\ UNCHANGED <<writer, durable, memory, upstream, counters, session, inbox, strayed>>

\* The session is made, set live and stored in the attachment; a temporary one
\* goes on with what it has.
OpenSession(s) ==
  /\ early[s].accepted
  /\ Set(s, NewSession)
  /\ early' = [early EXCEPT ![s].accepted = FALSE, ![s].stored = FALSE]
  /\ UNCHANGED <<writer, durable, memory, upstream, counters, inbox, client, strayed>>

\* The client asks for what follows its cursor, once per socket.
AskSync(s) ==
  /\ session[s].open /\ client[s].asked = "no"
  /\ client' = [client EXCEPT ![s].asked = "sent", ![s].from = client[s].confirmedT]
  /\ UNCHANGED <<writer, durable, memory, upstream, counters, session, early, inbox, strayed>>

SyncJob == [t |-> BasisT, rootT |-> Max0({root}), entries |-> entries, by |-> -1]
\* Mutant: the cursor is put at the log's tip, not where the client is.
TakeSyncAtTip(s) ==
  /\ session[s].open /\ client[s].asked = "sent" /\ Served
  /\ client' = [client EXCEPT ![s].asked = "taken"]
  /\ Set(s, [session[s] EXCEPT !.watermark = BasisT, !.queue = Append(@, SyncJob)])
  /\ UNCHANGED <<writer, durable, memory, upstream, counters, early, inbox, strayed>>
\* The log is read, the cursor set back and the walk enqueued in one turn.
TakeSync(s) ==
  /\ session[s].open /\ client[s].asked = "sent" /\ Served
  /\ client' = [client EXCEPT ![s].asked = "taken"]
  /\ Set(s, [session[s] EXCEPT !.watermark = client[s].from, !.queue = Append(@, SyncJob)])
  /\ UNCHANGED <<writer, durable, memory, upstream, counters, early, inbox, strayed>>

Job(s) == Head(session[s].queue)
\* pushResync: the view at the basis of the moment, sent when it has been read.
\* Without a root there is none: an empty dump, of t 0.
DumpT == IF root = NoRoot THEN 0 ELSE BasisT
Snapshot(v) == [v EXCEPT !.at = "snap", !.snapT = DumpT]
\* What is read for s now is read without a root.
Strays(s) == strayed' = IF root = NoRoot THEN strayed \cup {s} ELSE strayed

\* consider starts, from the cursor as it is now.
RunJob(s) ==
  LET from == session[s].watermark IN
  /\ session[s].at = "idle" /\ session[s].queue # <<>>
  /\ IF from < Job(s).rootT THEN Set(s, Snapshot(session[s])) /\ Strays(s)
     ELSE /\ Set(s, [session[s] EXCEPT !.at = "walk", !.cursor = from,
                       !.rest = Above(Job(s).entries, from)])
          /\ UNCHANGED strayed
  /\ UNCHANGED <<writer, durable, memory, upstream, counters, early, inbox, client>>

\* A replica with no root decides nothing; without a principal everything passes.
Sieve(who, t) ==
  IF root = NoRoot THEN "skip" ELSE IF who = "nobody" THEN "tx" ELSE Decide(t)
\* One entry through the sieve, as the caller may read it at that t.
Consider(s) ==
  LET v == session[s]
      t == Head(v.rest)
      passed == [v EXCEPT !.cursor = t, !.watermark = t, !.rest = Tail(@)]
      decision == Sieve(v.who, t)
  IN
  /\ v.at = "walk" /\ v.rest # <<>>
  /\ Strays(s)
  /\ \/ /\ t > v.cursor + 1 \/ decision = "resync"
        /\ Set(s, Snapshot(v)) /\ UNCHANGED inbox
     \/ /\ t = v.cursor + 1 /\ decision = "tx"
        /\ Set(s, passed) /\ Send(s, <<TxPush(t)>>)
     \/ /\ t = v.cursor + 1 /\ decision = "skip"
        /\ Set(s, passed) /\ UNCHANGED inbox
  /\ UNCHANGED <<writer, durable, memory, upstream, counters, early, client>>

\* The job is done: its caller goes on, or its sync is answered; the session is
\* stored in the attachment.
Finish(s, v, frames) ==
  LET by == Job(s).by IN
  /\ Set(s, [v EXCEPT !.at = "idle", !.cursor = 0, !.rest = <<>>, !.snapT = 0, !.queue = Tail(@)])
  /\ Send(s, frames \o (IF by = -1 THEN <<Reply(v.watermark)>> ELSE <<>>))
  /\ early' = [early EXCEPT ![s].stored = FALSE]
  /\ handler' = [h \in Handlers |-> IF h = by THEN [handler[h] EXCEPT !.on = {}] ELSE handler[h]]
  /\ UNCHANGED <<writer, durable, memory, ws, syncing, chain, opened, counters, client>>

\* The walk is over; entries that end below the log's t are a torn window.
Considered(s) ==
  /\ session[s].at = "walk" /\ session[s].rest = <<>>
  /\ IF session[s].cursor >= Job(s).t THEN Finish(s, session[s], <<>>) /\ UNCHANGED strayed
     ELSE /\ Set(s, Snapshot(session[s])) /\ Strays(s)
          /\ UNCHANGED <<writer, durable, memory, upstream, counters, early, inbox, client>>

PushResync(s) ==
  LET v == session[s] IN
  /\ v.at = "snap"
  /\ Finish(s, [v EXCEPT !.watermark = v.snapT], <<Resync(v.who, v.snapT)>>)
  /\ UNCHANGED strayed

\* The temporary session's walk of one entry is done, and its state stored.
EarlyDone(s, v, frames) ==
  LET by == Head(v.queue).by IN
  /\ early' = [early EXCEPT ![s] =
       [v EXCEPT !.at = "idle", !.snapT = 0, !.queue = Tail(@), !.stored = TRUE]]
  /\ Send(s, frames)
  /\ handler' = [h \in Handlers |-> IF h = by THEN [handler[h] EXCEPT !.on = {}] ELSE handler[h]]
  /\ UNCHANGED <<writer, durable, memory, ws, syncing, chain, opened, counters, session, client,
                 strayed>>

\* It starts at 0, and the whole entry passes; after a hole the dump is what
\* anyone may read.
EarlyConsider(s) ==
  LET v == early[s]
      t == Head(v.queue).t
      behind == v.watermark < Head(v.queue).rootT \/ v.watermark + 1 < t
  IN
  /\ v.at = "idle" /\ v.queue # <<>>
  /\ \/ /\ behind
        /\ early' = [early EXCEPT ![s].at = "snap", ![s].snapT = DumpT]
        /\ UNCHANGED <<writer, durable, memory, upstream, counters, session, inbox, client, strayed>>
     \/ /\ ~ behind /\ t = v.watermark + 1
        /\ EarlyDone(s, [v EXCEPT !.watermark = t],
                     IF Sieve("nobody", t) = "tx" THEN <<TxPush(t)>> ELSE <<>>)
     \/ /\ ~ behind /\ t <= v.watermark /\ EarlyDone(s, v, <<>>)

EarlyDump(s) ==
  LET v == early[s] IN
  /\ v.at = "snap"
  /\ EarlyDone(s, [v EXCEPT !.watermark = v.snapT], <<Resync("nobody", v.snapT)>>)

EarlyWalk(s) == EarlyConsider(s) \/ EarlyDump(s)

\* The socket goes, or reading for its job fails (failSieve closes it): whoever
\* awaits a job of this session goes on, and no walk has it to come.
CloseSession(s) ==
  /\ s \in Attached
  /\ Set(s, Closed)
  /\ early' = [early EXCEPT ![s] = NotEarly]
  /\ inbox' = [inbox EXCEPT ![s] = <<>>]
  /\ client' = [client EXCEPT ![s].asked = "no"]
  /\ handler' = [h \in Handlers |-> [handler[h] EXCEPT !.on = @ \ {s}, !.wait = @ \ {s}]]
  /\ UNCHANGED <<writer, durable, memory, ws, syncing, chain, opened, counters, strayed>>

\* The client applies its frames in order (db/overlay.ts). It paints an entry once:
\* painted is factTs, and a dump has the instant of every t up to its own.
Applied(c, frame) ==
  CASE frame.op = "tx" ->
         [c EXCEPT !.facts = @ \cup ({frame.t} \ c.painted), !.painted = @ \cup {frame.t}]
    [] frame.op = "resync" ->
         [c EXCEPT !.facts = View(frame.t), !.painted = 1..frame.t, !.confirmedT = frame.t]
    [] frame.op = "anyones" ->
         [c EXCEPT !.facts = PublicView(frame.t), !.painted = 1..frame.t, !.confirmedT = frame.t]
    [] frame.op = "reply" ->
         [c EXCEPT !.asked = "done", !.confirmedT = Max0({@, frame.t})]
Deliver(s) ==
  /\ inbox[s] # <<>>
  /\ inbox' = [inbox EXCEPT ![s] = Tail(@)]
  /\ client' = [client EXCEPT ![s] = Applied(@, Head(inbox[s]))]
  /\ UNCHANGED <<writer, durable, memory, upstream, counters, session, early, strayed>>

Walk(s) == RunJob(s) \/ Consider(s) \/ Considered(s) \/ PushResync(s)
Session(s) ==
  \/ AcceptSocket(s) \/ OpenSession(s) \/ AskSync(s) \/ TakeSync(s) \/ Walk(s)
  \/ EarlyWalk(s) \/ CloseSession(s) \/ Deliver(s)

(***************************************************************************)
(* Specification.                                                          *)
(***************************************************************************)
Init ==
  /\ log = <<>> /\ assigned = 0 /\ earliest = 1 /\ chunked = 0 /\ current = NoRoot
  /\ rootRecord = 0 /\ run = NotRunning
  /\ sqlRoot = NoRoot /\ sqlNovelty = {}
  /\ root = NoRoot /\ entries = <<>>
  /\ ws = 0 /\ syncing = NotSyncing /\ opened = 0
  /\ chain = [c \in Sockets |-> <<>>]
  /\ handler = [h \in Handlers |-> Idle]
  /\ restarts = 0 /\ fails = 0 /\ deaths = 0
  /\ session = [s \in Sessions |-> Closed]
  /\ early = [s \in Sessions |-> NotEarly]
  /\ inbox = [s \in Sessions |-> <<>>]
  /\ client = [s \in Sessions |-> NewClient]
  /\ strayed = {}

Connecting == SyncStart \/ Connect \/ ConnectFails \/ SyncDone

Next ==
  \/ Writer \/ Connecting \/ UpstreamDrops \/ Hibernate \/ Crash
  \/ \E h \in Handlers : Handle(h) \/ ReadFails(h)
  \/ \E s \in Sessions : Session(s)

\* A promise whose call has answered runs on; a request is made again; a frame
\* on a socket that stays open arrives.
Fairness ==
  /\ \A h \in Handlers : WF_vars(Handle(h))
  /\ WF_vars(Connecting)
  /\ \A s \in Sessions :
       /\ WF_vars(OpenSession(s)) /\ WF_vars(EarlyWalk(s))
       /\ WF_vars(AskSync(s)) /\ WF_vars(TakeSync(s)) /\ WF_vars(Walk(s)) /\ WF_vars(Deliver(s))

Spec == Init /\ [][Next]_vars /\ Fairness

(***************************************************************************)
(* Properties.                                                             *)
(***************************************************************************)
\* The copy a replica serves: a replica with no root serves nothing.
Copy == IF root = NoRoot THEN {} ELSE {t \in 1..MaxT : t <= root} \cup Range(entries)
\* The copy holds what it holds once, in order, and SQL holds as much, or more
\* where a boot without a root left rows behind.
ReplicaTypeOK ==
  /\ \E h \in Histories : IsPrefix(log, h)
  /\ Len(log) <= assigned /\ assigned <= MaxT
  /\ earliest \in 1..MaxT + 1 /\ current <= chunked /\ rootRecord <= Max0({current})
  /\ sqlRoot = root /\ root \in NoRoot..MaxT
  /\ \E n \in Len(entries)..MaxT : sqlNovelty = Max0({root}) + 1 .. Max0({root}) + n
  /\ \A i \in DOMAIN entries : entries[i] = Max0({root}) + i
  /\ ws \in 0..opened /\ opened <= MaxSockets
  /\ syncing.at \in {"no", "connect", "bucket"}
  /\ \A h \in Handlers : handler[h].at \in {"idle", "log", "bucket", "apply", "next", "last"}
  /\ \A s \in Sessions : session[s].at \in {"idle", "walk", "snap"} /\ client[s].facts \subseteq 1..MaxT

\* What the replica serves is a prefix of the committed log that never shrinks,
\* over lost sockets, gaps, chunks, adopted roots and restarts, those included
\* that lose what a replica held before it had a root.
FollowerView == INSTANCE Follower WITH copy <- Copy
ImplementsFollower == FollowerView!Spec

\* When no call of the replica fails, every committed entry reaches it and is served.
CatchesUp == \A t \in 1..MaxT : (t <= Len(log)) ~> (t \in Copy \/ fails > 0)

Synced(s) ==
  session[s].open /\ client[s].asked = "done" /\ SessionIdle(s) /\ inbox[s] = <<>>

\* Over any number of sockets and restarts, a client that has been told all its
\* session walked holds exactly what the caller may read at the session's cursor,
\* whatever was pushed before, during and after the walks it asked for, and resumes
\* no later.  Not so the clients that strayed: a walk between acceptWebSocket and
\* createSession pushes what nobody's session sees, and a replica with no root
\* passes every entry over.
ShowsView ==
  \A s \in Sessions \ strayed : Synced(s) =>
    /\ client[s].facts = View(session[s].watermark)
    /\ client[s].confirmedT <= session[s].watermark

=============================================================================
