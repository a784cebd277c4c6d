------------------------------- MODULE Overlay -------------------------------
(***************************************************************************)
(* The client's overlay (db/overlay.ts) over its session socket            *)
(* (db/session.ts) and the write requests it posts (db/http.ts).           *)
(*                                                                         *)
(* The server is what Transactor.tla and Replica.tla establish of it: a    *)
(* dense log, an operation committed once per id, a session that pushes    *)
(* the entries behind its cursor in order.  What the caller may read does  *)
(* not change here.  A fact is an entity and the write that asserted it.   *)
(* Frames of one socket arrive in order, so one that is under way is one   *)
(* the session has yet to push.                                            *)
(***************************************************************************)
EXTENDS Integers, Sequences, FiniteSets, SequencesExt

CONSTANTS
  MaxWrites,     \* bound: writes of this client
  MaxForeign,    \* bound: writes of other clients
  TransientAttempts, \* TRANSIENT_ATTEMPTS of http.ts
  MaxDrops,      \* bound: sockets lost
  MaxResyncs,    \* bound: resyncs the session pushes
  FirstUserEid   \* the first entity of a user

ASSUME OverlayAssumption ==
  /\ {MaxWrites, MaxForeign, MaxDrops, MaxResyncs} \subseteq Nat
  /\ TransientAttempts \in Nat \ {0} /\ FirstUserEid \in Nat

VARIABLES
  \* The server.
  log,        \* per t: the write and the datoms it asserts and retracts
  session,    \* the worker's session of this socket
  drops, resyncs,
  \* The follower.
  painted,    \* datoms of conn
  factTs,     \* factTs
  confirmedT, \* confirmedT
  ready,      \* readyGen = session.generation
  dump,       \* t of the resync being applied, or NoDump
  \* The writes of this client.
  writes,     \* per write: how far it is and what its caller meant
  pending,    \* layers, by write
  outbox,     \* queued posts
  posting,    \* the request in flight
  \* A live query.
  live,       \* the facts it shows, or News when epoch has moved since its pass
  mixed       \* history: one number stood for two entities in the view

server == <<log, drops, resyncs>>
follower == <<painted, factTs, confirmedT>>
shown == <<live, mixed>>
own == <<writes, pending, outbox, posting>>
vars == <<server, session, follower, ready, dump, own, shown>>

Writes == 1..MaxWrites
NoDump == 0
News == {<<0, 0>>}
NoPost == [w |-> 0, e |-> 0, tries |-> 0, at |-> "none", t |-> 0]
NoSession == [up |-> FALSE, cursor |-> 0, asked |-> "no", from |-> 0, due |-> 0]
New == [at |-> "new", kind |-> "make", e |-> 0, means |-> 0, datoms |-> {}, behind |-> FALSE]

(***************************************************************************)
(* Datoms: what holds is what the last datom of a fact says; within one t  *)
(* an assertion sorts after a retraction.                                  *)
(***************************************************************************)
Datom(e, v, op, t) == [e |-> e, v |-> v, op |-> op, t |-> t]
Holding(D) ==
  {<<d.e, d.v>> : d \in {x \in D : x.op /\ \A y \in D :
                           y.e = x.e /\ y.v = x.v => y.t <= x.t}}
EidsOf(D) == {d.e : d \in D}
Highest(S, least) == LET T == S \cup {least} IN CHOOSE m \in T : \A x \in T : x <= m

Logged(t) == {Datom(d.e, d.v, d.op, t) : d \in log[t].datoms}
ServerFacts(t) == Holding(UNION {Logged(u) : u \in 1..t})
Tip == Len(log)

\* The datoms of a write of kind k to e over the facts it sees.
Expand(w, k, e, facts, t) ==
  IF k = "drop" THEN {Datom(e, f[2], FALSE, t) : f \in {g \in facts : g[1] = e}}
                ELSE {Datom(e, w, TRUE, t)}

(***************************************************************************)
(* The server.                                                             *)
(***************************************************************************)
Made == {t \in DOMAIN log : log[t].kind = "make"}
NextServerEid == FirstUserEid + Cardinality(Made)
Entry(w, k, e) ==
  LET at == IF k = "make" THEN NextServerEid ELSE e
  IN  [w |-> w, kind |-> k, e |-> at, datoms |-> Expand(w, k, at, ServerFacts(Tip), Tip + 1)]
ForeignId(t) == MaxWrites + t
CommittedAt(w) == {t \in DOMAIN log : log[t].w = w}

\* Another client writes.
Foreign ==
  /\ Cardinality({t \in DOMAIN log : log[t].w > MaxWrites}) < MaxForeign
  /\ \/ log' = Append(log, Entry(ForeignId(Tip + 1), "make", 0))
     \/ \E f \in ServerFacts(Tip), k \in {"mark", "drop"} :
          log' = Append(log, Entry(ForeignId(Tip + 1), k, f[1]))
  /\ UNCHANGED <<session, drops, resyncs, follower, ready, dump, own, shown>>

\* The request arrives.  An operation is committed once; transact() may commit
\* again when the writer restarted in between; either may be refused.
Land ==
  LET w == posting.w
      k == writes[w].kind
      seen == CommittedAt(w)
  IN
  /\ posting.at = "sent"
  /\ \/ /\ seen = {} \/ k = "make"
        /\ log' = Append(log, Entry(w, k, posting.e))
        /\ posting' = [posting EXCEPT !.at = "landed", !.t = Tip + 1]
     \/ /\ seen # {}
        /\ posting' = [posting EXCEPT !.at = "landed", !.t = Highest(seen, 0)]
        /\ UNCHANGED log
     \/ /\ seen = {}
        /\ posting' = [posting EXCEPT !.at = "error"]
        /\ UNCHANGED log
  /\ UNCHANGED <<session, drops, resyncs, follower, ready, dump, writes, pending, outbox, shown>>

\* The sync request arrives: the cursor is the client's, and what follows it up
\* to the tip is walked before the reply.
TakeSync ==
  /\ session.up /\ session.asked = "sent"
  /\ session' = [session EXCEPT !.asked = "taken", !.cursor = session.from, !.due = Tip]
  /\ UNCHANGED <<server, follower, ready, dump, own, shown>>

(***************************************************************************)
(* The socket (session.ts connect, drop; overlay.ts sync).                 *)
(***************************************************************************)
\* ready: one sync at a time, for a socket that has not synced yet.
NeedsSync == ~ready /\ session.asked = "no"
\* requestSync, from the follower's cursor.
RequestSync == session' = [session EXCEPT !.up = TRUE, !.asked = "sent", !.from = confirmedT]
Ask ==
  /\ NeedsSync
  /\ RequestSync
  /\ UNCHANGED <<server, follower, ready, dump, own, shown>>
Drop ==
  /\ session.up /\ drops < MaxDrops
  /\ drops' = drops + 1
  /\ session' = NoSession /\ ready' = FALSE
  /\ UNCHANGED <<log, resyncs, follower, dump, own, shown>>

(***************************************************************************)
(* The overlay: the follower with the pending layers over it.              *)
(***************************************************************************)
PendingDatoms == UNION {pending[w].datoms : w \in DOMAIN pending}
OverlayDb(extra) == Holding(painted \cup extra)
View == OverlayDb(PendingDatoms)
NextEid == Highest(EidsOf(painted \cup PendingDatoms), FirstUserEid - 1) + 1
\* Above every painted fact, and no log position.
FakeT == Highest(factTs, confirmedT) + Cardinality(DOMAIN pending) + 1

Without(w) == [u \in DOMAIN pending \ {w} |-> pending[u]]
Applying == dump # NoDump

\* A number a pending layer minted is that of another entity too.
Mixed ==
  \E w \in DOMAIN pending :
    /\ writes[w].kind = "make"
    /\ \/ \E d \in painted : d.e = pending[w].e /\ d.v # w
       \/ \E u \in DOMAIN pending \ {w} : writes[u].kind = "make" /\ pending[u].e = pending[w].e

\* The view has changed: epoch moves.
Notify == live' = News /\ mixed' = (mixed \/ Mixed')

\* paintFacts: a t is painted once.
Paint(t) ==
  IF t \in factTs THEN UNCHANGED <<painted, factTs>>
  ELSE painted' = painted \cup Logged(t) /\ factTs' = factTs \cup {t}

\* transact() creates an entity, run() edits one its caller sees: processTx over
\* the view of the moment.
Draft(w, k, e, means) ==
  /\ ready /\ ~Applying
  /\ writes[w].at = "new" /\ \A u \in 1..w - 1 : writes[u].at # "new"
  /\ writes' = [writes EXCEPT ![w] = [New EXCEPT !.at = "draft", !.kind = k, !.e = e,
                 !.means = means, !.datoms = Expand(w, k, e, View, FakeT)]]
  /\ UNCHANGED <<server, session, follower, ready, dump, pending, outbox, posting, shown>>
Transact(w) == Draft(w, "make", NextEid, 0)
Run(w) == \E f \in View, k \in {"mark", "drop"} : Draft(w, k, f[1], f[2])

\* The layer goes on and its post is queued, once processTx has answered.
Push(w) ==
  /\ writes[w].at = "draft"
  /\ LET behind == writes[w].means \in DOMAIN pending IN
       writes' = [writes EXCEPT ![w].at = "queued", ![w].datoms = {}, ![w].behind = behind,
                                ![w].means = IF behind THEN @ ELSE 0]
  /\ pending' = [u \in DOMAIN pending \cup {w} |->
                   IF u = w THEN [e |-> writes[w].e, datoms |-> writes[w].datoms]
                   ELSE pending[u]]
  /\ outbox' = Append(outbox, w)
  /\ UNCHANGED <<server, session, follower, ready, dump, posting>>
  /\ Notify

\* One post at a time, with the layer as it has been rewritten by then.
StartPost ==
  /\ posting = NoPost /\ outbox # <<>>
  /\ LET w == Head(outbox) IN
       posting' = [w |-> w, tries |-> 1, at |-> "sent", t |-> 0,
                   e |-> IF w \in DOMAIN pending THEN pending[w].e ELSE writes[w].e]
  /\ outbox' = Tail(outbox)
  /\ UNCHANGED <<server, session, follower, ready, dump, writes, pending, shown>>

\* The request or its answer is lost: retryTransient sends it again, or gives up.
Lose ==
  /\ posting.at \in {"sent", "landed"}
  /\ posting' = IF posting.tries < TransientAttempts
                  THEN [posting EXCEPT !.at = "sent", !.tries = @ + 1]
                  ELSE [posting EXCEPT !.at = "error"]
  /\ UNCHANGED <<server, session, follower, ready, dump, writes, pending, outbox, shown>>

\* An entity the write made has the server's number from now on.
RewriteEid(e, was, is) == IF e = was THEN is ELSE e
RewriteDatoms(datoms, was, is) == {[d EXCEPT !.e = RewriteEid(@, was, is)] : d \in datoms}
\* What a queued item does names it in entity places only.
RewriteItem(layer, was, is) ==
  [e |-> RewriteEid(layer.e, was, is), datoms |-> RewriteDatoms(layer.datoms, was, is)]
\* Mutant: the painted facts move, the entity of a queued operation does not.
RemapFacts(layers, was, is) ==
  [u \in DOMAIN layers |-> [layers[u] EXCEPT !.datoms = RewriteDatoms(@, was, is)]]
\* remapQueued.
RemapQueued(layers, was, is) == [u \in DOMAIN layers |-> RewriteItem(layers[u], was, is)]

\* Mutant: the ack moves the follow cursor.
TakeAckStamping ==
  LET w == posting.w IN
  /\ posting.at = "landed" /\ ~Applying
  /\ pending' = IF w \in DOMAIN pending /\ writes[w].kind = "make"
                  THEN RemapQueued(Without(w), pending[w].e, log[posting.t].e)
                  ELSE Without(w)
  /\ Paint(posting.t) /\ confirmedT' = Highest({confirmedT}, posting.t)
  /\ writes' = [writes EXCEPT ![w].at = "acked", ![w].e = 0]
  /\ posting' = NoPost
  /\ UNCHANGED <<server, session, ready, dump, outbox>>
  /\ Notify
\* The ack: the layer goes, the facts of the ack are painted, the queue is remapped.
TakeAck ==
  LET w == posting.w IN
  /\ posting.at = "landed" /\ ~Applying
  /\ pending' = IF w \in DOMAIN pending /\ writes[w].kind = "make"
                  THEN RemapQueued(Without(w), pending[w].e, log[posting.t].e)
                  ELSE Without(w)
  /\ Paint(posting.t)
  /\ writes' = [writes EXCEPT ![w].at = "acked", ![w].e = 0]
  /\ posting' = NoPost
  /\ UNCHANGED <<server, session, confirmedT, ready, dump, outbox>>
  /\ Notify
\* Mutant: nobody is told that a layer went.
TakeErrorQuietly ==
  /\ posting.at = "error" /\ ~Applying
  /\ pending' = Without(posting.w)
  /\ writes' = [writes EXCEPT ![posting.w].at = "failed", ![posting.w].e = 0]
  /\ posting' = NoPost
  /\ UNCHANGED <<server, session, follower, ready, dump, outbox, shown>>
TakeError ==
  /\ posting.at = "error" /\ ~Applying
  /\ pending' = Without(posting.w)
  /\ writes' = [writes EXCEPT ![posting.w].at = "failed", ![posting.w].e = 0]
  /\ posting' = NoPost
  /\ UNCHANGED <<server, session, follower, ready, dump, outbox>>
  /\ Notify

(***************************************************************************)
(* Frames, in the order of the socket.  While a dump is applied the others *)
(* wait in the apply queue.                                                *)
(***************************************************************************)
\* The session pushes the entry after its cursor.  No frame carries this client's
\* id (writes are posted, and a session echoes the ids of writes made over it), so
\* none covers a layer.
ApplyTx ==
  /\ session.up /\ session.cursor < Tip /\ ~Applying
  /\ session' = [session EXCEPT !.cursor = @ + 1]
  /\ Paint(session.cursor + 1)
  /\ UNCHANGED <<server, confirmedT, ready, dump, own>>
  /\ Notify

\* The caller's access changed: a dump of all it may read.  The layers go at once;
\* the new follower is built over awaits.
ApplyResync ==
  /\ session.up /\ ~Applying /\ resyncs < MaxResyncs /\ Tip > 0
  /\ resyncs' = resyncs + 1
  /\ session' = [session EXCEPT !.cursor = Tip]
  /\ pending' = <<>> /\ dump' = Tip
  /\ writes' = [w \in Writes |-> [writes[w] EXCEPT !.behind = FALSE]]
  /\ UNCHANGED <<log, drops, follower, ready, outbox, posting, shown>>
\* The dump has what holds, and the instant of every t.
ReplaceConfirmed ==
  LET all == UNION {Logged(t) : t \in 1..dump} IN
  /\ Applying
  /\ painted' = {d \in all : d.op /\ \A x \in all : x.e = d.e /\ x.v = d.v => x.t <= d.t}
  /\ factTs' = 1..dump /\ confirmedT' = dump /\ dump' = NoDump
  /\ UNCHANGED <<server, session, ready, own>>
  /\ Notify

\* The walked t of the reply, and no ack, moves the cursor.
Synced ==
  /\ session.up /\ session.asked = "taken" /\ session.cursor >= session.due /\ ~Applying
  /\ session' = [session EXCEPT !.asked = "done"]
  /\ ready' = TRUE /\ confirmedT' = Highest({confirmedT}, session.cursor)
  /\ UNCHANGED <<server, painted, factTs, dump, own, shown>>

\* A read waits for the sync and for what is being applied, and then takes the
\* view in one turn.
Read == ready /\ ~Applying /\ live' = View
\* A live query runs again when epoch has moved past the view it read.
LiveRead ==
  /\ live = News
  /\ Read
  /\ UNCHANGED <<mixed, server, session, follower, ready, dump, own>>

(***************************************************************************)
(* Specification.                                                          *)
(***************************************************************************)
Init ==
  /\ log = <<>> /\ session = NoSession /\ drops = 0 /\ resyncs = 0
  /\ painted = {} /\ factTs = {} /\ confirmedT = 0 /\ ready = FALSE /\ dump = NoDump
  /\ writes = [w \in Writes |-> New] /\ pending = <<>> /\ outbox = <<>> /\ posting = NoPost
  /\ live = News /\ mixed = FALSE

Server == Foreign \/ Land \/ TakeSync
Client ==
  \/ \E w \in Writes : Transact(w) \/ Run(w) \/ Push(w)
  \/ StartPost \/ Lose \/ TakeAck \/ TakeError
  \/ Ask \/ Drop \/ ApplyTx \/ ApplyResync \/ ReplaceConfirmed \/ Synced \/ LiveRead

Next == Server \/ Client

Spec == Init /\ [][Next]_vars

(***************************************************************************)
(* Properties.                                                             *)
(***************************************************************************)
Settled ==
  /\ ready /\ ~Applying /\ session.cursor = Tip
  /\ posting = NoPost /\ \A w \in Writes : writes[w].at \in {"new", "acked", "failed"}

\* When nothing is under way the client shows the server's facts, whatever was
\* lost, retried, acked before or after the frames, or dumped in between.
SettledIsServer == Settled => View = ServerFacts(Tip)

\* A live query that waits for news shows what a read would answer now.
LiveIsFresh == live # News /\ ~Applying => live = View

\* An edit queued behind the write that makes its entity lands on that entity.
EditsLand ==
  \A t \in DOMAIN log :
    LET w == log[t].w
        maker == writes[w].means
    IN
    w \in Writes /\ writes[w].behind /\ ~mixed
      /\ writes[maker].kind = "make" /\ writes[maker].at = "acked" =>
        \E u \in CommittedAt(maker) : log[u].e = log[t].e

=============================================================================
