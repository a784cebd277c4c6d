-------------------------------- MODULE Peer --------------------------------
(***************************************************************************)
(* One isolate of the peer Worker serving one database: the routes of      *)
(* worker/index.ts from the verified caller to the answer, over the basis  *)
(* cache of worker/peer.ts and the provision memo of worker/auth.ts.  Each *)
(* request is its own async function: it gives up the thread wherever it   *)
(* awaits the writer or the replica, and the others run in between.        *)
(*                                                                         *)
(* The writer and the replica are what the requests see of them: the t     *)
(* committed, the t applied (Transactor.tla and Replica.tla model both).   *)
(***************************************************************************)
EXTENDS Tokens

CONSTANTS
  Slots,        \* the client's tasks: each has at most one request here
  TTL,          \* BASIS_TTL_MS, in ticks
  Flight,       \* bound: the ticks a basis is on its way
  MinTRetries,  \* MIN_T_RETRIES
  MaxT          \* bound: the t the writer commits

ASSUME PeerAssumption ==
  /\ Slots # {} /\ Slots \subseteq Readers
  /\ {TTL, Flight, MinTRetries, MaxT} \subseteq Nat /\ TTL > 0

VARIABLES
  written,      \* the writer's t
  rows,         \* the t at which each account's principal row was committed, or 0
  applied,      \* the replica's basisT
  basisCache,   \* the cached basis, or None
  provisioned,  \* the accounts this isolate remembers provisioning
  http          \* the request each task has here, or None

peerVars == <<written, rows, applied, basisCache, provisioned, http>>

PeerInit ==
  /\ written = 0 /\ applied = 0
  /\ rows = [a \in Accounts |-> 0]
  /\ basisCache = None
  /\ provisioned = {}
  /\ http = [s \in Slots |-> None]

\* A request as its route sees it.  `t` is the basis in hand, `age` how long ago
\* the replica had it, `seen` when it gave the basis that is on its way; `named`
\* that the principal's eid is known.
Request(route, token, minT) ==
  [route |-> route, who |-> token.who, minT |-> minT, pc |-> "arrived",
   polls |-> 0, t |-> 0, seen |-> 0, age |-> 0, named |-> FALSE, status |-> 0]

Awaits(s, pc) == http[s] # None /\ http[s].pc = pc
Goes(s, q) == http' = [http EXCEPT ![s] = q]
Answered(q, status) == [q EXCEPT !.pc = "answered", !.status = status]

\* /query, /pull and /entity answer from the view at the basis.
ReadsAt(q) == {Answered(q, 200)}

\* /info names the principal: by the request's provisioning, else by its row.
Describes(q) == {Answered([q EXCEPT !.named = @ \/ rows[q.who] \in 1..q.t], 200)}

\* checkWrite on the basis: a denial, a no-op ensure, or on to the writer.
Checks(q) == {Answered(q, 403), Answered(q, 200), [q EXCEPT !.pc = "forward"]}

\* What a request does with the basis t the replica had at `seen`.
UseBasis(q, t, seen) ==
  LET b == [q EXCEPT !.t = t, !.seen = 0, !.age = now - seen] IN
  CASE q.route = "read" -> ReadsAt(b)
    [] q.route = "info" -> Describes(b)
    [] q.route = "transact" -> Checks(b)

\* Mutant: the min-t is not asked of the cached basis.
ServesAnyT(c, q) == c # None /\ now - c.at < TTL
\* A cached basis serves a request while it is younger than the TTL and no
\* older than the request's x-ramose-min-t.
Serves(c, q) == c # None /\ now - c.at < TTL /\ c.t >= q.minT

\* fetchBasisWithStats: the cached basis, or a call to the replica.
Look(q) ==
  IF Serves(basisCache, q) THEN UseBasis(q, basisCache.t, basisCache.seen)
  ELSE {[q EXCEPT !.pc = "ask"]}

\* withProvisioned: the memo, or a write of the caller's row.
Established(q) ==
  IF q.who \in provisioned THEN Look([q EXCEPT !.named = TRUE])
  ELSE {[q EXCEPT !.pc = "provision"]}

\* handle: the caller is verified before anything else.
Arrive(q, token) == IF Verifies(token) THEN Established(q) ELSE {Answered(q, 401)}

\* The writer upserts the caller's row (Transactor.tla, Provision).
Upsert(a) ==
  IF rows[a] # 0
  THEN UNCHANGED <<written, rows>>
  ELSE /\ written < MaxT
       /\ written' = written + 1
       /\ rows' = [rows EXCEPT ![a] = written + 1]

\* rememberProvisioned, once the cached basis is dropped.
Remembers(a) ==
  /\ basisCache' = None
  /\ provisioned' = provisioned \union {a}

Provision(s) ==
  /\ Awaits(s, "provision")
  /\ Upsert(http[s].who)
  /\ Goes(s, [http[s] EXCEPT !.pc = "provisioned"])
  /\ UNCHANGED <<faults, applied, basisCache, provisioned>>

\* The cached basis is dropped, so the route asks for a new one.
Provisioned(s) ==
  /\ Awaits(s, "provisioned")
  /\ Remembers(http[s].who)
  /\ Goes(s, [http[s] EXCEPT !.pc = "ask", !.named = TRUE])
  /\ UNCHANGED <<faults, written, rows, applied>>

\* A writer that refuses, or an answer that is lost, leaves the caller unnamed.
ProvisionFails(s) ==
  /\ http[s] # None /\ http[s].pc \in {"provision", "provisioned"}
  /\ Fault
  /\ \E q \in Look(http[s]) : Goes(s, q)
  /\ UNCHANGED <<written, rows, applied, basisCache, provisioned>>

\* GET /basis on the replica.
AskReplica(s) ==
  /\ Awaits(s, "ask")
  /\ Goes(s, [http[s] EXCEPT !.pc = "basis", !.t = applied, !.seen = now,
                             !.polls = http[s].polls + 1])
  /\ UNCHANGED <<faults, written, rows, applied, basisCache, provisioned>>

\* A replica that answers no basis fails a read; ingress forwards the write.
ReplicaRefuses(s) ==
  /\ Awaits(s, "ask")
  /\ Fault
  /\ Goes(s, IF http[s].route = "transact" THEN [http[s] EXCEPT !.pc = "forward"]
             ELSE Answered(http[s], 500))
  /\ UNCHANGED <<written, rows, applied, basisCache, provisioned>>

\* A newer cached basis is never overwritten.
CacheAfter(q) ==
  IF basisCache = None \/ basisCache.t <= q.t
  THEN [t |-> q.t, at |-> now, seen |-> q.seen]
  ELSE basisCache

\* The basis comes back: poll again while it is behind the request's min-t and
\* polls are left, else cache it and go on.
BasisComes(s) ==
  /\ Awaits(s, "basis")
  /\ LET q == http[s] IN
     IF q.t < q.minT /\ q.polls <= MinTRetries
     THEN /\ Goes(s, [q EXCEPT !.pc = "ask"])
          /\ UNCHANGED basisCache
     ELSE /\ basisCache' = CacheAfter(q)
          /\ \E u \in UseBasis(q, q.t, q.seen) : Goes(s, u)
  /\ UNCHANGED <<faults, written, rows, applied, provisioned>>

\* The writer commits the transaction, or has died.
WriterCommits(s) ==
  /\ Awaits(s, "forward")
  /\ written < MaxT
  /\ written' = written + 1
  /\ Goes(s, [http[s] EXCEPT !.pc = "committed", !.t = written + 1])
  /\ UNCHANGED <<faults, rows, applied, basisCache, provisioned>>

WriterIsDead(s) ==
  /\ Awaits(s, "forward")
  /\ Fault
  /\ basisCache' = None
  /\ Goes(s, Answered(http[s], 503))
  /\ UNCHANGED <<written, rows, applied, provisioned>>

WriterAnswers(s) ==
  /\ Awaits(s, "committed")
  /\ basisCache' = None
  /\ Goes(s, Answered(http[s], 200))
  /\ UNCHANGED <<faults, written, rows, applied, provisioned>>

\* The replica applies the next commit (Replica.tla).
ReplicaApplies ==
  /\ applied < written
  /\ applied' = applied + 1
  /\ UNCHANGED <<faults, written, rows, basisCache, provisioned, http>>

\* GET /session provisions the caller as every route does, then upgrades onto
\* the replica, which provisions again what the peer did not name.
Upgrades(a) ==
  \/ a \in provisioned /\ UNCHANGED <<written, rows, basisCache, provisioned>>
  \/ a \notin provisioned /\ Upsert(a) /\ Remembers(a)
  \/ a \notin provisioned /\ UNCHANGED <<written, rows, basisCache, provisioned>>

PeerStep(s) ==
  \/ Provision(s) \/ Provisioned(s) \/ ProvisionFails(s)
  \/ AskReplica(s) \/ ReplicaRefuses(s) \/ BasisComes(s)
  \/ WriterCommits(s) \/ WriterIsDead(s) \/ WriterAnswers(s)
-----------------------------------------------------------------------------
IsRead(q) == q # None /\ q.pc = "answered" /\ q.status = 200 /\ q.route \in {"read", "info"}

(* A read answers with what the replica had less than a TTL and a flight    *)
(* before, from the cache or not (peer.ts:136, "cross-isolate freshness     *)
(* bound"), and with no less than its x-ramose-min-t unless the replica was *)
(* still behind when the polls were spent (index.ts:9).  The entry it reads *)
(* may be that of any request, written and dropped while it looked.         *)
ReadsAreFresh ==
  \A s \in Slots : IsRead(http[s]) =>
    /\ http[s].age < TTL + Flight
    /\ http[s].t >= http[s].minT \/ http[s].polls > MinTRetries
=============================================================================
