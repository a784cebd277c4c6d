---------------------------- MODULE OverlayProofs ----------------------------
(***************************************************************************)
(* Proofs about Overlay.tla, for any number of writes, foreign writes,     *)
(* lost sockets, retries and resyncs.                                      *)
(*                                                                         *)
(* The inductive invariant has two halves.  FollowerInv says what of the   *)
(* log is painted: a dump of 1..b, every later entry whose t is painted,   *)
(* and no hole up to a cursor; at rest that is the whole log, and a dump   *)
(* says of every fact what its datoms say.  EntityInv follows the number   *)
(* of an entity the client made through drafts, layers, the queue of posts *)
(* and the log: while no number stands for two entities, each names the    *)
(* entity by the layer's number as long as the layer is on, by the         *)
(* server's after its ack; what needs that is posted in the order of the   *)
(* pushes, and a resync leaves nothing that goes by a layer it took.       *)
(***************************************************************************)
EXTENDS Overlay, FiniteSetTheorems, NaturalsInduction, WellFoundedInduction, TLAPS

\* The log is a sequence.
LogInv == \E S : log \in Seq(S)

(***************************************************************************)
(* The follower.                                                           *)
(***************************************************************************)
\* A t the follower has painted, or will have when the dump is in.
Has(t) == t \in factTs \/ t <= dump
HasUpTo(n) == n \in 0..Tip /\ \A t \in 1..n : Has(t)

\* What a dump at b leaves of a set of datoms, and what is painted after it.
KeptOf(D) == {d \in D : d.op /\ \A x \in D : x.e = d.e /\ x.v = d.v => x.t <= d.t}
LoggedIn(T) == UNION {Logged(t) : t \in T}
After(b) == {t \in factTs : t > b}
PaintedOver(b) == 1..b \subseteq factTs /\ painted = KeptOf(LoggedIn(1..b)) \cup LoggedIn(After(b))

SessionFields == {"up", "cursor", "asked", "from", "due"}
FollowerInv ==
  /\ dump \in 0..Tip /\ factTs \subseteq 1..Tip /\ (Applying => factTs \subseteq 1..dump)
  /\ HasUpTo(confirmedT)
  /\ DOMAIN session = SessionFields /\ HasUpTo(session.cursor) /\ HasUpTo(session.from)
  /\ \E b \in 0..Tip : PaintedOver(b)

(***************************************************************************)
(* The writes, the queue of posts and the request in flight.               *)
(***************************************************************************)
WriteFields == {"at", "kind", "e", "means", "datoms", "behind"}
PostFields == {"w", "e", "tries", "at", "t"}
At(w) == writes[w].at
Landed(w) == At(w) \in {"queued", "acked", "failed"}

WritesInv ==
  /\ DOMAIN writes = Writes
  /\ \A w \in Writes :
       /\ DOMAIN writes[w] = WriteFields
       /\ At(w) \in {"new", "draft", "queued", "acked", "failed"}
       /\ writes[w].behind \in BOOLEAN
  /\ \A w \in DOMAIN pending : w \in Writes /\ At(w) = "queued" /\ DOMAIN pending[w] = {"e", "datoms"}

\* Posts are queued once each; what is in flight has left the queue.
QueueInv ==
  /\ outbox \in Seq(Writes)
  /\ \A i \in 1..Len(outbox) :
       /\ At(outbox[i]) = "queued" /\ (posting.at # "none" => outbox[i] # posting.w)
       /\ \A j \in 1..Len(outbox) : outbox[i] = outbox[j] => i = j
  /\ DOMAIN posting = PostFields
  /\ posting.at \in {"none", "sent", "landed", "error"}
  /\ posting.at # "none" => posting.w \in Writes /\ At(posting.w) = "queued"
  /\ posting.at = "landed" => posting.t \in 1..Tip /\ log[posting.t].w = posting.w
InFlight(w) == posting.at # "none" /\ posting.w = w
WaitsInv ==
  \A w \in Writes : At(w) = "queued" => InFlight(w) \/ \E i \in 1..Len(outbox) : outbox[i] = w

(***************************************************************************)
(* Entities.                                                               *)
(***************************************************************************)
Makes(w) == writes[w].kind = "make"

\* Datoms of one entity, of which a write asserts its own.
DatomFields == {"e", "v", "op", "t"}
Says(D, x, w) == \A d \in D : DOMAIN d = DatomFields /\ d.e = x /\ (d.op => d.v = w)

\* What the log says of its entries, and of the writes they are of.
EntriesInv ==
  \A t \in 1..Tip :
    /\ Says(log[t].datoms, log[t].e, log[t].w)
    /\ log[t].w \in Writes =>
         /\ Landed(log[t].w)
         /\ Makes(log[t].w) => \E d \in log[t].datoms : d.op

\* What a layer and a draft say, likewise.
LayersInv ==
  /\ \A w \in DOMAIN pending : Says(pending[w].datoms, pending[w].e, w)
  /\ \A w \in Writes : At(w) = "draft" => Says(writes[w].datoms, writes[w].e, w)

\* The fact a write goes by is of a write made before it.
MeansInv ==
  \A w \in Writes :
    /\ Makes(w) => writes[w].means \notin Writes
    /\ At(w) = "draft" /\ writes[w].means \in Writes => Landed(writes[w].means)
    /\ writes[w].behind =>
         /\ writes[w].means \in Writes \ {w} /\ Landed(writes[w].means) /\ Landed(w)

\* A resync leaves no layer that anything still means.
ResyncInv ==
  Applying => \A w \in Writes :
    /\ ~writes[w].behind
    /\ At(w) = "draft" => writes[w].means \notin DOMAIN pending

\* A write behind one that is still queued is posted after it.
OrderInv ==
  \A w \in Writes : writes[w].behind =>
    LET m == writes[w].means IN
    /\ At(w) = "queued" /\ At(m) = "queued" =>
         \/ InFlight(m)
         \/ \E i, j \in 1..Len(outbox) : i < j /\ outbox[i] = m /\ outbox[j] = w
    /\ InFlight(w) => At(m) # "queued"
    /\ \A t \in 1..Tip : log[t].w = w => At(m) # "queued"

\* The commits of a write whose layer is still on are newer than the last dump.
FreshInv ==
  \A m \in DOMAIN pending : \A u \in CommittedAt(m) :
    u > dump /\ (u \in factTs => Logged(u) \subseteq painted)

\* The number x is of the entity the write m makes: the layer's, or the server's.
Names(x, m) ==
  \/ m \in DOMAIN pending /\ pending[m].e = x
  \/ \E d \in painted : d.op /\ d.e = x /\ d.v = m

\* Until numbers are mixed, a write that goes by the one that makes its entity has
\* a number of it: as a draft, in its layer, and in flight.
DraftNumbers ==
  \A w \in Writes :
    LET m == writes[w].means IN
    At(w) = "draft" /\ m \in DOMAIN pending /\ Makes(m) => Names(writes[w].e, m)
LayerNumbers ==
  \A w \in Writes :
    LET m == writes[w].means IN
    writes[w].behind /\ Makes(m) /\ At(w) = "queued" /\ At(m) # "failed" =>
      w \in DOMAIN pending /\ Names(pending[w].e, m)
PostNumber ==
  \A w \in Writes :
    LET m == writes[w].means IN
    InFlight(w) /\ writes[w].behind /\ Makes(m) /\ At(m) = "acked" =>
      \E u \in CommittedAt(m) : log[u].e = posting.e
NumbersInv == ~Mixed /\ DraftNumbers /\ LayerNumbers /\ PostNumber

EntityInv ==
  /\ EntriesInv /\ LayersInv /\ MeansInv /\ ResyncInv /\ WaitsInv /\ OrderInv /\ FreshInv
  /\ EditsLand /\ (~mixed => NumbersInv)

OverlayInv == FollowerInv /\ WritesInv /\ QueueInv /\ EntityInv

-----------------------------------------------------------------------------
(***************************************************************************)
(* The log.                                                                *)
(***************************************************************************)
\* What a step leaves of the log.
LogGrown ==
  /\ Tip \in Nat /\ Tip' \in Nat /\ Tip <= Tip' /\ \A u \in 1..Tip : log'[u] = log[u]
  /\ DOMAIN log = 1..Tip /\ DOMAIN log' = 1..Tip'

\* A commit appends one entry.
LEMMA Appended ==
  ASSUME LogInv, NEW e, log' = Append(log, e)
  PROVE  LogInv' /\ LogGrown /\ Tip' = Tip + 1 /\ log'[Tip'] = e
<1>1. PICK S : log \in Seq(S)
  BY DEF LogInv
<1> DEFINE R == S \cup {e}
<1>2. log \in Seq(R) /\ e \in R
  BY <1>1
<1>3. log' \in Seq(R) /\ Len(log') = Len(log) + 1 /\ Len(log) \in Nat
  <2> HIDE DEF R
  <2> QED BY <1>2
<1>4. \A u \in 1..Len(log) : log'[u] = log[u]
  <2> HIDE DEF R
  <2> QED BY <1>2
<1>5. log'[Len(log) + 1] = e
  <2> HIDE DEF R
  <2> QED BY <1>2
<1>6. DOMAIN log = 1..Len(log) /\ DOMAIN log' = 1..Len(log')
  <2> HIDE DEF R
  <2> QED BY <1>2, <1>3
<1> QED BY <1>3, <1>4, <1>5, <1>6 DEF LogInv, LogGrown, Tip

\* A step that commits nothing leaves the log.
LEMMA LogRests ==
  ASSUME LogInv, log' = log
  PROVE  LogInv' /\ LogGrown
<1>1. PICK S : log \in Seq(S)
  BY DEF LogInv
<1>2. Len(log) \in Nat /\ DOMAIN log = 1..Len(log)
  BY <1>1
<1> QED BY <1>1, <1>2 DEF LogInv, LogGrown, Tip

\* No step takes an entry of the log back, or changes one.
LEMMA LogStep ==
  ASSUME LogInv, [Next]_vars
  PROVE  LogInv' /\ LogGrown
<1>1. CASE log' = log
  BY <1>1, LogRests
<1>2. CASE Foreign
  BY <1>2, Appended DEF Foreign
<1>3. CASE Land
  BY <1>1, <1>3, Appended DEF Land
<1>4. Foreign \/ Land \/ log' = log
  BY DEF Next, Server, Client, vars, server, own, shown, Draft, Transact, Run, Push, StartPost, Lose, TakeAck, TakeError,
     TakeSync, Ask, NeedsSync, RequestSync, Drop, ApplyTx, ApplyResync, ReplaceConfirmed,
     Synced, LiveRead, Read
<1> QED BY <1>1, <1>2, <1>3, <1>4

(***************************************************************************)
(* The follower.                                                           *)
(***************************************************************************)
\* A longer log says the same of the entries it had.
LEMMA LoggedKept ==
  ASSUME LogGrown, NEW T \in SUBSET (1..Tip)
  PROVE  LoggedIn(T)' = LoggedIn(T)
<1>1. ASSUME NEW t \in T PROVE Logged(t)' = Logged(t)
  <2>1. log'[t] = log[t]
    BY DEF LogGrown
  <2> QED BY <2>1 DEF Logged
<1> QED BY <1>1 DEF LoggedIn

\* A follower that does not move holds of a longer log what it held.
LEMMA FollowerRests ==
  ASSUME FollowerInv, LogGrown, UNCHANGED <<follower, dump>>
  PROVE  /\ dump' \in 0..Tip' /\ factTs' \subseteq 1..Tip' /\ (Applying' => factTs' \subseteq 1..dump')
         /\ HasUpTo(confirmedT)' /\ \E b \in 0..Tip' : PaintedOver(b)'
         /\ \A n : HasUpTo(n) => n \in 0..Tip' /\ \A t \in 1..n : Has(t)'
<1>1. PICK b \in 0..Tip : PaintedOver(b)
  BY DEF FollowerInv
<1>2. Tip \in Nat /\ Tip' \in Nat /\ Tip <= Tip'
  BY DEF LogGrown
<1>3. PaintedOver(b)'
  <2>1. LoggedIn(1..b)' = LoggedIn(1..b)
    BY <1>2, LoggedKept
  <2>2. After(b) \subseteq 1..Tip /\ After(b)' = After(b)
    BY DEF After, FollowerInv, follower
  <2>3. LoggedIn(After(b))' = LoggedIn(After(b))'
    OBVIOUS
  <2>4. LoggedIn(After(b))' = LoggedIn(After(b))
    <3> DEFINE T == After(b)
    <3>1. PICK U : U = After(b)
      OBVIOUS
    <3>2. LoggedIn(U)' = LoggedIn(U)
      BY <2>2, <3>1, LoggedKept
    <3> QED BY <2>2, <3>1, <3>2 DEF LoggedIn
  <2> QED BY <1>1, <2>1, <2>4 DEF PaintedOver, KeptOf, follower
<1>4. \A n : HasUpTo(n) => n \in 0..Tip' /\ \A t \in 1..n : Has(t)'
  BY <1>2 DEF HasUpTo, Has, follower
<1>5. HasUpTo(confirmedT)'
  BY <1>4 DEF HasUpTo, FollowerInv, follower
<1> QED BY <1>2, <1>3, <1>4, <1>5 DEF FollowerInv, follower, Applying

\* A t of the log is painted once, over whatever is painted.
LEMMA PaintKeeps ==
  ASSUME FollowerInv, LogGrown, UNCHANGED <<log, dump>>, ~Applying, NEW t \in 1..Tip, Paint(t)
  PROVE  /\ factTs' \subseteq 1..Tip' /\ t \in factTs' /\ \E b \in 0..Tip' : PaintedOver(b)'
         /\ painted \subseteq painted'
         /\ \A n : HasUpTo(n) => n \in 0..Tip' /\ \A u \in 1..n : Has(u)'
<1>1. PICK b \in 0..Tip : PaintedOver(b)
  BY DEF FollowerInv
<1>2. Tip \in Nat /\ Tip' = Tip
  BY DEF LogGrown, Tip
<1>3. factTs' = factTs \cup {t} /\ factTs \subseteq 1..Tip
  BY DEF Paint, FollowerInv
<1>4. \A n : HasUpTo(n) => n \in 0..Tip' /\ \A u \in 1..n : Has(u)'
  BY <1>2, <1>3 DEF HasUpTo, Has
<1>5. PaintedOver(b)'
  <2>1. CASE t \in factTs
    <3>1. painted' = painted /\ factTs' = factTs /\ log' = log
      BY <2>1 DEF Paint
    <3> QED BY <1>1, <3>1 DEF PaintedOver, LoggedIn, Logged, After, KeptOf
  <2>2. CASE t \notin factTs
    <3>1. t > b
      BY <1>1, <1>2, <2>2 DEF PaintedOver
    <3>2. After(b)' = After(b) \cup {t}
      BY <1>3, <3>1 DEF After
    <3>3. LoggedIn(After(b))' = LoggedIn(After(b)) \cup Logged(t)
      BY <3>2 DEF LoggedIn, Logged
    <3>4. LoggedIn(1..b)' = LoggedIn(1..b)
      BY DEF LoggedIn, Logged
    <3>5. painted' = painted \cup Logged(t)
      BY <2>2 DEF Paint
    <3> QED BY <1>1, <1>3, <3>3, <3>4, <3>5 DEF PaintedOver, KeptOf
  <2> QED BY <2>1, <2>2
<1> QED BY <1>2, <1>3, <1>4, <1>5 DEF Paint

\* The highest of two numbers.
LEMMA HighestOfTwo ==
  ASSUME NEW m \in Nat, NEW n \in Nat
  PROVE  Highest({m}, n) \in {m, n} /\ m <= Highest({m}, n) /\ n <= Highest({m}, n)
<1> DEFINE T == {m} \cup {n}
<1>1. \E x \in T : \A y \in T : y <= x
  <2>1. CASE m <= n
    BY <2>1
  <2>2. CASE n <= m
    BY <2>2
  <2> QED BY <2>1, <2>2
<1>2. Highest({m}, n) \in T /\ \A y \in T : y <= Highest({m}, n)
  <2> HIDE DEF T
  <2>1. Highest({m}, n) = CHOOSE x \in T : \A y \in T : y <= x
    BY DEF Highest, T
  <2> QED BY <1>1, <2>1
<1> QED BY <1>2

\* Every step keeps the follower a prefix of the log with later entries painted over it.
LEMMA FollowerNext ==
  ASSUME LogInv, FollowerInv, QueueInv, [Next]_vars
  PROVE  FollowerInv'
<1>0. LogGrown
  BY LogStep
<1>1. Tip \in Nat /\ Tip' \in Nat /\ Tip <= Tip'
  BY <1>0 DEF LogGrown
<1>2. ASSUME UNCHANGED <<follower, dump>>, DOMAIN session' = SessionFields,
             session'.cursor = session.cursor \/ session'.cursor = session.from \/ session'.cursor = 0,
             session'.from = session.from \/ session'.from = confirmedT \/ session'.from = 0
      PROVE  FollowerInv'
  <2>1. HasUpTo(session.cursor) /\ HasUpTo(session.from) /\ HasUpTo(confirmedT) /\ HasUpTo(0)
    BY <1>1 DEF FollowerInv, HasUpTo
  <2>2. HasUpTo(session.cursor)' /\ HasUpTo(session.from)'
    BY <1>0, <1>2, <2>1, FollowerRests DEF HasUpTo
  <2> QED BY <1>0, <1>2, <2>2, FollowerRests DEF FollowerInv
<1>3. ASSUME UNCHANGED <<follower, dump, session>> PROVE FollowerInv'
  BY <1>2, <1>3 DEF FollowerInv
<1>4. CASE Foreign \/ Land \/ UNCHANGED vars \/ StartPost \/ Lose \/ TakeError \/ LiveRead
           \/ \E w \in Writes : Transact(w) \/ Run(w) \/ Push(w)
  BY <1>3, <1>4 DEF Foreign, Land, vars, StartPost, Lose, TakeError, LiveRead, Read, Transact,
     Run, Push, Draft
<1>5. CASE TakeSync
  <2>1. session' = [session EXCEPT !.asked = "taken", !.cursor = session.from, !.due = Tip]
    BY <1>5 DEF TakeSync
  <2>2. DOMAIN session' = SessionFields /\ session'.cursor = session.from /\ session'.from = session.from
    BY <2>1 DEF FollowerInv, SessionFields
  <2> QED BY <1>2, <1>5, <2>2 DEF TakeSync
<1>6. CASE Ask
  <2>1. session' = [session EXCEPT !.up = TRUE, !.asked = "sent", !.from = confirmedT]
    BY <1>6 DEF Ask, NeedsSync, RequestSync
  <2>2. DOMAIN session' = SessionFields /\ session'.cursor = session.cursor /\ session'.from = confirmedT
    BY <2>1 DEF FollowerInv, SessionFields
  <2> QED BY <1>2, <1>6, <2>2 DEF Ask, NeedsSync, RequestSync
<1>7. CASE Drop
  <2>1. DOMAIN session' = SessionFields /\ session'.cursor = 0 /\ session'.from = 0
    BY <1>7 DEF Drop, NoSession, SessionFields
  <2> QED BY <1>2, <1>7, <2>1 DEF Drop
<1>8. CASE Synced
  <2>1. /\ session' = [session EXCEPT !.asked = "done"] /\ ~Applying
        /\ confirmedT' = Highest({confirmedT}, session.cursor)
        /\ UNCHANGED <<log, painted, factTs, dump>>
    BY <1>8 DEF Synced, server
  <2>2. DOMAIN session' = SessionFields /\ session'.cursor = session.cursor /\ session'.from = session.from
    BY <2>1 DEF FollowerInv, SessionFields
  <2>3. confirmedT \in Nat /\ session.cursor \in Nat
    BY <1>1 DEF FollowerInv, HasUpTo
  <2>4. HasUpTo(confirmedT)'
    BY <2>1, <2>3, HighestOfTwo DEF FollowerInv, HasUpTo, Has, Tip
  <2>5. PICK b \in 0..Tip : PaintedOver(b)
    BY DEF FollowerInv
  <2>6. PaintedOver(b)'
    BY <2>1, <2>5 DEF PaintedOver, LoggedIn, Logged, After, KeptOf
  <2>7. Tip' = Tip /\ HasUpTo(session.cursor)' /\ HasUpTo(session.from)'
    BY <2>1, <2>2 DEF FollowerInv, HasUpTo, Has, Tip
  <2> QED BY <2>1, <2>2, <2>4, <2>6, <2>7 DEF FollowerInv, Applying
<1>9. CASE TakeAck
  <2>1. Paint(posting.t) /\ ~Applying /\ UNCHANGED <<log, session, confirmedT, dump>> /\ posting.t \in 1..Tip
    BY <1>9 DEF TakeAck, server, QueueInv
  <2>2. /\ factTs' \subseteq 1..Tip' /\ \E b \in 0..Tip' : PaintedOver(b)'
        /\ \A n : HasUpTo(n) => n \in 0..Tip' /\ \A u \in 1..n : Has(u)'
    BY <1>0, <2>1, PaintKeeps
  <2>3. HasUpTo(confirmedT)' /\ HasUpTo(session.cursor)' /\ HasUpTo(session.from)'
    BY <2>1, <2>2 DEF FollowerInv, HasUpTo
  <2> QED BY <2>1, <2>2, <2>3 DEF FollowerInv, Applying, Tip
<1>10. CASE ApplyTx
  <2>1. /\ session.cursor < Tip /\ ~Applying /\ Paint(session.cursor + 1)
        /\ session' = [session EXCEPT !.cursor = @ + 1] /\ UNCHANGED <<log, confirmedT, dump>>
    BY <1>10 DEF ApplyTx, server
  <2>2. DOMAIN session' = SessionFields /\ session'.cursor = session.cursor + 1 /\ session'.from = session.from
    BY <2>1 DEF FollowerInv, SessionFields
  <2>3. session.cursor + 1 \in 1..Tip
    BY <1>1, <2>1 DEF FollowerInv, HasUpTo
  <2>4. /\ factTs' \subseteq 1..Tip' /\ \E b \in 0..Tip' : PaintedOver(b)'
        /\ session.cursor + 1 \in factTs'
        /\ \A n : HasUpTo(n) => n \in 0..Tip' /\ \A u \in 1..n : Has(u)'
    BY <1>0, <2>1, <2>3, PaintKeeps
  <2>5. HasUpTo(confirmedT)' /\ HasUpTo(session.from)'
    BY <2>1, <2>2, <2>4 DEF FollowerInv, HasUpTo
  <2>6. HasUpTo(session.cursor)'
    <3>1. session'.cursor \in 0..Tip'
      BY <2>1, <2>2, <2>3 DEF Tip
    <3>2. ASSUME NEW u \in 1..session'.cursor PROVE Has(u)'
      <4>1. CASE u \in 1..session.cursor
        BY <2>4, <4>1 DEF FollowerInv
      <4>2. CASE u = session.cursor + 1
        BY <2>4, <4>2 DEF Has
      <4>3. session.cursor \in Nat
        BY <1>1 DEF FollowerInv, HasUpTo
      <4> QED BY <2>2, <4>1, <4>2, <4>3
    <3> QED BY <3>1, <3>2 DEF HasUpTo
  <2> QED BY <2>1, <2>2, <2>4, <2>5, <2>6 DEF FollowerInv, Applying, Tip
<1>11. CASE ApplyResync
  <2>1. /\ dump' = Tip /\ Tip > 0 /\ ~Applying /\ UNCHANGED <<log, follower>>
        /\ session' = [session EXCEPT !.cursor = Tip]
    BY <1>11 DEF ApplyResync
  <2>2. DOMAIN session' = SessionFields /\ session'.cursor = Tip /\ session'.from = session.from
    BY <2>1 DEF FollowerInv, SessionFields
  <2>3. Tip' = Tip /\ factTs' = factTs /\ painted' = painted /\ confirmedT' = confirmedT
    BY <2>1 DEF Tip, follower
  <2>4. \A u \in 1..Tip : Has(u)'
    BY <1>1, <2>1 DEF Has
  <2>5. HasUpTo(confirmedT)' /\ HasUpTo(session.cursor)' /\ HasUpTo(session.from)'
    BY <1>1, <2>2, <2>3, <2>4 DEF FollowerInv, HasUpTo
  <2>6. PICK b \in 0..Tip : PaintedOver(b)
    BY DEF FollowerInv
  <2>7. PaintedOver(b)'
    BY <2>1, <2>3, <2>6 DEF PaintedOver, LoggedIn, Logged, After, KeptOf
  <2> QED BY <1>1, <2>1, <2>2, <2>3, <2>5, <2>7 DEF FollowerInv
<1>12. CASE ReplaceConfirmed
  <2>1. /\ Applying /\ factTs' = 1..dump /\ confirmedT' = dump /\ dump' = NoDump /\ UNCHANGED <<log, session>>
        /\ painted' = KeptOf(LoggedIn(1..dump))
    BY <1>12 DEF ReplaceConfirmed, server, KeptOf, LoggedIn
  <2>2. dump \in 0..Tip /\ Tip' = Tip /\ factTs \subseteq 1..dump
    BY <2>1 DEF FollowerInv, Tip
  <2>3. \A u : Has(u) /\ u \in 1..Tip => Has(u)'
    BY <1>1, <2>1, <2>2 DEF Has
  <2>4. HasUpTo(session.cursor)' /\ HasUpTo(session.from)'
    BY <1>1, <2>1, <2>2, <2>3 DEF FollowerInv, HasUpTo
  <2>5. HasUpTo(confirmedT)'
    BY <1>1, <2>1, <2>2 DEF HasUpTo, Has
  <2>6. PICK b \in 0..Tip : b = dump
    BY <2>2
  <2>7. PaintedOver(b)'
    <3>1. After(b)' = {}
      BY <1>1, <2>1, <2>2, <2>6 DEF After
    <3>2. LoggedIn(After(b))' = {}
      BY <3>1 DEF LoggedIn
    <3>3. LoggedIn(1..b)' = LoggedIn(1..b)
      BY <2>1 DEF LoggedIn, Logged
    <3>4. KeptOf(LoggedIn(1..b))' = KeptOf(LoggedIn(1..b))
      BY <3>3 DEF KeptOf
    <3> QED BY <2>1, <2>6, <3>2, <3>4 DEF PaintedOver
  <2> QED BY <1>1, <2>1, <2>2, <2>4, <2>5, <2>7 DEF FollowerInv, NoDump, Applying
<1> QED BY <1>4, <1>5, <1>6, <1>7, <1>8, <1>9, <1>10, <1>11, <1>12 DEF Next, Server, Client

(***************************************************************************)
(* Writes and posts.                                                       *)
(***************************************************************************)
\* No write but w moves.
Only(w) == \A u \in Writes : u # w => writes'[u] = writes[u]

\* A set of numbers has a least one.
LEMMA Least ==
  ASSUME NEW T \in SUBSET Nat, T # {}
  PROVE  \E x \in T : \A y \in T : x <= y
<1> DEFINE R == {p \in Nat \X Nat : p[1] < p[2]}
<1>1. R = OpToRel(<, Nat)
  BY Zenon DEF OpToRel
<1>2. IsWellFoundedOn(R, Nat)
  BY <1>1, NatLessThanWellFounded
<1>3. PICK x \in T : \A y \in T : ~ (<<y, x>> \in R)
  <2> HIDE DEF R
  <2> QED BY <1>2, WFMin
<1>4. ASSUME NEW y \in T PROVE x <= y
  <2>1. x \in Nat /\ y \in Nat
    OBVIOUS
  <2>2. ~ (<<y, x>> \in R)
    BY <1>3
  <2>3. <<y, x>> \in R <=> y < x
    BY <2>1
  <2> QED BY <2>1, <2>2, <2>3
<1> QED BY <1>4

\* The highest of some log positions is one of them.
LEMMA HighestOfSome ==
  ASSUME NEW n \in Nat, NEW T \in SUBSET (1..n), T # {}
  PROVE  Highest(T, 0) \in T
<1> DEFINE R == {n - x : x \in T}
<1>1. R \in SUBSET Nat /\ R # {}
  <2>1. ASSUME NEW x \in T PROVE n - x \in Nat
    <3>1. x \in 1..n
      OBVIOUS
    <3> QED BY <3>1
  <2> QED BY <2>1
<1>2. PICK r \in R : \A y \in R : r <= y
  <2> HIDE DEF R
  <2> QED BY <1>1, Least
<1>3. PICK m \in T : r = n - m
  BY <1>2
<1>4. ASSUME NEW y \in T \cup {0} PROVE y <= m
  <2>1. CASE y \in T
    <3>1. n - y \in R
      BY <2>1
    <3>2. n - m <= n - y /\ m \in 1..n /\ y \in 1..n
      BY <1>2, <1>3, <2>1, <3>1
    <3> QED BY <3>2
  <2>2. CASE y = 0
    <3>1. m \in 1..n
      OBVIOUS
    <3> QED BY <2>2, <3>1
  <2> QED BY <2>1, <2>2
<1> DEFINE U == T \cup {0}
<1>5. Highest(T, 0) \in U /\ \A x \in U : x <= Highest(T, 0)
  <2>1. Highest(T, 0) = CHOOSE x \in U : \A y \in U : y <= x
    BY DEF Highest
  <2>2. m \in U /\ \A y \in U : y <= m
    BY <1>4
  <2> HIDE DEF U
  <2> QED BY <2>1, <2>2
<1>6. m \in 1..n
  OBVIOUS
<1>7. Highest(T, 0) # 0
  BY <1>5, <1>6
<1> QED BY <1>5, <1>7

\* Every step keeps the layers those of queued writes.
LEMMA WritesNext ==
  ASSUME WritesInv, QueueInv, [Next]_vars
  PROVE  WritesInv'
<1>1. CASE UNCHANGED <<writes, pending>>
  BY <1>1 DEF WritesInv, At
<1>2. ASSUME NEW w \in Writes, Transact(w) \/ Run(w)
      PROVE  WritesInv'
  <2>1. PICK k, e, m : Draft(w, k, e, m)
    BY <1>2 DEF Transact, Run
  <2>2. /\ writes' = [writes EXCEPT ![w] = [New EXCEPT !.at = "draft", !.kind = k, !.e = e,
                 !.means = m, !.datoms = Expand(w, k, e, View, FakeT)]]
        /\ pending' = pending /\ At(w) = "new"
    BY <2>1 DEF Draft, At
  <2>3. DOMAIN writes'[w] = WriteFields /\ writes'[w].at = "draft" /\ writes'[w].behind = FALSE /\ Only(w) /\ DOMAIN writes' = Writes
    BY <2>2 DEF WritesInv, New, WriteFields, Only
  <2> QED BY <2>2, <2>3 DEF WritesInv, At, Only
<1>3. ASSUME NEW w \in Writes, Push(w)
      PROVE  WritesInv'
  <2> DEFINE behind == writes[w].means \in DOMAIN pending
  <2>1. /\ writes' = [writes EXCEPT ![w].at = "queued", ![w].datoms = {}, ![w].behind = behind,
                                ![w].means = IF behind THEN @ ELSE 0]
        /\ pending' = [u \in DOMAIN pending \cup {w} |->
                   IF u = w THEN [e |-> writes[w].e, datoms |-> writes[w].datoms]
                   ELSE pending[u]]
    BY <1>3 DEF Push
  <2>2. behind \in BOOLEAN
    OBVIOUS
  <2> HIDE DEF behind
  <2>3. DOMAIN writes'[w] = WriteFields /\ writes'[w].at = "queued" /\ writes'[w].behind \in BOOLEAN /\ Only(w) /\ DOMAIN writes' = Writes
    BY <2>1, <2>2 DEF WritesInv, WriteFields, Only
  <2>4. DOMAIN pending' = DOMAIN pending \cup {w} /\ \A u \in DOMAIN pending' : DOMAIN pending'[u] = {"e", "datoms"}
    BY <2>1 DEF WritesInv
  <2> QED BY <2>3, <2>4 DEF WritesInv, At, Only
<1>4. ASSUME NEW s \in {"acked", "failed"}, posting.at # "none",
             writes' = [writes EXCEPT ![posting.w].at = s, ![posting.w].e = 0],
             DOMAIN pending' = DOMAIN pending \ {posting.w},
             \A u \in DOMAIN pending' : DOMAIN pending'[u] = {"e", "datoms"}
      PROVE  WritesInv'
  <2>1. PICK w \in Writes : w = posting.w
    BY <1>4 DEF QueueInv
  <2>2. DOMAIN writes'[w] = WriteFields /\ writes'[w].at = s /\ writes'[w].behind \in BOOLEAN /\ Only(w) /\ DOMAIN writes' = Writes
    BY <1>4, <2>1 DEF WritesInv, WriteFields, Only
  <2> QED BY <1>4, <2>1, <2>2 DEF WritesInv, At, Only
<1>5. CASE TakeAck
  <2>1. DOMAIN Without(posting.w) = DOMAIN pending \ {posting.w}
        /\ \A u \in DOMAIN Without(posting.w) : DOMAIN Without(posting.w)[u] = {"e", "datoms"}
    BY DEF Without, WritesInv
  <2>2. ASSUME NEW a, NEW b PROVE DOMAIN RemapQueued(Without(posting.w), a, b) = DOMAIN pending \ {posting.w}
        /\ \A u \in DOMAIN pending \ {posting.w} : DOMAIN RemapQueued(Without(posting.w), a, b)[u] = {"e", "datoms"}
    BY <2>1 DEF RemapQueued, RewriteItem
  <2> QED BY <1>4, <1>5, <2>1, <2>2 DEF TakeAck
<1>6. CASE TakeError
  <2>1. DOMAIN Without(posting.w) = DOMAIN pending \ {posting.w}
        /\ \A u \in DOMAIN Without(posting.w) : DOMAIN Without(posting.w)[u] = {"e", "datoms"}
    BY DEF Without, WritesInv
  <2> QED BY <1>4, <1>6, <2>1 DEF TakeError
<1>7. CASE ApplyResync
  <2>1. writes' = [w \in Writes |-> [writes[w] EXCEPT !.behind = FALSE]] /\ pending' = <<>>
    BY <1>7 DEF ApplyResync
  <2>2. DOMAIN pending' = {}
    BY <2>1
  <2>3. ASSUME NEW w \in Writes
        PROVE  DOMAIN writes'[w] = WriteFields /\ writes'[w].at = At(w) /\ writes'[w].behind = FALSE
    BY <2>1 DEF WritesInv, WriteFields, At
  <2> QED BY <2>1, <2>2, <2>3 DEF WritesInv, At
<1> QED BY <1>1, <1>2, <1>3, <1>5, <1>6, <1>7 DEF Next, Server, Client, Foreign, Land,
     TakeSync, Ask, NeedsSync, RequestSync, Drop,
     StartPost, Lose, ApplyTx, ReplaceConfirmed, Synced, LiveRead, Read, vars, own

\* A write that has a layer or has had one is what it was; only its post moves it.
LandedStays ==
  \A w \in Writes : Landed(w) =>
    /\ Landed(w)' /\ writes'[w].kind = writes[w].kind /\ writes'[w].means = writes[w].means
    /\ writes'[w].behind => writes[w].behind
    /\ At(w) # "queued" => At(w)' = At(w)
    /\ At(w)' # At(w) => posting.at # "none" /\ posting.w = w

\* No step moves a write that has been pushed but its own ack or refusal.
LEMMA LandedStep ==
  ASSUME WritesInv, QueueInv, [Next]_vars
  PROVE  LandedStays
<1>1. CASE UNCHANGED writes
  BY <1>1 DEF LandedStays, Landed, At
<1>2. ASSUME NEW w \in Writes, Transact(w) \/ Run(w)
      PROVE  LandedStays
  <2>1. PICK k, e, m : Draft(w, k, e, m)
    BY <1>2 DEF Transact, Run
  <2>2. Only(w) /\ ~Landed(w)
    BY <2>1 DEF Draft, WritesInv, Only, Landed, At
  <2> QED BY <2>2 DEF LandedStays, Landed, At, Only
<1>3. ASSUME NEW w \in Writes, Push(w)
      PROVE  LandedStays
  <2>1. Only(w) /\ ~Landed(w)
    BY <1>3 DEF Push, WritesInv, Only, Landed, At
  <2> QED BY <2>1 DEF LandedStays, Landed, At, Only
<1>4. ASSUME NEW s \in {"acked", "failed"}, posting.at # "none",
             writes' = [writes EXCEPT ![posting.w].at = s, ![posting.w].e = 0]
      PROVE  LandedStays
  <2>1. PICK w \in Writes : w = posting.w
    BY <1>4 DEF QueueInv
  <2>2. /\ writes'[w].kind = writes[w].kind /\ writes'[w].means = writes[w].means
        /\ writes'[w].at = s /\ writes'[w].behind = writes[w].behind /\ Only(w)
    BY <1>4, <2>1 DEF WritesInv, WriteFields, Only
  <2>3. At(w) = "queued"
    BY <1>4, <2>1 DEF QueueInv
  <2> QED BY <1>4, <2>1, <2>2, <2>3 DEF LandedStays, Landed, At, Only
<1>5. CASE ApplyResync
  <2>1. writes' = [w \in Writes |-> [writes[w] EXCEPT !.behind = FALSE]]
    BY <1>5 DEF ApplyResync
  <2>2. ASSUME NEW w \in Writes
        PROVE  /\ writes'[w].kind = writes[w].kind /\ writes'[w].means = writes[w].means
               /\ writes'[w].at = writes[w].at /\ writes'[w].behind = FALSE
    BY <2>1 DEF WritesInv, WriteFields
  <2> QED BY <2>2 DEF LandedStays, Landed, At
<1>6. CASE TakeAck \/ TakeError
  BY <1>4, <1>6 DEF TakeAck, TakeError
<1> QED BY <1>1, <1>2, <1>3, <1>5, <1>6 DEF Next, Server, Client, Foreign, Land, TakeSync, Ask,
     NeedsSync, RequestSync, Drop,
     StartPost, Lose, ApplyTx, ReplaceConfirmed, Synced, LiveRead, Read, vars, own

\* Every step keeps the posts queued once each.
LEMMA QueueNext ==
  ASSUME LogInv, WritesInv, QueueInv, [Next]_vars
  PROVE  QueueInv'
<1>0. LogGrown /\ LandedStays /\ Tip \in Nat /\ Tip' \in Nat /\ Tip <= Tip'
  BY LogStep, LandedStep DEF LogGrown
<1>1. ASSUME UNCHANGED <<outbox, posting>>, \A w \in Writes : At(w) = "queued" => At(w)' = "queued"
      PROVE  QueueInv'
  <2>1. posting.at = "landed" => posting.t \in 1..Tip' /\ log'[posting.t] = log[posting.t]
    BY <1>0 DEF QueueInv, LogGrown
  <2> QED BY <1>1, <2>1 DEF QueueInv
<1>2. ASSUME posting.at # "none", posting' = NoPost, outbox' = outbox
      PROVE  QueueInv'
  <2>1. ASSUME NEW i \in 1..Len(outbox) PROVE At(outbox[i])' = "queued"
    <3>1. outbox[i] \in Writes /\ At(outbox[i]) = "queued" /\ outbox[i] # posting.w
      BY <1>2 DEF QueueInv
    <3>2. PICK u \in Writes : u = outbox[i]
      BY <3>1
    <3>3. At(u)' = At(u)
      BY <1>0, <3>1, <3>2 DEF LandedStays, Landed
    <3> QED BY <1>2, <3>1, <3>2, <3>3 DEF At
  <2>2. DOMAIN NoPost = PostFields /\ NoPost.at = "none"
    BY DEF NoPost, PostFields
  <2> QED BY <1>2, <2>1, <2>2 DEF QueueInv
<1>3. CASE TakeAck \/ TakeError
  BY <1>2, <1>3 DEF TakeAck, TakeError
<1>4. CASE UNCHANGED writes /\ UNCHANGED <<outbox, posting>>
  BY <1>1, <1>4 DEF At
<1>5. ASSUME UNCHANGED <<writes, outbox>>, posting.at # "none", DOMAIN posting' = PostFields,
             posting'.w = posting.w, posting'.at \in {"sent", "landed", "error"},
             posting'.at = "landed" => posting'.t \in 1..Tip' /\ log'[posting'.t].w = posting'.w
      PROVE  QueueInv'
  BY <1>5 DEF QueueInv, At
<1>6. CASE Lose
  <2>1. DOMAIN posting' = PostFields /\ posting'.w = posting.w /\ posting'.at \in {"sent", "error"}
    BY <1>6 DEF Lose, QueueInv, PostFields
  <2> QED BY <1>5, <1>6, <2>1 DEF Lose
<1>7. CASE Land
  <2>1. posting.at = "sent" /\ UNCHANGED <<writes, outbox>>
    BY <1>7 DEF Land
  <2> DEFINE seen == CommittedAt(posting.w)
  <2>2. CASE \E k : log' = Append(log, Entry(posting.w, k, posting.e))
                    /\ posting' = [posting EXCEPT !.at = "landed", !.t = Tip + 1]
    <3>1. PICK k : log' = Append(log, Entry(posting.w, k, posting.e))
      BY <2>2
    <3>2. Tip' = Tip + 1 /\ log'[Tip'] = Entry(posting.w, k, posting.e)
      BY <3>1, Appended
    <3>3. log'[Tip'].w = posting.w
      BY <3>2 DEF Entry
    <3>4. DOMAIN posting' = PostFields /\ posting'.w = posting.w /\ posting'.at = "landed" /\ posting'.t = Tip + 1
      BY <2>2 DEF QueueInv, PostFields
    <3> QED BY <1>0, <1>5, <2>1, <3>2, <3>3, <3>4
  <2>3. CASE seen # {} /\ posting' = [posting EXCEPT !.at = "landed", !.t = Highest(seen, 0)] /\ log' = log
    <3>1. seen \subseteq 1..Tip
      BY <1>0 DEF CommittedAt, LogGrown
    <3>2. Highest(seen, 0) \in seen
      <4> HIDE DEF seen
      <4> QED BY <1>0, <2>3, <3>1, HighestOfSome
    <3>3. Highest(seen, 0) \in 1..Tip /\ log[Highest(seen, 0)].w = posting.w
      BY <3>1, <3>2 DEF CommittedAt
    <3>4. DOMAIN posting' = PostFields /\ posting'.w = posting.w /\ posting'.at = "landed" /\ posting'.t = Highest(seen, 0)
      BY <2>3 DEF QueueInv, PostFields
    <3>5. Tip' = Tip
      BY <2>3 DEF Tip
    <3> HIDE DEF seen
    <3> QED BY <1>5, <2>1, <2>3, <3>3, <3>4, <3>5
  <2>4. CASE posting' = [posting EXCEPT !.at = "error"]
    <3>1. DOMAIN posting' = PostFields /\ posting'.w = posting.w /\ posting'.at = "error"
      BY <2>4 DEF QueueInv, PostFields
    <3> QED BY <1>5, <2>1, <3>1
  <2> QED BY <1>7, <2>2, <2>3, <2>4 DEF Land
<1>8. CASE StartPost
  <2>1. posting = NoPost /\ outbox # <<>> /\ outbox' = Tail(outbox) /\ UNCHANGED <<log, writes, pending>>
    BY <1>8 DEF StartPost, server
  <2>2. PICK w \in Writes : w = Head(outbox) /\ w = outbox[1]
    BY <2>1 DEF QueueInv
  <2>3. DOMAIN posting' = PostFields /\ posting'.w = w /\ posting'.at = "sent"
    BY <1>8, <2>2 DEF StartPost, PostFields
  <2>4. /\ outbox' \in Seq(Writes) /\ Len(outbox') = Len(outbox) - 1 /\ Len(outbox) \in Nat \ {0}
        /\ \A i \in 1..Len(outbox') : outbox'[i] = outbox[i + 1] /\ i + 1 \in 1..Len(outbox)
    BY <2>1 DEF QueueInv
  <2>5. At(w)' = "queued"
    BY <2>1, <2>2, <2>4 DEF QueueInv, At
  <2>6. ASSUME NEW i \in 1..Len(outbox')
        PROVE  /\ writes'[outbox'[i]].at = "queued" /\ outbox'[i] # w
               /\ \A j \in 1..Len(outbox') : outbox'[i] = outbox'[j] => i = j
    <3>1. outbox'[i] = outbox[i + 1] /\ i + 1 \in 1..Len(outbox) /\ 1 \in 1..Len(outbox) /\ i + 1 # 1
      BY <2>4
    <3>2. At(outbox[i + 1]) = "queued" /\ \A j \in 1..Len(outbox) : outbox[i + 1] = outbox[j] => i + 1 = j
      BY <3>1 DEF QueueInv
    <3>3. outbox[i + 1] # w
      BY <2>2, <3>1, <3>2
    <3>4. ASSUME NEW j \in 1..Len(outbox'), outbox'[i] = outbox'[j] PROVE i = j
      BY <2>4, <3>1, <3>2, <3>4
    <3> QED BY <2>1, <3>1, <3>2, <3>3, <3>4 DEF At
  <2> QED BY <2>3, <2>4, <2>5, <2>6 DEF QueueInv, At
<1>9. ASSUME NEW w \in Writes, Push(w)
      PROVE  QueueInv'
  <2>1. At(w) = "draft" /\ outbox' = Append(outbox, w) /\ UNCHANGED <<log, posting>>
    BY <1>9 DEF Push, At, server
  <2>2. At(w)' = "queued" /\ \A u \in Writes : At(u) = "queued" => At(u)' = "queued"
    BY <1>9 DEF Push, WritesInv, WriteFields, At
  <2>3. /\ outbox' \in Seq(Writes) /\ Len(outbox') = Len(outbox) + 1 /\ Len(outbox) \in Nat
        /\ outbox'[Len(outbox) + 1] = w
        /\ \A i \in 1..Len(outbox) : outbox'[i] = outbox[i] /\ outbox[i] \in Writes
    BY <2>1 DEF QueueInv
  <2>4. \A i \in 1..Len(outbox) : At(outbox[i]) = "queued" /\ outbox[i] # w
    BY <2>1 DEF QueueInv
  <2>5. posting.at # "none" => posting.w # w /\ At(posting.w)' = "queued" /\ posting.w \in Writes
    BY <2>1, <2>2 DEF QueueInv
  <2>6. ASSUME NEW i \in 1..Len(outbox')
        PROVE  /\ writes'[outbox'[i]].at = "queued" /\ (posting.at # "none" => outbox'[i] # posting.w)
               /\ \A j \in 1..Len(outbox') : outbox'[i] = outbox'[j] => i = j
    <3>1. CASE i = Len(outbox) + 1
      BY <2>2, <2>3, <2>4, <2>5, <3>1 DEF At
    <3>2. CASE i \in 1..Len(outbox)
      <4>1. writes'[outbox'[i]].at = "queued"
        <5>1. PICK u \in Writes : u = outbox[i]
          BY <2>3, <3>2
        <5> QED BY <2>2, <2>3, <2>4, <3>2, <5>1 DEF At
      <4>2. posting.at # "none" => outbox'[i] # posting.w
        BY <2>3, <3>2 DEF QueueInv
      <4>3. ASSUME NEW j \in 1..Len(outbox'), outbox'[i] = outbox'[j] PROVE i = j
        <5>1. CASE j = Len(outbox) + 1
          BY <2>3, <2>4, <3>2, <4>3, <5>1
        <5>2. CASE j \in 1..Len(outbox)
          BY <2>3, <3>2, <4>3, <5>2 DEF QueueInv
        <5> QED BY <2>3, <5>1, <5>2
      <4> QED BY <4>1, <4>2, <4>3
    <3> QED BY <2>3, <3>1, <3>2
  <2>7. posting'.at = "landed" => posting'.t \in 1..Tip' /\ log'[posting'.t].w = posting'.w
    BY <2>1 DEF QueueInv, Tip
  <2> QED BY <2>1, <2>3, <2>5, <2>6, <2>7 DEF QueueInv, At
<1>10. ASSUME NEW w \in Writes, Transact(w) \/ Run(w)
      PROVE  QueueInv'
  <2>1. PICK k, e, m : Draft(w, k, e, m)
    BY <1>10 DEF Transact, Run
  <2>2. UNCHANGED <<outbox, posting>> /\ At(w) = "new" /\ Only(w)
    BY <2>1 DEF Draft, WritesInv, Only, At
  <2> QED BY <1>1, <2>2 DEF Only, At
<1>11. CASE ApplyResync
  <2>1. writes' = [w \in Writes |-> [writes[w] EXCEPT !.behind = FALSE]] /\ UNCHANGED <<outbox, posting>>
    BY <1>11 DEF ApplyResync
  <2>2. \A w \in Writes : At(w)' = At(w)
    BY <2>1 DEF WritesInv, WriteFields, At
  <2> QED BY <1>1, <2>1, <2>2
<1>12. CASE Foreign \/ TakeSync \/ Ask \/ Drop \/ ApplyTx \/ ReplaceConfirmed \/ Synced \/ LiveRead \/ UNCHANGED vars
  BY <1>4, <1>12 DEF Foreign, TakeSync, Ask, NeedsSync, RequestSync, Drop, ApplyTx,
     ReplaceConfirmed, Synced, LiveRead, Read, vars, own
<1> QED BY <1>3, <1>6, <1>7, <1>8, <1>9, <1>10, <1>11, <1>12 DEF Next, Server, Client

(***************************************************************************)
(* What the client shows.                                                  *)
(***************************************************************************)
\* A dump says of every fact what the datoms it is made from say, also under
\* datoms that are newer.
LEMMA DumpHolds ==
  ASSUME NEW B, NEW R, NEW b \in Nat,
         \A d \in B : d.t \in Nat /\ d.t <= b,
         \A d \in R : d.t \in Nat /\ d.t > b
  PROVE  Holding(KeptOf(B) \cup R) = Holding(B \cup R)
<1> DEFINE Top(d, D) == d.op /\ \A y \in D : y.e = d.e /\ y.v = d.v => y.t <= d.t
<1>1. ASSUME NEW d \in B \cup R, Top(d, B \cup R)
      PROVE  d \in KeptOf(B) \cup R /\ Top(d, KeptOf(B) \cup R)
  <2>1. \A y \in KeptOf(B) : y \in B
    BY DEF KeptOf
  <2>2. Top(d, KeptOf(B) \cup R)
    BY <1>1, <2>1
  <2>3. d \in B => d \in KeptOf(B)
    BY <1>1 DEF KeptOf
  <2> QED BY <2>2, <2>3
<1>2. ASSUME NEW d \in KeptOf(B) \cup R, Top(d, KeptOf(B) \cup R)
      PROVE  d \in B \cup R /\ Top(d, B \cup R)
  <2>1. d \in B \cup R
    BY DEF KeptOf
  <2>2. ASSUME NEW y \in B \cup R, y.e = d.e, y.v = d.v PROVE y.t <= d.t
    <3>1. CASE y \in R
      BY <1>2, <2>2, <3>1
    <3>2. CASE y \in B /\ d \in R
      BY <3>2
    <3>3. CASE y \in B /\ d \in KeptOf(B)
      BY <2>2, <3>3 DEF KeptOf
    <3> QED BY <3>1, <3>2, <3>3
  <2> QED BY <1>2, <2>1, <2>2
<1>3. ASSUME NEW D PROVE Holding(D) = {<<d.e, d.v>> : d \in {x \in D : Top(x, D)}}
  BY DEF Holding
<1> HIDE DEF Top
<1>4. {x \in KeptOf(B) \cup R : Top(x, KeptOf(B) \cup R)} = {x \in B \cup R : Top(x, B \cup R)}
  BY <1>1, <1>2
<1> QED BY <1>3, <1>4

\* A follower with every t painted shows what the server holds.
LEMMA AllPainted ==
  ASSUME FollowerInv, Tip \in Nat, factTs = 1..Tip
  PROVE  Holding(painted) = ServerFacts(Tip)
<1>1. PICK b \in 0..Tip : PaintedOver(b)
  BY DEF FollowerInv
<1> DEFINE B == LoggedIn(1..b)
           R == LoggedIn(After(b))
<1>2. \A d \in B : d.t \in Nat /\ d.t <= b
  BY DEF LoggedIn, Logged, Datom
<1>3. \A d \in R : d.t \in Nat /\ d.t > b
  BY DEF LoggedIn, Logged, Datom, After
<1>4. 1..Tip = (1..b) \cup After(b)
  BY DEF After
<1>5. UNION {Logged(u) : u \in 1..Tip} = B \cup R
  BY <1>4 DEF LoggedIn
<1>6. painted = KeptOf(B) \cup R
  BY <1>1 DEF PaintedOver
<1>7. b \in Nat
  OBVIOUS
<1> HIDE DEF B, R
<1>8. Holding(KeptOf(B) \cup R) = Holding(B \cup R)
  BY <1>2, <1>3, <1>7, DumpHolds
<1> QED BY <1>5, <1>6, <1>8 DEF ServerFacts

\* At rest every t of the log is painted, and no layer is over them.
LEMMA Rests ==
  ASSUME LogInv, FollowerInv, WritesInv
  PROVE  SettledIsServer
<1>1. SUFFICES ASSUME Settled PROVE View = ServerFacts(Tip)
  BY DEF SettledIsServer
<1>2. Tip \in Nat
  BY DEF LogInv, Tip
<1>3. dump = 0 /\ session.cursor = Tip
  BY <1>1 DEF Settled, Applying, NoDump
<1>4. factTs = 1..Tip
  <2>1. ASSUME NEW t \in 1..Tip PROVE t \in factTs
    <3>1. Has(t)
      BY <1>3 DEF FollowerInv, HasUpTo
    <3> QED BY <1>2, <1>3, <3>1 DEF Has
  <2> QED BY <2>1 DEF FollowerInv
<1>5. DOMAIN pending = {}
  BY <1>1 DEF Settled, WritesInv, At
<1>6. PendingDatoms = {}
  BY <1>5 DEF PendingDatoms
<1> QED BY <1>2, <1>4, <1>6, AllPainted DEF View, OverlayDb

\* A live query's answer is the view's until something changes the view, and
\* whatever does tells it.
LEMMA LiveNext ==
  ASSUME LogInv, LiveIsFresh, [Next]_vars
  PROVE  LiveIsFresh'
<1>1. CASE UNCHANGED <<live, painted, pending, dump>>
  BY <1>1 DEF LiveIsFresh, View, OverlayDb, PendingDatoms, Applying
<1>2. CASE live' = News
  BY <1>2 DEF LiveIsFresh
<1>3. CASE ApplyResync
  <2>1. dump' = Tip /\ Tip > 0 /\ Tip \in Nat
    BY <1>3 DEF ApplyResync, LogInv, Tip
  <2> QED BY <2>1 DEF LiveIsFresh, Applying, NoDump
<1>4. CASE LiveRead
  <2>1. live' = View /\ UNCHANGED <<painted, pending>>
    BY <1>4 DEF LiveRead, Read, follower, own
  <2> QED BY <2>1 DEF LiveIsFresh, View, OverlayDb, PendingDatoms
<1>5. ASSUME NEW w \in Writes, Transact(w) \/ Run(w) \/ Push(w) PROVE LiveIsFresh'
  <2>1. UNCHANGED <<live, painted, pending, dump>> \/ live' = News
    BY <1>5 DEF Transact, Run, Draft, Push, Notify, shown, follower
  <2> QED BY <1>1, <1>2, <2>1
<1>6. CASE TakeAck \/ TakeError \/ ApplyTx \/ ReplaceConfirmed
  BY <1>2, <1>6 DEF TakeAck, TakeError, ApplyTx, ReplaceConfirmed, Notify
<1>7. CASE Foreign \/ Land \/ TakeSync \/ Ask \/ Drop \/ StartPost \/ Lose \/ Synced \/ UNCHANGED vars
  BY <1>1, <1>7 DEF Foreign, Land, TakeSync, Ask, NeedsSync, RequestSync, Drop, StartPost,
     Lose, Synced, vars, follower, own, shown
<1> QED BY <1>3, <1>4, <1>5, <1>6, <1>7 DEF Next, Server, Client

(***************************************************************************)
(* What a step does to one write.                                          *)
(***************************************************************************)
\* A write that is neither drafted nor pushed keeps what it means.
StaysPut(w) ==
  /\ writes'[w].kind = writes[w].kind /\ writes'[w].means = writes[w].means
  /\ writes'[w].behind => writes[w].behind
  /\ At(w)' = At(w) \/ (InFlight(w) /\ At(w) = "queued" /\ At(w)' \in {"acked", "failed"})
  /\ At(w) = "draft" => writes'[w].e = writes[w].e /\ writes'[w].datoms = writes[w].datoms

\* A step drafts a write, pushes it, or leaves it where it is but for its answer.
LEMMA WriteStep ==
  ASSUME WritesInv, QueueInv, [Next]_vars, NEW w \in Writes
  PROVE  Transact(w) \/ Run(w) \/ Push(w) \/ StaysPut(w)
<1>1. CASE UNCHANGED writes
  BY <1>1 DEF StaysPut, At
<1>2. ASSUME NEW u \in Writes, u # w, Transact(u) \/ Run(u) \/ Push(u)
      PROVE  StaysPut(w)
  <2>1. writes'[w] = writes[w]
    BY <1>2 DEF Transact, Run, Push, Draft, WritesInv
  <2> QED BY <2>1 DEF StaysPut, At
<1>3. ASSUME NEW s \in {"acked", "failed"}, posting.at # "none",
             writes' = [writes EXCEPT ![posting.w].at = s, ![posting.w].e = 0]
      PROVE  StaysPut(w)
  <2>1. CASE w = posting.w
    <3>1. /\ writes'[w].kind = writes[w].kind /\ writes'[w].means = writes[w].means
          /\ writes'[w].at = s /\ writes'[w].behind = writes[w].behind
      BY <1>3, <2>1 DEF WritesInv, WriteFields
    <3>2. At(w) = "queued"
      BY <1>3, <2>1 DEF QueueInv
    <3> QED BY <1>3, <2>1, <3>1, <3>2 DEF StaysPut, At, InFlight
  <2>2. CASE w # posting.w
    <3>1. writes'[w] = writes[w]
      BY <1>3, <2>2 DEF WritesInv
    <3> QED BY <3>1 DEF StaysPut, At
  <2> QED BY <2>1, <2>2
<1>4. CASE ApplyResync
  <2>1. writes' = [u \in Writes |-> [writes[u] EXCEPT !.behind = FALSE]]
    BY <1>4 DEF ApplyResync
  <2>2. /\ writes'[w].kind = writes[w].kind /\ writes'[w].means = writes[w].means
        /\ writes'[w].at = writes[w].at /\ writes'[w].behind = FALSE
        /\ writes'[w].e = writes[w].e /\ writes'[w].datoms = writes[w].datoms
    BY <2>1 DEF WritesInv, WriteFields
  <2> QED BY <2>2 DEF StaysPut, At
<1>5. CASE TakeAck \/ TakeError
  BY <1>3, <1>5 DEF TakeAck, TakeError
<1> QED BY <1>1, <1>2, <1>4, <1>5 DEF Next, Server, Client, Foreign, Land, TakeSync, Ask,
     NeedsSync, RequestSync, Drop,
     StartPost, Lose, ApplyTx, ReplaceConfirmed, Synced, LiveRead, Read, vars, own

\* What a draft is of: an entity made here, or one that a fact of the view is of.
LEMMA DraftIs ==
  ASSUME WritesInv, NEW w \in Writes, Transact(w) \/ Run(w)
  PROVE  /\ At(w) = "new" /\ At(w)' = "draft" /\ ~writes'[w].behind /\ Only(w) /\ ~Applying
         /\ UNCHANGED <<log, follower, dump, pending, outbox, posting, mixed>>
         /\ writes'[w].datoms = Expand(w, writes'[w].kind, writes'[w].e, View, FakeT)
         /\ \/ writes'[w].kind = "make" /\ writes'[w].means = 0
            \/ writes'[w].kind # "make" /\ <<writes'[w].e, writes'[w].means>> \in View
<1>1. ASSUME NEW k, NEW e, NEW m, Draft(w, k, e, m)
      PROVE  /\ At(w) = "new" /\ At(w)' = "draft" /\ ~writes'[w].behind /\ Only(w) /\ ~Applying
             /\ UNCHANGED <<log, follower, dump, pending, outbox, posting, mixed>>
             /\ writes'[w].datoms = Expand(w, k, e, View, FakeT)
             /\ writes'[w].kind = k /\ writes'[w].means = m /\ writes'[w].e = e
  <2>1. /\ writes' = [writes EXCEPT ![w] = [New EXCEPT !.at = "draft", !.kind = k, !.e = e,
                 !.means = m, !.datoms = Expand(w, k, e, View, FakeT)]]
        /\ UNCHANGED <<log, follower, dump, pending, outbox, posting, mixed>>
        /\ At(w) = "new" /\ ~Applying
    BY <1>1 DEF Draft, At, server, shown
  <2>2. PICK D : D = Expand(w, k, e, View, FakeT)
    OBVIOUS
  <2>3. /\ writes'[w].at = "draft" /\ writes'[w].behind = FALSE /\ Only(w) /\ writes'[w].datoms = D
        /\ writes'[w].kind = k /\ writes'[w].means = m /\ writes'[w].e = e
    BY <2>1, <2>2 DEF WritesInv, New, WriteFields, Only
  <2> QED BY <2>1, <2>2, <2>3 DEF At
<1>2. CASE Transact(w)
  BY <1>1, <1>2 DEF Transact
<1>3. CASE Run(w)
  <2>1. PICK f \in View, k \in {"mark", "drop"} : Draft(w, k, f[1], f[2])
    BY <1>3 DEF Run
  <2>2. f = <<f[1], f[2]>>
    BY DEF View, OverlayDb, Holding
  <2> QED BY <1>1, <2>1, <2>2
<1> QED BY <1>2, <1>3

\* What a push makes of the draft.
LEMMA PushIs ==
  ASSUME WritesInv, NEW w \in Writes, Push(w)
  PROVE  /\ At(w) = "draft" /\ At(w)' = "queued" /\ Only(w) /\ writes'[w].kind = writes[w].kind
         /\ writes'[w].behind = (writes[w].means \in DOMAIN pending)
         /\ writes'[w].means = IF writes[w].means \in DOMAIN pending THEN writes[w].means ELSE 0
         /\ DOMAIN pending' = DOMAIN pending \cup {w} /\ w \notin DOMAIN pending
         /\ pending'[w].e = writes[w].e /\ pending'[w].datoms = writes[w].datoms
         /\ \A u \in DOMAIN pending : pending'[u] = pending[u]
         /\ outbox' = Append(outbox, w) /\ UNCHANGED <<log, follower, dump, posting>>
         /\ mixed' = (mixed \/ Mixed')
<1> DEFINE behind == writes[w].means \in DOMAIN pending
<1>1. /\ writes' = [writes EXCEPT ![w].at = "queued", ![w].datoms = {}, ![w].behind = behind,
                                ![w].means = IF behind THEN @ ELSE 0]
      /\ pending' = [u \in DOMAIN pending \cup {w} |->
                   IF u = w THEN [e |-> writes[w].e, datoms |-> writes[w].datoms]
                   ELSE pending[u]]
      /\ At(w) = "draft" /\ outbox' = Append(outbox, w) /\ UNCHANGED <<log, follower, dump, posting>>
      /\ mixed' = (mixed \/ Mixed')
  BY DEF Push, At, server, Notify
<1>2. w \notin DOMAIN pending
  BY <1>1 DEF WritesInv
<1> HIDE DEF behind
<1>3. /\ writes'[w].at = "queued" /\ Only(w) /\ writes'[w].kind = writes[w].kind
      /\ writes'[w].behind = behind /\ writes'[w].means = IF behind THEN writes[w].means ELSE 0
  BY <1>1 DEF WritesInv, WriteFields, Only
<1>4. /\ DOMAIN pending' = DOMAIN pending \cup {w}
      /\ pending'[w].e = writes[w].e /\ pending'[w].datoms = writes[w].datoms
      /\ \A u \in DOMAIN pending : pending'[u] = pending[u]
  BY <1>1, <1>2
<1> QED BY <1>1, <1>2, <1>3, <1>4 DEF At, behind

\* What a post that lands adds to the log.
LEMMA LandIs ==
  ASSUME LogInv, QueueInv, Land
  PROVE  \/ log' = log
         \/ /\ InFlight(posting.w) /\ posting.w \in Writes /\ LogGrown /\ Tip' = Tip + 1
            /\ log'[Tip'] = Entry(posting.w, writes[posting.w].kind, posting.e)
  BY Appended DEF Land, QueueInv, InFlight

\* What another client's write adds to the log.
LEMMA ForeignIs ==
  ASSUME LogInv, Foreign
  PROVE  \E k, e : /\ LogGrown /\ Tip' = Tip + 1 /\ log'[Tip'] = Entry(ForeignId(Tip + 1), k, e)
                   /\ ForeignId(Tip + 1) \notin Writes
<1>1. PICK k, e : log' = Append(log, Entry(ForeignId(Tip + 1), k, e))
  BY DEF Foreign
<1>2. Tip \in Nat
  BY DEF LogInv, Tip
<1>3. ForeignId(Tip + 1) \notin Writes
  BY <1>2, OverlayAssumption DEF ForeignId, Writes
<1> QED BY <1>1, <1>3, Appended

\* A step adds one entry or leaves the log; the entry is another client's or that of
\* the post in flight.
LEMMA EntriesStep ==
  ASSUME LogInv, QueueInv, [Next]_vars
  PROVE  \/ log' = log
         \/ /\ Tip' = Tip + 1
            /\ \E w, k, e : /\ log'[Tip'] = Entry(w, k, e)
                            /\ w \in Writes => InFlight(w) /\ k = writes[w].kind /\ e = posting.e /\ Land
<1>1. CASE Foreign
  BY <1>1, ForeignIs
<1>2. CASE Land
  BY <1>2, LandIs
<1>3. Foreign \/ Land \/ log' = log
  BY DEF Next, Server, Client, vars, server, own, shown, Draft, Transact, Run, Push, StartPost, Lose, TakeAck, TakeError,
     TakeSync, Ask, NeedsSync, RequestSync, Drop, ApplyTx, ApplyResync, ReplaceConfirmed,
     Synced, LiveRead, Read
<1> QED BY <1>1, <1>2, <1>3

\* The datoms of a write are of its entity, and assert nothing but the write.
LEMMA ExpandSays ==
  ASSUME NEW w, NEW k, NEW e, NEW F, NEW t
  PROVE  Says(Expand(w, k, e, F, t), e, w)
<1>1. \A d \in Expand(w, k, e, F, t) : \E v, op : d = Datom(e, v, op, t) /\ (op => v = w)
  <2>1. CASE k = "drop"
    BY <2>1 DEF Expand
  <2>2. CASE k # "drop"
    BY <2>2 DEF Expand
  <2> QED BY <2>1, <2>2
<1> QED BY <1>1 DEF Says, Datom, DatomFields

\* What a commit asserts is its write's, of its entity.
LEMMA EntrySays ==
  ASSUME NEW w, NEW k, NEW e
  PROVE  LET n == Entry(w, k, e) IN
         /\ n.w = w /\ Says(n.datoms, n.e, w)
         /\ k = "make" => \E d \in n.datoms : d.op
         /\ k # "make" => n.e = e
<1> DEFINE at == IF k = "make" THEN NextServerEid ELSE e
           D == Expand(w, k, at, ServerFacts(Tip), Tip + 1)
           n == Entry(w, k, e)
<1>1. n.w = w /\ n.e = at /\ n.datoms = D
  BY DEF Entry
<1>2. Says(D, at, w)
  BY ExpandSays
<1>3. k = "make" => Datom(at, w, TRUE, Tip + 1) \in D
  BY DEF Expand
<1>4. Datom(at, w, TRUE, Tip + 1).op
  BY DEF Datom
<1>5. k # "make" => at = e
  OBVIOUS
<1> HIDE DEF at, D, n
<1> QED BY <1>1, <1>2, <1>3, <1>4, <1>5 DEF n

\* The log's entries say what their writes are.
LEMMA EntriesNext ==
  ASSUME LogInv, WritesInv, QueueInv, EntriesInv, [Next]_vars
  PROVE  EntriesInv'
<1>0. LogGrown /\ LandedStays
  BY LogStep, LandedStep
<1>1. ASSUME NEW t \in 1..Tip
      PROVE  /\ Says(log'[t].datoms, log'[t].e, log'[t].w)
             /\ log'[t].w \in Writes =>
                  /\ Landed(log[t].w)'
                  /\ writes'[log'[t].w].kind = "make" => \E d \in log'[t].datoms : d.op
  <2>1. log'[t] = log[t] /\ log'[t].w = log[t].w
    BY <1>0 DEF LogGrown
  <2>2. ASSUME log[t].w \in Writes
        PROVE  Landed(log[t].w)' /\ (writes'[log[t].w].kind = "make" => \E d \in log[t].datoms : d.op)
    <3>1. PICK w \in Writes : w = log[t].w
      BY <2>2
    <3>2. Landed(w) /\ (writes[w].kind = "make" => \E d \in log[t].datoms : d.op)
      BY <3>1 DEF EntriesInv, Makes
    <3>3. Landed(w)' /\ writes'[w].kind = writes[w].kind
      BY <1>0, <3>2 DEF LandedStays
    <3> QED BY <2>1, <3>1, <3>2, <3>3 DEF Landed, At
  <2> QED BY <2>1, <2>2 DEF EntriesInv
<1>2. CASE log' = log
  <2>1. Tip' = Tip
    BY <1>2 DEF Tip
  <2> QED BY <1>1, <2>1 DEF EntriesInv, Makes
<1>3. CASE Tip' = Tip + 1
            /\ \E w, k, e : /\ log'[Tip'] = Entry(w, k, e)
                            /\ w \in Writes => InFlight(w) /\ k = writes[w].kind /\ e = posting.e /\ Land
  <2>1. PICK w, k, e : /\ log'[Tip'] = Entry(w, k, e)
                       /\ w \in Writes => InFlight(w) /\ k = writes[w].kind /\ Land
    BY <1>3
  <2>2. PICK n : n = Entry(w, k, e)
    OBVIOUS
  <2>3. n.w = w /\ Says(n.datoms, n.e, w) /\ (k = "make" => \E d \in n.datoms : d.op)
    BY <2>2, EntrySays
  <2>4. ASSUME w \in Writes PROVE Landed(w)' /\ (writes'[w].kind = "make" => \E d \in n.datoms : d.op)
    <3>1. UNCHANGED writes /\ At(w) = "queued"
      BY <2>1, <2>4 DEF Land, QueueInv, InFlight
    <3> QED BY <2>1, <2>3, <2>4, <3>1 DEF Landed, At
  <2>5. Tip \in Nat
    BY <1>0 DEF LogGrown
  <2>6. ASSUME NEW t \in 1..Tip'
        PROVE  /\ Says(log'[t].datoms, log'[t].e, log'[t].w)
               /\ log'[t].w \in Writes =>
                  /\ Landed(log[t].w)'
                  /\ writes'[log'[t].w].kind = "make" => \E d \in log'[t].datoms : d.op
    <3>1. CASE t \in 1..Tip
      BY <1>1, <3>1
    <3>2. CASE t = Tip'
      <4>1. log'[t] = n /\ log'[t].w = w
        BY <2>1, <2>2, <2>3, <3>2
      <4> QED BY <2>3, <2>4, <4>1 DEF Landed, At
    <3> QED BY <1>3, <2>5, <3>1, <3>2
  <2> QED BY <2>6 DEF EntriesInv, Makes
<1> QED BY <1>2, <1>3, EntriesStep

(***************************************************************************)
(* Layers, drafts and the facts they go by.                                *)
(***************************************************************************)
\* A remap keeps what a layer says, by the new number.
LEMMA Remapped ==
  ASSUME NEW L, NEW was, NEW is
  PROVE  /\ DOMAIN RemapQueued(L, was, is) = DOMAIN L
         /\ \A u \in DOMAIN L :
              /\ RemapQueued(L, was, is)[u].e = RewriteEid(L[u].e, was, is)
              /\ \A x, w : Says(L[u].datoms, x, w) =>
                   Says(RemapQueued(L, was, is)[u].datoms, RewriteEid(x, was, is), w)
<1>1. ASSUME NEW u \in DOMAIN L
      PROVE  /\ RemapQueued(L, was, is)[u].e = RewriteEid(L[u].e, was, is)
             /\ RemapQueued(L, was, is)[u].datoms = {[d EXCEPT !.e = RewriteEid(@, was, is)] : d \in L[u].datoms}
  BY DEF RemapQueued, RewriteItem, RewriteDatoms
<1>2. ASSUME NEW D, NEW x, NEW w, Says(D, x, w)
      PROVE  Says({[d EXCEPT !.e = RewriteEid(@, was, is)] : d \in D}, RewriteEid(x, was, is), w)
  <2>1. ASSUME NEW d \in D
        PROVE  LET c == [d EXCEPT !.e = RewriteEid(@, was, is)] IN
               DOMAIN c = DatomFields /\ c.e = RewriteEid(x, was, is) /\ (c.op => c.v = w)
    BY <1>2 DEF Says, DatomFields
  <2> QED BY <2>1 DEF Says
<1>3. DOMAIN RemapQueued(L, was, is) = DOMAIN L
  BY DEF RemapQueued
<1>4. ASSUME NEW u \in DOMAIN L, NEW x, NEW w, Says(L[u].datoms, x, w)
      PROVE  Says(RemapQueued(L, was, is)[u].datoms, RewriteEid(x, was, is), w)
  <2>1. Says({[d EXCEPT !.e = RewriteEid(@, was, is)] : d \in L[u].datoms}, RewriteEid(x, was, is), w)
    BY <1>2, <1>4
  <2> QED BY <1>1, <2>1
<1> QED BY <1>1, <1>3, <1>4

\* What an ack leaves of the layers: the acked one goes, and what meant its
\* entity means the server's number for it.
LEMMA AckIs ==
  ASSUME WritesInv, QueueInv, TakeAck
  PROVE  LET q == posting.w
             remaps == q \in DOMAIN pending /\ Makes(q)
         IN
         /\ InFlight(q) /\ q \in Writes /\ ~Applying /\ Paint(posting.t) /\ posting.t \in 1..Tip
         /\ log[posting.t].w = q /\ UNCHANGED <<log, dump, outbox>> /\ posting' = NoPost
         /\ DOMAIN pending' = DOMAIN pending \ {q}
         /\ \A u \in DOMAIN pending' :
              /\ pending'[u].e = IF remaps THEN RewriteEid(pending[u].e, pending[q].e, log[posting.t].e) ELSE pending[u].e
              /\ \A w : Says(pending[u].datoms, pending[u].e, w) => Says(pending'[u].datoms, pending'[u].e, w)
         /\ writes'[q].at = "acked" /\ mixed' = (mixed \/ Mixed')
<1> DEFINE q == posting.w
           remaps == q \in DOMAIN pending /\ Makes(q)
           L == Without(q)
<1>1. /\ InFlight(q) /\ q \in Writes /\ ~Applying /\ Paint(posting.t) /\ posting.t \in 1..Tip
      /\ log[posting.t].w = q /\ UNCHANGED <<log, dump, outbox>> /\ posting' = NoPost
      /\ mixed' = (mixed \/ Mixed')
      /\ writes' = [writes EXCEPT ![q].at = "acked", ![q].e = 0]
      /\ pending' = IF remaps THEN RemapQueued(L, pending[q].e, log[posting.t].e) ELSE L
  BY DEF TakeAck, QueueInv, InFlight, Notify, server, Makes
<1>2. writes'[q].at = "acked"
  BY <1>1 DEF At, WritesInv, WriteFields
<1>3. DOMAIN L = DOMAIN pending \ {q} /\ \A u \in DOMAIN L : L[u] = pending[u]
  BY DEF Without
<1>4. CASE remaps
  <2>1. pending' = RemapQueued(L, pending[q].e, log[posting.t].e)
    BY <1>1, <1>4
  <2> HIDE DEF L
  <2>2. /\ DOMAIN pending' = DOMAIN L
        /\ \A u \in DOMAIN L :
              /\ pending'[u].e = RewriteEid(L[u].e, pending[q].e, log[posting.t].e)
              /\ \A x, w : Says(L[u].datoms, x, w) =>
                   Says(pending'[u].datoms, RewriteEid(x, pending[q].e, log[posting.t].e), w)
    BY <2>1, Remapped
  <2>3. \A u \in DOMAIN pending' :
          /\ pending'[u].e = RewriteEid(pending[u].e, pending[q].e, log[posting.t].e)
          /\ \A w : Says(pending[u].datoms, pending[u].e, w) => Says(pending'[u].datoms, pending'[u].e, w)
    BY <1>3, <2>2
  <2> QED BY <1>1, <1>2, <1>3, <1>4, <2>2, <2>3
<1>5. CASE ~remaps
  <2>1. pending' = L
    BY <1>1, <1>5
  <2> QED BY <1>1, <1>2, <1>3, <1>5, <2>1
<1> QED BY <1>4, <1>5

\* A refusal takes the layer off and leaves the others.
LEMMA ErrorIs ==
  ASSUME WritesInv, QueueInv, TakeError
  PROVE  /\ InFlight(posting.w) /\ posting.w \in Writes /\ UNCHANGED <<log, follower, dump, outbox>> /\ posting' = NoPost
         /\ DOMAIN pending' = DOMAIN pending \ {posting.w}
         /\ \A u \in DOMAIN pending' : pending'[u] = pending[u]
         /\ writes'[posting.w].at = "failed" /\ mixed' = (mixed \/ Mixed')
<1>1. /\ InFlight(posting.w) /\ posting.w \in Writes /\ UNCHANGED <<log, follower, dump, outbox>> /\ posting' = NoPost
      /\ mixed' = (mixed \/ Mixed')
      /\ writes' = [writes EXCEPT ![posting.w].at = "failed", ![posting.w].e = 0]
      /\ pending' = Without(posting.w)
  BY DEF TakeError, QueueInv, InFlight, Notify, server
<1>2. writes'[posting.w].at = "failed"
  BY <1>1 DEF At, WritesInv, WriteFields
<1>3. DOMAIN Without(posting.w) = DOMAIN pending \ {posting.w} /\ \A u \in DOMAIN Without(posting.w) : Without(posting.w)[u] = pending[u]
  BY DEF Without
<1> QED BY <1>1, <1>2, <1>3

\* A resync leaves no layer, and nothing behind one.
LEMMA ResyncIs ==
  ASSUME WritesInv, ApplyResync
  PROVE  /\ DOMAIN pending' = {} /\ UNCHANGED <<log, follower, outbox, posting, mixed>> /\ dump' = Tip
         /\ \A w \in Writes : ~writes'[w].behind
<1>1. /\ writes' = [w \in Writes |-> [writes[w] EXCEPT !.behind = FALSE]] /\ pending' = <<>>
      /\ UNCHANGED <<log, follower, outbox, posting, mixed>> /\ dump' = Tip
  BY DEF ApplyResync, shown
<1>2. \A w \in Writes : ~writes'[w].behind
  BY <1>1 DEF WritesInv, WriteFields
<1>3. DOMAIN pending' = {}
  BY <1>1
<1> QED BY <1>1, <1>2, <1>3

\* The steps that move the layers.
LEMMA LayersStep ==
  ASSUME [Next]_vars
  PROVE  \/ pending' = pending
         \/ \E w \in Writes : Push(w)
         \/ TakeAck \/ TakeError \/ ApplyResync
  BY DEF Next, Server, Client, Foreign, Land, TakeSync, Ask, NeedsSync, RequestSync, Drop,
     Draft, Transact, Run,
     StartPost, Lose, ApplyTx, ReplaceConfirmed, Synced, LiveRead, Read, vars, own

\* The layers and drafts say what their writes are.
LEMMA LayersNext ==
  ASSUME WritesInv, QueueInv, LayersInv, [Next]_vars
  PROVE  LayersInv'
<1>1. ASSUME NEW w \in Writes, At(w)' = "draft"
      PROVE  Says(writes'[w].datoms, writes'[w].e, w)
  <2>1. CASE Transact(w) \/ Run(w)
    <3>1. writes'[w].datoms = Expand(w, writes'[w].kind, writes'[w].e, View, FakeT)
      BY <2>1, DraftIs
    <3> QED BY <3>1, ExpandSays
  <2>2. CASE Push(w)
    BY <1>1, <2>2, PushIs
  <2>3. CASE StaysPut(w)
    BY <1>1, <2>3 DEF StaysPut, LayersInv
  <2> QED BY <2>1, <2>2, <2>3, WriteStep
<1>2. \A w \in DOMAIN pending' : Says(pending'[w].datoms, pending'[w].e, w)
  <2>1. CASE pending' = pending
    BY <2>1 DEF LayersInv
  <2>2. ASSUME NEW u \in Writes, Push(u), NEW w \in DOMAIN pending'
        PROVE  Says(pending'[w].datoms, pending'[w].e, w)
    <3>1. CASE w = u
      BY <2>2, <3>1, PushIs DEF LayersInv
    <3>2. CASE w # u
      <4>1. DOMAIN pending' = DOMAIN pending \cup {u} /\ \A x \in DOMAIN pending : pending'[x] = pending[x]
        BY <2>2, PushIs
      <4>2. w \in DOMAIN pending /\ pending'[w] = pending[w]
        BY <4>1, <2>2, <3>2
      <4> QED BY <4>2 DEF LayersInv
    <3> QED BY <3>1, <3>2
  <2>3. CASE TakeAck
    BY <2>3, AckIs DEF LayersInv
  <2>4. CASE TakeError
    BY <2>4, ErrorIs DEF LayersInv
  <2>5. CASE ApplyResync
    BY <2>5, ResyncIs
  <2> QED BY <2>1, <2>2, <2>3, <2>4, <2>5, LayersStep
<1> QED BY <1>1, <1>2 DEF LayersInv, At

\* What is painted is of the log.
LEMMA PaintedIsLogged ==
  ASSUME FollowerInv, Tip \in Nat, EntriesInv, NEW d \in painted
  PROVE  \E u \in 1..Tip : d.e = log[u].e /\ (d.op => d.v = log[u].w)
<1>1. PICK b \in 0..Tip : PaintedOver(b)
  BY DEF FollowerInv
<1>2. PICK u \in 1..Tip : d \in Logged(u)
  <2>1. d \in LoggedIn(1..b) \/ d \in LoggedIn(After(b))
    BY <1>1 DEF PaintedOver, KeptOf
  <2>2. After(b) \subseteq 1..Tip
    BY DEF After, FollowerInv
  <2>3. 1..b \subseteq 1..Tip
    OBVIOUS
  <2> QED BY <2>1, <2>2, <2>3 DEF LoggedIn
<1>3. PICK c \in log[u].datoms : d = Datom(c.e, c.v, c.op, u)
  BY <1>2 DEF Logged
<1>4. d.e = c.e /\ d.v = c.v /\ d.op = c.op
  BY <1>3 DEF Datom
<1>5. c.e = log[u].e /\ (c.op => c.v = log[u].w)
  BY EntriesInv DEF EntriesInv, Says
<1> QED BY <1>4, <1>5

\* A fact of the view is of a write that is on its way or done, by its entity's number.
LEMMA ViewNames ==
  ASSUME FollowerInv, Tip \in Nat, WritesInv, EntriesInv, LayersInv, NEW x, NEW m \in Writes, <<x, m>> \in View
  PROVE  Landed(m) /\ Names(x, m)
<1>1. PICK d \in painted \cup PendingDatoms : d.op /\ d.e = x /\ d.v = m
  BY DEF View, OverlayDb, Holding
<1>2. CASE d \in painted
  <2>1. PICK u \in 1..Tip : d.op => d.v = log[u].w
    BY <1>2, PaintedIsLogged
  <2> QED BY <1>1, <1>2, <2>1 DEF EntriesInv, Names
<1>3. CASE d \in PendingDatoms
  <2>1. PICK w \in DOMAIN pending : d \in pending[w].datoms
    BY <1>3 DEF PendingDatoms
  <2>2. d.e = pending[w].e /\ d.v = w
    BY <1>1, <2>1 DEF LayersInv, Says
  <2> QED BY <1>1, <2>1, <2>2 DEF Names, WritesInv, Landed
<1> QED BY <1>2, <1>3

\* A write goes by a fact of a write made before it.
LEMMA MeansNext ==
  ASSUME LogInv, FollowerInv, WritesInv, QueueInv, EntriesInv, LayersInv, MeansInv, [Next]_vars
  PROVE  MeansInv'
<1>0. LandedStays /\ Tip \in Nat
  BY LandedStep DEF LogInv, Tip
<1>1. ASSUME NEW w \in Writes
      PROVE  /\ writes'[w].kind = "make" => writes'[w].means \notin Writes
             /\ At(w)' = "draft" /\ writes'[w].means \in Writes => \A m \in Writes : m = writes'[w].means => Landed(m)'
             /\ writes'[w].behind =>
                  /\ writes'[w].means \in Writes \ {w} /\ Landed(w)'
                  /\ \A m \in Writes : m = writes'[w].means => Landed(m)'
  <2>1. CASE Transact(w) \/ Run(w)
    <3>1. /\ At(w)' = "draft" /\ ~writes'[w].behind /\ Only(w) /\ At(w) = "new"
          /\ \/ writes'[w].kind = "make" /\ writes'[w].means = 0
             \/ writes'[w].kind # "make" /\ <<writes'[w].e, writes'[w].means>> \in View
      BY <2>1, DraftIs
    <3>2. 0 \notin Writes
      BY OverlayAssumption DEF Writes
    <3>3. ASSUME NEW m \in Writes, m = writes'[w].means PROVE Landed(m)'
      <4>1. Landed(m)
        BY <1>0, <3>1, <3>2, <3>3, ViewNames
      <4> QED BY <1>0, <4>1 DEF LandedStays
    <3> QED BY <3>1, <3>2, <3>3
  <2>2. CASE Push(w)
    <3>1. /\ At(w) = "draft" /\ At(w)' = "queued" /\ writes'[w].kind = writes[w].kind
          /\ writes'[w].behind = (writes[w].means \in DOMAIN pending) /\ w \notin DOMAIN pending
          /\ writes'[w].means = IF writes[w].means \in DOMAIN pending THEN writes[w].means ELSE 0
      BY <2>2, PushIs
    <3>2. 0 \notin Writes
      BY OverlayAssumption DEF Writes
    <3>3. ASSUME NEW m \in Writes, m = writes'[w].means PROVE Landed(m)'
      <4>1. Landed(m)
        BY <3>1, <3>2, <3>3 DEF WritesInv, Landed
      <4> QED BY <1>0, <4>1 DEF LandedStays
    <3> QED BY <3>1, <3>2, <3>3 DEF MeansInv, Makes, WritesInv, Landed, At
  <2>3. CASE StaysPut(w)
    <3>1. /\ writes'[w].kind = writes[w].kind /\ writes'[w].means = writes[w].means
          /\ writes'[w].behind => writes[w].behind
          /\ At(w)' = "draft" => At(w) = "draft"
      BY <2>3 DEF StaysPut
    <3>2. ASSUME NEW m \in Writes, m = writes'[w].means, At(w)' = "draft" \/ writes'[w].behind PROVE Landed(m)'
      <4>1. Landed(m)
        BY <3>1, <3>2 DEF MeansInv
      <4> QED BY <1>0, <4>1 DEF LandedStays
    <3>3. writes'[w].behind => Landed(w)'
      BY <1>0, <3>1 DEF MeansInv, LandedStays
    <3> QED BY <3>1, <3>2, <3>3 DEF MeansInv, Makes
  <2> QED BY <2>1, <2>2, <2>3, WriteStep
<1> QED BY <1>1 DEF MeansInv, Makes, Landed, At

(***************************************************************************)
(* The order of the posts, and what a resync leaves.                       *)
(***************************************************************************)
\* Layers come with a push only.
LEMMA LayersShrink ==
  ASSUME WritesInv, QueueInv, [Next]_vars, NEW m \in DOMAIN pending'
  PROVE  (m \in DOMAIN pending /\ At(m) = "queued" /\ m \in Writes) \/ (m \in Writes /\ Push(m))
<1>1. ASSUME NEW w \in Writes, Push(w) PROVE m \in DOMAIN pending \/ m = w
  BY <1>1, PushIs
<1>2. ASSUME TakeAck PROVE m \in DOMAIN pending
  BY <1>2, AckIs
<1>3. ASSUME TakeError PROVE m \in DOMAIN pending
  BY <1>3, ErrorIs
<1>4. ~ApplyResync
  BY ResyncIs
<1>5. m \in DOMAIN pending => At(m) = "queued" /\ m \in Writes
  BY DEF WritesInv
<1> QED BY <1>1, <1>2, <1>3, <1>4, <1>5, LayersStep

\* A dump is under way from the resync to the swap.
LEMMA DumpStep ==
  ASSUME [Next]_vars
  PROVE  \/ dump' = dump
         \/ ApplyResync
         \/ ReplaceConfirmed /\ ~Applying'
  BY DEF Next, Server, Client, Foreign, Land, TakeSync, Ask, NeedsSync, RequestSync, Drop,
     Draft, Transact, Run, Push, TakeAck, TakeError,
     StartPost, Lose, ApplyTx, ApplyResync, ReplaceConfirmed, Synced, LiveRead, Read, vars,
     own, Applying

\* Nothing is behind a layer that a resync took.
LEMMA ResyncNext ==
  ASSUME WritesInv, QueueInv, MeansInv, ResyncInv, [Next]_vars
  PROVE  ResyncInv'
<1>1. CASE ApplyResync
  BY <1>1, ResyncIs DEF ResyncInv
<1>2. CASE dump' = dump /\ Applying
  <2>1. ASSUME NEW w \in Writes
        PROVE  ~writes'[w].behind /\ (At(w)' = "draft" => writes'[w].means \notin DOMAIN pending')
    <3>1. ~writes[w].behind /\ (At(w) = "draft" => writes[w].means \notin DOMAIN pending)
      BY <1>2 DEF ResyncInv
    <3>2. CASE Transact(w) \/ Run(w)
      BY <1>2, <3>2, DraftIs
    <3>3. CASE Push(w)
      BY <3>1, <3>3, PushIs
    <3>4. CASE StaysPut(w)
      <4>1. ~writes'[w].behind /\ writes'[w].means = writes[w].means /\ (At(w)' = "draft" => At(w) = "draft")
        BY <3>1, <3>4 DEF StaysPut
      <4>2. ASSUME At(w) = "draft", writes[w].means \in DOMAIN pending' PROVE FALSE
        <5>1. PICK m \in DOMAIN pending' : m = writes[w].means
          BY <4>2
        <5>2. m \in Writes /\ Push(m)
          BY <3>1, <4>2, <5>1, LayersShrink
        <5>3. At(m) = "draft"
          BY <5>2, PushIs
        <5> QED BY <4>2, <5>1, <5>2, <5>3 DEF MeansInv, Landed
      <4> QED BY <4>1, <4>2
    <3> QED BY <3>2, <3>3, <3>4, WriteStep
  <2> QED BY <2>1 DEF ResyncInv, At
<1>3. CASE ~Applying'
  BY <1>3 DEF ResyncInv
<1>4. CASE dump' = dump /\ ~Applying
  BY <1>3, <1>4 DEF Applying
<1> QED BY <1>1, <1>2, <1>3, <1>4, DumpStep

\* The steps that move the queue of posts.
LEMMA PostsStep ==
  ASSUME WritesInv, QueueInv, [Next]_vars
  PROVE  \/ UNCHANGED <<outbox, posting>>
         \/ \E w \in Writes : Push(w)
         \/ StartPost
         \/ /\ outbox' = outbox /\ posting.at # "none" /\ posting'.at # "none" /\ posting'.w = posting.w
            /\ posting'.e = posting.e
         \/ /\ outbox' = outbox /\ posting.at # "none" /\ posting' = NoPost /\ posting.w \in Writes
            /\ writes'[posting.w].at # "queued"
<1>1. CASE Lose
  BY <1>1 DEF Lose, QueueInv, PostFields
<1>2. CASE Land
  BY <1>2 DEF Land, QueueInv, PostFields
<1>3. CASE TakeAck
  BY <1>3, AckIs DEF InFlight
<1>4. CASE TakeError
  BY <1>4, ErrorIs DEF InFlight
<1>5. CASE \E w \in Writes : Transact(w) \/ Run(w)
  BY <1>5, DraftIs
<1>6. CASE Foreign \/ TakeSync \/ Ask \/ Drop \/ ApplyTx \/ ReplaceConfirmed \/ Synced \/ LiveRead \/ UNCHANGED vars \/ ApplyResync
  BY <1>6 DEF Foreign, TakeSync, Ask, NeedsSync, RequestSync, Drop, ApplyTx, ApplyResync,
     ReplaceConfirmed, Synced, LiveRead, Read, vars, own
<1> QED BY <1>1, <1>2, <1>3, <1>4, <1>5, <1>6 DEF Next, Server, Client

\* Pushed posts go last, and the one sent is the first.
LEMMA Pushed ==
  ASSUME QueueInv, WritesInv, NEW v \in Writes, Push(v)
  PROVE  /\ Len(outbox) \in Nat /\ Len(outbox') = Len(outbox) + 1 /\ outbox'[Len(outbox) + 1] = v
         /\ \A i \in 1..Len(outbox) : outbox'[i] = outbox[i]
<1>1. outbox' = Append(outbox, v) /\ outbox \in Seq(Writes)
  BY PushIs DEF QueueInv
<1> QED BY <1>1

\* What a started post is: the first of the queue, with its layer's number.
LEMMA Started ==
  ASSUME QueueInv, StartPost
  PROVE  /\ posting.at = "none" /\ posting'.at # "none" /\ posting'.w = outbox[1] /\ posting'.w \in Writes
         /\ Len(outbox) \in Nat \ {0} /\ Len(outbox') = Len(outbox) - 1
         /\ \A i \in 1..Len(outbox') : outbox'[i] = outbox[i + 1]
         /\ UNCHANGED <<log, writes, pending, follower, dump, mixed>>
         /\ posting'.w \in DOMAIN pending => posting'.e = pending[posting'.w].e
<1>1. /\ posting = NoPost /\ outbox # <<>> /\ outbox' = Tail(outbox) /\ outbox \in Seq(Writes)
      /\ UNCHANGED <<log, writes, pending, follower, dump, mixed>>
  BY DEF StartPost, QueueInv, server, shown
<1>2. PICK w \in Writes : w = Head(outbox) /\ w = outbox[1]
  BY <1>1
<1>3. posting'.at = "sent" /\ posting'.w = w /\ (w \in DOMAIN pending => posting'.e = pending[w].e)
  BY <1>2 DEF StartPost
<1>4. /\ Len(outbox) \in Nat \ {0} /\ Len(outbox') = Len(outbox) - 1
      /\ \A i \in 1..Len(outbox') : outbox'[i] = outbox[i + 1]
  BY <1>1
<1> QED BY <1>1, <1>2, <1>3, <1>4 DEF NoPost

\* A queued write has its post in the queue or in flight.
LEMMA WaitsNext ==
  ASSUME WritesInv, QueueInv, WaitsInv, [Next]_vars
  PROVE  WaitsInv'
<1>1. ASSUME NEW w \in Writes, At(w)' = "queued", ~Push(w) PROVE At(w) = "queued"
  <2>1. CASE Transact(w) \/ Run(w)
    BY <1>1, <2>1, DraftIs
  <2>2. CASE StaysPut(w)
    BY <1>1, <2>2 DEF StaysPut
  <2> QED BY <1>1, <2>1, <2>2, WriteStep
<1>2. ASSUME NEW w \in Writes, At(w)' = "queued"
      PROVE  InFlight(w)' \/ \E i \in 1..Len(outbox') : outbox'[i] = w
  <2>1. CASE Push(w)
    <3>1. Len(outbox) + 1 \in 1..Len(outbox') /\ outbox'[Len(outbox) + 1] = w
      BY <2>1, Pushed
    <3> QED BY <3>1
  <2>2. CASE InFlight(w)
    <3>1. ~StartPost
      BY <2>2, Started DEF InFlight
    <3>2. ASSUME NEW v \in Writes, Push(v) PROVE InFlight(w)'
      BY <2>2, <3>2 DEF Push, InFlight
    <3> QED BY <1>2, <2>2, <3>1, <3>2, PostsStep DEF InFlight, At
  <2>3. ASSUME NEW i \in 1..Len(outbox), outbox[i] = w
        PROVE  InFlight(w)' \/ \E j \in 1..Len(outbox') : outbox'[j] = w
    <3>1. ASSUME NEW v \in Writes, Push(v) PROVE \E j \in 1..Len(outbox') : outbox'[j] = w
      <4>1. i \in 1..Len(outbox') /\ outbox'[i] = w
        BY <2>3, <3>1, Pushed
      <4> QED BY <4>1
    <3>2. CASE StartPost
      <4>1. CASE i = 1
        BY <2>3, <3>2, <4>1, Started DEF InFlight
      <4>2. CASE i # 1
        <5>1. i - 1 \in 1..Len(outbox') /\ outbox'[i - 1] = w
          <6>1. i - 1 \in 1..Len(outbox') /\ (i - 1) + 1 = i
            BY <3>2, <4>2, Started
          <6> QED BY <2>3, <3>2, <6>1, Started
        <5> QED BY <5>1
      <4> QED BY <4>1, <4>2
    <3> QED BY <2>3, <3>1, <3>2, PostsStep
  <2> QED BY <1>1, <1>2, <2>1, <2>2, <2>3 DEF WaitsInv
<1> QED BY <1>2 DEF WaitsInv, At

\* A post behind another is sent after it is answered.
LEMMA OrderNext ==
  ASSUME LogInv, WritesInv, QueueInv, EntriesInv, MeansInv, WaitsInv, OrderInv, [Next]_vars
  PROVE  OrderInv'
<1>0. LogGrown /\ LandedStays /\ Tip \in Nat
  BY LogStep, LandedStep DEF LogGrown
<1>1. SUFFICES ASSUME NEW w \in Writes, writes'[w].behind,
                      NEW m \in Writes, m = writes'[w].means, m # w, Landed(m)
               PROVE  /\ At(w)' = "queued" /\ At(m)' = "queued" =>
                           \/ InFlight(m)'
                           \/ \E i, j \in 1..Len(outbox') : i < j /\ outbox'[i] = m /\ outbox'[j] = w
                      /\ InFlight(w)' => At(m)' # "queued"
                      /\ \A t \in 1..Tip' : log'[t].w = w => At(m)' # "queued"
  <2>1. ASSUME NEW w \in Writes, writes'[w].behind
        PROVE  writes'[w].means \in Writes \ {w} /\ \A m \in Writes : m = writes'[w].means => Landed(m)
    <3>1. CASE Transact(w) \/ Run(w)
      BY <2>1, <3>1, DraftIs
    <3>2. CASE Push(w)
      <4>1. writes[w].means \in DOMAIN pending /\ writes'[w].means = writes[w].means /\ w \notin DOMAIN pending
        BY <2>1, <3>2, PushIs
      <4> QED BY <4>1 DEF WritesInv, Landed
    <3>3. CASE StaysPut(w)
      BY <2>1, <3>3 DEF StaysPut, MeansInv
    <3> QED BY <3>1, <3>2, <3>3, WriteStep
  <2> QED BY <1>1, <2>1 DEF OrderInv, At
<1>2. CASE Push(w)
  <2>1. /\ At(w) = "draft" /\ m = writes[w].means /\ m \in DOMAIN pending /\ UNCHANGED <<log, posting>>
    BY <1>1, <1>2, PushIs
  <2>2. /\ Len(outbox) \in Nat /\ Len(outbox') = Len(outbox) + 1 /\ outbox'[Len(outbox) + 1] = w
        /\ \A i \in 1..Len(outbox) : outbox'[i] = outbox[i]
    BY <1>2, Pushed
  <2>3. InFlight(m) \/ \E i \in 1..Len(outbox) : outbox[i] = m
    BY <2>1 DEF WritesInv, WaitsInv
  <2>4. InFlight(m)' \/ \E i, j \in 1..Len(outbox') : i < j /\ outbox'[i] = m /\ outbox'[j] = w
    <3>1. ASSUME NEW i \in 1..Len(outbox), outbox[i] = m
          PROVE  \E k, j \in 1..Len(outbox') : k < j /\ outbox'[k] = m /\ outbox'[j] = w
      <4>1. i \in 1..Len(outbox') /\ Len(outbox) + 1 \in 1..Len(outbox') /\ i < Len(outbox) + 1
        BY <2>2
      <4>2. outbox'[i] = m
        BY <2>2, <3>1
      <4> QED BY <2>2, <4>1, <4>2
    <3> QED BY <2>1, <2>3, <3>1 DEF InFlight
  <2>5. ~InFlight(w)'
    BY <2>1 DEF InFlight, QueueInv
  <2>6. \A t \in 1..Tip' : log'[t].w # w
    BY <2>1 DEF EntriesInv, Landed, Tip
  <2> QED BY <2>4, <2>5, <2>6
<1>3. CASE StaysPut(w)
  <2>1. writes[w].behind /\ m = writes[w].means /\ (At(w)' = "queued" => At(w) = "queued")
    BY <1>1, <1>3 DEF StaysPut
  <2>2. At(m)' = "queued" => At(m) = "queued"
    BY <1>0, <1>1 DEF LandedStays, Landed
  <2>3. /\ At(w) = "queued" /\ At(m) = "queued" =>
             InFlight(m) \/ \E i, j \in 1..Len(outbox) : i < j /\ outbox[i] = m /\ outbox[j] = w
        /\ InFlight(w) => At(m) # "queued"
        /\ \A t \in 1..Tip : log[t].w = w => At(m) # "queued"
    BY <2>1 DEF OrderInv
  <2>4. ASSUME At(w)' = "queued", At(m)' = "queued"
        PROVE  InFlight(m)' \/ \E i, j \in 1..Len(outbox') : i < j /\ outbox'[i] = m /\ outbox'[j] = w
    <3>1. CASE InFlight(m)
      <4>1. ~StartPost
        BY <3>1, Started DEF InFlight
      <4>2. ASSUME NEW v \in Writes, Push(v) PROVE InFlight(m)'
        BY <3>1, <4>2 DEF Push, InFlight
      <4> QED BY <2>4, <3>1, <4>1, <4>2, PostsStep DEF InFlight, At
    <3>2. ASSUME NEW i \in 1..Len(outbox), NEW j \in 1..Len(outbox), i < j, outbox[i] = m, outbox[j] = w
          PROVE  InFlight(m)' \/ \E k, l \in 1..Len(outbox') : k < l /\ outbox'[k] = m /\ outbox'[l] = w
      <4>1. ASSUME NEW v \in Writes, Push(v)
            PROVE  \E k, l \in 1..Len(outbox') : k < l /\ outbox'[k] = m /\ outbox'[l] = w
        <5>1. i \in 1..Len(outbox') /\ j \in 1..Len(outbox') /\ outbox'[i] = m /\ outbox'[j] = w
          BY <3>2, <4>1, Pushed
        <5> QED BY <3>2, <5>1
      <4>2. CASE StartPost
        <5>1. CASE i = 1
          BY <3>2, <4>2, <5>1, Started DEF InFlight
        <5>2. CASE i # 1
          <6>1. /\ i - 1 \in 1..Len(outbox') /\ (i - 1) + 1 = i /\ j - 1 \in 1..Len(outbox') /\ (j - 1) + 1 = j
                /\ i - 1 < j - 1
            BY <3>2, <4>2, <5>2, Started
          <6>2. outbox'[i - 1] = m /\ outbox'[j - 1] = w
            BY <3>2, <4>2, <6>1, Started
          <6> QED BY <6>1, <6>2
        <5> QED BY <5>1, <5>2
      <4> QED BY <3>2, <4>1, <4>2, PostsStep
    <3> QED BY <2>1, <2>2, <2>3, <2>4, <3>1, <3>2
  <2>5. ASSUME InFlight(w)', At(m)' = "queued" PROVE FALSE
    <3>1. CASE InFlight(w)
      BY <2>2, <2>3, <2>5, <3>1
    <3>2. CASE ~InFlight(w)
      <4>1. ASSUME NEW v \in Writes, Push(v) PROVE FALSE
        BY <2>5, <3>2, <4>1 DEF Push, InFlight
      <4>2. StartPost
        BY <2>5, <3>2, <4>1, PostsStep DEF InFlight, NoPost
      <4>3. outbox[1] = w /\ 1 \in 1..Len(outbox) /\ ~InFlight(m)
        BY <2>5, <4>2, Started DEF InFlight
      <4>4. At(w) = "queued" /\ At(m) = "queued"
        BY <2>2, <2>5, <4>3 DEF QueueInv
      <4>5. PICK i, j \in 1..Len(outbox) : i < j /\ outbox[i] = m /\ outbox[j] = w
        BY <2>3, <4>3, <4>4
      <4>6. j = 1
        BY <4>3, <4>5 DEF QueueInv
      <4> QED BY <4>5, <4>6
    <3> QED BY <3>1, <3>2
  <2>6. ASSUME NEW t \in 1..Tip', log'[t].w = w PROVE At(m)' # "queued"
    <3>1. CASE t \in 1..Tip
      <4>1. log[t].w = w
        BY <1>0, <2>6, <3>1 DEF LogGrown
      <4> QED BY <2>2, <2>3, <3>1, <4>1
    <3>2. CASE t \notin 1..Tip
      <4>1. log' # log
        BY <3>2 DEF Tip
      <4>2. PICK x, k, e : Tip' = Tip + 1 /\ log'[Tip'] = Entry(x, k, e) /\ (x \in Writes => InFlight(x))
        BY <4>1, EntriesStep
      <4>3. t = Tip'
        BY <1>0, <3>2, <4>2
      <4>4. x = w
        BY <2>6, <4>2, <4>3, EntrySays
      <4> QED BY <2>2, <2>3, <4>2, <4>4
    <3> QED BY <3>1, <3>2
  <2> QED BY <2>4, <2>5, <2>6
<1>4. CASE Transact(w) \/ Run(w)
  BY <1>1, <1>4, DraftIs
<1> QED BY <1>2, <1>3, <1>4, WriteStep

(***************************************************************************)
(* The numbers of entities.                                                *)
(***************************************************************************)
\* The steps that paint, and the one that paints anew.
LEMMA PaintStep ==
  ASSUME WritesInv, QueueInv, [Next]_vars
  PROVE  \/ UNCHANGED <<painted, factTs>>
         \/ \E t : Paint(t) /\ UNCHANGED <<log, dump>>
         \/ ReplaceConfirmed
<1>1. CASE TakeAck
  BY <1>1, AckIs
<1>2. CASE ApplyTx
  BY <1>2 DEF ApplyTx, server
<1>3. CASE \E w \in Writes : Transact(w) \/ Run(w) \/ Push(w)
  BY <1>3, DraftIs, PushIs DEF follower
<1> QED BY <1>1, <1>2, <1>3 DEF Next, Server, Client, Foreign, Land, TakeSync, Ask, NeedsSync,
     RequestSync, Drop, TakeError, ApplyResync,
     StartPost, Lose, Synced, LiveRead, Read, vars, follower

\* What is painted stays until a dump replaces it.
LEMMA PaintGrows ==
  ASSUME WritesInv, QueueInv, [Next]_vars
  PROVE  painted \subseteq painted' \/ (ReplaceConfirmed /\ Applying)
BY PaintStep DEF Paint, ReplaceConfirmed

\* A step that writes an entry does nothing else to what is followed or pending.
LEMMA EntryAlone ==
  ASSUME [Next]_vars, log' # log
  PROVE  UNCHANGED <<follower, dump, writes, pending, mixed>>
BY DEF Next, Server, Client, Foreign, Land, vars, server, own, shown, Draft, Transact, Run, Push, StartPost, Lose,
     TakeAck, TakeError, TakeSync, Ask, NeedsSync, RequestSync, Drop, ApplyTx, ApplyResync,
     ReplaceConfirmed, Synced, LiveRead, Read

\* The commits of a write stay what they are.
LEMMA CommitsKept ==
  ASSUME LogGrown, NEW w
  PROVE  /\ CommittedAt(w) \subseteq CommittedAt(w)' /\ CommittedAt(w) \subseteq 1..Tip
         /\ \A u \in CommittedAt(w)' : u \in 1..Tip => u \in CommittedAt(w)
         /\ \A u \in 1..Tip : Logged(u)' = Logged(u) /\ log'[u].e = log[u].e
<1>1. /\ Tip \in Nat /\ Tip' \in Nat /\ Tip <= Tip' /\ \A u \in 1..Tip : log'[u] = log[u]
      /\ DOMAIN log = 1..Tip /\ DOMAIN log' = 1..Tip'
  BY DEF LogGrown
<1>2. 1..Tip \subseteq 1..Tip'
  BY <1>1
<1> QED BY <1>1, <1>2 DEF CommittedAt, Logged

\* Commits of a write with a layer are newer than the last dump.
LEMMA FreshNext ==
  ASSUME LogInv, FollowerInv, WritesInv, QueueInv, EntriesInv, FreshInv, [Next]_vars
  PROVE  FreshInv'
<1>0. LogGrown /\ Tip \in Nat /\ Tip' \in Nat
  BY LogStep DEF LogGrown
<1>1. SUFFICES ASSUME NEW m \in DOMAIN pending', NEW u \in CommittedAt(m)'
               PROVE  u > dump' /\ (u \in factTs' => Logged(u)' \subseteq painted')
  BY DEF FreshInv
<1>2. CASE u \in 1..Tip
  <2>1. u \in CommittedAt(m) /\ Logged(u)' = Logged(u)
    BY <1>0, <1>2, CommitsKept
  <2>2. m \in DOMAIN pending
    <3>1. ASSUME m \in Writes, Push(m) PROVE FALSE
      <4>1. At(m) = "draft"
        BY <3>1, PushIs
      <4> QED BY <1>2, <2>1, <3>1, <4>1 DEF EntriesInv, CommittedAt, Landed
    <3> QED BY <3>1, LayersShrink
  <2>3. u > dump /\ (u \in factTs => Logged(u) \subseteq painted)
    BY <2>1, <2>2 DEF FreshInv
  <2>4. ~ApplyResync
    BY ResyncIs
  <2>5. CASE ReplaceConfirmed
    <3>1. factTs' = 1..dump /\ dump' = 0 /\ dump \in Nat
      BY <1>0, <2>5 DEF ReplaceConfirmed, FollowerInv, NoDump
    <3> QED BY <1>0, <1>2, <2>3, <3>1
  <2>6. CASE ~ReplaceConfirmed
    <3>1. dump' = dump
      BY <2>4, <2>6, DumpStep
    <3>2. CASE UNCHANGED <<painted, factTs>>
      BY <2>1, <2>3, <3>1, <3>2
    <3>3. ASSUME NEW t, Paint(t) PROVE u \in factTs' => Logged(u)' \subseteq painted'
      <4>1. painted \subseteq painted' /\ (u \in factTs' => u \in factTs \/ (u = t /\ painted' = painted \cup Logged(t)))
        BY <3>3 DEF Paint
      <4> QED BY <2>1, <2>3, <4>1
    <3> QED BY <2>3, <2>6, <3>1, <3>2, <3>3, PaintStep
  <2> QED BY <2>5, <2>6
<1>3. CASE u \notin 1..Tip
  <2>1. u \in 1..Tip'
    BY <1>0 DEF CommittedAt, LogGrown
  <2>2. log' # log
    BY <1>3, <2>1 DEF Tip
  <2>3. UNCHANGED <<follower, dump>>
    BY <2>2, EntryAlone
  <2>4. u > Tip /\ dump <= Tip /\ dump \in Nat
    BY <1>0, <1>3, <2>1 DEF FollowerInv
  <2>5. u \notin factTs
    BY <1>3 DEF FollowerInv
  <2> QED BY <1>0, <2>1, <2>3, <2>4, <2>5 DEF follower
<1> QED BY <1>2, <1>3

\* Whatever changes the view looks whether its numbers are mixed.
LEMMA ViewStep ==
  ASSUME WritesInv, QueueInv, [Next]_vars
  PROVE  \/ mixed' = (mixed \/ Mixed')
         \/ UNCHANGED <<painted, pending, mixed>>
         \/ ApplyResync
<1>1. CASE TakeAck \/ TakeError \/ ApplyTx \/ ReplaceConfirmed
  BY <1>1 DEF TakeAck, TakeError, ApplyTx, ReplaceConfirmed, Notify
<1>2. ASSUME NEW w \in Writes, Transact(w) \/ Run(w) PROVE UNCHANGED <<painted, pending, mixed>>
  BY <1>2, DraftIs DEF follower
<1>3. ASSUME NEW w \in Writes, Push(w) PROVE mixed' = (mixed \/ Mixed')
  BY <1>3, PushIs
<1> QED BY <1>1, <1>2, <1>3 DEF Next, Server, Client, Foreign, Land, TakeSync, Ask, NeedsSync,
     RequestSync, Drop,
     StartPost, Lose, Synced, LiveRead, Read, vars, follower, own, shown

\* Numbers that are not mixed after a step were not before it.
LEMMA UnmixedNext ==
  ASSUME WritesInv, QueueInv, ~mixed => ~Mixed, [Next]_vars, ~mixed'
  PROVE  ~Mixed' /\ ~mixed
<1>1. CASE mixed' = (mixed \/ Mixed')
  BY <1>1
<1>2. CASE UNCHANGED <<painted, pending, mixed>>
  <2>1. \A w \in DOMAIN pending : writes'[w].kind = writes[w].kind
    BY LandedStep DEF LandedStays, WritesInv, Landed
  <2> QED BY <1>2, <2>1 DEF Mixed
<1>3. CASE ApplyResync
  BY <1>3, ResyncIs DEF Mixed
<1> QED BY <1>1, <1>2, <1>3, ViewStep

\* While numbers are not mixed, a layer that makes an entity keeps its number.
LEMMA MakersKeep ==
  ASSUME WritesInv, QueueInv, ~Mixed, [Next]_vars,
         NEW m \in DOMAIN pending, m \in DOMAIN pending', Makes(m)
  PROVE  pending'[m].e = pending[m].e
<1>1. ASSUME NEW w \in Writes, Push(w) PROVE pending'[m].e = pending[m].e
  BY <1>1, PushIs
<1>2. CASE TakeAck
  <2> DEFINE q == posting.w
  <2>1. /\ m # q
        /\ pending'[m].e = IF q \in DOMAIN pending /\ Makes(q)
                             THEN RewriteEid(pending[m].e, pending[q].e, log[posting.t].e) ELSE pending[m].e
    BY <1>2, AckIs
  <2>2. q \in DOMAIN pending /\ Makes(q) => pending[m].e # pending[q].e
    BY <2>1 DEF Mixed, Makes
  <2> QED BY <2>1, <2>2 DEF RewriteEid
<1>3. CASE TakeError
  BY <1>3, ErrorIs
<1>4. CASE ApplyResync
  BY <1>4, ResyncIs
<1> QED BY <1>1, <1>2, <1>3, <1>4, LayersStep

\* A draft keeps a number of the entity it is of.
LEMMA DraftNumbersNext ==
  ASSUME LogInv, FollowerInv, WritesInv, WritesInv', QueueInv, EntityInv, NumbersInv, [Next]_vars
  PROVE  DraftNumbers'
<1>0. LandedStays /\ Tip \in Nat
  BY LandedStep DEF LogInv, Tip
<1>1. SUFFICES ASSUME NEW w \in Writes, At(w)' = "draft",
                      NEW m \in DOMAIN pending', m = writes'[w].means, Makes(m)', m \in Writes
               PROVE  Names(writes[w].e, m)'
  BY DEF DraftNumbers, WritesInv
<1>2. CASE Transact(w) \/ Run(w)
  <2>1. /\ UNCHANGED <<painted, pending>>
        /\ \/ writes'[w].kind = "make" /\ writes'[w].means = 0
           \/ writes'[w].kind # "make" /\ <<writes'[w].e, writes'[w].means>> \in View
    BY <1>2, DraftIs DEF follower
  <2>2. 0 \notin Writes
    BY OverlayAssumption DEF Writes
  <2>3. Names(writes'[w].e, m)
    BY <1>0, <1>1, <2>1, <2>2, ViewNames DEF EntityInv
  <2> QED BY <2>1, <2>3 DEF Names
<1>3. CASE StaysPut(w)
  <2>1. At(w) = "draft" /\ m = writes[w].means /\ writes'[w].e = writes[w].e
    BY <1>1, <1>3 DEF StaysPut
  <2>2. Landed(m)
    BY <1>1, <2>1 DEF EntityInv, MeansInv
  <2>3. m \in DOMAIN pending
    <3>1. m \in Writes /\ Push(m) => At(m) = "draft"
      BY PushIs
    <3> QED BY <2>2, <3>1, LayersShrink DEF Landed
  <2>4. Makes(m)
    BY <1>0, <1>1, <2>2 DEF LandedStays, Makes
  <2>5. Names(writes[w].e, m)
    BY <2>1, <2>3, <2>4 DEF NumbersInv, DraftNumbers
  <2>6. ~Applying
    BY <2>1, <2>3 DEF EntityInv, ResyncInv
  <2>7. painted \subseteq painted'
    BY <2>6, PaintGrows
  <2>8. pending'[m].e = pending[m].e
    BY <2>3, <2>4, MakersKeep DEF NumbersInv
  <2> QED BY <1>1, <2>1, <2>5, <2>7, <2>8 DEF Names
<1>4. ~Push(w)
  BY <1>1, PushIs
<1> QED BY <1>2, <1>3, <1>4, WriteStep

\* The ack of a write that makes an entity paints the entity by the server's number.
LEMMA AckPaints ==
  ASSUME LogInv, FollowerInv, WritesInv, QueueInv, EntityInv, TakeAck, posting.w \in DOMAIN pending, Makes(posting.w)
  PROVE  \E d \in painted' : d.op /\ d.e = log[posting.t].e /\ d.v = posting.w
<1>1. PICK q, t : q = posting.w /\ t = posting.t
  OBVIOUS
<1>2. q \in Writes /\ Paint(t) /\ t \in 1..Tip /\ log[t].w = q
  BY <1>1, AckIs
<1>3. PICK c \in log[t].datoms : c.op /\ c.e = log[t].e /\ c.v = q
  BY <1>1, <1>2 DEF EntityInv, EntriesInv, Says
<1>4. Datom(c.e, c.v, c.op, t) \in Logged(t)
  BY DEF Logged
<1>5. Datom(c.e, c.v, c.op, t).op /\ Datom(c.e, c.v, c.op, t).e = log[t].e /\ Datom(c.e, c.v, c.op, t).v = q
  BY <1>3 DEF Datom
<1>6. t \in CommittedAt(q)
  BY <1>2 DEF CommittedAt, LogInv, Tip
<1>7. Logged(t) \subseteq painted'
  BY <1>1, <1>2, <1>6 DEF EntityInv, FreshInv, Paint
<1> QED BY <1>1, <1>4, <1>5, <1>7

\* A layer has a number of the entity it is of, whichever way the acks come.
LEMMA LayerNumbersNext ==
  ASSUME LogInv, FollowerInv, WritesInv, WritesInv', QueueInv, EntityInv, NumbersInv, [Next]_vars
  PROVE  LayerNumbers'
<1>0. LandedStays /\ Tip \in Nat
  BY LandedStep DEF LogInv, Tip
<1>1. SUFFICES ASSUME NEW w \in Writes, NEW m, m = writes'[w].means, writes'[w].behind, Makes(m)',
                      At(w)' = "queued", At(m)' # "failed"
               PROVE  w \in DOMAIN pending' /\ Names(pending[w].e, m)'
  BY DEF LayerNumbers
<1>2. CASE Push(w)
  <2>1. /\ At(w) = "draft" /\ m \in DOMAIN pending /\ m = writes[w].means /\ UNCHANGED painted
        /\ DOMAIN pending' = DOMAIN pending \cup {w} /\ pending'[w].e = writes[w].e /\ pending'[m] = pending[m]
    BY <1>1, <1>2, PushIs DEF follower
  <2>2. Makes(m)
    BY <1>0, <1>1, <2>1 DEF LandedStays, Makes, WritesInv, Landed
  <2>3. Names(writes[w].e, m)
    BY <2>1, <2>2 DEF NumbersInv, DraftNumbers
  <2> QED BY <2>1, <2>3 DEF Names
<1>3. CASE StaysPut(w)
  <2>1. writes[w].behind /\ At(w) = "queued" /\ m = writes[w].means
    BY <1>1, <1>3 DEF StaysPut
  <2>2. m \in Writes /\ m # w /\ Landed(m) /\ ~Applying
    BY <2>1 DEF EntityInv, MeansInv, ResyncInv
  <2>3. Makes(m) /\ At(m) # "failed"
    BY <1>0, <1>1, <2>2 DEF LandedStays, Makes
  <2>4. w \in DOMAIN pending /\ Names(pending[w].e, m)
    BY <2>1, <2>3 DEF NumbersInv, LayerNumbers
  <2>5. painted \subseteq painted' /\ ~ApplyResync
    BY <1>1, <2>2, PaintGrows, ResyncIs
  <2>6. ASSUME NEW x, Names(x, m), m \in DOMAIN pending => m \in DOMAIN pending' PROVE Names(x, m)'
    BY <2>3, <2>5, <2>6, MakersKeep DEF Names, NumbersInv
  <2>7. CASE pending' = pending
    BY <2>4, <2>6, <2>7
  <2>8. ASSUME NEW v \in Writes, Push(v) PROVE w \in DOMAIN pending' /\ Names(pending[w].e, m)'
    <3>1. DOMAIN pending \subseteq DOMAIN pending' /\ pending'[w] = pending[w]
      BY <2>4, <2>8, PushIs
    <3> QED BY <2>4, <2>6, <3>1
  <2>9. CASE TakeError
    <3>1. /\ DOMAIN pending' = DOMAIN pending \ {posting.w}
          /\ writes'[posting.w].at = "failed" /\ \A u \in DOMAIN pending' : pending'[u] = pending[u]
      BY <2>9, ErrorIs
    <3>2. w # posting.w /\ m # posting.w
      BY <1>1, <3>1 DEF At
    <3> QED BY <2>4, <2>6, <3>1, <3>2
  <2>10. CASE TakeAck
    <3>1. PICK q : q = posting.w
      OBVIOUS
    <3>2. /\ DOMAIN pending' = DOMAIN pending \ {q} /\ writes'[q].at = "acked"
          /\ \A u \in DOMAIN pending' :
               pending'[u].e = IF q \in DOMAIN pending /\ Makes(q) THEN RewriteEid(pending[u].e, pending[q].e, log[posting.t].e)
                                                                 ELSE pending[u].e
      BY <2>10, <3>1, AckIs
    <3>3. w # q /\ w \in DOMAIN pending'
      BY <1>1, <2>4, <3>2 DEF At
    <3>4. CASE q = m
      <4>1. CASE m \in DOMAIN pending /\ pending[w].e = pending[m].e
        <5>1. pending'[w].e = log[posting.t].e
          BY <2>3, <3>2, <3>3, <3>4, <4>1 DEF RewriteEid
        <5>2. \E d \in painted' : d.op /\ d.e = log[posting.t].e /\ d.v = m
          BY <2>3, <2>10, <3>1, <3>4, <4>1, AckPaints
        <5> QED BY <3>3, <5>1, <5>2 DEF Names
      <4>2. CASE ~(m \in DOMAIN pending /\ pending[w].e = pending[m].e)
        <5>1. pending'[w].e = pending[w].e
          BY <2>3, <3>2, <3>3, <3>4, <4>2 DEF RewriteEid
        <5>2. \E d \in painted : d.op /\ d.e = pending[w].e /\ d.v = m
          BY <2>4, <4>2 DEF Names
        <5> QED BY <2>5, <3>3, <5>1, <5>2 DEF Names
      <4> QED BY <4>1, <4>2
    <3>5. CASE q # m
      <4>1. q \in DOMAIN pending /\ Makes(q) => pending[w].e # pending[q].e
        <5>1. CASE m \in DOMAIN pending /\ pending[m].e = pending[w].e
          BY <2>3, <3>5, <5>1 DEF NumbersInv, Mixed, Makes
        <5>2. ASSUME NEW d \in painted, d.op, d.e = pending[w].e, d.v = m
              PROVE  q \in DOMAIN pending /\ Makes(q) => pending[w].e # pending[q].e
          BY <3>5, <5>2 DEF NumbersInv, Mixed, Makes
        <5> QED BY <2>4, <5>1, <5>2 DEF Names
      <4>2. pending'[w].e = pending[w].e
        BY <3>2, <3>3, <4>1 DEF RewriteEid
      <4>3. Names(pending[w].e, m) /\ (m \in DOMAIN pending => m \in DOMAIN pending')
        BY <2>4, <3>2, <3>5
      <4>4. PICK x : x = pending[w].e
        OBVIOUS
      <4>5. Names(x, m)'
        BY <2>6, <4>3, <4>4
      <4> QED BY <3>3, <4>2, <4>4, <4>5 DEF Names
    <3> QED BY <3>4, <3>5
  <2> QED BY <2>5, <2>7, <2>8, <2>9, <2>10, LayersStep
<1>4. ~(Transact(w) \/ Run(w))
  BY <1>1, DraftIs
<1> QED BY <1>2, <1>3, <1>4, WriteStep

\* A post in flight has the server's number of the entity it is of.
LEMMA PostNumberNext ==
  ASSUME LogInv, FollowerInv, WritesInv, QueueInv, EntityInv, NumbersInv, [Next]_vars
  PROVE  PostNumber'
<1>0. LandedStays /\ LogGrown /\ Tip \in Nat
  BY LandedStep, LogStep DEF LogGrown
<1>1. SUFFICES ASSUME NEW w \in Writes, NEW m, m = writes'[w].means, InFlight(w)', writes'[w].behind,
                      Makes(m)', At(m)' = "acked"
               PROVE  \E u \in CommittedAt(m)' : log'[u].e = posting'.e
  BY DEF PostNumber
<1>2. ASSUME NEW u \in CommittedAt(m), log[u].e = posting'.e
      PROVE  \E v \in CommittedAt(m)' : log'[v].e = posting'.e
  BY <1>0, <1>2, CommitsKept
<1>3. CASE InFlight(w) /\ posting'.e = posting.e /\ posting'.w = posting.w
  <2>1. StaysPut(w)
    <3>1. At(w) = "queued"
      BY <1>3 DEF QueueInv, InFlight
    <3> QED BY <3>1, WriteStep, DraftIs, PushIs
  <2>2. writes[w].behind /\ m = writes[w].means
    BY <1>1, <2>1 DEF StaysPut
  <2>3. m \in Writes /\ m # w /\ Landed(m)
    BY <2>2 DEF EntityInv, MeansInv
  <2>4. Makes(m) /\ At(m) = "acked"
    BY <1>0, <1>1, <1>3, <2>3 DEF LandedStays, Makes, InFlight
  <2>5. PICK u \in CommittedAt(m) : log[u].e = posting.e
    BY <1>3, <2>2, <2>4 DEF NumbersInv, PostNumber
  <2> QED BY <1>2, <1>3, <2>5
<1>4. CASE StartPost
  <2>1. /\ w = outbox[1] /\ 1 \in 1..Len(outbox) /\ UNCHANGED <<writes, pending>>
        /\ w \in DOMAIN pending => posting'.e = pending[w].e
    BY <1>1, <1>4, Started DEF InFlight
  <2>2. At(w) = "queued" /\ writes[w].behind /\ m = writes[w].means /\ Makes(m) /\ At(m) = "acked"
    BY <1>1, <2>1 DEF QueueInv, At, Makes
  <2>3. m \in Writes
    BY <2>2 DEF EntityInv, MeansInv
  <2>4. w \in DOMAIN pending /\ Names(pending[w].e, m)
    BY <2>2 DEF NumbersInv, LayerNumbers
  <2>5. m \notin DOMAIN pending
    BY <2>2 DEF WritesInv
  <2>6. PICK d \in painted : d.op /\ d.e = pending[w].e /\ d.v = m
    BY <2>4, <2>5 DEF Names
  <2>7. PICK u \in 1..Tip : d.e = log[u].e /\ d.v = log[u].w
    BY <1>0, <2>6, PaintedIsLogged DEF EntityInv
  <2>8. u \in CommittedAt(m)
    BY <1>0, <2>6, <2>7 DEF CommittedAt, LogGrown
  <2> QED BY <1>2, <2>1, <2>4, <2>6, <2>7, <2>8
<1>5. ASSUME NEW v \in Writes, Push(v) PROVE posting' = posting
  BY <1>5 DEF Push
<1>6. (InFlight(w) /\ posting'.e = posting.e /\ posting'.w = posting.w) \/ StartPost
  BY <1>1, <1>5, PostsStep DEF InFlight, NoPost
<1> QED BY <1>3, <1>4, <1>6

\* An edit that lands, lands on its entity.
LEMMA EditsNext ==
  ASSUME LogInv, FollowerInv, WritesInv, QueueInv, EntityInv, ~mixed => NumbersInv, ~mixed' => ~mixed, [Next]_vars
  PROVE  EditsLand'
<1>0. LandedStays /\ LogGrown /\ Tip \in Nat /\ Tip' \in Nat
  BY LandedStep, LogStep DEF LogGrown
<1>1. SUFFICES ASSUME NEW t \in 1..Tip', NEW w \in Writes, w = log'[t].w, writes'[w].behind, ~mixed',
                      NEW m, m = writes'[w].means, Makes(m)', At(m)' = "acked"
               PROVE  \E u \in CommittedAt(m)' : log'[u].e = log'[t].e
  BY <1>0 DEF EditsLand, LogGrown, Makes, At
<1>2. CASE t \in 1..Tip
  <2>1. log'[t] = log[t] /\ t \in DOMAIN log
    BY <1>0, <1>2 DEF LogGrown
  <2>2. Landed(w)
    BY <1>1, <1>2, <2>1 DEF EntityInv, EntriesInv
  <2>3. writes[w].behind /\ m = writes[w].means
    BY <1>0, <1>1, <2>2 DEF LandedStays
  <2>4. m \in Writes /\ Landed(m)
    BY <2>3 DEF EntityInv, MeansInv
  <2>5. At(m) # "queued"
    BY <1>1, <1>2, <2>1, <2>3 DEF EntityInv, OrderInv
  <2>6. At(m) = "acked" /\ Makes(m)
    BY <1>0, <1>1, <2>4, <2>5 DEF LandedStays, Makes
  <2>7. PICK u \in CommittedAt(m) : log[u].e = log[t].e
    BY <1>1, <2>1, <2>3, <2>6 DEF EntityInv, EditsLand, At, Makes
  <2> QED BY <1>0, <2>1, <2>7, CommitsKept
<1>3. CASE t \notin 1..Tip
  <2>1. log' # log
    BY <1>3 DEF Tip
  <2>2. PICK x, k, e : /\ Tip' = Tip + 1 /\ log'[Tip'] = Entry(x, k, e)
                       /\ x \in Writes => InFlight(x) /\ k = writes[x].kind /\ e = posting.e
    BY <2>1, EntriesStep
  <2>3. t = Tip'
    BY <1>0, <1>3, <2>2
  <2>4. PICK n : n = Entry(x, k, e) /\ n = log'[t]
    BY <2>2, <2>3
  <2>5. n.w = x /\ (k # "make" => n.e = e)
    <3>1. Entry(x, k, e).w = x /\ (k # "make" => Entry(x, k, e).e = e)
      BY EntrySays
    <3> QED BY <2>4, <3>1
  <2>6. x = w
    BY <1>1, <2>4, <2>5
  <2>7. UNCHANGED <<writes, mixed>>
    BY <2>1, EntryAlone
  <2>8. writes[w].behind /\ m = writes[w].means /\ Makes(m) /\ At(m) = "acked"
    BY <1>1, <2>7 DEF At, Makes
  <2>9. writes[w].kind # "make"
    BY <2>8 DEF EntityInv, MeansInv, Makes
  <2>10. log'[t].e = posting.e
    BY <2>2, <2>4, <2>5, <2>6, <2>9
  <2>11. NumbersInv
    BY <1>1
  <2>12. InFlight(w)
    BY <2>2, <2>6
  <2>13. PICK u \in CommittedAt(m) : log[u].e = posting.e
    BY <2>8, <2>11, <2>12 DEF NumbersInv, PostNumber
  <2> QED BY <1>0, <2>10, <2>13, CommitsKept
<1> QED BY <1>2, <1>3

\* Every step keeps the numbers of entities right.
LEMMA EntityNext ==
  ASSUME LogInv, OverlayInv, WritesInv', [Next]_vars
  PROVE  EntityInv'
<1>1. EntriesInv' /\ LayersInv' /\ MeansInv' /\ ResyncInv' /\ WaitsInv' /\ OrderInv' /\ FreshInv'
  BY EntriesNext, LayersNext, MeansNext, ResyncNext, WaitsNext, OrderNext, FreshNext DEF OverlayInv, EntityInv
<1>2. ASSUME ~mixed' PROVE ~mixed /\ NumbersInv'
  <2>1. ~Mixed' /\ ~mixed
    BY <1>2, UnmixedNext DEF OverlayInv, EntityInv, NumbersInv
  <2>2. DraftNumbers' /\ LayerNumbers' /\ PostNumber'
    BY <2>1, DraftNumbersNext, LayerNumbersNext, PostNumberNext DEF OverlayInv, EntityInv
  <2> QED BY <2>1, <2>2 DEF NumbersInv
<1>3. EditsLand'
  BY <1>2, EditsNext DEF OverlayInv, EntityInv
<1> QED BY <1>1, <1>2, <1>3 DEF EntityInv

(***************************************************************************)
(* The theorems.                                                           *)
(***************************************************************************)
\* The invariant holds at the start.
LEMMA OverlayStart ==
  ASSUME Init
  PROVE  LogInv /\ OverlayInv /\ LiveIsFresh
<1>1. /\ log = <<>> /\ session = NoSession /\ painted = {} /\ factTs = {} /\ confirmedT = 0 /\ dump = 0
      /\ writes = [w \in Writes |-> New] /\ pending = <<>> /\ outbox = <<>> /\ posting = NoPost
      /\ live = News /\ mixed = FALSE
  BY DEF Init, NoDump
<1>2. LogInv /\ Tip = 0 /\ DOMAIN log = {}
  BY <1>1 DEF LogInv, Tip
<1>3. DOMAIN pending = {}
  BY <1>1
<1>4. \A w \in Writes : /\ DOMAIN writes[w] = WriteFields /\ At(w) = "new" /\ writes[w].behind = FALSE
                        /\ writes[w].means = 0
  BY <1>1 DEF New, WriteFields, At
<1>5. posting.at = "none" /\ DOMAIN posting = PostFields
  BY <1>1 DEF NoPost, PostFields
<1>6. FollowerInv
  <2>1. DOMAIN session = SessionFields /\ session.cursor = 0 /\ session.from = 0
    BY <1>1 DEF NoSession, SessionFields
  <2>2. HasUpTo(0)
    BY <1>2 DEF HasUpTo
  <2>3. PaintedOver(0)
    BY <1>1 DEF PaintedOver, KeptOf, LoggedIn, After
  <2> QED BY <1>1, <1>2, <2>1, <2>2, <2>3 DEF FollowerInv, Applying, NoDump
<1>7. WritesInv
  BY <1>1, <1>3, <1>4 DEF WritesInv
<1>8. QueueInv /\ WaitsInv
  <2>1. outbox \in Seq(Writes) /\ Len(outbox) = 0
    BY <1>1
  <2> QED BY <1>4, <1>5, <2>1 DEF QueueInv, WaitsInv
<1>9. EntriesInv /\ LayersInv /\ ResyncInv /\ OrderInv /\ FreshInv /\ EditsLand
  BY <1>2, <1>3, <1>4 DEF EntriesInv, LayersInv, ResyncInv, OrderInv, FreshInv, EditsLand
<1>10. MeansInv
  BY <1>4, OverlayAssumption DEF MeansInv, Writes
<1>11. NumbersInv
  BY <1>3, <1>4, <1>5 DEF NumbersInv, Mixed, DraftNumbers, LayerNumbers, PostNumber, InFlight
<1>12. LiveIsFresh
  BY <1>1 DEF LiveIsFresh
<1> QED BY <1>2, <1>6, <1>7, <1>8, <1>9, <1>10, <1>11, <1>12 DEF OverlayInv, EntityInv

\* The invariant of the overlay: the follower is a prefix of the log with some
\* later entries painted, the posts are queued once each in the order of the
\* pushes, and a write behind the one that makes its entity has its number.
THEOREM OverlayInvariance == Spec => [](LogInv /\ OverlayInv /\ LiveIsFresh)
<1>1. Init => LogInv /\ OverlayInv /\ LiveIsFresh
  BY OverlayStart
<1>2. LogInv /\ OverlayInv /\ LiveIsFresh /\ [Next]_vars => (LogInv /\ OverlayInv /\ LiveIsFresh)'
  <2>1. SUFFICES ASSUME LogInv, OverlayInv, LiveIsFresh, [Next]_vars
                 PROVE  (LogInv /\ OverlayInv /\ LiveIsFresh)'
    OBVIOUS
  <2>2. LogInv' /\ LiveIsFresh'
    BY <2>1, LogStep, LiveNext
  <2>3. FollowerInv' /\ WritesInv' /\ QueueInv'
    BY <2>1, FollowerNext, WritesNext, QueueNext DEF OverlayInv
  <2>4. EntityInv'
    BY <2>1, <2>3, EntityNext
  <2> QED BY <2>2, <2>3, <2>4 DEF OverlayInv
<1> QED BY <1>1, <1>2, PTL DEF Spec

\* When nothing is under way the client shows the server's facts (overlay.ts
\* applyFrame, sync, paintFacts): for any number of writes, foreign writes, lost
\* sockets, retries and resyncs.
THEOREM SettlesOnServer == Spec => []SettledIsServer
<1>1. LogInv /\ OverlayInv /\ LiveIsFresh => SettledIsServer
  BY Rests DEF OverlayInv
<1> QED BY <1>1, OverlayInvariance, PTL

\* A live query that waits for news shows what a read would answer now
\* (overlay.ts notify, Db.ts standing).
THEOREM ParkedIsFresh == Spec => []LiveIsFresh
BY OverlayInvariance, PTL

\* An edit queued behind the write that makes its entity lands on that entity
\* (overlay.ts remapQueued), until a number the client minted is another's too.
THEOREM EditsFollowTheirEntity == Spec => []EditsLand
<1>1. LogInv /\ OverlayInv /\ LiveIsFresh => EditsLand
  BY DEF OverlayInv, EntityInv
<1> QED BY <1>1, OverlayInvariance, PTL

=============================================================================
