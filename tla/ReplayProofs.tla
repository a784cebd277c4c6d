---------------------------- MODULE ReplayProofs ----------------------------
(***************************************************************************)
(* What Transactor guarantees to a caller that is answered by a replay, to *)
(* a writer whose own row must come first, and to an operation that is     *)
(* sent again after a crash.                                               *)
(***************************************************************************)
EXTENDS TransactorProofs, FiniteSetTheorems

-----------------------------------------------------------------------------
(* Replays are the caller's own.                                           *)

Own(p) == p.k = ReplayKey(p.ack.of)
AllPairs == Pairs(recentAcks) \cup Pairs(recentOpAcks) \cup Pairs(metaAcks) \cup Pairs(batchAcks)

\* Every ack is kept under the key of the request it is of, and was given to
\* that request or to one with the same key.
OwnInv ==
  /\ \A p \in AllPairs : Own(p)
  /\ \A r \in Requests : outcome[r] = "acked" =>
       reply[r].of = r \/ ReplayKey(reply[r].of) = ReplayKey(r)

\* The acks that a request finds under its key.
LEMMA LookupOwn ==
  ASSUME TypeOK, \A p \in AllPairs : Own(p), NEW r \in Requests, NEW a,
         \/ Remembered(r) /\ a = RememberedAck(r)
         \/ ReplayKey(r) \in Keys(recentAcks) /\ a = Lookup(recentAcks, ReplayKey(r))
         \/ ReplayKey(r) \in Keys(batchAcks) /\ a = Lookup(batchAcks, ReplayKey(r))
  PROVE  ReplayKey(a.of) = ReplayKey(r)
<1>1. \E p \in AllPairs : p.k = ReplayKey(r) /\ p.ack = a
  <2>1. CASE Remembered(r) /\ a = RememberedAck(r)
    BY <2>1, RememberedAckPair DEF AllPairs
  <2>2. CASE ReplayKey(r) \in Keys(recentAcks) /\ a = Lookup(recentAcks, ReplayKey(r))
    BY <2>2, LookupPair DEF AllPairs, TypeOK
  <2>3. CASE ReplayKey(r) \in Keys(batchAcks) /\ a = Lookup(batchAcks, ReplayKey(r))
    BY <2>3, LookupPair DEF AllPairs, TypeOK
  <2> QED BY <2>1, <2>2, <2>3
<1> QED BY <1>1 DEF Own

\* Every step keeps the acks under the keys of their requests.
LEMMA OwnPairsStep ==
  ASSUME TypeInv, OwnInv, [Next]_vars
  PROVE  \A p \in AllPairs' : Own(p)
<1>0. /\ recentAcks \in AckMap /\ recentOpAcks \in AckMap /\ metaAcks \in AckMap
      /\ batchAcks \in AckMap /\ batch \in Seq(Requests) /\ basisT \in Nat
      /\ Taking => batch # <<>>
  BY DEF TypeInv, TypeOK, Phases, Taking
<1>1. CASE AllPairs' \subseteq AllPairs
  BY <1>1 DEF OwnInv
<1>2. CASE Boot \/ BootFails \/ Crash \/ Discard \/ TakeBatch
  <2>1. Pairs(<<>>) = {}
    BY DEF Pairs
  <2>2. AllPairs' \subseteq AllPairs
    BY <1>2, <2>1 DEF AllPairs, Boot, BootFrom, BootFails, Crash, Discard, Fresh, TakeBatch, durable,
       memory, loopVars
  <2> QED BY <1>1, <2>2
<1>3. CASE \E r \in Requests : RecordOpAck(r)
  <2>1. PICK r \in Requests : RecordOpAck(r)
    BY <1>3
  <2> DEFINE a == [t |-> basisT, of |-> r]
             one == <<[k |-> ReplayKey(r), ack |-> a]>>
  <2>2. a \in Ack /\ a.of = r
    BY <1>0 DEF Ack
  <2>3. one \in AckMap /\ \A p \in Pairs(one) : p.ack = a /\ p.k = ReplayKey(r)
    BY <2>2, OnePair
  <2>4. /\ recentAcks' = RememberAll(recentAcks, one, {r})
        /\ recentOpAcks' = RememberAll(recentOpAcks, one, {r})
        /\ metaAcks' = recentOpAcks' /\ batchAcks' = batchAcks
    BY <2>1 DEF RecordOpAck, loopVars
  <2> HIDE DEF a, one
  <2>5. AllPairs' \subseteq AllPairs \cup Pairs(one)
    BY <1>0, <2>3, <2>4, RememberAllPairs DEF AllPairs
  <2> QED BY <2>2, <2>3, <2>5 DEF OwnInv, Own
<1>4. CASE AckItem
  <2> DEFINE r == Head(batch)
             a == [t |-> basisT, of |-> r]
             p == [k |-> ReplayKey(r), ack |-> a]
  <2>1. r \in Requests
    BY <1>0, <1>4, HeadTail DEF AckItem, Taking
  <2>2. p \in Pair /\ p.k = ReplayKey(r) /\ p.ack = a /\ a.of = r
    BY <1>0, <2>1, ReplayKeyType DEF Pair, Ack
  <2>3. batchAcks' = batchAcks \/ batchAcks' = MapSet(batchAcks, p.k, p.ack)
    BY <1>4 DEF AckItem
  <2>4. UNCHANGED <<recentAcks, recentOpAcks, metaAcks>>
    BY <1>4 DEF AckItem, durable
  <2> HIDE DEF p, a, r
  <2>5. AllPairs' \subseteq AllPairs \cup {p}
    BY <1>0, <2>2, <2>3, <2>4, MapSetPairs DEF AllPairs
  <2> QED BY <2>2, <2>5 DEF OwnInv, Own
<1>5. CASE Write
  <2> DEFINE room == Len(recentOpAcks) + Len(batchAcks)
  <2>1. room \in Nat
    BY <1>0, AckMapIsSeq
  <2>2. /\ recentAcks' = recentAcks /\ batchAcks' = batchAcks
        /\ recentOpAcks' = SetAll(recentOpAcks, batchAcks, Operations, room)
        /\ metaAcks' = metaAcks \/ metaAcks' = Newest(recentOpAcks', Limit)
    BY <1>5 DEF Write, loopVars
  <2> HIDE DEF room
  <2>3. /\ recentOpAcks' \in AckMap
        /\ Pairs(recentOpAcks') \subseteq Pairs(recentOpAcks) \cup Pairs(batchAcks)
    BY <1>0, <2>1, <2>2, SetAllPairs
  <2>4. AllPairs' \subseteq AllPairs
    BY <2>2, <2>3, NewestPairs, BoundAssumption DEF AllPairs
  <2> QED BY <1>1, <2>4
<1>6. CASE Reply
  <2>1. /\ recentAcks' = RememberAll(recentAcks, batchAcks, Requests)
        /\ recentOpAcks' = RememberAll(recentOpAcks, batchAcks, Operations)
        /\ metaAcks' = metaAcks \/ metaAcks' = recentOpAcks'
        /\ batchAcks' = batchAcks
    BY <1>6 DEF Reply, loopVars
  <2>2. AllPairs' \subseteq AllPairs
    BY <1>0, <2>1, RememberAllPairs DEF AllPairs
  <2> QED BY <1>1, <2>2
<1>7. CASE ~(\/ Boot \/ BootFails \/ Crash \/ Discard \/ TakeBatch \/ AckItem \/ Write \/ Reply
             \/ \E r \in Requests : RecordOpAck(r))
  <2>1. UNCHANGED <<recentAcks, recentOpAcks, metaAcks, batchAcks>>
    BY <1>7 DEF Next, vars, Caller, OpLookup, Transact, TransactReplay,
       ProvisionLookup, ProvisionSubmit, Refuse, Enqueue, Loop, ReplayItem,
       ProvisionItem, AcceptItem, DenyItem, AckItemFails, WriteFails,
       LoopFails, LoopAgain, Die, durable, memory, loopVars
  <2> QED BY <1>1, <2>1 DEF AllPairs
<1> QED BY <1>2, <1>3, <1>4, <1>5, <1>6, <1>7

\* Every step answers a caller with an ack of its own key.
LEMMA OwnRepliesStep ==
  ASSUME TypeInv, OwnInv, [Next]_vars, NEW r \in Requests, outcome'[r] = "acked"
  PROVE  reply'[r].of = r \/ ReplayKey(reply'[r].of) = ReplayKey(r)
<1>0. /\ outcome \in [Requests -> Statuses] /\ reply \in [Requests -> Ack \cup {NoAck}]
      /\ acks \in Seq(Ack) /\ batch \in Seq(Requests)
      /\ Taking => batch # <<>>
  BY DEF TypeInv, TypeOK, Phases, Taking
<1>1. CASE outcome[r] = "acked" /\ reply'[r] = reply[r]
  BY <1>1 DEF OwnInv
<1>2. ASSUME NEW q \in Requests, NEW a, Settle(q, a),
             a.of = q \/ ReplayKey(a.of) = ReplayKey(q)
      PROVE  reply'[r].of = r \/ ReplayKey(reply'[r].of) = ReplayKey(r)
  <2>1. /\ outcome' = [outcome EXCEPT ![q] = "acked"]
        /\ reply' = [reply EXCEPT ![q] = a]
    BY <1>2 DEF Settle
  <2>2. CASE r = q
    BY <1>0, <1>2, <2>1, <2>2
  <2>3. CASE r # q
    BY <1>0, <1>1, <2>1, <2>3
  <2> QED BY <2>2, <2>3
<1>3. ASSUME NEW q \in Requests, Caller(q)
      PROVE  reply'[r].of = r \/ ReplayKey(reply'[r].of) = ReplayKey(r)
  <2>1. CASE (OpLookup(q) /\ Remembered(q)) \/ TransactReplay(q)
    <3>1. Remembered(q) /\ Settle(q, RememberedAck(q))
      BY <2>1 DEF OpLookup, TransactReplay
    <3>2. ReplayKey(RememberedAck(q).of) = ReplayKey(q)
      BY <3>1, LookupOwn DEF OwnInv, TypeInv
    <3> QED BY <1>2, <3>1, <3>2
  <2>2. CASE RecordOpAck(q)
    BY <1>2, <2>2 DEF RecordOpAck
  <2>3. CASE ProvisionLookup(q) /\ ~(Who[q] \in Provisionable /\ ~ProvisionedIn(conn, Who[q]))
    BY <1>2, <2>3 DEF ProvisionLookup
  <2>4. CASE OpLookup(q) /\ ~Remembered(q)
    BY <1>0, <1>1, <2>4 DEF OpLookup
  <2>5. CASE ProvisionLookup(q) /\ Who[q] \in Provisionable /\ ~ProvisionedIn(conn, Who[q])
    BY <1>0, <1>1, <2>5 DEF ProvisionLookup
  <2>6. CASE Transact(q) \/ ProvisionSubmit(q) \/ Refuse(q)
    BY <1>0, <1>1, <2>6 DEF Transact, ProvisionSubmit, Refuse, Enqueue
  <2> QED BY <1>3, <2>1, <2>2, <2>3, <2>4, <2>5, <2>6 DEF Caller
<1>4. CASE ReplayItem
  <2> DEFINE q == Head(batch)
             a == IF ReplayKey(q) \in Keys(recentAcks) THEN Lookup(recentAcks, ReplayKey(q))
                                                       ELSE Lookup(batchAcks, ReplayKey(q))
  <2>1. q \in Requests
    BY <1>0, <1>4, HeadTail DEF ReplayItem, Taking
  <2>2. Settle(q, a) /\ ReplayKey(q) \in Keys(recentAcks) \cup Keys(batchAcks)
    BY <1>4 DEF ReplayItem, Replayed
  <2> HIDE DEF q
  <2>3. ReplayKey(a.of) = ReplayKey(q)
    BY <2>1, <2>2, LookupOwn DEF OwnInv, TypeInv
  <2> QED BY <1>2, <2>1, <2>2, <2>3
<1>5. CASE Reply
  <2>1. CASE \E i \in DOMAIN acks : acks[i].of = r
    <3>1. reply'[r] = acks[CHOOSE i \in DOMAIN acks : acks[i].of = r]
      BY <1>5, <2>1 DEF Reply
    <3> QED BY <2>1, <3>1
  <2>2. CASE ~\E i \in DOMAIN acks : acks[i].of = r
    BY <1>1, <1>5, <2>2 DEF Reply
  <2> QED BY <2>1, <2>2
<1>6. CASE DenyItem \/ AckItemFails
  <2>1. Head(batch) \in Requests
    BY <1>0, <1>6, HeadTail DEF DenyItem, AckItemFails, Taking
  <2> QED BY <1>0, <1>1, <1>6, <2>1 DEF DenyItem, AckItemFails
<1>7. CASE Crash \/ Discard
  BY <1>1, <1>7 DEF Crash, Discard, Abandon
<1>8. CASE WriteFails \/ LoopFails
  BY <1>1, <1>8 DEF WriteFails, LoopFails, Die
<1>9. CASE Boot \/ BootFails \/ TakeBatch \/ ProvisionItem \/ AcceptItem \/ AckItem \/ Write
           \/ LoopAgain \/ UNCHANGED vars
  BY <1>1, <1>9 DEF Boot, BootFrom, BootFails, TakeBatch, ProvisionItem, AcceptItem, AckItem, Write,
     LoopAgain, vars, callers
<1> QED BY <1>3, <1>4, <1>5, <1>6, <1>7, <1>8, <1>9 DEF Next, Loop

\* A replay is answered with the ack of the same writer's same id.
THEOREM ReplaysAreOwn == Spec => []ReplayIsOwn
<1>1. Init => OwnInv
  BY DEF Init, OwnInv, AllPairs, Pairs
<1>2. IInv /\ OwnInv /\ [Next]_vars => OwnInv'
  BY OwnPairsStep, OwnRepliesStep DEF OwnInv, IInv
<1>3. OwnInv => ReplayIsOwn
  BY DEF OwnInv, ReplayIsOwn, ReplayKey
<1> QED BY <1>1, <1>2, <1>3, Invariance, PTL DEF Spec

-----------------------------------------------------------------------------
(* A principal's own row comes first.                                      *)

Provisioned(db) ==
  \A u \in DOMAIN db :
    db[u].op = "tx" /\ Who[db[u].req] \in Provisionable =>
      \E t \in DOMAIN db : /\ t < u /\ db[t].op = "provision"
                           /\ Who[db[t].req] = Who[db[u].req]

\* Before a request of the batch is authorized its writer has a row.
ProvisionInv ==
  /\ Provisioned(log)
  /\ inst = "up" => Provisioned(conn)
  /\ pc = "authorize" /\ Kind[Head(batch)] # "system" /\ Who[Head(batch)] \in Provisionable =>
       ProvisionedIn(conn, Who[Head(batch)])

\* conn.transact keeps every writer behind its row.
LEMMA AssignProvisions ==
  ASSUME TypeInv, LogInv, Resolving, Provisioned(conn), NEW r \in Requests,
         NEW op \in {"tx", "provision"}, Assign(r, op),
         op = "tx" /\ Who[r] \in Provisionable => ProvisionedIn(conn, Who[r])
  PROVE  Provisioned(conn') /\ (op = "provision" => ProvisionedIn(conn', Who[r]))
<1> DEFINE e == [op |-> op, req |-> r, by |-> crashes]
<1>1. conn' = Merge(conn, Row(basisT + 1, e))
  BY DEF Assign
<1>2. e.op = op /\ e.req = r
  OBVIOUS
<1>3. DOMAIN conn = 1..basisT /\ basisT \in Nat
  BY DEF LogInv, MemoryIsLogPlusBatch, Resolving, TypeInv, TypeOK, Phases
<1> HIDE DEF e
<1>4. /\ DOMAIN conn' = DOMAIN conn \cup {basisT + 1} /\ conn'[basisT + 1] = e
      /\ \A t \in DOMAIN conn : conn'[t] = conn[t] /\ t < basisT + 1
  BY <1>1, <1>3 DEF Merge, Row
<1>5. ASSUME NEW u \in DOMAIN conn', conn'[u].op = "tx", Who[conn'[u].req] \in Provisionable
      PROVE  \E t \in DOMAIN conn' : /\ t < u /\ conn'[t].op = "provision"
                                    /\ Who[conn'[t].req] = Who[conn'[u].req]
  <2>1. CASE u \in DOMAIN conn
    <3>1. conn[u].op = "tx" /\ Who[conn[u].req] \in Provisionable
      BY <1>4, <1>5, <2>1
    <3>2. PICK t \in DOMAIN conn : /\ t < u /\ conn[t].op = "provision"
                                  /\ Who[conn[t].req] = Who[conn[u].req]
      BY <2>1, <3>1 DEF Provisioned
    <3> QED BY <1>4, <2>1, <3>2
  <2>2. CASE u = basisT + 1
    <3>1. op = "tx" /\ Who[r] \in Provisionable
      BY <1>2, <1>4, <1>5, <2>2
    <3>2. PICK t \in DOMAIN conn : conn[t].op = "provision" /\ Who[conn[t].req] = Who[r]
      BY <3>1 DEF ProvisionedIn
    <3> QED BY <1>2, <1>4, <2>2, <3>2
  <2> QED BY <1>4, <1>5, <2>1, <2>2
<1>6. op = "provision" => ProvisionedIn(conn', Who[r])
  BY <1>2, <1>4 DEF ProvisionedIn
<1> QED BY <1>5, <1>6 DEF Provisioned

\* Every step keeps every writer behind its row.
LEMMA ProvisionStep ==
  ASSUME TypeInv, LogInv, ProvisionInv, [Next]_vars
  PROVE  ProvisionInv'
<1>0. /\ batch \in Seq(Requests)
      /\ Taking => batch # <<>> /\ inst = "up" /\ Resolving
      /\ pc # "idle" => inst = "up"
  BY DEF TypeInv, TypeOK, Phases, Taking, Resolving
<1>1. CASE /\ UNCHANGED <<log, conn, batch>> /\ (inst' = "up" => inst = "up")
           /\ (pc' = "authorize" => pc = "authorize")
  BY <1>1 DEF ProvisionInv
<1>2. CASE Boot
  <2>1. conn' = log
    BY <1>2, BootFacts DEF TypeInv, LogInv
  <2>2. log' = log /\ pc' = pc /\ inst = "down"
    BY <1>2 DEF Boot, BootFrom, durable
  <2>3. pc' # "authorize"
    BY <1>0, <2>2
  <2> QED BY <2>1, <2>2, <2>3 DEF ProvisionInv
<1>3. CASE BootFails
  BY <1>1, <1>3 DEF BootFails, memory, loopVars, durable
<1>4. CASE Crash \/ Discard
  <2>1. log' = log /\ inst' = "down" /\ pc' = "idle"
    BY <1>4 DEF Crash, Discard, Fresh, durable
  <2> QED BY <2>1 DEF ProvisionInv
<1>5. CASE \E r \in Requests : Caller(r)
  BY <1>1, <1>5 DEF Caller, OpLookup, Transact, TransactReplay, RecordOpAck, ProvisionLookup,
     ProvisionSubmit, Refuse, Enqueue, durable, memory, loopVars
<1>6. CASE ProvisionItem
  <2> DEFINE r == Head(batch)
  <2>1. r \in Requests /\ inst = "up" /\ Resolving
    BY <1>0, <1>6, HeadTail DEF ProvisionItem, Taking
  <2>2. log' = log /\ batch' = batch /\ inst' = inst /\ pc' = "authorize"
    BY <1>6 DEF ProvisionItem, durable
  <2> HIDE DEF r
  <2>3. CASE NeedsProvision(r)
    <3>1. Assign(r, "provision")
      BY <1>6, <2>3 DEF ProvisionItem, r
    <3>2. Provisioned(conn') /\ ProvisionedIn(conn', Who[r])
      BY <2>1, <3>1, AssignProvisions DEF ProvisionInv
    <3> QED BY <2>2, <3>2 DEF ProvisionInv, r
  <2>4. CASE ~NeedsProvision(r)
    <3>1. conn' = conn
      BY <1>6, <2>4 DEF ProvisionItem, r
    <3> QED BY <2>1, <2>2, <2>4, <3>1 DEF ProvisionInv, NeedsProvision, r
  <2> QED BY <2>3, <2>4
<1>7. CASE AcceptItem
  <2> DEFINE r == Head(batch)
  <2>1. r \in Requests /\ inst = "up" /\ Resolving /\ pc = "authorize"
    BY <1>0, <1>7, HeadTail DEF AcceptItem, Taking
  <2>2. Assign(r, OpOf(r)) /\ log' = log /\ pc' = "ack"
    BY <1>7 DEF AcceptItem, durable
  <2>3. OpOf(r) = "tx" => Kind[r] # "system"
    BY DEF OpOf
  <2>4. OpOf(r) \in {"tx", "provision"}
    BY DEF OpOf
  <2>5. OpOf(r) = "tx" /\ Who[r] \in Provisionable => ProvisionedIn(conn, Who[r])
    BY <2>1, <2>3 DEF ProvisionInv
  <2> HIDE DEF r
  <2>6. Provisioned(conn')
    BY <2>1, <2>2, <2>4, <2>5, AssignProvisions DEF ProvisionInv
  <2> QED BY <2>2, <2>6 DEF ProvisionInv
<1>8. CASE Write
  <2>1. inst = "up" /\ conn = Merge(log, entries)
    BY <1>0, <1>8 DEF Write, LogInv, MemoryIsLogPlusBatch
  <2>2. log' = conn /\ conn' = conn /\ pc' = "reply"
    BY <1>8, <2>1 DEF Write
  <2> QED BY <2>1, <2>2 DEF ProvisionInv
<1>9. CASE ReplayItem \/ DenyItem \/ AckItem \/ AckItemFails
  <2>1. /\ UNCHANGED <<log, conn, inst>> /\ pc' # "authorize"
    BY <1>9, EndOfTurn DEF ReplayItem, DenyItem, AckItem, AckItemFails, durable
  <2> QED BY <2>1 DEF ProvisionInv
<1>10. CASE TakeBatch \/ WriteFails \/ Reply \/ LoopFails \/ LoopAgain
  <2>1. /\ UNCHANGED <<log, conn>> /\ pc' # "authorize" /\ inst' \in {inst, "dead"}
    BY <1>10 DEF TakeBatch, WriteFails, Reply, LoopFails, LoopAgain, Die, durable, memory
  <2> QED BY <2>1 DEF ProvisionInv
<1>11. CASE UNCHANGED vars
  BY <1>1, <1>11 DEF vars, durable, memory, loopVars
<1> QED BY <1>2, <1>3, <1>4, <1>5, <1>6, <1>7, <1>8, <1>9, <1>10, <1>11 DEF Next, Loop

\* A principal's own row is committed before the first write that is
\* authorized as that principal (needsProvision, in the commit loop).
THEOREM RowsComeFirst == Spec => []ProvisionedFirst
<1>1. Init => ProvisionInv
  BY DEF Init, ProvisionInv, Provisioned, Row, BootEntry
<1>2. IInv /\ ProvisionInv /\ [Next]_vars => ProvisionInv'
  BY ProvisionStep DEF IInv
<1>3. ProvisionInv => ProvisionedFirst
  BY DEF ProvisionInv, Provisioned, ProvisionedFirst
<1> QED BY <1>1, <1>2, <1>3, Invariance, PTL DEF Spec
-----------------------------------------------------------------------------
(* An id writes once.                                                      *)

\* The replay keys that requests carry.
UsedKeys == {ReplayKey(r) : r \in {q \in Requests : ClientTxId[q] # NoId}}

\* No id is ever evicted: the maps have room for every key in use.
NoEviction == IsFiniteSet(UsedKeys) /\ Cardinality(UsedKeys) <= Limit

Proper(map) == /\ map \in AckMap /\ Keys(map) \subseteq UsedKeys
               /\ \A i, j \in DOMAIN map : map[i].k = map[j].k => i = j

\* Two writes of one replay key that the second should not have been.
SameWrite(e, f) ==
  /\ e.op = "tx" /\ f.op = "tx" /\ ClientTxId[e.req] # NoId
  /\ ReplayKey(e.req) = ReplayKey(f.req)
  /\ Kind[e.req] = "op" \/ e.by = f.by
Once(db) == \A t, u \in DOMAIN db :
              t < u /\ SameWrite(db[t], db[u]) => outcome[db[t].req] = "failed"

\* What this instance has to remember: its own writes, and every operation.
Recalled(e) == /\ e.op = "tx" /\ ClientTxId[e.req] # NoId
               /\ Kind[e.req] = "op" \/ e.by = crashes
               /\ outcome[e.req] # "failed"

InAcks(r) == \E p \in Pairs(batchAcks) : p.k = ReplayKey(r) /\ p.ack.of = r

Written(db) ==
  \A t \in DOMAIN db : db[t].op = "tx" => db[t].req \in Requests /\ db[t].by <= crashes

MapsInv == /\ Proper(recentAcks) /\ Proper(recentOpAcks) /\ Proper(metaAcks)
           /\ Proper(batchAcks)
           /\ inst = "up" => Keys(metaAcks) \subseteq Keys(recentOpAcks)

LoggedInv ==
  /\ Written(log) /\ Once(log)
  /\ inst = "down" => \A t \in DOMAIN log : log[t].op = "tx" => log[t].by < crashes
  /\ \A t \in DOMAIN log : Recalled(log[t]) /\ Kind[log[t].req] = "op" =>
       ReplayKey(log[t].req) \in Keys(metaAcks)
  /\ inst = "up" => \A t \in DOMAIN log : Recalled(log[t]) =>
       \/ ReplayKey(log[t].req) \in Keys(recentAcks)
       \/ pc = "reply" /\ ReplayKey(log[t].req) \in Keys(batchAcks)

HeadIsNew ==
  pc \in {"authorize", "ack"} /\ ClientTxId[Head(batch)] # NoId =>
    /\ ReplayKey(Head(batch)) \notin Keys(batchAcks)
    /\ pc = "authorize" => \A t \in DOMAIN conn :
         Recalled(conn[t]) => ReplayKey(conn[t].req) # ReplayKey(Head(batch))

MadeInv ==
  /\ inst = "up" => Written(conn) /\ Once(conn)
  /\ Resolving => \A t \in DOMAIN entries :
       /\ entries[t].op = "tx" => entries[t].by = crashes
       /\ Recalled(entries[t]) => InAcks(entries[t].req) \/ (pc = "ack" /\ t = basisT)
  /\ HeadIsNew

\* A map has no more keys than there are in use, so it has room for them.
LEMMA ProperRoom ==
  ASSUME NoEviction, NEW map, Proper(map)
  PROVE  Len(map) <= Limit
<1>1. map \in Seq(Pair)
  BY AckMapIsSeq DEF Proper
<1> DEFINE f == [i \in 1..Len(map) |-> map[i].k]
<1>2. f \in Injection(1..Len(map), UsedKeys)
  <2>1. \A i \in 1..Len(map) : map[i].k \in UsedKeys
    BY <1>1 DEF Proper, Keys
  <2>2. \A i, j \in 1..Len(map) : f[i] = f[j] => i = j
    BY <1>1 DEF Proper
  <2> QED BY <2>1, <2>2 DEF Injection, IsInjective
<1> HIDE DEF f
<1>3. Cardinality(1..Len(map)) <= Cardinality(UsedKeys)
  BY <1>2, FS_Injection DEF NoEviction
<1>4. Len(map) \in Nat /\ Cardinality(1..Len(map)) = Len(map)
  <2>1. Len(map) \in Nat
    BY <1>1
  <2>2. Cardinality(1..Len(map)) = IF 1 > Len(map) THEN 0 ELSE Len(map) - 1 + 1
    BY <2>1, FS_Interval
  <2> QED BY <2>1, <2>2
<1>5. Cardinality(UsedKeys) \in Nat /\ Cardinality(UsedKeys) <= Limit /\ Limit \in Nat
  BY FS_CardinalityType, BoundAssumption DEF NoEviction
<1> QED BY <1>3, <1>4, <1>5

\* Map.set adds the key it is given, once, and loses none.
LEMMA MapSetProper ==
  ASSUME NEW map, Proper(map), NEW e \in Pair, e.k \in UsedKeys
  PROVE  /\ Proper(MapSet(map, e.k, e.ack))
         /\ Keys(MapSet(map, e.k, e.ack)) = Keys(map) \cup {e.k}
         /\ Len(MapSet(map, e.k, e.ack)) <= Len(map) + 1
         /\ e.k \notin Keys(map) =>
              Pairs(MapSet(map, e.k, e.ack)) = Pairs(map) \cup {[k |-> e.k, ack |-> e.ack]}
<1> DEFINE m == MapSet(map, e.k, e.ack)
           p == [k |-> e.k, ack |-> e.ack]
<1>0. map \in Seq(Pair) /\ p = e /\ p.k = e.k /\ p \in Pair
  BY AckMapIsSeq DEF Proper, Pair
<1>1. m \in AckMap /\ m \in Seq(Pair)
  BY MapSetPairs, AckMapIsSeq DEF Proper
<1>2. CASE e.k \in Keys(map)
  <2>1. m = [i \in DOMAIN map |-> IF map[i].k = e.k THEN p ELSE map[i]]
    BY <1>2 DEF MapSet
  <2>2. DOMAIN m = DOMAIN map /\ \A i \in DOMAIN m : m[i].k = map[i].k
    BY <1>0, <2>1
  <2>3. Len(m) = Len(map) /\ Len(map) \in Nat
    BY <1>0, <1>1, <2>2
  <2>4. Keys(m) = Keys(map)
    BY <2>2 DEF Keys
  <2> HIDE DEF m
  <2>5. \A i, j \in DOMAIN m : m[i].k = m[j].k => i = j
    BY <2>2 DEF Proper
  <2>6. Proper(m) /\ Keys(m) = Keys(map) \cup {e.k} /\ Len(m) <= Len(map) + 1
    BY <1>1, <1>2, <2>3, <2>4, <2>5 DEF Proper
  <2> QED BY <1>2, <2>6 DEF m
<1>3. CASE e.k \notin Keys(map)
  <2>1. m = Append(map, p)
    BY <1>3 DEF MapSet
  <2> HIDE DEF m, p
  <2>2. /\ DOMAIN m = 1..(Len(map) + 1) /\ Len(m) = Len(map) + 1 /\ Len(map) \in Nat
        /\ DOMAIN map = 1..Len(map)
        /\ \A i \in DOMAIN map : m[i] = map[i]
        /\ m[Len(map) + 1] = p
    BY <1>0, <2>1
  <2>3. DOMAIN m = DOMAIN map \cup {Len(map) + 1} /\ Len(map) + 1 \notin DOMAIN map
    BY <2>2
  <2>4. Keys(m) = Keys(map) \cup {e.k}
    BY <1>0, <2>2, <2>3 DEF Keys
  <2>5. Pairs(m) = Pairs(map) \cup {p}
    BY <2>2, <2>3 DEF Pairs
  <2>6. \A i \in DOMAIN map : m[i].k # e.k
    BY <1>3, <2>2 DEF Keys
  <2>7. \A i, j \in DOMAIN m : m[i].k = m[j].k => i = j
    <3> SUFFICES ASSUME NEW i \in DOMAIN m, NEW j \in DOMAIN m, m[i].k = m[j].k
                 PROVE  i = j
      OBVIOUS
    <3>1. CASE i \in DOMAIN map /\ j \in DOMAIN map
      BY <2>2, <3>1 DEF Proper
    <3>2. CASE i \notin DOMAIN map \/ j \notin DOMAIN map
      BY <1>0, <2>2, <2>3, <2>6, <3>2
    <3> QED BY <3>1, <3>2
  <2>8. Proper(m)
    BY <1>1, <2>4, <2>7 DEF Proper
  <2> QED BY <2>2, <2>4, <2>5, <2>8 DEF m, p
<1> QED BY <1>2, <1>3

\* Cutting a map that has room for its keys cuts nothing.
LEMMA NewestAll ==
  ASSUME NEW map, NEW n, Len(map) \in Nat, n \in Nat, Len(map) <= n
  PROVE  Newest(map, n) = map
BY DEF Newest

\* rememberAck, and the write's loop over the acks, keep every key there was
\* and remember every ack they are given.
LEMMA SetAllProper ==
  ASSUME NoEviction, NEW map, Proper(map), NEW new, Proper(new), NEW who, NEW n \in Nat,
         n = Limit \/ n = Len(map) + Len(new)
  PROVE  /\ Proper(SetAll(map, new, who, n))
         /\ Keys(map) \subseteq Keys(SetAll(map, new, who, n))
         /\ \A p \in Pairs(new) : p.ack.of \in who => p.k \in Keys(SetAll(map, new, who, n))
<1> DEFINE h == CHOOSE h : IsFold(h, map, new, who, n, Len(new))
<1>1. /\ Len(new) \in Nat /\ DOMAIN new = 1..Len(new) /\ Len(map) \in Nat
      /\ \A i \in 1..Len(new) : new[i] \in Pair /\ new[i].k \in UsedKeys
  BY AckMapIsSeq DEF Proper, Keys
<1>2. IsFold(h, map, new, who, n, Len(new))
  BY <1>1, FoldExists
<1>3. SetAll(map, new, who, n) = h[Len(new)]
  BY DEF SetAll, IsFold, Step
<1> HIDE DEF h
<1> DEFINE Good(i) == /\ Proper(h[i]) /\ Keys(map) \subseteq Keys(h[i])
                      /\ Len(h[i]) <= Len(map) + i
                      /\ \A j \in 1..i : new[j].ack.of \in who => new[j].k \in Keys(h[i])
           Bad == {i \in 0..Len(new) : ~Good(i)}
<1>4. ASSUME Bad # {} PROVE FALSE
  <2>1. PICK l \in Bad : \A c \in Bad : l <= c
    <3>1. Bad \subseteq Nat
      BY <1>1
    <3> QED BY <1>4, <3>1, LeastNatural
  <2>2. h[0] = map
    BY <1>1, <1>2 DEF IsFold
  <2>3. Good(0)
    BY <1>1, <2>2
  <2>4. l # 0
    BY <2>1, <2>3
  <2>5. l - 1 \in 0..Len(new) /\ Good(l - 1) /\ l \in 1..Len(new) /\ l \in Nat
    BY <1>1, <2>1, <2>4
  <2>6. h[l] = Step(h[l - 1], new[l], who, n)
    BY <1>1, <1>2, <2>5 DEF IsFold
  <2>7. \A j \in 1..l : j = l \/ j \in 1..(l - 1)
    BY <2>5
  <2>8. Len(h[l - 1]) \in Nat
    BY <2>5, AckMapIsSeq DEF Proper
  <2>9. CASE new[l].ack.of \in who
    <3> DEFINE m == MapSet(h[l - 1], new[l].k, new[l].ack)
    <3>1. Proper(m) /\ Keys(m) = Keys(h[l - 1]) \cup {new[l].k} /\ Len(m) <= Len(h[l - 1]) + 1
      BY <1>1, <2>5, MapSetProper
    <3>2. h[l] = Newest(m, n)
      BY <2>6, <2>9 DEF Step
    <3> HIDE DEF m
    <3>3. Len(m) \in Nat /\ Len(m) <= Len(map) + l
      BY <1>1, <2>5, <2>8, <3>1, AckMapIsSeq DEF Proper
    <3>4. Len(m) <= n
      BY <1>1, <2>5, <3>1, <3>3, ProperRoom
    <3>5. h[l] = m
      BY <3>2, <3>3, <3>4, NewestAll
    <3>6. \A j \in 1..l : new[j].ack.of \in who => new[j].k \in Keys(h[l])
      BY <2>5, <2>7, <3>1, <3>5
    <3> QED BY <2>1, <2>5, <3>1, <3>3, <3>5, <3>6
  <2>10. CASE new[l].ack.of \notin who
    <3>1. h[l] = h[l - 1]
      BY <2>6, <2>10 DEF Step
    <3>2. \A j \in 1..l : new[j].ack.of \in who => new[j].k \in Keys(h[l])
      BY <2>5, <2>7, <2>10, <3>1
    <3>3. Len(h[l]) <= Len(map) + l
      BY <1>1, <2>5, <2>8, <3>1
    <3> QED BY <2>1, <2>5, <3>1, <3>2, <3>3
  <2> QED BY <2>9, <2>10
<1>5. Good(Len(new))
  BY <1>1, <1>4
<1>6. \A p \in Pairs(new) : p.ack.of \in who => p.k \in Keys(h[Len(new)])
  BY <1>1, <1>5 DEF Pairs
<1> QED BY <1>3, <1>5, <1>6

\* The empty map is proper.
LEMMA EmptyProper == Proper(<<>>)
BY DEF Proper, AckMap, Keys

\* A remembered /op-ack is a proper map of one key.
LEMMA OneProper ==
  ASSUME NEW r \in Requests, ClientTxId[r] # NoId, NEW a \in Ack
  PROVE  Proper(<<[k |-> ReplayKey(r), ack |-> a]>>)
<1> DEFINE p == [k |-> ReplayKey(r), ack |-> a]
           one == <<p>>
<1>1. one \in AckMap /\ Pairs(one) = {p}
  BY OnePair
<1>2. Keys(one) = {ReplayKey(r)} /\ DOMAIN one = {1}
  BY DEF Keys
<1>3. ReplayKey(r) \in UsedKeys
  BY DEF UsedKeys
<1> HIDE DEF one
<1>4. Proper(one)
  BY <1>1, <1>2, <1>3 DEF Proper
<1> QED BY <1>4 DEF one

\* No step makes the maps forget or repeat a key, except the end of an instance.
LEMMA MapsStep ==
  ASSUME NoEviction, TypeInv, MapsInv, [Next]_vars
  PROVE  /\ MapsInv' /\ Keys(metaAcks) \subseteq Keys(metaAcks')
         /\ inst = "up" /\ inst' = "up" => Keys(recentAcks) \subseteq Keys(recentAcks')
<1>0. /\ recentAcks \in AckMap /\ recentOpAcks \in AckMap /\ metaAcks \in AckMap
      /\ batchAcks \in AckMap /\ batch \in Seq(Requests) /\ basisT \in Nat
      /\ Taking => batch # <<>>
      /\ pc # "idle" => inst = "up"
      /\ Limit \in Nat
  BY BoundAssumption DEF TypeInv, TypeOK, Phases, Taking
<1>1. CASE /\ UNCHANGED <<recentAcks, recentOpAcks, metaAcks, batchAcks>>
           /\ inst' = "up" => inst = "up"
  BY <1>1 DEF MapsInv
<1>2. CASE Boot
  <2>1. /\ UNCHANGED <<metaAcks, batchAcks>> /\ recentAcks' = metaAcks
        /\ recentOpAcks' = metaAcks /\ inst = "down"
    BY <1>2 DEF Boot, BootFrom, durable, loopVars
  <2> QED BY <2>1 DEF MapsInv
<1>3. CASE Crash \/ Discard
  <2>1. /\ recentAcks' = <<>> /\ recentOpAcks' = <<>> /\ batchAcks' = <<>>
        /\ metaAcks' = metaAcks /\ inst' = "down"
    BY <1>3 DEF Crash, Discard, Fresh, durable
  <2> QED BY <2>1, EmptyProper DEF MapsInv
<1>4. CASE TakeBatch
  <2>1. /\ UNCHANGED <<recentAcks, recentOpAcks, metaAcks, inst>> /\ batchAcks' = <<>>
    BY <1>4 DEF TakeBatch, durable
  <2> QED BY <2>1, EmptyProper DEF MapsInv
<1>5. CASE \E r \in Requests : RecordOpAck(r)
  <2>1. PICK r \in Requests : RecordOpAck(r)
    BY <1>5
  <2> DEFINE a == [t |-> basisT, of |-> r]
             one == <<[k |-> ReplayKey(r), ack |-> a]>>
  <2>2. a \in Ack
    BY <1>0 DEF Ack
  <2>3. Proper(one)
    BY <2>1, <2>2, OneProper, RequestAssumption DEF RecordOpAck
  <2>4. /\ recentAcks' = RememberAll(recentAcks, one, {r})
        /\ recentOpAcks' = RememberAll(recentOpAcks, one, {r})
        /\ metaAcks' = recentOpAcks' /\ batchAcks' = batchAcks /\ inst' = inst /\ inst = "up"
    BY <2>1 DEF RecordOpAck, loopVars
  <2> HIDE DEF a, one
  <2>5. /\ Proper(recentAcks') /\ Keys(recentAcks) \subseteq Keys(recentAcks')
        /\ Proper(recentOpAcks') /\ Keys(recentOpAcks) \subseteq Keys(recentOpAcks')
    BY <1>0, <2>3, <2>4, SetAllProper DEF MapsInv, RememberAll
  <2> QED BY <2>4, <2>5 DEF MapsInv
<1>6. CASE AckItem
  <2> DEFINE r == Head(batch)
             e == [k |-> ReplayKey(r), ack |-> [t |-> basisT, of |-> r]]
  <2>1. r \in Requests
    BY <1>0, <1>6, HeadTail DEF AckItem, Taking
  <2>2. e \in Pair
    BY <1>0, <2>1, ReplayKeyType DEF Pair, Ack
  <2>3. /\ UNCHANGED <<recentAcks, recentOpAcks, metaAcks, inst>>
        /\ batchAcks' = IF ClientTxId[r] = NoId THEN batchAcks ELSE MapSet(batchAcks, e.k, e.ack)
    BY <1>6 DEF AckItem, durable
  <2>4. ClientTxId[r] # NoId => e.k \in UsedKeys
    BY <2>1 DEF UsedKeys
  <2> HIDE DEF r, e
  <2>5. Proper(batchAcks')
    BY <2>2, <2>3, <2>4, MapSetProper DEF MapsInv
  <2> QED BY <2>3, <2>5 DEF MapsInv
<1>7. CASE Write
  <2> DEFINE room == Len(recentOpAcks) + Len(batchAcks)
  <2>1. room \in Nat
    BY <1>0, AckMapIsSeq
  <2>2. /\ UNCHANGED <<recentAcks, batchAcks, inst>> /\ inst = "up"
        /\ recentOpAcks' = SetAll(recentOpAcks, batchAcks, Operations, room)
        /\ metaAcks' = metaAcks \/ metaAcks' = Newest(recentOpAcks', Limit)
    BY <1>0, <1>7 DEF Write, loopVars
  <2>3. Proper(recentOpAcks') /\ Keys(recentOpAcks) \subseteq Keys(recentOpAcks')
    BY <2>1, <2>2, SetAllProper DEF MapsInv
  <2> HIDE DEF room
  <2>4. Len(recentOpAcks') \in Nat /\ Len(recentOpAcks') <= Limit
    BY <2>3, ProperRoom, AckMapIsSeq DEF Proper
  <2>5. metaAcks' = metaAcks \/ metaAcks' = recentOpAcks'
    BY <1>0, <2>2, <2>4, NewestAll
  <2> QED BY <2>2, <2>3, <2>5 DEF MapsInv
<1>8. CASE Reply
  <2>1. /\ recentAcks' = RememberAll(recentAcks, batchAcks, Requests)
        /\ recentOpAcks' = RememberAll(recentOpAcks, batchAcks, Operations)
        /\ metaAcks' = metaAcks \/ metaAcks' = recentOpAcks'
        /\ batchAcks' = batchAcks /\ inst' = inst /\ inst = "up"
    BY <1>0, <1>8 DEF Reply, loopVars
  <2>2. /\ Proper(recentAcks') /\ Keys(recentAcks) \subseteq Keys(recentAcks')
        /\ Proper(recentOpAcks') /\ Keys(recentOpAcks) \subseteq Keys(recentOpAcks')
    BY <1>0, <2>1, SetAllProper DEF MapsInv, RememberAll
  <2> QED BY <2>1, <2>2 DEF MapsInv
<1>9. CASE ~(\/ Boot \/ Crash \/ Discard \/ TakeBatch \/ AckItem \/ Write \/ Reply
             \/ \E r \in Requests : RecordOpAck(r))
  <2>1. /\ UNCHANGED <<recentAcks, recentOpAcks, metaAcks, batchAcks>>
        /\ inst' = "up" => inst = "up"
    BY <1>9 DEF Next, vars, Caller, OpLookup, Transact, TransactReplay, BootFails,
       ProvisionLookup, ProvisionSubmit, Refuse, Enqueue, Loop, ReplayItem,
       ProvisionItem, AcceptItem, DenyItem, AckItemFails, WriteFails,
       LoopFails, LoopAgain, Die, durable, memory, loopVars
  <2> QED BY <1>1, <2>1
<1> QED BY <1>2, <1>3, <1>4, <1>5, <1>6, <1>7, <1>8, <1>9

\* Recalled, once a step has been taken.
RecalledNext(e) == /\ e.op = "tx" /\ ClientTxId[e.req] # NoId
                   /\ Kind[e.req] = "op" \/ e.by = crashes'
                   /\ outcome'[e.req] # "failed"

\* A request that was told of an error stays told of it, so nothing becomes
\* recalled while the instance lives.
LEMMA RecalledStays ==
  ASSUME TypeInv, FlightInv, [Next]_vars, NEW e, e.op = "tx" => e.req \in Requests,
         RecalledNext(e), crashes' = crashes \/ Kind[e.req] = "op"
  PROVE  Recalled(e)
<1>1. e.req \in Requests /\ outcome'[e.req] # "failed"
  BY DEF RecalledNext
<1>2. outcome[e.req] # "failed"
  BY <1>1, SettledStays
<1> QED BY <1>2 DEF Recalled, RecalledNext

\* No row of a database becomes a second one by an outcome.
LEMMA OnceStays ==
  ASSUME TypeInv, FlightInv, [Next]_vars, NEW db, Written(db), Once(db)
  PROVE  Once(db)'
<1> SUFFICES ASSUME NEW t \in DOMAIN db, NEW u \in DOMAIN db, t < u, SameWrite(db[t], db[u])
             PROVE  outcome'[db[t].req] = "failed"
  BY DEF Once, SameWrite
<1>1. outcome[db[t].req] = "failed" /\ db[t].req \in Requests
  BY DEF Once, SameWrite, Written
<1> QED BY <1>1, SettledStays

\* Every step keeps what is logged remembered: an operation by meta.op_acks,
\* a write of this instance by its own map.
LEMMA LoggedStep ==
  ASSUME NoEviction, TypeInv, LogInv, FlightInv, MapsInv, LoggedInv, MadeInv, [Next]_vars
  PROVE  LoggedInv'
<1>0. /\ pc # "idle" => inst = "up"
      /\ crashes \in Nat /\ recentOpAcks \in AckMap /\ batchAcks \in AckMap
      /\ Keys(metaAcks) \subseteq Keys(metaAcks')
      /\ inst = "up" /\ inst' = "up" => Keys(recentAcks) \subseteq Keys(recentAcks')
      /\ MapsInv'
  BY MapsStep DEF TypeInv, TypeOK, Phases
<1>1. Once(log)'  \/ log' # log
  BY OnceStays DEF LoggedInv, Once
<1>2. \A t \in DOMAIN log :
        /\ log[t].op = "tx" => log[t].req \in Requests /\ log[t].by <= crashes /\ log[t].by \in Nat
        /\ log' = log /\ Recalled(log[t])' /\ (crashes' = crashes \/ Kind[log[t].req] = "op")
           => Recalled(log[t])
  <2>1. \A t \in DOMAIN log :
          log[t].op = "tx" => log[t].req \in Requests /\ log[t].by <= crashes /\ log[t].by \in Nat
    BY DEF LoggedInv, Written, TypeInv, TypeOK, IsDb, Entry
  <2>2. \A t \in DOMAIN log : log' = log /\ Recalled(log[t])' => RecalledNext(log[t])
    BY DEF Recalled, RecalledNext
  <2>3. \A t \in DOMAIN log :
          RecalledNext(log[t]) /\ (crashes' = crashes \/ Kind[log[t].req] = "op") => Recalled(log[t])
    BY <2>1, RecalledStays
  <2> QED BY <2>1, <2>2, <2>3
<1>3. CASE /\ UNCHANGED <<log, crashes>> /\ (inst' = "up" => inst = "up")
           /\ (inst' = "down" => inst = "down")
           /\ (pc = "reply" /\ inst' = "up" => pc' = "reply" /\ batchAcks' = batchAcks)
  BY <1>0, <1>1, <1>2, <1>3 DEF LoggedInv, Written
<1>4. CASE Boot
  <2>1. /\ UNCHANGED <<log, crashes, metaAcks>> /\ recentAcks' = metaAcks /\ inst = "down"
        /\ inst' = "up"
    BY <1>4 DEF Boot, BootFrom, durable
  <2>2. \A t \in DOMAIN log : log[t].op = "tx" => log[t].by # crashes
    BY <1>0, <1>2, <2>1 DEF LoggedInv
  <2>3. \A t \in DOMAIN log' : Recalled(log[t])' => ReplayKey(log'[t].req) \in Keys(recentAcks')
    BY <1>2, <2>1, <2>2 DEF LoggedInv, Recalled
  <2>4. Once(log)' /\ Written(log)'
    BY <1>1, <2>1 DEF LoggedInv, Written
  <2> QED BY <1>2, <2>1, <2>3, <2>4 DEF LoggedInv
<1>5. CASE Crash \/ Discard
  <2>1. /\ log' = log /\ metaAcks' = metaAcks /\ inst' = "down" /\ crashes' = crashes + 1
    BY <1>5 DEF Crash, Discard, Fresh, durable
  <2>2. \A t \in DOMAIN log : log[t].op = "tx" => log[t].by < crashes'
    BY <1>0, <1>2, <2>1
  <2>3. Once(log)' /\ Written(log)'
    BY <1>0, <1>1, <1>2, <2>1 DEF LoggedInv, Written
  <2> QED BY <1>2, <2>1, <2>2, <2>3 DEF LoggedInv
<1>6. CASE Write
  <2>1. /\ inst = "up" /\ pc = "write" /\ Resolving /\ conn = Merge(log, entries)
    BY <1>0, <1>6 DEF Write, LogInv, MemoryIsLogPlusBatch, Resolving
  <2>2. /\ log' = conn /\ pc' = "reply"
        /\ UNCHANGED <<inst, outcome, crashes, batchAcks, recentAcks>>
    BY <1>6, <2>1 DEF Write, loopVars, callers
  <2>3. Written(log)' /\ Once(log)'
    BY <2>1, <2>2 DEF MadeInv, Written, Once
  <2>4. ASSUME NEW t \in DOMAIN log', Recalled(log[t])'
        PROVE  /\ Kind[log'[t].req] = "op" => ReplayKey(log'[t].req) \in Keys(metaAcks')
               /\ \/ ReplayKey(log'[t].req) \in Keys(recentAcks')
                  \/ ReplayKey(log'[t].req) \in Keys(batchAcks')
    <3>1. Recalled(conn[t]) /\ log'[t] = conn[t] /\ conn[t].req \in Requests
      BY <2>1, <2>2, <2>4 DEF Recalled, MadeInv, Written
    <3>2. CASE t \in DOMAIN entries
      <4>1. conn[t] = entries[t]
        BY <2>1, <3>2 DEF Merge
      <4>2. PICK p \in Pairs(batchAcks) : p.k = ReplayKey(conn[t].req) /\ p.ack.of = conn[t].req
        BY <2>1, <3>1, <3>2, <4>1 DEF MadeInv, InAcks
      <4>3. p.k \in Keys(batchAcks)
        BY DEF Keys, Pairs
      <4>4. Kind[conn[t].req] = "op" => ReplayKey(conn[t].req) \in Keys(metaAcks')
        <5> DEFINE room == Len(recentOpAcks) + Len(batchAcks)
                   opAcks == SetAll(recentOpAcks, batchAcks, Operations, room)
        <5> SUFFICES ASSUME Kind[conn[t].req] = "op" PROVE p.k \in Keys(metaAcks')
          BY <4>2
        <5>1. p.ack.of \in Operations
          BY <3>1, <4>2 DEF Operations
        <5>2. Persists
          BY <5>1 DEF Persists, Pairs
        <5>3. metaAcks' = Newest(opAcks, Limit)
          BY <1>6, <5>2 DEF Write
        <5>4. room \in Nat
          BY <1>0, AckMapIsSeq
        <5>5. Proper(opAcks) /\ p.k \in Keys(opAcks)
          BY <5>1, <5>4, SetAllProper DEF MapsInv
        <5> HIDE DEF opAcks
        <5>6. Len(opAcks) \in Nat /\ Len(opAcks) <= Limit /\ Limit \in Nat
          BY <5>5, ProperRoom, AckMapIsSeq, BoundAssumption DEF Proper
        <5>7. metaAcks' = opAcks
          BY <5>3, <5>6, NewestAll
        <5> QED BY <5>5, <5>7
      <4> QED BY <2>2, <3>1, <4>2, <4>3, <4>4
    <3>3. CASE t \notin DOMAIN entries
      <4>1. t \in DOMAIN log /\ conn[t] = log[t]
        BY <2>1, <2>2, <3>3 DEF Merge
      <4> QED BY <1>0, <2>1, <2>2, <3>1, <4>1 DEF LoggedInv
    <3> QED BY <3>2, <3>3
  <2> QED BY <2>1, <2>2, <2>3, <2>4 DEF LoggedInv
<1>7. CASE Reply
  <2>1. /\ UNCHANGED <<log, crashes, inst>> /\ inst = "up" /\ pc' # "reply"
        /\ recentAcks' = RememberAll(recentAcks, batchAcks, Requests)
    BY <1>0, <1>7 DEF Reply
  <2>2. Keys(batchAcks) \subseteq Keys(recentAcks')
    <3> SUFFICES ASSUME NEW k \in Keys(batchAcks) PROVE k \in Keys(recentAcks')
      OBVIOUS
    <3>1. PICK p \in Pairs(batchAcks) : p.k = k
      BY DEF Keys, Pairs
    <3>2. p.ack.of \in Requests
      <4>1. batchAcks \in Seq(Pair)
        BY <1>0, AckMapIsSeq
      <4>2. p \in Pair
        BY <4>1 DEF Pairs
      <4> QED BY <4>2 DEF Pair, Ack
    <3>3. Limit \in Nat
      BY BoundAssumption
    <3> QED BY <2>1, <3>1, <3>2, <3>3, SetAllProper DEF MapsInv, RememberAll
  <2> QED BY <1>0, <1>1, <1>2, <2>1, <2>2 DEF LoggedInv, Written
<1>8. CASE \/ BootFails \/ TakeBatch \/ ReplayItem \/ ProvisionItem \/ AcceptItem \/ DenyItem
           \/ AckItem \/ AckItemFails \/ WriteFails \/ LoopFails \/ LoopAgain
           \/ \E r \in Requests : Caller(r)
  BY <1>3, <1>8 DEF TakeBatch, ReplayItem, ProvisionItem, AcceptItem, DenyItem, AckItem,
     AckItemFails, WriteFails, LoopFails, LoopAgain, Die, BootFails, durable, memory, loopVars,
     Caller, OpLookup, Transact, TransactReplay, RecordOpAck, ProvisionLookup, ProvisionSubmit,
     Refuse, Enqueue
<1>9. CASE UNCHANGED vars
  BY <1>3, <1>9 DEF vars, durable, memory, loopVars
<1> QED BY <1>4, <1>5, <1>6, <1>7, <1>8, <1>9 DEF Next, Loop

\* conn.transact makes no second entry of a replay key that the instance has
\* remembered.
LEMMA AssignOnce ==
  ASSUME TypeInv, LogInv, Resolving, Written(conn), Once(conn), NEW r \in Requests,
         NEW op \in {"tx", "provision"}, Assign(r, op), UNCHANGED <<outcome, crashes>>,
         op = "tx" /\ ClientTxId[r] # NoId =>
           \A t \in DOMAIN conn : Recalled(conn[t]) => ReplayKey(conn[t].req) # ReplayKey(r)
  PROVE  /\ Written(conn') /\ Once(conn')
         /\ \A t \in DOMAIN conn' : conn'[t].op = "tx" => conn'[t].by <= crashes'
         /\ DOMAIN conn' = DOMAIN conn \cup {basisT + 1}
         /\ \A t \in DOMAIN conn : conn'[t] = conn[t]
         /\ conn'[basisT + 1] = [op |-> op, req |-> r, by |-> crashes]
<1> DEFINE e == [op |-> op, req |-> r, by |-> crashes]
<1>1. conn' = Merge(conn, Row(basisT + 1, e))
  BY DEF Assign
<1>2. e.op = op /\ e.req = r /\ e.by = crashes
  OBVIOUS
<1>3. DOMAIN conn = 1..basisT /\ basisT \in Nat /\ crashes \in Nat
  BY DEF LogInv, MemoryIsLogPlusBatch, Resolving, TypeInv, TypeOK, Phases
<1> HIDE DEF e
<1>4. /\ DOMAIN conn' = DOMAIN conn \cup {basisT + 1} /\ conn'[basisT + 1] = e
      /\ \A t \in DOMAIN conn : conn'[t] = conn[t] /\ t < basisT + 1
  BY <1>1, <1>3 DEF Merge, Row
<1>5. Written(conn')
  BY <1>2, <1>3, <1>4 DEF Written
<1>6. ASSUME NEW t \in DOMAIN conn', NEW u \in DOMAIN conn', t < u, SameWrite(conn'[t], conn'[u])
      PROVE  outcome[conn'[t].req] = "failed"
  <2>1. t \in DOMAIN conn /\ conn'[t] = conn[t]
    BY <1>3, <1>4, <1>6
  <2>2. CASE u \in DOMAIN conn
    BY <1>4, <1>6, <2>1, <2>2 DEF Once
  <2>3. CASE u = basisT + 1
    <3>1. SameWrite(conn[t], e)
      BY <1>4, <1>6, <2>1, <2>3
    <3>2. /\ op = "tx" /\ ClientTxId[conn[t].req] # NoId
          /\ ReplayKey(conn[t].req) = ReplayKey(r)
      BY <1>2, <3>1 DEF SameWrite
    <3>3. ClientTxId[r] # NoId
      BY <3>2 DEF ReplayKey
    <3>4. ~Recalled(conn[t])
      BY <2>1, <3>2, <3>3
    <3> QED BY <1>2, <3>1, <3>4, <2>1 DEF SameWrite, Recalled
  <2> QED BY <1>4, <2>2, <2>3
<1>7. Once(conn')
  BY <1>6 DEF Once
<1>8. \A t \in DOMAIN conn' : conn'[t].op = "tx" => conn'[t].by <= crashes'
  BY <1>5 DEF Written
<1> QED BY <1>4, <1>5, <1>7, <1>8 DEF e

\* The entries of the batch are what memory holds beyond the log.
LEMMA MadeRows ==
  ASSUME TypeInv, LogInv, Resolving
  PROVE  /\ inst = "up" /\ DOMAIN conn = 1..basisT /\ basisT \in Nat
         /\ DOMAIN conn = DOMAIN log \cup DOMAIN entries
         /\ \A t \in DOMAIN entries : conn[t] = entries[t] /\ t <= basisT
         /\ \A t \in DOMAIN log \ DOMAIN entries : conn[t] = log[t]
<1>1. inst = "up" /\ DOMAIN conn = 1..basisT /\ basisT \in Nat /\ conn = Merge(log, entries)
  BY DEF TypeInv, TypeOK, Phases, Resolving, LogInv, MemoryIsLogPlusBatch
<1>2. /\ DOMAIN conn = DOMAIN log \cup DOMAIN entries
      /\ \A t \in DOMAIN entries : conn[t] = entries[t]
      /\ \A t \in DOMAIN log \ DOMAIN entries : conn[t] = log[t]
  BY <1>1 DEF Merge
<1>3. \A t \in DOMAIN entries : t \in 1..basisT
  BY <1>1, <1>2
<1>4. \A t \in DOMAIN entries : t <= basisT
  BY <1>1, <1>3
<1> QED BY <1>1, <1>2, <1>4

\* conn.transact puts its entry in the batch, above every other.
LEMMA AssignMade ==
  ASSUME TypeInv, LogInv, Resolving, NEW r \in Requests, NEW op \in {"tx", "provision"},
         Assign(r, op)
  PROVE  /\ DOMAIN entries' = DOMAIN entries \cup {basisT + 1} /\ basisT' = basisT + 1
         /\ \A t \in DOMAIN entries : entries'[t] = entries[t]
         /\ entries'[basisT + 1] = [op |-> op, req |-> r, by |-> crashes]
<1> DEFINE e == [op |-> op, req |-> r, by |-> crashes]
<1>1. entries' = Merge(entries, Row(basisT + 1, e)) /\ basisT' = basisT + 1
  BY DEF Assign
<1>2. basisT + 1 \notin DOMAIN entries
  BY MadeRows
<1> HIDE DEF e
<1>3. /\ DOMAIN entries' = DOMAIN entries \cup {basisT + 1} /\ entries'[basisT + 1] = e
      /\ \A t \in DOMAIN entries : entries'[t] = entries[t]
  BY <1>1, <1>2 DEF Merge, Row
<1> QED BY <1>1, <1>3 DEF e

\* InAcks, once a step has been taken.
InAcksNext(r) == \E p \in Pairs(batchAcks') : p.k = ReplayKey(r) /\ p.ack.of = r

\* The entries of a batch that goes on stay acknowledged.
LEMMA MadeStays ==
  ASSUME TypeInv, LogInv, FlightInv, MadeInv, [Next]_vars,
         UNCHANGED <<conn, entries, basisT, crashes>>, inst' = "up" => inst = "up",
         Resolving' => Resolving /\ Pairs(batchAcks) \subseteq Pairs(batchAcks'),
         Resolving' /\ pc = "ack" /\ pc' # "ack" =>
           /\ HeadEntry
           /\ \/ InAcksNext(Head(batch))
              \/ outcome'[Head(batch)] = "failed"
              \/ ClientTxId[Head(batch)] = NoId,
         HeadIsNew'
  PROVE  MadeInv'
<1>1. inst' = "up" => (Written(conn) /\ Once(conn))'
  <2>1. inst' = "up" => Written(conn)'
    BY DEF MadeInv, Written
  <2>2. inst' = "up" => Once(conn)'
    BY OnceStays DEF MadeInv, Once
  <2> QED BY <2>1, <2>2
<1>2. ASSUME Resolving', NEW t \in DOMAIN entries
      PROVE  /\ entries[t].op = "tx" => entries[t].by = crashes
             /\ RecalledNext(entries[t]) =>
                  InAcksNext(entries[t].req) \/ (pc' = "ack" /\ t = basisT)
  <2>1. entries[t].op = "tx" => entries[t].by = crashes /\ entries[t].req \in Requests
    BY <1>2, MadeRows DEF MadeInv, Written
  <2>2. RecalledNext(entries[t]) => Recalled(entries[t])
    BY <2>1, RecalledStays
  <2>3. InAcks(entries[t].req) => InAcksNext(entries[t].req)
    BY <1>2 DEF InAcks, InAcksNext
  <2>4. ASSUME RecalledNext(entries[t])
        PROVE  InAcksNext(entries[t].req) \/ (pc' = "ack" /\ t = basisT)
    <3>1. InAcks(entries[t].req) \/ (pc = "ack" /\ t = basisT)
      BY <1>2, <2>2, <2>4 DEF MadeInv
    <3>2. CASE pc = "ack" /\ t = basisT /\ pc' # "ack"
      <4>1. HeadEntry /\ entries[t].req = Head(batch)
        BY <1>2, <3>2 DEF HeadEntry
      <4>2. outcome'[entries[t].req] # "failed" /\ ClientTxId[entries[t].req] # NoId
        BY <2>4 DEF RecalledNext
      <4> QED BY <1>2, <3>2, <4>1, <4>2
    <3> QED BY <2>3, <3>1, <3>2
  <2> QED BY <2>1, <2>4
<1>3. Resolving' => \A t \in DOMAIN entries' :
        /\ entries'[t].op = "tx" => entries'[t].by = crashes'
        /\ Recalled(entries[t])' => InAcks(entries[t].req)' \/ (pc' = "ack" /\ t = basisT')
  BY <1>2 DEF Recalled, RecalledNext, InAcks, InAcksNext
<1> QED BY <1>1, <1>3 DEF MadeInv

\* A request that is no replay has a key that nothing this instance must
\* remember has.
LEMMA HeadIsFresh ==
  ASSUME TypeInv, LogInv, LoggedInv, MadeInv, pc = "resolve", NEW r \in Requests, ~Replayed(r),
         ClientTxId[r] # NoId
  PROVE  /\ ReplayKey(r) \notin Keys(batchAcks)
         /\ \A t \in DOMAIN conn : Recalled(conn[t]) => ReplayKey(conn[t].req) # ReplayKey(r)
<1>1. ReplayKey(r) \notin Keys(recentAcks) \cup Keys(batchAcks)
  BY DEF Replayed
<1>2. ASSUME NEW t \in DOMAIN conn, Recalled(conn[t])
      PROVE  ReplayKey(conn[t].req) \in Keys(recentAcks) \cup Keys(batchAcks)
  <2>1. CASE t \in DOMAIN entries
    <3>1. conn[t] = entries[t]
      BY <2>1, MadeRows DEF Resolving
    <3>2. InAcks(conn[t].req)
      BY <1>2, <2>1, <3>1 DEF MadeInv, Resolving
    <3> QED BY <3>2 DEF InAcks, Pairs, Keys
  <2>2. CASE t \notin DOMAIN entries
    <3>1. t \in DOMAIN log /\ conn[t] = log[t] /\ inst = "up"
      BY <2>2, MadeRows DEF Resolving
    <3> QED BY <1>2, <3>1 DEF LoggedInv
  <2> QED BY <2>1, <2>2
<1> QED BY <1>1, <1>2

\* The entry of a request that is no replay keeps the batch acknowledged.
LEMMA MadeByAssign ==
  ASSUME TypeInv, LogInv, FlightInv, MadeInv, pc \in {"resolve", "authorize"},
         NEW r \in Requests, r = Head(batch),
         NEW op \in {"tx", "provision"}, Assign(r, op),
         UNCHANGED <<inst, batch, batchAcks, outcome, crashes>>,
         pc' = IF pc = "resolve" THEN "authorize" ELSE "ack",
         pc = "resolve" => op = "provision",
         ClientTxId[r] # NoId =>
           /\ ReplayKey(r) \notin Keys(batchAcks)
           /\ \A t \in DOMAIN conn : Recalled(conn[t]) => ReplayKey(conn[t].req) # ReplayKey(r)
  PROVE  MadeInv'
<1> DEFINE e == [op |-> op, req |-> r, by |-> crashes]
<1>0. Resolving /\ inst = "up" /\ Written(conn) /\ Once(conn)
  BY MadeRows DEF Resolving, MadeInv
<1>1. /\ Written(conn') /\ Once(conn')
      /\ DOMAIN conn' = DOMAIN conn \cup {basisT + 1}
      /\ \A t \in DOMAIN conn : conn'[t] = conn[t]
      /\ conn'[basisT + 1] = e
  BY <1>0, AssignOnce
<1>2. /\ DOMAIN entries' = DOMAIN entries \cup {basisT + 1} /\ basisT' = basisT + 1
      /\ \A t \in DOMAIN entries : entries'[t] = entries[t]
      /\ entries'[basisT + 1] = e
  BY <1>0, AssignMade
<1>3. e.op = op /\ e.req = r /\ e.by = crashes
  OBVIOUS
<1> HIDE DEF e
<1>4. (Written(conn) /\ Once(conn))'
  BY <1>1 DEF Written, Once
<1>5. ASSUME NEW t \in DOMAIN entries'
      PROVE  /\ entries'[t].op = "tx" => entries'[t].by = crashes'
             /\ Recalled(entries'[t]) => InAcks(entries'[t].req) \/ (pc' = "ack" /\ t = basisT')
  <2>1. CASE t \in DOMAIN entries
    BY <1>0, <1>2, <2>1 DEF MadeInv
  <2>2. CASE t = basisT + 1
    BY <1>2, <1>3, <2>2 DEF Recalled
  <2> QED BY <1>2, <2>1, <2>2
<1>6. \A t \in DOMAIN entries' :
        /\ entries'[t].op = "tx" => entries'[t].by = crashes'
        /\ Recalled(entries[t])' => InAcks(entries[t].req)' \/ (pc' = "ack" /\ t = basisT')
  BY <1>5 DEF Recalled, InAcks
<1>7. HeadIsNew'
  <2>1. ASSUME pc' = "authorize", ClientTxId[r] # NoId, NEW t \in DOMAIN conn', Recalled(conn'[t])
        PROVE  ReplayKey(conn'[t].req) # ReplayKey(r)
    BY <1>1, <1>3, <2>1 DEF Recalled
  <2> QED BY <2>1 DEF HeadIsNew, Recalled
<1> QED BY <1>4, <1>6, <1>7 DEF MadeInv

\* Every step keeps the batch acknowledged and its next request new.
LEMMA MadeStep ==
  ASSUME NoEviction, TypeInv, LogInv, FlightInv, AckInv, MapsInv, LoggedInv, MadeInv, [Next]_vars
  PROVE  MadeInv'
<1>0. /\ pc # "idle" => inst = "up"
      /\ crashes \in Nat /\ batch \in Seq(Requests) /\ basisT \in Nat
      /\ Taking => batch # <<>> /\ Head(batch) \in Requests
      /\ inst = "up" => Written(conn) /\ Once(conn)
  BY HeadTail DEF TypeInv, TypeOK, Phases, Taking, MadeInv
<1>1. CASE Boot
  <2>1. conn' = log
    BY <1>1, BootFacts DEF TypeInv, LogInv
  <2>2. log' = log /\ crashes' = crashes /\ outcome' = outcome /\ pc' = "idle"
    BY <1>0, <1>1 DEF Boot, BootFrom, durable, callers
  <2>3. Written(conn)' /\ Once(conn)'
    BY <2>1, <2>2 DEF LoggedInv, Written, Once
  <2> QED BY <2>2, <2>3 DEF MadeInv, HeadIsNew, Resolving
<1>2. CASE BootFails \/ Crash \/ Discard \/ WriteFails \/ LoopFails
  <2>1. inst' # "up" /\ pc' = "idle"
    BY <1>0, <1>2 DEF BootFails, Crash, Discard, Fresh, WriteFails, LoopFails, Die
  <2> QED BY <2>1 DEF MadeInv, HeadIsNew, Resolving
<1>3. CASE TakeBatch \/ Write \/ Reply \/ LoopAgain
  <2>1. UNCHANGED <<conn, inst, crashes>> /\ inst = "up" /\ ~(pc' \in {"authorize", "ack", "write"})
    BY <1>0, <1>3 DEF TakeBatch, Write, Reply, LoopAgain, memory
  <2>2. Written(conn)' /\ Once(conn)'
    BY <1>0, <2>1, OnceStays DEF Written, Once
  <2>3. Resolving' => entries' = EmptyDb
    BY <1>3 DEF TakeBatch, Write, Reply, LoopAgain, Resolving
  <2>4. DOMAIN EmptyDb = {}
    BY EmptyDbFacts
  <2> QED BY <2>1, <2>2, <2>3, <2>4 DEF MadeInv, HeadIsNew
<1>4. CASE \E r \in Requests : Caller(r)
  <2>1. /\ UNCHANGED <<inst, conn, basisT, entries, batch, batchAcks, crashes>>
        /\ pc' = pc \/ pc' = "open"
    BY <1>4 DEF Caller, OpLookup, Transact, TransactReplay, RecordOpAck, ProvisionLookup,
       ProvisionSubmit, Refuse, Enqueue, memory, loopVars
  <2>2. \A t \in DOMAIN conn : inst = "up" /\ Recalled(conn[t])' => Recalled(conn[t])
    <3>1. \A t \in DOMAIN conn : Recalled(conn[t])' => RecalledNext(conn[t])
      BY <2>1 DEF Recalled, RecalledNext
    <3> QED BY <1>0, <2>1, <3>1, RecalledStays DEF Written
  <2>3. HeadIsNew'
    BY <1>0, <2>1, <2>2 DEF HeadIsNew, MadeInv
  <2> QED BY <2>1, <2>3, MadeStays DEF Resolving
<1>5. CASE ReplayItem \/ DenyItem
  <2>1. /\ UNCHANGED <<inst, conn, basisT, entries, batchAcks, crashes>> /\ AfterItem(entries)
        /\ pc \in {"resolve", "authorize"}
    BY <1>5 DEF ReplayItem, DenyItem
  <2>2. pc' \notin {"authorize", "ack"}
    BY <2>1, EndOfTurn
  <2> QED BY <2>1, <2>2, MadeStays DEF Resolving, HeadIsNew
<1>6. CASE AckItemFails
  <2>1. /\ UNCHANGED <<inst, conn, basisT, entries, batchAcks, crashes>> /\ AfterItem(entries)
        /\ pc = "ack" /\ outcome' = [outcome EXCEPT ![Head(batch)] = "failed"]
    BY <1>6 DEF AckItemFails
  <2>2. pc' \notin {"authorize", "ack"}
    BY <2>1, EndOfTurn
  <2>3. outcome'[Head(batch)] = "failed"
    BY <1>0, <2>1 DEF Taking, TypeInv, TypeOK
  <2> QED BY <2>1, <2>2, <2>3, MadeStays DEF Resolving, HeadIsNew, AckInv
<1>7. CASE AckItem
  <2> DEFINE r == Head(batch)
             e == [k |-> ReplayKey(r), ack |-> [t |-> basisT, of |-> r]]
  <2>1. /\ UNCHANGED <<inst, conn, basisT, entries, outcome, crashes>> /\ AfterItem(entries)
        /\ pc = "ack" /\ r \in Requests
        /\ batchAcks' = IF ClientTxId[r] = NoId THEN batchAcks ELSE MapSet(batchAcks, e.k, e.ack)
    BY <1>0, <1>7 DEF AckItem, Taking, callers
  <2>2. pc' \notin {"authorize", "ack"}
    BY <2>1, EndOfTurn
  <2>3. e \in Pair /\ e.k = ReplayKey(r) /\ e.ack.of = r
    BY <1>0, <2>1, ReplayKeyType DEF Pair, Ack
  <2>4. ClientTxId[r] # NoId => e.k \in UsedKeys /\ e.k \notin Keys(batchAcks)
    BY <2>1 DEF UsedKeys, MadeInv, HeadIsNew
  <2>5. e = [k |-> e.k, ack |-> e.ack]
    OBVIOUS
  <2> HIDE DEF e
  <2>6. ClientTxId[r] # NoId => Pairs(batchAcks') = Pairs(batchAcks) \cup {e}
    BY <2>1, <2>3, <2>4, <2>5, MapSetProper DEF MapsInv
  <2>7. Pairs(batchAcks) \subseteq Pairs(batchAcks')
    BY <2>1, <2>6
  <2>8. InAcksNext(r) \/ ClientTxId[r] = NoId
    BY <2>3, <2>6 DEF InAcksNext
  <2> QED BY <2>1, <2>2, <2>7, <2>8, MadeStays DEF Resolving, HeadIsNew, AckInv
<1>8. CASE UNCHANGED vars
  <2>1. UNCHANGED <<inst, conn, basisT, entries, batch, batchAcks, outcome, crashes, pc>>
    BY <1>8 DEF vars, memory, loopVars, callers
  <2>2. HeadIsNew'
    BY <2>1 DEF MadeInv, HeadIsNew, Recalled
  <2> QED BY <2>1, <2>2, MadeStays DEF Resolving
<1>9. CASE ProvisionItem
  <2> DEFINE r == Head(batch)
  <2>1. /\ UNCHANGED <<inst, batch, batchAcks, outcome, crashes>> /\ pc = "resolve"
        /\ inst = "up" /\ Resolving /\ r \in Requests /\ ~Replayed(r) /\ pc' = "authorize"
    BY <1>0, <1>9 DEF ProvisionItem, callers, Resolving, Taking
  <2>2. CASE NeedsProvision(r)
    <3>1. Assign(r, "provision")
      BY <1>9, <2>2 DEF ProvisionItem
    <3> QED BY <2>1, <3>1, MadeByAssign, HeadIsFresh
  <2>3. CASE ~NeedsProvision(r)
    <3>1. UNCHANGED <<conn, entries, basisT>>
      BY <1>9, <2>3 DEF ProvisionItem
    <3>2. HeadIsNew'
      BY <2>1, <3>1, HeadIsFresh DEF HeadIsNew, Recalled
    <3> QED BY <2>1, <3>1, <3>2, MadeStays DEF Resolving
  <2> QED BY <2>2, <2>3
<1>10. CASE AcceptItem
  <2> DEFINE r == Head(batch)
  <2>1. /\ UNCHANGED <<inst, batch, batchAcks, outcome, crashes>> /\ pc = "authorize"
        /\ inst = "up" /\ Resolving /\ r \in Requests /\ pc' = "ack" /\ Assign(r, OpOf(r))
    BY <1>0, <1>10 DEF AcceptItem, callers, Resolving, Taking
  <2>2. OpOf(r) \in {"tx", "provision"}
    BY DEF OpOf
  <2>3. ClientTxId[r] # NoId =>
          /\ ReplayKey(r) \notin Keys(batchAcks)
          /\ \A t \in DOMAIN conn : Recalled(conn[t]) => ReplayKey(conn[t].req) # ReplayKey(r)
    BY <2>1 DEF MadeInv, HeadIsNew
  <2> QED BY <2>1, <2>2, <2>3, MadeByAssign
<1> QED BY <1>1, <1>2, <1>3, <1>4, <1>5, <1>6, <1>7, <1>8, <1>9, <1>10 DEF Next, Loop

OnceInv == MapsInv /\ LoggedInv /\ MadeInv

\* A fresh database has made nothing twice.
LEMMA OnceInit == Init => OnceInv
<1> SUFFICES ASSUME Init PROVE OnceInv
  OBVIOUS
<1>1. DOMAIN log = {1} /\ log[1].op = "boot" /\ log[1] = BootEntry
  BY DEF Init, Row, BootEntry
<1>2. MapsInv
  BY EmptyProper DEF Init, MapsInv
<1>3. LoggedInv
  BY <1>1 DEF LoggedInv, Init, Written, Once, Recalled, SameWrite
<1>4. MadeInv
  BY DEF MadeInv, Init, HeadIsNew, Resolving
<1> QED BY <1>2, <1>3, <1>4 DEF OnceInv

\* While no id is evicted, an operation is applied once, whatever dies.
THEOREM OpsApplyOnce ==
  ASSUME NoEviction
  PROVE  Spec => []OpAppliedOnce
<1>1. Init => OnceInv
  BY OnceInit
<1>2. IInv /\ OnceInv /\ [Next]_vars => OnceInv'
  BY MapsStep, LoggedStep, MadeStep DEF IInv, OnceInv
<1>3. OnceInv => OpAppliedOnce
  BY DEF OnceInv, LoggedInv, Once, SameWrite, OpAppliedOnce
<1> QED BY <1>1, <1>2, <1>3, Invariance, PTL DEF Spec

\* While no id is evicted, one instance applies a write once.
THEOREM InstanceAppliesOnce ==
  ASSUME NoEviction
  PROVE  Spec => []AppliedOncePerInstance
<1>1. Init => OnceInv
  BY OnceInit
<1>2. IInv /\ OnceInv /\ [Next]_vars => OnceInv'
  BY MapsStep, LoggedStep, MadeStep DEF IInv, OnceInv
<1>3. OnceInv => AppliedOncePerInstance
  BY DEF OnceInv, LoggedInv, Once, SameWrite, AppliedOncePerInstance
<1> QED BY <1>1, <1>2, <1>3, Invariance, PTL DEF Spec
=============================================================================
