-------------------------- MODULE TransactorProofs --------------------------
(***************************************************************************)
(* What Transactor guarantees for every set of requests, every batch size, *)
(* every replay limit and any number of crashes and storage faults.        *)
(*                                                                         *)
(* The ack maps are built by a fold over the acks of a batch.  Its facts   *)
(* are proved from the least-number principle: a smallest position at      *)
(* which they fail would have a predecessor at which they hold.            *)
(***************************************************************************)
EXTENDS Transactor, FiniteSetTheorems, WellFoundedInduction, TLAPS

-----------------------------------------------------------------------------
(* The least-number principle, from the finite initial segments of Nat.    *)

\* A non-empty set of naturals has a least element.
LEMMA LeastNatural ==
  ASSUME NEW B, B \subseteq Nat, B # {}
  PROVE  \E b \in B : \A c \in B : b <= c
<1> DEFINE T == {0..b : b \in B}
<1>1. T \subseteq FiniteSubsetsOf(Nat)
  <2>1. \A b \in B : 0..b \subseteq Nat /\ IsFiniteSet(0..b)
    BY FS_Interval
  <2> QED BY <2>1 DEF FiniteSubsetsOf
<1>2. T # {}
  OBVIOUS
<1>3. \E x \in T : \A y \in T : <<y, x>> \notin StrictSubsetOrdering(Nat)
  BY <1>1, <1>2, WFMin, FS_StrictSubsetOrderingWellFounded, Zenon
<1>4. PICK b \in B : \A c \in B : <<0..c, 0..b>> \notin StrictSubsetOrdering(Nat)
  BY <1>3
<1>5. \A c \in B : c < b => /\ 0..c \in SUBSET Nat /\ 0..b \in SUBSET Nat
                            /\ 0..c \subseteq 0..b /\ 0..c # 0..b
  <2> SUFFICES ASSUME NEW c \in B, c < b
               PROVE  0..c \subseteq 0..b /\ 0..c # 0..b
    OBVIOUS
  <2>1. b \in 0..b /\ b \notin 0..c
    OBVIOUS
  <2> QED BY <2>1
<1>6. \A c \in B : ~(c < b)
  BY <1>4, <1>5 DEF StrictSubsetOrdering
<1> QED BY <1>6

-----------------------------------------------------------------------------
(* The ack maps.                                                           *)

Pair == [k : Principals \X (Ids \cup {NoId}), ack : Ack]
Pairs(map) == {map[i] : i \in DOMAIN map}

Step(m, e, who, n) ==
  IF e.ack.of \in who THEN Newest(MapSet(m, e.k, e.ack), n) ELSE m

IsFold(h, map, new, who, n, len) ==
  h = [i \in 0..len |-> IF i = 0 THEN map ELSE Step(h[i - 1], new[i], who, n)]

\* The fold that SetAll takes the last value of exists.
LEMMA FoldExists ==
  ASSUME NEW map, NEW new, NEW who, NEW n, NEW len \in Nat
  PROVE  \E h : IsFold(h, map, new, who, n, len)
<1> DEFINE Bad == {l \in Nat : ~\E h : IsFold(h, map, new, who, n, l)}
<1> SUFFICES ASSUME Bad # {} PROVE FALSE
  OBVIOUS
<1>1. PICK l \in Bad : \A c \in Bad : l <= c
  BY LeastNatural
<1>2. l # 0
  <2>1. IsFold([i \in 0..0 |-> map], map, new, who, n, 0)
    BY DEF IsFold
  <2> QED BY <2>1
<1>3. l - 1 \in Nat /\ l - 1 \notin Bad
  BY <1>1, <1>2
<1>4. PICK g : IsFold(g, map, new, who, n, l - 1)
  BY <1>3
<1> DEFINE h == [i \in 0..l |-> IF i = l THEN Step(g[l - 1], new[l], who, n) ELSE g[i]]
<1>5. \A i \in 0..l : h[i] = IF i = 0 THEN map ELSE Step(h[i - 1], new[i], who, n)
  <2> SUFFICES ASSUME NEW i \in 0..l
               PROVE  h[i] = IF i = 0 THEN map ELSE Step(h[i - 1], new[i], who, n)
    OBVIOUS
  <2>1. CASE i = l
    BY <2>1, <1>2, <1>3
  <2>2. CASE i # l
    <3>1. i \in 0..(l - 1) /\ h[i] = g[i] /\ (i # 0 => i - 1 \in 0..l /\ h[i - 1] = g[i - 1])
      BY <2>2, <1>3
    <3>2. g[i] = IF i = 0 THEN map ELSE Step(g[i - 1], new[i], who, n)
      BY <3>1, <1>4 DEF IsFold
    <3> QED BY <3>1, <3>2
  <2> QED BY <2>1, <2>2
<1>6. IsFold(h, map, new, who, n, l)
  <2> HIDE DEF h
  <2>1. h = [i \in 0..l |-> h[i]]
    BY DEF h
  <2> QED BY <2>1, <1>5 DEF IsFold
<1> QED BY <1>1, <1>6

\* An ack map is a sequence of pairs.
LEMMA AckMapIsSeq ==
  ASSUME NEW map
  PROVE  map \in AckMap <=> map \in Seq(Pair)
BY DEF AckMap, Pair

\* Map.set adds the pair it is given, and nothing else.
LEMMA MapSetPairs ==
  ASSUME NEW map \in AckMap, NEW e \in Pair
  PROVE  /\ MapSet(map, e.k, e.ack) \in AckMap
         /\ Pairs(MapSet(map, e.k, e.ack)) \subseteq Pairs(map) \cup {e}
<1>0. e = [k |-> e.k, ack |-> e.ack] /\ map \in Seq(Pair)
  BY AckMapIsSeq DEF Pair
<1>1. CASE e.k \in Keys(map)
  <2>1. MapSet(map, e.k, e.ack) = [i \in DOMAIN map |-> IF map[i].k = e.k THEN e ELSE map[i]]
    BY <1>1, <1>0 DEF MapSet
  <2>2. [i \in DOMAIN map |-> IF map[i].k = e.k THEN e ELSE map[i]] \in Seq(Pair)
    BY <1>0
  <2> QED BY <2>1, <2>2, AckMapIsSeq DEF Pairs
<1>2. CASE e.k \notin Keys(map)
  <2>1. MapSet(map, e.k, e.ack) = Append(map, e)
    BY <1>2, <1>0 DEF MapSet
  <2>2. Append(map, e) \in Seq(Pair)
    BY <1>0
  <2>3. Pairs(Append(map, e)) \subseteq Pairs(map) \cup {e}
    BY <1>0 DEF Pairs
  <2> QED BY <2>1, <2>2, <2>3, AckMapIsSeq
<1> QED BY <1>1, <1>2

\* Eviction adds nothing.
LEMMA NewestPairs ==
  ASSUME NEW map \in AckMap, NEW n \in Nat
  PROVE  Newest(map, n) \in AckMap /\ Pairs(Newest(map, n)) \subseteq Pairs(map)
<1>1. map \in Seq(Pair)
  BY AckMapIsSeq
<1>2. CASE Len(map) > n
  <2>1. Newest(map, n) = SubSeq(map, Len(map) - n + 1, Len(map))
    BY <1>2 DEF Newest
  <2>2. SubSeq(map, Len(map) - n + 1, Len(map)) \in Seq(Pair)
    BY <1>1, <1>2
  <2>3. \A i \in 1..n : Len(map) - n + i \in DOMAIN map
    BY <1>1, <1>2
  <2>4. DOMAIN Newest(map, n) = 1..n
    BY <2>1, <1>1, <1>2
  <2>5. \A i \in 1..n : Newest(map, n)[i] = map[Len(map) - n + i]
    BY <2>1, <1>1, <1>2
  <2> QED BY <2>1, <2>2, <2>3, <2>4, <2>5, AckMapIsSeq DEF Pairs
<1>3. CASE ~(Len(map) > n)
  BY <1>3 DEF Newest
<1> QED BY <1>2, <1>3

\* What a map holds after the acks of a batch were set in it was there before
\* or is of the batch.
LEMMA SetAllPairs ==
  ASSUME NEW map \in AckMap, NEW new \in AckMap, NEW who, NEW n \in Nat
  PROVE  /\ SetAll(map, new, who, n) \in AckMap
         /\ Pairs(SetAll(map, new, who, n)) \subseteq Pairs(map) \cup Pairs(new)
<1> DEFINE h == CHOOSE h : IsFold(h, map, new, who, n, Len(new))
<1>1. /\ Len(new) \in Nat /\ DOMAIN new = 1..Len(new)
      /\ \A i \in 1..Len(new) : new[i] \in Pair
  BY AckMapIsSeq
<1>2. IsFold(h, map, new, who, n, Len(new))
  BY <1>1, FoldExists
<1>3. SetAll(map, new, who, n) = h[Len(new)]
  BY DEF SetAll, IsFold, Step
<1> HIDE DEF h
<1> DEFINE Good(i) == h[i] \in AckMap /\ Pairs(h[i]) \subseteq Pairs(map) \cup Pairs(new)
           Bad == {i \in 0..Len(new) : ~Good(i)}
<1> SUFFICES ASSUME Bad # {} PROVE FALSE
  BY <1>1, <1>3
<1>4. PICK l \in Bad : \A c \in Bad : l <= c
  <2>1. Bad \subseteq Nat
    BY <1>1
  <2> QED BY <2>1, LeastNatural
<1>5. h[0] = map
  BY <1>1, <1>2 DEF IsFold
<1>6. l # 0
  BY <1>4, <1>5
<1>7. l - 1 \in 0..Len(new) /\ Good(l - 1) /\ l \in 1..Len(new)
  BY <1>1, <1>4, <1>6
<1>8. h[l] = Step(h[l - 1], new[l], who, n)
  BY <1>1, <1>2, <1>7 DEF IsFold
<1>9. new[l] \in Pair /\ new[l] \in Pairs(new)
  BY <1>1, <1>7 DEF Pairs
<1>10. Good(l)
  <2>1. CASE new[l].ack.of \in who
    <3> DEFINE m == MapSet(h[l - 1], new[l].k, new[l].ack)
    <3>1. m \in AckMap /\ Pairs(m) \subseteq Pairs(h[l - 1]) \cup {new[l]}
      BY <1>7, <1>9, MapSetPairs
    <3>2. h[l] = Newest(m, n)
      BY <2>1, <1>8 DEF Step
    <3> HIDE DEF m
    <3>3. h[l] \in AckMap /\ Pairs(h[l]) \subseteq Pairs(m)
      BY <3>1, <3>2, NewestPairs
    <3> QED BY <3>1, <3>3, <1>7, <1>9
  <2>2. CASE new[l].ack.of \notin who
    BY <2>2, <1>7, <1>8 DEF Step
  <2> QED BY <2>1, <2>2
<1> QED BY <1>4, <1>10

\* rememberAck over the acks of a batch.
LEMMA RememberAllPairs ==
  ASSUME NEW map \in AckMap, NEW new \in AckMap, NEW who
  PROVE  /\ RememberAll(map, new, who) \in AckMap
         /\ Pairs(RememberAll(map, new, who)) \subseteq Pairs(map) \cup Pairs(new)
BY SetAllPairs, BoundAssumption DEF RememberAll

\* Looking a key up returns an ack the map holds.
LEMMA LookupPair ==
  ASSUME NEW map \in AckMap, NEW k \in Keys(map)
  PROVE  /\ Lookup(map, k) \in Ack
         /\ \E p \in Pairs(map) : p.k = k /\ p.ack = Lookup(map, k)
<1> DEFINE i == CHOOSE i \in DOMAIN map : map[i].k = k
<1>1. i \in DOMAIN map /\ map[i].k = k
  BY DEF Keys
<1>2. map[i] \in Pair
  BY <1>1, AckMapIsSeq
<1>3. Lookup(map, k) = map[i].ack
  BY DEF Lookup
<1> HIDE DEF i
<1> QED BY <1>1, <1>2, <1>3 DEF Pairs, Pair

\* A replay that is remembered is answered with an ack of one of the two maps.
LEMMA RememberedAckPair ==
  ASSUME TypeOK, NEW r \in Requests, Remembered(r)
  PROVE  /\ RememberedAck(r) \in Ack
         /\ \E p \in Pairs(recentAcks) \cup Pairs(recentOpAcks) :
              p.k = ReplayKey(r) /\ p.ack = RememberedAck(r)
BY LookupPair DEF RememberedAck, Remembered, TypeOK

\* A replay key (clientTxReplayKey) is a writer and an id.
LEMMA ReplayKeyType ==
  ASSUME NEW r \in Requests
  PROVE  ReplayKey(r) \in Principals \X (Ids \cup {NoId})
BY RequestAssumption DEF ReplayKey

\* A map of one pair, as POST /op-ack sets it.
LEMMA OnePair ==
  ASSUME NEW r \in Requests, NEW a \in Ack
  PROVE  /\ <<[k |-> ReplayKey(r), ack |-> a]>> \in AckMap
         /\ Pairs(<<[k |-> ReplayKey(r), ack |-> a]>>) = {[k |-> ReplayKey(r), ack |-> a]}
<1>1. [k |-> ReplayKey(r), ack |-> a] \in Pair
  BY ReplayKeyType DEF Pair
<1> DEFINE p == [k |-> ReplayKey(r), ack |-> a]
<1>2. p \in Pair
  BY <1>1
<1> HIDE DEF p
<1>3. <<p>> \in Seq(Pair) /\ DOMAIN <<p>> = {1} /\ <<p>>[1] = p
  BY <1>2
<1>4. <<p>> \in AckMap /\ Pairs(<<p>>) = {p}
  BY <1>3, AckMapIsSeq DEF Pairs
<1> QED BY <1>4 DEF p

-----------------------------------------------------------------------------
(* The database as a function from t to entries.                           *)

\* Merging two databases: the second one wins where both have a t.
LEMMA MergeFacts ==
  ASSUME NEW f, NEW g, IsDb(f), IsDb(g)
  PROVE  /\ IsDb(Merge(f, g))
         /\ DOMAIN Merge(f, g) = DOMAIN f \cup DOMAIN g
         /\ \A t \in DOMAIN g : Merge(f, g)[t] = g[t]
         /\ \A t \in DOMAIN f \ DOMAIN g : Merge(f, g)[t] = f[t]
BY DEF Merge, IsDb

\* What conn.transact appends for a request is a log entry.
LEMMA EntryOfRequest ==
  ASSUME NEW r \in Requests, NEW op \in {"tx", "provision"}, crashes \in Nat
  PROVE  [op |-> op, req |-> r, by |-> crashes] \in Entry
BY DEF Entry

\* A request is logged as a transaction or as a provisioning.
LEMMA OpOfType ==
  ASSUME NEW r \in Requests
  PROVE  OpOf(r) \in {"tx", "provision"}
BY DEF OpOf

\* A single log row is a database of one t.
LEMMA RowFacts ==
  ASSUME NEW t \in Nat, NEW e \in Entry
  PROVE  IsDb(Row(t, e)) /\ DOMAIN Row(t, e) = {t} /\ Row(t, e)[t] = e
BY DEF Row, IsDb

\* The empty roots hold nothing.
LEMMA EmptyDbFacts == IsDb(EmptyDb) /\ DOMAIN EmptyDb = {}
BY DEF EmptyDb, IsDb

\* The bootstrap transaction is a log entry.
LEMMA BootEntryType == BootEntry \in Entry
BY DEF BootEntry, Entry

\* An upper bound of a set that is in it is its maximum.
LEMMA MaxOfFact ==
  ASSUME NEW S \in SUBSET Int, NEW m \in S, \A x \in S : x <= m
  PROVE  MaxOf(S) = m
<1> DEFINE c == CHOOSE c \in S : \A x \in S : x <= c
<1>1. c \in S /\ \A x \in S : x <= c
  OBVIOUS
<1>2. c <= m /\ m <= c /\ c \in Int /\ m \in Int
  BY <1>1
<1> QED BY <1>2 DEF MaxOf

-----------------------------------------------------------------------------
(* Types.  The head of the batch is a request only because the loop's phase *)
(* says the batch is not empty, so the phases are part of the invariant.    *)

Phases ==
  /\ inst # "up" => pc = "idle"
  /\ pc = "open" => queue # <<>>
  /\ pc \in {"resolve", "authorize", "ack"} => batch # <<>>

TypeInv == TypeOK /\ Phases

\* A fresh database is well typed.
LEMMA TypeInit == Init => TypeInv
<1> SUFFICES ASSUME Init PROVE TypeInv
  OBVIOUS
<1>1. IsDb(log)
  BY BootEntryType, RowFacts DEF Init
<1>2. <<>> \in AckMap
  BY DEF AckMap
<1> QED BY <1>1, <1>2, EmptyDbFacts DEF Init, TypeInv, TypeOK, Phases, Statuses

\* A non-empty sequence has a first element and a rest.
LEMMA HeadTail ==
  ASSUME NEW S, NEW s \in Seq(S), s # <<>>
  PROVE  Head(s) \in S /\ Tail(s) \in Seq(S)
OBVIOUS

\* Booting from the empty roots: the connection is the log.
LEMMA BootFacts ==
  ASSUME TypeOK, Boot, NEW n \in Nat \ {0}, DOMAIN log = 1..n
  PROVE  conn' = log /\ basisT' = n
<1> DEFINE rows == {t \in DOMAIN log : t > 0}
<1>1. rows = 1..n
  OBVIOUS
<1>2. [t \in rows |-> log[t]] = log
  BY <1>1 DEF TypeOK, IsDb
<1>3. conn' = Merge(EmptyDb, log)
  BY <1>2 DEF Boot, BootFrom
<1>4. Merge(EmptyDb, log) = log
  BY EmptyDbFacts DEF Merge, TypeOK, IsDb
<1>5. MaxOf(rows \cup {0}) = n
  <2>1. rows \cup {0} \in SUBSET Int /\ n \in rows \cup {0} /\ \A x \in rows \cup {0} : x <= n
    BY <1>1
  <2> QED BY <2>1, MaxOfFact
<1> QED BY <1>3, <1>4, <1>5 DEF Boot, BootFrom

Resolving == pc \in {"resolve", "authorize", "ack", "write"}

\* The log invariant: the batch in memory continues the durable log, t by t.
LogInv ==
  /\ \E n \in Nat \ {0} : DOMAIN log = 1..n
  /\ MemoryIsLogPlusBatch
  /\ Resolving => \E n \in Nat \ {0} : /\ DOMAIN log = 1..n /\ n <= basisT
                                     /\ DOMAIN entries = (n + 1)..basisT
  /\ pc = "reply" => \A t \in DOMAIN entries : t \in DOMAIN log /\ log[t] = entries[t]
  /\ BroadcastIsDurable

\* conn.transact, on types: the next t gets an entry of the request.
LEMMA AssignType ==
  ASSUME TypeOK, NEW r \in Requests, NEW op \in {"tx", "provision"}, Assign(r, op)
  PROVE  /\ basisT' \in Nat /\ IsDb(conn') /\ IsDb(entries')
         /\ DOMAIN conn' = DOMAIN conn \cup {basisT + 1}
         /\ DOMAIN entries' = DOMAIN entries \cup {basisT + 1}
<1> DEFINE e == [op |-> op, req |-> r, by |-> crashes]
<1>1. e \in Entry
  BY EntryOfRequest DEF TypeOK
<1>2. basisT + 1 \in Nat
  BY DEF TypeOK
<1>3. /\ basisT' = basisT + 1
      /\ conn' = Merge(conn, Row(basisT + 1, e))
      /\ entries' = Merge(entries, Row(basisT + 1, e))
  BY DEF Assign
<1> HIDE DEF e
<1>4. IsDb(Row(basisT + 1, e)) /\ DOMAIN Row(basisT + 1, e) = {basisT + 1}
  BY <1>1, <1>2, RowFacts
<1>5. IsDb(conn') /\ DOMAIN conn' = DOMAIN conn \cup {basisT + 1}
  BY <1>3, <1>4, MergeFacts DEF TypeOK
<1>6. IsDb(entries') /\ DOMAIN entries' = DOMAIN entries \cup {basisT + 1}
  BY <1>3, <1>4, MergeFacts DEF TypeOK
<1> QED BY <1>2, <1>3, <1>5, <1>6

\* The callers preserve the types.
LEMMA TypeCaller ==
  ASSUME TypeInv, NEW r \in Requests, Caller(r)
  PROVE  TypeInv'
<1> USE DEF TypeInv, TypeOK, Phases, durable, loopVars, memory, callers
<1>1. CASE OpLookup(r)
  <2>1. Remembered(r) => RememberedAck(r) \in Ack
    BY RememberedAckPair
  <2> QED BY <1>1, <2>1 DEF OpLookup, Settle, Statuses
<1>2. CASE Transact(r)
  BY <1>2 DEF Transact, Enqueue, Statuses
<1>3. CASE TransactReplay(r)
  <2>1. RememberedAck(r) \in Ack
    BY <1>3, RememberedAckPair DEF TransactReplay
  <2> QED BY <1>3, <2>1 DEF TransactReplay, Settle, Statuses
<1>4. CASE RecordOpAck(r)
  <2> DEFINE a == [t |-> basisT, of |-> r]
             new == <<[k |-> ReplayKey(r), ack |-> a]>>
  <2>1. a \in Ack
    BY DEF Ack
  <2>2. new \in AckMap
    BY <2>1, OnePair
  <2>3. /\ RememberAll(recentAcks, new, {r}) \in AckMap
        /\ RememberAll(recentOpAcks, new, {r}) \in AckMap
    BY <2>2, RememberAllPairs
  <2>4. /\ recentAcks' = RememberAll(recentAcks, new, {r})
        /\ recentOpAcks' = RememberAll(recentOpAcks, new, {r})
        /\ metaAcks' = recentOpAcks'
        /\ outcome' = [outcome EXCEPT ![r] = "acked"]
        /\ reply' = [reply EXCEPT ![r] = a]
    BY <1>4 DEF RecordOpAck, Settle
  <2> HIDE DEF a, new
  <2> QED BY <1>4, <2>1, <2>3, <2>4 DEF RecordOpAck, Statuses
<1>5. CASE ProvisionLookup(r)
  <2>1. [t |-> basisT, of |-> r] \in Ack
    BY DEF Ack
  <2> QED BY <1>5, <2>1 DEF ProvisionLookup, Settle, Statuses
<1>6. CASE ProvisionSubmit(r)
  BY <1>6 DEF ProvisionSubmit, Enqueue, Statuses
<1>7. CASE Refuse(r)
  BY <1>7 DEF Refuse, Statuses
<1> QED BY <1>1, <1>2, <1>3, <1>4, <1>5, <1>6, <1>7 DEF Caller

\* So do the boot and the end of an instance.
LEMMA TypeLife ==
  ASSUME TypeInv, LogInv, Boot \/ BootFails \/ Crash \/ Discard
  PROVE  TypeInv'
<1> USE DEF TypeInv, TypeOK, Phases, durable, loopVars, memory, callers
<1>1. CASE Boot
  <2>1. PICK n \in Nat \ {0} : DOMAIN log = 1..n
    BY DEF LogInv
  <2>2. conn' = log /\ basisT' = n
    BY <1>1, <2>1, BootFacts
  <2> QED BY <1>1, <2>2 DEF Boot, BootFrom
<1>2. CASE BootFails
  BY <1>2 DEF BootFails
<1>3. CASE Crash
  <2>1. <<>> \in AckMap
    BY DEF AckMap
  <2> QED BY <1>3, <2>1, EmptyDbFacts DEF Crash, Fresh, Abandon, Statuses
<1>4. CASE Discard
  <2>1. <<>> \in AckMap
    BY DEF AckMap
  <2> QED BY <1>4, <2>1, EmptyDbFacts DEF Discard, Fresh, Abandon, Statuses
<1> QED BY <1>1, <1>2, <1>3, <1>4

\* Taking a request off the batch leaves a batch, and the right phase.
LEMMA AfterItemType ==
  ASSUME TypeInv, pc \in {"resolve", "authorize", "ack"}, NEW es, AfterItem(es)
  PROVE  /\ batch' \in Seq(Requests)
         /\ pc' \in {"resolve", "write", "open", "idle"}
         /\ pc' = "resolve" => batch' # <<>>
         /\ pc' = "open" => queue # <<>>
<1>1. batch \in Seq(Requests) /\ batch # <<>>
  BY DEF TypeInv, TypeOK, Phases
<1>2. Tail(batch) \in Seq(Requests) /\ (Len(batch) > 1 => Tail(batch) # <<>>)
  <2>1. Tail(batch) \in Seq(Requests) /\ Len(Tail(batch)) = Len(batch) - 1
    BY <1>1
  <2>2. CASE Len(batch) > 1
    <3>1. Len(Tail(batch)) > 0
      BY <1>1, <2>1, <2>2
    <3>2. ASSUME Tail(batch) = <<>> PROVE FALSE
      <4>1. Len(<<>>) > 0
        BY <3>1, <3>2
      <4> QED BY <4>1
    <3> QED BY <2>1, <3>2
  <2> QED BY <2>1, <2>2
<1>3. batch' = Tail(batch)
  BY DEF AfterItem
<1>4. pc' = IF Len(batch) > 1 THEN "resolve"
            ELSE IF DOMAIN es # {} THEN "write"
            ELSE IF queue # <<>> THEN "open" ELSE "idle"
  BY DEF AfterItem
<1> QED BY <1>2, <1>3, <1>4

\* die keeps the types, whatever it rejects.
LEMMA DieType ==
  ASSUME TypeInv, NEW inflight, Die(inflight)
  PROVE  TypeInv'
BY DEF TypeInv, TypeOK, Phases, Die, durable, loopVars, memory, callers, Statuses

\* The commit loop preserves the types.
LEMMA TypeLoop ==
  ASSUME TypeInv, Loop
  PROVE  TypeInv'
<1> USE DEF TypeInv, TypeOK, Phases, durable, loopVars, memory, callers
<1> DEFINE r == Head(batch)
<1>0. pc \in {"resolve", "authorize", "ack"} => r \in Requests
  BY HeadTail
<1>1. CASE TakeBatch
  <2>1. <<>> \in AckMap
    BY DEF AckMap
  <2> DEFINE n == IF MaxBatch > 0 /\ Len(queue) > MaxBatch THEN MaxBatch ELSE Len(queue)
  <2>2. n \in 1..Len(queue)
    BY <1>1, BoundAssumption DEF TakeBatch
  <2>3. batch' = SubSeq(queue, 1, n) /\ queue' = SubSeq(queue, n + 1, Len(queue))
    BY <1>1 DEF TakeBatch
  <2> HIDE DEF n
  <2>4. /\ SubSeq(queue, 1, n) \in Seq(Requests) /\ SubSeq(queue, 1, n) # <<>>
        /\ SubSeq(queue, n + 1, Len(queue)) \in Seq(Requests)
    BY <2>2
  <2>5. inst' = "up" /\ pc' = "resolve"
    BY <1>1 DEF TakeBatch
  <2>6. batch' \in Seq(Requests) /\ batch' # <<>> /\ queue' \in Seq(Requests)
    BY <2>3, <2>4
  <2>7. IsDb(entries') /\ acks' \in Seq(Ack) /\ batchAcks' \in AckMap
    BY <1>1, <2>1, EmptyDbFacts DEF TakeBatch
  <2> QED BY <1>1, <2>5, <2>6, <2>7 DEF TakeBatch
<1>2. CASE ReplayItem
  <2>1. r \in Requests /\ AfterItem(entries)
    BY <1>0, <1>2 DEF ReplayItem
  <2> DEFINE a == IF ReplayKey(r) \in Keys(recentAcks)
                  THEN Lookup(recentAcks, ReplayKey(r)) ELSE Lookup(batchAcks, ReplayKey(r))
  <2>2. a \in Ack
    BY <1>2, LookupPair DEF ReplayItem, Replayed
  <2>3. /\ outcome' = [outcome EXCEPT ![r] = "acked"]
        /\ reply' = [reply EXCEPT ![r] = a]
    BY <1>2 DEF ReplayItem, Settle
  <2>4. outcome' \in [Requests -> Statuses] /\ reply' \in [Requests -> Ack \cup {NoAck}]
    BY <2>1, <2>2, <2>3 DEF Statuses
  <2> HIDE DEF a, r
  <2> QED BY <1>2, <2>1, <2>4, AfterItemType DEF ReplayItem
<1>3. CASE ProvisionItem
  <2>1. r \in Requests
    BY <1>0, <1>3 DEF ProvisionItem
  <2>2. Assign(r, "provision") => basisT' \in Nat /\ IsDb(conn') /\ IsDb(entries')
    BY <2>1, AssignType
  <2> HIDE DEF r
  <2> QED BY <1>3, <2>2 DEF ProvisionItem, r
<1>4. CASE AcceptItem
  <2>1. r \in Requests
    BY <1>0, <1>4 DEF AcceptItem
  <2>2. Assign(r, OpOf(r)) => basisT' \in Nat /\ IsDb(conn') /\ IsDb(entries')
    BY <2>1, OpOfType, AssignType
  <2> HIDE DEF r
  <2> QED BY <1>4, <2>2 DEF AcceptItem, r
<1>5. CASE DenyItem
  <2>1. r \in Requests /\ AfterItem(entries) /\ outcome' = [outcome EXCEPT ![r] = "denied"]
    BY <1>0, <1>5 DEF DenyItem
  <2> HIDE DEF r
  <2> QED BY <1>5, <2>1, AfterItemType DEF DenyItem, Statuses
<1>6. CASE AckItem
  <2> DEFINE a == [t |-> basisT, of |-> r]
             e == [k |-> ReplayKey(r), ack |-> a]
  <2>1. r \in Requests /\ AfterItem(entries)
    BY <1>0, <1>6 DEF AckItem
  <2>2. a \in Ack
    BY <2>1 DEF Ack
  <2>3. e \in Pair
    BY <2>1, <2>2, ReplayKeyType DEF Pair
  <2>4. MapSet(batchAcks, e.k, e.ack) \in AckMap
    BY <2>3, MapSetPairs
  <2>5. MapSet(batchAcks, ReplayKey(r), a) \in AckMap
    BY <2>4
  <2>6. /\ acks' = Append(acks, a)
        /\ batchAcks' = IF ClientTxId[r] = NoId THEN batchAcks
                        ELSE MapSet(batchAcks, ReplayKey(r), a)
    BY <1>6 DEF AckItem
  <2> HIDE DEF a, e, r
  <2>7. acks' \in Seq(Ack) /\ batchAcks' \in AckMap
    BY <2>2, <2>5, <2>6
  <2> QED BY <1>6, <2>1, <2>7, AfterItemType DEF AckItem
<1>7. CASE AckItemFails
  <2>1. r \in Requests /\ AfterItem(entries) /\ outcome' = [outcome EXCEPT ![r] = "failed"]
    BY <1>0, <1>7 DEF AckItemFails
  <2> HIDE DEF r
  <2> QED BY <1>7, <2>1, AfterItemType DEF AckItemFails, Statuses
<1>8. CASE Write
  <2> DEFINE room == Len(recentOpAcks) + Len(batchAcks)
             opAcks == SetAll(recentOpAcks, batchAcks, Operations, room)
  <2>1. room \in Nat
    BY AckMapIsSeq
  <2>2. opAcks \in AckMap
    BY <2>1, SetAllPairs
  <2>3. /\ recentOpAcks' = opAcks
        /\ metaAcks' = IF Persists THEN Newest(opAcks, Limit) ELSE metaAcks
        /\ log' = Merge(log, entries)
    BY <1>8 DEF Write
  <2> HIDE DEF room, opAcks
  <2>4. Newest(opAcks, Limit) \in AckMap
    BY <2>2, NewestPairs, BoundAssumption
  <2>5. IsDb(log')
    BY <2>3, MergeFacts
  <2> QED BY <1>8, <2>2, <2>3, <2>4, <2>5 DEF Write
<1>9. CASE WriteFails
  BY <1>9, DieType DEF WriteFails
<1>10. CASE Reply
  <2>1. /\ RememberAll(recentAcks, batchAcks, Requests) \in AckMap
        /\ RememberAll(recentOpAcks, batchAcks, Operations) \in AckMap
    BY RememberAllPairs
  <2>2. outcome' \in [Requests -> Statuses]
    BY <1>10 DEF Reply, Statuses
  <2>3. reply' \in [Requests -> Ack \cup {NoAck}]
    <3> SUFFICES ASSUME NEW q \in Requests, NEW i \in DOMAIN acks, acks[i].of = q
                 PROVE  acks[CHOOSE j \in DOMAIN acks : acks[j].of = q] \in Ack
      BY <1>10 DEF Reply
    <3>1. (CHOOSE j \in DOMAIN acks : acks[j].of = q) \in DOMAIN acks
      OBVIOUS
    <3> QED BY <3>1
  <2>4. told' \subseteq Nat \X Entry
    <3>1. \A t \in DOMAIN entries : <<t, entries[t]>> \in Nat \X Entry
      BY DEF IsDb
    <3> QED BY <1>10, <3>1 DEF Reply
  <2>5. inst = "up"
    BY <1>10 DEF Reply
  <2> QED BY <1>10, <2>1, <2>2, <2>3, <2>4, <2>5 DEF Reply
<1>11. CASE LoopFails
  BY <1>11, DieType DEF LoopFails
<1>12. CASE LoopAgain
  BY <1>12 DEF LoopAgain
<1> QED BY <1>1, <1>2, <1>3, <1>4, <1>5, <1>6, <1>7, <1>8, <1>9, <1>10, <1>11, <1>12
        DEF Loop

\* Every step keeps the types.
LEMMA TypeStep ==
  ASSUME TypeInv, LogInv, [Next]_vars
  PROVE  TypeInv'
<1>1. CASE Boot \/ BootFails \/ Crash \/ Discard
  BY <1>1, TypeLife
<1>2. CASE \E r \in Requests : Caller(r)
  BY <1>2, TypeCaller
<1>3. CASE Loop
  BY <1>3, TypeLoop
<1>4. CASE UNCHANGED vars
  BY <1>4 DEF vars, TypeInv, TypeOK, Phases, durable, loopVars, memory, callers, IsDb
<1> QED BY <1>1, <1>2, <1>3, <1>4 DEF Next

-----------------------------------------------------------------------------
(* The log.                                                                *)

\* A fresh database satisfies the log invariant.
LEMMA LogInit == Init => LogInv
<1> SUFFICES ASSUME Init PROVE LogInv
  OBVIOUS
<1>1. DOMAIN log = 1..1 /\ 1 \in Nat \ {0}
  BY DEF Init, Row
<1>2. \E n \in Nat \ {0} : DOMAIN log = 1..n
  BY <1>1
<1>3. MemoryIsLogPlusBatch /\ BroadcastIsDurable /\ ~Resolving /\ pc # "reply"
  BY DEF Init, MemoryIsLogPlusBatch, BroadcastIsDurable, Resolving
<1> QED BY <1>2, <1>3 DEF LogInv

\* An action that leaves the log, the memory and the broadcasts alone, and
\* stays on the same side of the write, preserves the log invariant.
LEMMA LogUntouched ==
  ASSUME TypeInv, LogInv, UNCHANGED <<log, inst, conn, basisT, entries, told>>,
         Resolving' => Resolving, pc' = "reply" => pc = "reply",
         Resolving => Resolving'
  PROVE  LogInv'
BY DEF LogInv, MemoryIsLogPlusBatch, BroadcastIsDurable, Resolving

\* conn.transact keeps the batch the continuation of the log.
LEMMA LogAssign ==
  ASSUME TypeInv, LogInv, Resolving, Resolving',
         NEW r \in Requests, NEW op \in {"tx", "provision"}, Assign(r, op),
         UNCHANGED <<log, inst, told>>
  PROVE  LogInv'
<1> DEFINE e == [op |-> op, req |-> r, by |-> crashes]
<1>1. PICK n \in Nat \ {0} : /\ DOMAIN log = 1..n /\ n <= basisT
                            /\ DOMAIN entries = (n + 1)..basisT
  BY DEF LogInv
<1>2. inst = "up" /\ basisT \in Nat
  BY DEF TypeInv, TypeOK, Phases, Resolving
<1>3. conn = Merge(log, entries) /\ DOMAIN conn = 1..basisT
  BY <1>2 DEF LogInv, MemoryIsLogPlusBatch, Resolving
<1>4. /\ DOMAIN conn' = DOMAIN conn \cup {basisT + 1}
      /\ DOMAIN entries' = DOMAIN entries \cup {basisT + 1}
  BY AssignType DEF TypeInv
<1>5. basisT' = basisT + 1 /\ DOMAIN conn' = 1..basisT' /\ DOMAIN entries' = (n + 1)..basisT'
  <2>1. basisT' = basisT + 1
    BY DEF Assign
  <2>2. (1..basisT) \cup {basisT + 1} = 1..(basisT + 1)
    BY <1>2
  <2>3. ((n + 1)..basisT) \cup {basisT + 1} = (n + 1)..(basisT + 1)
    BY <1>1, <1>2
  <2> QED BY <1>1, <1>3, <1>4, <2>1, <2>2, <2>3
<1>6. /\ conn' = Merge(conn, Row(basisT + 1, e))
      /\ entries' = Merge(entries, Row(basisT + 1, e))
  BY DEF Assign
<1> HIDE DEF e
<1>7. conn' = Merge(log, entries')
  <2>1. DOMAIN Row(basisT + 1, e) = {basisT + 1}
    BY DEF Row
  <2> QED BY <1>1, <1>3, <1>6, <2>1 DEF Merge
<1>8. n \in Nat \ {0} /\ DOMAIN log' = 1..n /\ n <= basisT'
  BY <1>1, <1>2, <1>5
<1>9. pc' # "reply" /\ pc' \in {"resolve", "authorize", "ack", "write"}
  BY DEF Resolving
<1> QED BY <1>2, <1>5, <1>7, <1>8, <1>9
        DEF LogInv, MemoryIsLogPlusBatch, BroadcastIsDurable, Resolving

\* The callers and the end of an instance do not touch the log; a boot makes
\* it the memory.
LEMMA LogCaller ==
  ASSUME TypeInv, LogInv, NEW r \in Requests, Caller(r)
  PROVE  LogInv'
<1>1. UNCHANGED <<log, inst, conn, basisT, entries, told>>
  BY DEF Caller, OpLookup, Transact, TransactReplay, RecordOpAck, ProvisionLookup,
         ProvisionSubmit, Refuse, Enqueue, durable, memory, loopVars
<1>2. pc' = pc \/ (pc = "idle" /\ pc' = "open")
  BY DEF Caller, OpLookup, Transact, TransactReplay, RecordOpAck, ProvisionLookup,
         ProvisionSubmit, Refuse, Enqueue
<1> QED BY <1>1, <1>2, LogUntouched DEF Resolving

\* Boots and ends of instances keep the log invariant.
LEMMA LogLife ==
  ASSUME TypeInv, LogInv, Boot \/ BootFails \/ Crash \/ Discard
  PROVE  LogInv'
<1>1. PICK n \in Nat \ {0} : DOMAIN log = 1..n
  BY DEF LogInv
<1>2. UNCHANGED <<log, told>>
  BY DEF Boot, BootFrom, BootFails, Crash, Discard, durable
<1>3. CASE Boot
  <2>1. conn' = log /\ basisT' = n
    BY <1>1, <1>3, BootFacts DEF TypeInv
  <2>2. pc = "idle" /\ pc' = pc
    BY <1>3 DEF Boot, BootFrom, TypeInv, Phases
  <2> QED BY <1>1, <1>2, <2>1, <2>2
          DEF LogInv, MemoryIsLogPlusBatch, BroadcastIsDurable, Resolving
<1>4. CASE BootFails \/ Crash \/ Discard
  <2>1. inst' # "up" /\ pc' = "idle"
    BY <1>4 DEF BootFails, Crash, Discard, Fresh, TypeInv, Phases
  <2> QED BY <1>1, <1>2, <2>1
          DEF LogInv, MemoryIsLogPlusBatch, BroadcastIsDurable, Resolving
<1> QED BY <1>3, <1>4

\* die keeps the log invariant: the instance that ran ahead of the log is gone.
LEMMA LogDie ==
  ASSUME TypeInv, LogInv, NEW inflight, Die(inflight)
  PROVE  LogInv'
BY DEF LogInv, MemoryIsLogPlusBatch, BroadcastIsDurable, Resolving, Die, durable

\* A batch that wrote nothing ends with the log as the memory.
LEMMA LogEndOfItem ==
  ASSUME TypeInv, LogInv, pc \in {"resolve", "authorize", "ack"}, AfterItem(entries),
         UNCHANGED <<log, inst, conn, basisT, entries, told>>
  PROVE  LogInv'
<1>1. inst = "up" /\ basisT \in Nat /\ IsDb(log)
  BY DEF TypeInv, TypeOK, Phases
<1>2. PICK n \in Nat \ {0} : /\ DOMAIN log = 1..n /\ n <= basisT
                            /\ DOMAIN entries = (n + 1)..basisT
  BY DEF LogInv, Resolving
<1>3. conn = Merge(log, entries) /\ DOMAIN conn = 1..basisT
  BY <1>1 DEF LogInv, MemoryIsLogPlusBatch
<1>4. CASE pc' \in {"resolve", "write"}
  BY <1>4, LogUntouched DEF Resolving
<1>5. CASE pc' \in {"open", "idle"}
  <2>1. DOMAIN entries = {}
    BY <1>5 DEF AfterItem
  <2>2. conn = log
    BY <1>1, <1>3, <2>1 DEF Merge, IsDb
  <2> QED BY <1>1, <1>2, <1>3, <1>5, <2>2
          DEF LogInv, MemoryIsLogPlusBatch, BroadcastIsDurable, Resolving
<1> QED BY <1>4, <1>5, AfterItemType

\* The storage transaction lands the whole batch above what was durable.
LEMMA LogWrite ==
  ASSUME TypeInv, LogInv, Write
  PROVE  /\ LogInv'
         /\ \A t \in DOMAIN log : t \in DOMAIN log' /\ log'[t] = log[t]
<1>1. inst = "up" /\ basisT \in Nat /\ IsDb(log) /\ IsDb(entries) /\ pc = "write"
  BY DEF TypeInv, TypeOK, Phases, Write
<1>2. PICK n \in Nat \ {0} : /\ DOMAIN log = 1..n /\ n <= basisT
                            /\ DOMAIN entries = (n + 1)..basisT
  BY <1>1 DEF LogInv, Resolving
<1>3. conn = Merge(log, entries) /\ DOMAIN conn = 1..basisT
  BY <1>1 DEF LogInv, MemoryIsLogPlusBatch
<1>4. /\ log' = conn /\ pc' = "reply"
      /\ UNCHANGED <<inst, conn, basisT, entries, told>>
  BY <1>3 DEF Write, loopVars
<1>5. /\ \A t \in DOMAIN entries : t \in DOMAIN conn /\ conn[t] = entries[t]
      /\ \A t \in DOMAIN log : t \in DOMAIN conn /\ conn[t] = log[t]
  <2>1. DOMAIN log \cap DOMAIN entries = {}
    BY <1>1, <1>2
  <2>2. \A t \in DOMAIN log : t \in DOMAIN log \ DOMAIN entries
    BY <2>1
  <2>3. /\ DOMAIN conn = DOMAIN log \cup DOMAIN entries
        /\ \A t \in DOMAIN entries : conn[t] = entries[t]
        /\ \A t \in DOMAIN log \ DOMAIN entries : conn[t] = log[t]
    BY <1>3 DEF Merge
  <2> QED BY <2>2, <2>3
<1>6. basisT \in Nat \ {0} /\ DOMAIN log' = 1..basisT
  BY <1>1, <1>2, <1>3, <1>4
<1>7. BroadcastIsDurable'
  BY <1>4, <1>5 DEF LogInv, BroadcastIsDurable
<1>8. MemoryIsLogPlusBatch'
  BY <1>3, <1>4 DEF MemoryIsLogPlusBatch
<1> QED BY <1>4, <1>5, <1>6, <1>7, <1>8 DEF LogInv, Resolving

\* Every step of the commit loop keeps the log invariant.
LEMMA LogLoop ==
  ASSUME TypeInv, LogInv, Loop
  PROVE  LogInv'
<1> DEFINE r == Head(batch)
<1>0. pc \in {"resolve", "authorize", "ack"} => r \in Requests
  BY HeadTail DEF TypeInv, TypeOK, Phases
<1>1. CASE TakeBatch
  <2>1. inst = "up" /\ pc = "open" /\ basisT \in Nat /\ IsDb(log)
    BY <1>1 DEF TakeBatch, TypeInv, TypeOK, Phases
  <2>2. PICK n \in Nat \ {0} : DOMAIN log = 1..n
    BY DEF LogInv
  <2>3. conn = log /\ DOMAIN conn = 1..basisT
    BY <2>1 DEF LogInv, MemoryIsLogPlusBatch
  <2>4. /\ UNCHANGED <<log, inst, conn, basisT, told>>
        /\ entries' = EmptyDb /\ pc' = "resolve"
    BY <1>1 DEF TakeBatch, durable
  <2>5. conn = Merge(log, EmptyDb)
    BY <2>1, <2>3, EmptyDbFacts DEF Merge, IsDb
  <2>6. n = basisT
    <3>1. n \in 1..basisT /\ (basisT # 0 => basisT \in 1..n)
      BY <2>1, <2>2, <2>3
    <3> QED BY <2>1, <3>1
  <2>7. n <= basisT /\ DOMAIN entries' = (n + 1)..basisT
    BY <2>1, <2>4, <2>6, EmptyDbFacts
  <2> QED BY <2>1, <2>2, <2>3, <2>4, <2>5, <2>7
          DEF LogInv, MemoryIsLogPlusBatch, BroadcastIsDurable, Resolving
<1>2. CASE ReplayItem \/ DenyItem \/ AckItem \/ AckItemFails
  <2>1. /\ pc \in {"resolve", "authorize", "ack"} /\ AfterItem(entries)
        /\ UNCHANGED <<log, inst, conn, basisT, entries, told>>
    BY <1>2 DEF ReplayItem, DenyItem, AckItem, AckItemFails, durable, callers
  <2> QED BY <2>1, LogEndOfItem
<1>3. CASE ProvisionItem
  <2>1. r \in Requests /\ Resolving /\ Resolving' /\ UNCHANGED <<log, inst, told>>
    BY <1>0, <1>3 DEF ProvisionItem, Resolving, durable
  <2>2. CASE Assign(r, "provision")
    BY <2>1, <2>2, LogAssign
  <2>3. CASE UNCHANGED <<conn, basisT, entries>>
    <3>1. pc' # "reply"
      BY <1>3 DEF ProvisionItem
    <3> QED BY <2>1, <2>3, <3>1, LogUntouched
  <2> QED BY <1>3, <2>2, <2>3 DEF ProvisionItem
<1>4. CASE AcceptItem
  <2>1. /\ r \in Requests /\ OpOf(r) \in {"tx", "provision"} /\ Resolving /\ Resolving'
        /\ UNCHANGED <<log, inst, told>> /\ Assign(r, OpOf(r))
    BY <1>0, <1>4, OpOfType DEF AcceptItem, Resolving, durable
  <2> QED BY <2>1, LogAssign
<1>5. CASE Write
  BY <1>5, LogWrite
<1>6. CASE WriteFails \/ LoopFails
  BY <1>6, LogDie DEF WriteFails, LoopFails
<1>7. CASE Reply
  <2>1. /\ pc = "reply" /\ pc' = "schedule" /\ UNCHANGED <<log, inst, conn, basisT, entries>>
        /\ told' = told \cup {<<t, entries[t]>> : t \in DOMAIN entries}
    BY <1>7 DEF Reply, loopVars
  <2> QED BY <2>1 DEF LogInv, MemoryIsLogPlusBatch, BroadcastIsDurable, Resolving
<1>8. CASE LoopAgain
  <2>1. /\ pc = "schedule" /\ pc' \in {"open", "idle"}
        /\ UNCHANGED <<log, inst, conn, basisT, entries, told>>
    BY <1>8 DEF LoopAgain, durable, memory, loopVars
  <2> QED BY <2>1, LogUntouched DEF Resolving
<1> QED BY <1>1, <1>2, <1>3, <1>4, <1>5, <1>6, <1>7, <1>8 DEF Loop

\* Every step keeps the log invariant.
LEMMA LogStep ==
  ASSUME TypeInv, LogInv, [Next]_vars
  PROVE  LogInv'
<1>1. CASE Boot \/ BootFails \/ Crash \/ Discard
  BY <1>1, LogLife
<1>2. CASE \E r \in Requests : Caller(r)
  BY <1>2, LogCaller
<1>3. CASE Loop
  BY <1>3, LogLoop
<1>4. CASE UNCHANGED vars
  BY <1>4, LogUntouched DEF vars, durable, memory, loopVars, Resolving
<1> QED BY <1>1, <1>2, <1>3, <1>4 DEF Next

\* Only the storage transaction of a batch changes the log.
LEMMA LogChangesByWrite ==
  ASSUME [Next]_vars, ~Write
  PROVE  UNCHANGED log
BY DEF Next, vars, Boot, BootFrom, BootFails, Crash, Discard, Caller, OpLookup, Transact,
       TransactReplay, RecordOpAck, ProvisionLookup, ProvisionSubmit, Refuse, Enqueue,
       Loop, TakeBatch, ReplayItem, ProvisionItem, AcceptItem, DenyItem, AckItem,
       AckItemFails, WriteFails, Reply, LoopFails, LoopAgain, Die, durable

-----------------------------------------------------------------------------
(* The requests in flight: each is pending, and in one place only.         *)

Distinct(s) == \A i, j \in DOMAIN s : s[i] = s[j] => i = j
Taking == pc \in {"resolve", "authorize", "ack"}
Active == Taking \/ pc \in {"write", "reply"}

FlightInv ==
  /\ Distinct(queue) /\ \A i \in DOMAIN queue : outcome[queue[i]] = "pending"
  /\ Taking =>
       /\ Distinct(batch) /\ \A i \in DOMAIN batch : outcome[batch[i]] = "pending"
       /\ \A i \in DOMAIN batch : \A j \in DOMAIN queue : batch[i] # queue[j]
       /\ \A i \in DOMAIN batch : \A j \in DOMAIN acks : batch[i] # acks[j].of
  /\ Active => \A i \in DOMAIN acks :
                 /\ outcome[acks[i].of] = "pending"
                 /\ \A j \in DOMAIN queue : queue[j] # acks[i].of

\* Nothing is in flight in a fresh database.
LEMMA FlightInit == Init => FlightInv
BY DEF Init, FlightInv, Distinct, Taking, Active

\* Settling a request that is not in flight, or queueing it, disturbs no other.
LEMMA FlightCaller ==
  ASSUME TypeInv, FlightInv, NEW r \in Requests, Caller(r)
  PROVE  FlightInv'
<1>0. /\ queue \in Seq(Requests) /\ batch \in Seq(Requests) /\ acks \in Seq(Ack)
      /\ outcome \in [Requests -> Statuses]
      /\ UNCHANGED <<batch, acks>>
  BY DEF TypeInv, TypeOK, Caller, OpLookup, Transact, TransactReplay, RecordOpAck,
         ProvisionLookup, ProvisionSubmit, Refuse, Enqueue, memory, loopVars
<1>1. CASE Transact(r) \/ ProvisionSubmit(r)
  <2>1. /\ outcome[r] # "pending" /\ queue' = Append(queue, r)
        /\ outcome' = [outcome EXCEPT ![r] = "pending"]
        /\ pc' = IF pc = "idle" THEN "open" ELSE pc
    BY <1>1 DEF Transact, ProvisionSubmit, Submittable, Enqueue
  <2>2. /\ DOMAIN queue' = 1..(Len(queue) + 1) /\ DOMAIN queue = 1..Len(queue)
        /\ Len(queue) \in Nat /\ queue'[Len(queue) + 1] = r
        /\ \A i \in 1..Len(queue) : queue'[i] = queue[i]
    BY <1>0, <2>1
  <2>3. \A i \in DOMAIN queue : queue[i] # r
    BY <2>1 DEF FlightInv
  <2>4. Distinct(queue')
    BY <2>2, <2>3 DEF FlightInv, Distinct
  <2>5. (Taking' <=> Taking) /\ (Active' <=> Active)
    BY <2>1 DEF Taking, Active
  <2>6. \A q \in Requests : outcome[q] = "pending" => outcome'[q] = "pending" /\ q # r
    BY <1>0, <2>1
  <2>7. /\ \A i \in DOMAIN queue : queue[i] \in Requests
        /\ \A i \in DOMAIN batch : batch[i] \in Requests
        /\ \A i \in DOMAIN acks : acks[i].of \in Requests
    <3>1. \A i \in DOMAIN acks : acks[i] \in Ack
      BY <1>0
    <3> QED BY <1>0, <3>1 DEF Ack
  <2>8. \A i \in DOMAIN queue' : queue'[i] = r \/ (i \in DOMAIN queue /\ queue'[i] = queue[i])
    BY <2>2
  <2>9. outcome'[r] = "pending"
    BY <1>0, <2>1
  <2> QED BY <1>0, <2>4, <2>5, <2>6, <2>7, <2>8, <2>9 DEF FlightInv
<1>2. CASE ~(Transact(r) \/ ProvisionSubmit(r))
  <2>1. /\ outcome[r] # "pending"
        /\ UNCHANGED <<queue, pc>>
        /\ \A q \in Requests : q # r => outcome'[q] = outcome[q]
    BY <1>0, <1>2 DEF Caller, OpLookup, TransactReplay, RecordOpAck, ProvisionLookup,
           Refuse, Submittable, Settle, memory
  <2>2. /\ \A i \in DOMAIN queue : queue[i] \in Requests
        /\ \A i \in DOMAIN batch : batch[i] \in Requests
        /\ \A i \in DOMAIN acks : acks[i].of \in Requests
    <3>1. \A i \in DOMAIN acks : acks[i] \in Ack
      BY <1>0
    <3> QED BY <1>0, <3>1 DEF Ack
  <2> QED BY <1>0, <2>1, <2>2 DEF FlightInv, Taking, Active, Distinct
<1> QED BY <1>1, <1>2

\* An instance that ends, or has not begun, has nothing in flight.
LEMMA FlightLife ==
  ASSUME TypeInv, FlightInv, Boot \/ BootFails \/ Crash \/ Discard
  PROVE  FlightInv'
<1>1. CASE Boot \/ BootFails
  <2>1. UNCHANGED <<queue, pc, batch, acks, outcome>>
    BY <1>1 DEF Boot, BootFrom, BootFails, memory, loopVars, callers
  <2> QED BY <2>1 DEF FlightInv, Distinct, Taking, Active
<1>2. CASE Crash \/ Discard
  <2>1. queue' = <<>> /\ pc' = "idle"
    BY <1>2 DEF Crash, Discard, Fresh
  <2> QED BY <2>1 DEF FlightInv, Distinct, Taking, Active
<1> QED BY <1>1, <1>2

\* The request at the head of the batch is settled and leaves the batch.
LEMMA FlightItem ==
  ASSUME TypeInv, FlightInv, Taking, AfterItem(entries), UNCHANGED <<queue, acks>>,
         \A q \in Requests \ {Head(batch)} : outcome'[q] = outcome[q]
  PROVE  FlightInv'
<1>0. /\ queue \in Seq(Requests) /\ batch \in Seq(Requests) /\ acks \in Seq(Ack)
      /\ batch # <<>>
  BY DEF TypeInv, TypeOK, Phases, Taking
<1>1. /\ batch' = Tail(batch) /\ Head(batch) = batch[1] /\ 1 \in DOMAIN batch
      /\ \A i \in DOMAIN Tail(batch) : /\ i + 1 \in DOMAIN batch /\ i \in Nat \ {0}
                                      /\ Tail(batch)[i] = batch[i + 1]
  BY <1>0 DEF AfterItem
<1>2. \A i \in DOMAIN batch' : batch'[i] # Head(batch) /\ batch'[i] \in Requests
  <2> SUFFICES ASSUME NEW i \in DOMAIN batch'
               PROVE  batch'[i] # Head(batch) /\ batch'[i] \in Requests
    OBVIOUS
  <2>1. i + 1 \in DOMAIN batch /\ i + 1 # 1 /\ batch'[i] = batch[i + 1]
    BY <1>1
  <2> QED BY <1>0, <1>1, <2>1 DEF FlightInv, Distinct
<1>3. Distinct(batch')
  BY <1>1 DEF FlightInv, Distinct
<1>4. /\ \A i \in DOMAIN queue : queue[i] # Head(batch) /\ queue[i] \in Requests
      /\ \A i \in DOMAIN acks : acks[i].of # Head(batch) /\ acks[i].of \in Requests
  <2>1. \A i \in DOMAIN acks : acks[i] \in Ack
    BY <1>0
  <2>2. \A i \in DOMAIN acks : acks[i].of \in Requests
    BY <2>1 DEF Ack
  <2>3. \A i \in DOMAIN queue : queue[i] \in Requests
    BY <1>0
  <2> QED BY <1>1, <2>2, <2>3 DEF FlightInv
<1>5. Active /\ (Taking' => Taking)
  BY DEF Active
<1>6. \A i \in DOMAIN batch' :
        /\ outcome'[batch'[i]] = "pending"
        /\ \A j \in DOMAIN queue : batch'[i] # queue[j]
        /\ \A j \in DOMAIN acks : batch'[i] # acks[j].of
  BY <1>1, <1>2 DEF FlightInv
<1>7. /\ \A i \in DOMAIN queue : outcome'[queue[i]] = "pending"
      /\ \A i \in DOMAIN acks :
           /\ outcome'[acks[i].of] = "pending"
           /\ \A j \in DOMAIN queue : queue[j] # acks[i].of
  BY <1>4, <1>5 DEF FlightInv
<1>8. Distinct(queue) /\ UNCHANGED <<queue, acks>>
  BY DEF FlightInv
<1>9. queue' = queue /\ acks' = acks /\ Distinct(queue') /\ Distinct(batch')
  BY <1>3, <1>8
<1>10. (Distinct(queue) /\ \A i \in DOMAIN queue : outcome[queue[i]] = "pending")'
  BY <1>7, <1>9
<1>11. (Taking =>
         /\ Distinct(batch) /\ \A i \in DOMAIN batch : outcome[batch[i]] = "pending"
         /\ \A i \in DOMAIN batch : \A j \in DOMAIN queue : batch[i] # queue[j]
         /\ \A i \in DOMAIN batch : \A j \in DOMAIN acks : batch[i] # acks[j].of)'
  BY <1>6, <1>9
<1>12. (Active => \A i \in DOMAIN acks :
                   /\ outcome[acks[i].of] = "pending"
                   /\ \A j \in DOMAIN queue : queue[j] # acks[i].of)'
  BY <1>7, <1>9
<1> QED BY <1>10, <1>11, <1>12 DEF FlightInv

\* die leaves nothing in flight.
LEMMA FlightDie ==
  ASSUME TypeInv, FlightInv, NEW inflight, Die(inflight)
  PROVE  FlightInv'
BY DEF Die, FlightInv, Distinct, Taking, Active

\* The batch is the head of the queue: no request is in both.
LEMMA FlightTake ==
  ASSUME TypeInv, FlightInv, TakeBatch
  PROVE  FlightInv'
<1> DEFINE n == IF MaxBatch > 0 /\ Len(queue) > MaxBatch THEN MaxBatch ELSE Len(queue)
<1>1. queue \in Seq(Requests) /\ Len(queue) \in Nat /\ n \in 0..Len(queue)
  BY BoundAssumption DEF TypeInv, TypeOK
<1>2. /\ batch' = SubSeq(queue, 1, n) /\ queue' = SubSeq(queue, n + 1, Len(queue))
      /\ acks' = <<>> /\ pc' = "resolve" /\ outcome' = outcome
  BY DEF TakeBatch, callers
<1> HIDE DEF n
<1>3. /\ DOMAIN batch' = 1..n /\ \A i \in 1..n : i \in DOMAIN queue /\ batch'[i] = queue[i]
  BY <1>1, <1>2
<1>4. /\ DOMAIN queue' = 1..(Len(queue) - n)
      /\ \A i \in 1..(Len(queue) - n) : n + i \in DOMAIN queue /\ queue'[i] = queue[n + i]
  BY <1>1, <1>2
<1>5. Distinct(batch')
  BY <1>3 DEF FlightInv, Distinct
<1>6. Distinct(queue')
  BY <1>1, <1>4 DEF FlightInv, Distinct
<1>7. \A i \in DOMAIN batch' : \A j \in DOMAIN queue' : batch'[i] # queue'[j]
  <2> SUFFICES ASSUME NEW i \in 1..n, NEW j \in 1..(Len(queue) - n)
               PROVE  batch'[i] # queue'[j]
    BY <1>3, <1>4
  <2>1. i # n + j
    BY <1>1
  <2> QED BY <1>3, <1>4, <2>1 DEF FlightInv, Distinct
<1>8. /\ \A i \in DOMAIN batch' : outcome'[batch'[i]] = "pending"
      /\ \A i \in DOMAIN queue' : outcome'[queue'[i]] = "pending"
  <2>1. outcome' = outcome /\ \A i \in DOMAIN queue : outcome[queue[i]] = "pending"
    BY <1>2 DEF FlightInv
  <2> QED BY <1>3, <1>4, <2>1
<1>9. DOMAIN acks' = {}
  BY <1>2
<1> QED BY <1>5, <1>6, <1>7, <1>8, <1>9 DEF FlightInv

\* The head of the batch becomes an ack of the batch.
LEMMA FlightAck ==
  ASSUME TypeInv, FlightInv, AckItem
  PROVE  FlightInv'
<1> DEFINE r == Head(batch)
           a == [t |-> basisT, of |-> r]
<1>0. /\ queue \in Seq(Requests) /\ batch \in Seq(Requests) /\ acks \in Seq(Ack)
      /\ batch # <<>> /\ basisT \in Nat /\ Taking /\ Active
  BY DEF TypeInv, TypeOK, Phases, Taking, Active, AckItem
<1>1. /\ batch' = Tail(batch) /\ r = batch[1] /\ 1 \in DOMAIN batch /\ r \in Requests
      /\ \A i \in DOMAIN Tail(batch) : /\ i + 1 \in DOMAIN batch /\ i + 1 # 1
                                      /\ Tail(batch)[i] = batch[i + 1]
  BY <1>0 DEF AckItem, AfterItem
<1>2. acks' = Append(acks, a) /\ UNCHANGED <<queue, outcome>>
  BY DEF AckItem, callers
<1>3. a \in Ack /\ a.of = r
  BY <1>0, <1>1 DEF Ack
<1> HIDE DEF a, r
<1>4. \A i \in DOMAIN acks' : acks'[i] = a \/ (i \in DOMAIN acks /\ acks'[i] = acks[i])
  BY <1>0, <1>2, <1>3
<1>5. \A i \in DOMAIN batch' : \E j \in DOMAIN batch : j # 1 /\ batch'[i] = batch[j]
  BY <1>1
<1>6. Distinct(batch')
  <2> SUFFICES ASSUME NEW i \in DOMAIN batch', NEW j \in DOMAIN batch', batch'[i] = batch'[j]
               PROVE  i = j
    BY DEF Distinct
  <2>1. /\ i + 1 \in DOMAIN batch /\ batch'[i] = batch[i + 1] /\ i \in Int
        /\ j + 1 \in DOMAIN batch /\ batch'[j] = batch[j + 1] /\ j \in Int
    BY <1>0, <1>1
  <2>2. i + 1 = j + 1
    BY <1>0, <2>1 DEF FlightInv, Distinct
  <2> QED BY <2>1, <2>2
<1>7. \A i \in DOMAIN batch' : /\ outcome[batch'[i]] = "pending" /\ batch'[i] # r
                              /\ \A j \in DOMAIN queue : batch'[i] # queue[j]
  BY <1>0, <1>1, <1>5 DEF FlightInv, Distinct
<1>8. \A i \in DOMAIN batch' : \A j \in DOMAIN acks' : batch'[i] # acks'[j].of
  <2> SUFFICES ASSUME NEW i \in DOMAIN batch', NEW j \in DOMAIN acks'
               PROVE  batch'[i] # acks'[j].of
    OBVIOUS
  <2>1. CASE acks'[j] = a
    BY <1>3, <1>7, <2>1
  <2>2. CASE j \in DOMAIN acks /\ acks'[j] = acks[j]
    BY <1>0, <1>5, <2>2 DEF FlightInv
  <2> QED BY <1>4, <2>1, <2>2
<1>9. \A i \in DOMAIN acks' :
        /\ outcome[acks'[i].of] = "pending"
        /\ \A j \in DOMAIN queue : queue[j] # acks'[i].of
  <2> SUFFICES ASSUME NEW i \in DOMAIN acks'
               PROVE  /\ outcome[acks'[i].of] = "pending"
                      /\ \A j \in DOMAIN queue : queue[j] # acks'[i].of
    OBVIOUS
  <2>1. CASE acks'[i] = a
    BY <1>0, <1>1, <1>3, <2>1 DEF FlightInv
  <2>2. CASE i \in DOMAIN acks /\ acks'[i] = acks[i]
    BY <1>0, <2>2 DEF FlightInv
  <2> QED BY <1>4, <2>1, <2>2
<1>10. /\ Distinct(queue) /\ queue' = queue /\ outcome' = outcome
       /\ \A i \in DOMAIN queue : outcome[queue[i]] = "pending"
  BY <1>2 DEF FlightInv
<1> QED BY <1>6, <1>7, <1>8, <1>9, <1>10 DEF FlightInv

\* The acks of the batch are answered; the queue is untouched.
LEMMA FlightReply ==
  ASSUME TypeInv, FlightInv, Reply
  PROVE  FlightInv'
<1>1. /\ queue \in Seq(Requests) /\ Active /\ pc' = "schedule" /\ queue' = queue
      /\ outcome' = [r \in Requests |->
            IF \E i \in DOMAIN acks : acks[i].of = r THEN "acked" ELSE outcome[r]]
  BY DEF Reply, Active, TypeInv, TypeOK
<1>2. \A i \in DOMAIN queue : queue[i] \in Requests
  BY <1>1
<1>3. \A i \in DOMAIN queue : outcome'[queue[i]] = outcome[queue[i]]
  BY <1>1, <1>2 DEF FlightInv
<1> QED BY <1>1, <1>3 DEF FlightInv, Taking, Active, Distinct

\* Every step of the commit loop keeps the requests in flight apart.
LEMMA FlightLoop ==
  ASSUME TypeInv, FlightInv, Loop
  PROVE  FlightInv'
<1>1. CASE TakeBatch
  BY <1>1, FlightTake
<1>2. CASE ReplayItem \/ DenyItem \/ AckItemFails
  <2>1. /\ Taking /\ AfterItem(entries) /\ UNCHANGED <<queue, acks>>
        /\ outcome \in [Requests -> Statuses]
    BY <1>2 DEF ReplayItem, DenyItem, AckItemFails, Taking, TypeInv, TypeOK
  <2>2. \A q \in Requests \ {Head(batch)} : outcome'[q] = outcome[q]
    BY <1>2, <2>1 DEF ReplayItem, DenyItem, AckItemFails, Settle
  <2> QED BY <2>1, <2>2, FlightItem
<1>3. CASE ProvisionItem \/ AcceptItem
  <2>1. Taking /\ Taking' /\ UNCHANGED <<queue, batch, acks, outcome>>
    BY <1>3 DEF ProvisionItem, AcceptItem, Taking, callers
  <2> QED BY <2>1 DEF FlightInv, Active, Distinct
<1>4. CASE AckItem
  BY <1>4, FlightAck
<1>5. CASE Write
  <2>1. /\ pc = "write" /\ pc' = "reply" /\ UNCHANGED <<queue, batch, acks, outcome>>
    BY <1>5 DEF Write, callers, loopVars
  <2> QED BY <2>1 DEF FlightInv, Taking, Active, Distinct
<1>6. CASE WriteFails \/ LoopFails
  BY <1>6, FlightDie DEF WriteFails, LoopFails
<1>7. CASE Reply
  BY <1>7, FlightReply
<1>8. CASE LoopAgain
  <2>1. /\ pc' \in {"open", "idle"} /\ UNCHANGED <<queue, batch, acks, outcome>>
    BY <1>8 DEF LoopAgain, callers, memory, loopVars
  <2> QED BY <2>1 DEF FlightInv, Taking, Active, Distinct
<1> QED BY <1>1, <1>2, <1>3, <1>4, <1>5, <1>6, <1>7, <1>8 DEF Loop

\* Every step keeps the requests in flight apart.
LEMMA FlightStep ==
  ASSUME TypeInv, FlightInv, [Next]_vars
  PROVE  FlightInv'
<1>1. CASE Boot \/ BootFails \/ Crash \/ Discard
  BY <1>1, FlightLife
<1>2. CASE \E r \in Requests : Caller(r)
  BY <1>2, FlightCaller
<1>3. CASE Loop
  BY <1>3, FlightLoop
<1>4. CASE UNCHANGED vars
  <2>1. UNCHANGED <<queue, batch, acks, outcome, pc>>
    BY <1>4 DEF vars, memory, loopVars, callers
  <2> QED BY <2>1 DEF FlightInv, Taking, Active, Distinct
<1> QED BY <1>1, <1>2, <1>3, <1>4 DEF Next

\* What was settled stays as it is: only a request in flight, or one that its
\* caller still prepares, changes its outcome.
LEMMA SettledStays ==
  ASSUME TypeInv, FlightInv, [Next]_vars, NEW q \in Requests,
         outcome[q] \in {"acked", "denied", "failed", "lost"}
  PROVE  outcome'[q] = outcome[q] /\ reply'[q] = reply[q]
<1>0. /\ outcome \in [Requests -> Statuses] /\ reply \in [Requests -> Ack \cup {NoAck}]
      /\ acks \in Seq(Ack) /\ queue \in Seq(Requests)
  BY DEF TypeInv, TypeOK
<1>1. CASE Boot \/ BootFails
  BY <1>1 DEF Boot, BootFrom, BootFails, callers
<1>2. CASE Crash \/ Discard
  BY <1>0, <1>2 DEF Crash, Discard, Abandon
<1>3. CASE \E r \in Requests : Caller(r)
  <2>1. PICK r \in Requests : Caller(r)
    BY <1>3
  <2>2. r # q
    BY <2>1 DEF Caller, OpLookup, Transact, TransactReplay, RecordOpAck, ProvisionLookup,
           ProvisionSubmit, Refuse, Submittable
  <2> QED BY <1>0, <2>1, <2>2 DEF Caller, OpLookup, Transact, TransactReplay, RecordOpAck,
          ProvisionLookup, ProvisionSubmit, Refuse, Settle, Enqueue
<1>4. CASE TakeBatch \/ ProvisionItem \/ AcceptItem \/ AckItem \/ Write \/ LoopAgain
  BY <1>4 DEF TakeBatch, ProvisionItem, AcceptItem, AckItem, Write, LoopAgain, callers
<1>5. CASE ReplayItem \/ DenyItem \/ AckItemFails
  <2>1. Taking /\ batch \in Seq(Requests) /\ batch # <<>>
    BY <1>5 DEF ReplayItem, DenyItem, AckItemFails, Taking, TypeInv, TypeOK, Phases
  <2>2. 1 \in DOMAIN batch /\ Head(batch) = batch[1]
    BY <2>1
  <2>3. q # Head(batch)
    BY <2>1, <2>2 DEF FlightInv
  <2> QED BY <1>0, <1>5, <2>3 DEF ReplayItem, DenyItem, AckItemFails, Settle
<1>6. \A i \in DOMAIN queue : queue[i] # q
  BY DEF FlightInv
<1>7. Active => \A i \in DOMAIN acks : acks[i].of # q
  BY DEF FlightInv
<1>8. CASE WriteFails
  <2>1. Active /\ reply' = reply /\ Die(acks)
    BY <1>8 DEF WriteFails, Active, Die
  <2> QED BY <1>6, <1>7, <2>1 DEF Die
<1>9. CASE LoopFails
  <2>1. reply' = reply /\ Die(<<>>)
    BY <1>9 DEF LoopFails, Die
  <2> QED BY <1>6, <2>1 DEF Die
<1>10. CASE Reply
  <2>1. Active
    BY <1>10 DEF Reply, Active
  <2> QED BY <1>7, <1>10, <2>1 DEF Reply
<1>11. CASE UNCHANGED vars
  BY <1>11 DEF vars, callers
<1> QED BY <1>1, <1>2, <1>3, <1>4, <1>5, <1>8, <1>9, <1>10, <1>11 DEF Next, Loop

-----------------------------------------------------------------------------
(* The acks: those of the batch point into entries until the write, and    *)
(* into the log from then on.                                              *)

InBatch(a) == /\ a.t \in DOMAIN entries
              /\ entries[a.t].op = "tx" /\ entries[a.t].req = a.of
Backed(a) == IsWrite(a.of) => IF pc = "reply" THEN Landed(a) ELSE InBatch(a)
Rejected(r) == outcome[r] \in {"failed", "lost"}

BackedAcks ==
  Active => /\ \A i \in DOMAIN acks : Backed(acks[i])
            /\ \A p \in Pairs(batchAcks) : \E i \in DOMAIN acks : acks[i] = p.ack

HeadEntry ==
  pc = "ack" => /\ basisT \in DOMAIN entries
                /\ entries[basisT].op = OpOf(Head(batch))
                /\ entries[basisT].req = Head(batch)

\* An ack that was given is in the log, or is being given, or its own writer
\* was told of a failure.
KnownReplies ==
  \A r \in Requests : outcome[r] = "acked" =>
    /\ reply[r] \in Ack
    /\ IsWrite(reply[r].of) => \/ Landed(reply[r])
                               \/ Rejected(reply[r].of)
                               \/ Active /\ \E i \in DOMAIN acks : acks[i] = reply[r]

AckInv == RememberedIsDurable /\ BackedAcks /\ HeadEntry /\ KnownReplies

\* No ack is remembered or given in a fresh database.
LEMMA AckInit == Init => AckInv
<1> SUFFICES ASSUME Init PROVE AckInv
  OBVIOUS
<1>1. \A i \in DOMAIN <<>> : FALSE
  OBVIOUS
<1> QED BY <1>1 DEF Init, AckInv, RememberedIsDurable, BackedAcks, HeadEntry,
       KnownReplies, Active, Taking

\* RememberedIsDurable, in terms of the pairs of the maps.
LEMMA RememberedPairs ==
  RememberedIsDurable <=>
    \A map \in {recentAcks, recentOpAcks, metaAcks} :
      \A p \in Pairs(map) : IsWrite(p.ack.of) => Landed(p.ack)
BY DEF RememberedIsDurable, Pairs

\* A row stays where it is.
LEMMA LandedStays ==
  ASSUME TypeInv, LogInv, [Next]_vars, NEW a, Landed(a)
  PROVE  Landed(a)'
<1>1. \A t \in DOMAIN log : t \in DOMAIN log' /\ log'[t] = log[t]
  <2>1. CASE Write
    BY <2>1, LogWrite
  <2>2. CASE ~Write
    BY <2>2, LogChangesByWrite
  <2> QED BY <2>1, <2>2
<1> QED BY <1>1 DEF Landed

\* What the acks of the batch stand for, once the batch is written.
LEMMA BatchLands ==
  ASSUME TypeInv, LogInv, AckInv, Write
  PROVE  /\ \A i \in DOMAIN acks : \A a : a = acks[i] /\ IsWrite(a.of) => Landed(a)'
         /\ \A p \in Pairs(batchAcks) : IsWrite(p.ack.of) => Landed(p.ack)'
<1>1. pc = "write" /\ Active /\ log' = Merge(log, entries)
  BY DEF Write, Active
<1>2. \A t \in DOMAIN entries : t \in DOMAIN log' /\ log'[t] = entries[t]
  BY <1>1 DEF Merge
<1>3. ASSUME NEW a, InBatch(a) PROVE Landed(a)'
  BY <1>2, <1>3 DEF InBatch, Landed
<1>4. ASSUME NEW i \in DOMAIN acks, NEW a, a = acks[i], IsWrite(a.of) PROVE Landed(a)'
  <2>1. InBatch(a)
    BY <1>1, <1>4 DEF AckInv, BackedAcks, Backed
  <2> QED BY <1>3, <2>1
<1>5. \A p \in Pairs(batchAcks) : \E i \in DOMAIN acks : acks[i] = p.ack
  BY <1>1 DEF AckInv, BackedAcks
<1> QED BY <1>4, <1>5

\* Every map of acks holds durable acks after the step too.
LEMMA RememberedStep ==
  ASSUME TypeInv, LogInv, AckInv, [Next]_vars
  PROVE  RememberedIsDurable'
<1> DEFINE Old == Pairs(recentAcks) \cup Pairs(recentOpAcks) \cup Pairs(metaAcks)
           New == Pairs(recentAcks') \cup Pairs(recentOpAcks') \cup Pairs(metaAcks')
<1> SUFFICES \A p \in New : IsWrite(p.ack.of) => Landed(p.ack)'
  BY DEF RememberedIsDurable, Pairs
<1>0. /\ recentAcks \in AckMap /\ recentOpAcks \in AckMap /\ metaAcks \in AckMap
      /\ batchAcks \in AckMap
  BY DEF TypeInv, TypeOK
<1>1. \A p \in Old : IsWrite(p.ack.of) => Landed(p.ack)'
  <2>1. \A p \in Old : IsWrite(p.ack.of) => Landed(p.ack)
    BY RememberedPairs DEF AckInv
  <2> QED BY <2>1, LandedStays
<1>2. CASE New \subseteq Old
  BY <1>1, <1>2
<1>3. CASE Boot \/ BootFails \/ Crash \/ Discard
  <2>1. Pairs(<<>>) = {}
    BY DEF Pairs
  <2>2. New \subseteq Old
    BY <1>3, <2>1 DEF Boot, BootFrom, BootFails, Crash, Discard, Fresh, durable, memory
  <2> QED BY <1>2, <2>2
<1>4. CASE \E r \in Requests : RecordOpAck(r)
  <2>1. PICK r \in Requests : RecordOpAck(r)
    BY <1>4
  <2> DEFINE a == [t |-> basisT, of |-> r]
             one == <<[k |-> ReplayKey(r), ack |-> a]>>
  <2>2. a \in Ack /\ a.of = r /\ ~IsWrite(r)
    BY <2>1 DEF Ack, TypeInv, TypeOK, RecordOpAck, IsWrite
  <2>3. one \in AckMap /\ \A p \in Pairs(one) : p.ack = a
    BY <2>2, OnePair
  <2>4. /\ recentAcks' = RememberAll(recentAcks, one, {r})
        /\ recentOpAcks' = RememberAll(recentOpAcks, one, {r})
        /\ metaAcks' = recentOpAcks'
    BY <2>1 DEF RecordOpAck
  <2> HIDE DEF a, one
  <2>5. New \subseteq Old \cup Pairs(one)
    BY <1>0, <2>3, <2>4, RememberAllPairs
  <2> QED BY <1>1, <2>2, <2>3, <2>5
<1>5. CASE Write
  <2> DEFINE room == Len(recentOpAcks) + Len(batchAcks)
  <2>1. room \in Nat
    BY <1>0, AckMapIsSeq
  <2>2. /\ recentAcks' = recentAcks
        /\ recentOpAcks' = SetAll(recentOpAcks, batchAcks, Operations, room)
        /\ metaAcks' = metaAcks \/ metaAcks' = Newest(recentOpAcks', Limit)
    BY <1>5 DEF Write
  <2> HIDE DEF room
  <2>3. /\ recentOpAcks' \in AckMap
        /\ Pairs(recentOpAcks') \subseteq Pairs(recentOpAcks) \cup Pairs(batchAcks)
    BY <1>0, <2>1, <2>2, SetAllPairs
  <2>4. New \subseteq Old \cup Pairs(batchAcks)
    BY <2>2, <2>3, NewestPairs, BoundAssumption
  <2> QED BY <1>1, <1>5, <2>4, BatchLands
<1>6. CASE Reply
  <2>1. /\ recentAcks' = RememberAll(recentAcks, batchAcks, Requests)
        /\ recentOpAcks' = RememberAll(recentOpAcks, batchAcks, Operations)
        /\ metaAcks' = metaAcks \/ metaAcks' = recentOpAcks'
        /\ log' = log /\ pc = "reply" /\ Active
    BY <1>6 DEF Reply, Active
  <2>2. New \subseteq Old \cup Pairs(batchAcks)
    BY <1>0, <2>1, RememberAllPairs
  <2>3. \A p \in Pairs(batchAcks) : IsWrite(p.ack.of) => Landed(p.ack)
    BY <2>1 DEF AckInv, BackedAcks, Backed
  <2>4. \A p \in Pairs(batchAcks) : IsWrite(p.ack.of) => Landed(p.ack)'
    BY <2>1, <2>3 DEF Landed
  <2> QED BY <1>1, <2>2, <2>4
<1>7. CASE ~(\/ Boot \/ BootFails \/ Crash \/ Discard \/ Write \/ Reply
             \/ \E r \in Requests : RecordOpAck(r))
  <2>1. UNCHANGED <<recentAcks, recentOpAcks, metaAcks>>
    BY <1>7 DEF Next, vars, Caller, OpLookup, Transact, TransactReplay,
       ProvisionLookup, ProvisionSubmit, Refuse, Enqueue, Loop, TakeBatch, ReplayItem,
       ProvisionItem, AcceptItem, DenyItem, AckItem, AckItemFails, WriteFails,
       LoopFails, LoopAgain, Die, durable, memory
  <2> QED BY <1>2, <2>1
<1> QED BY <1>3, <1>4, <1>5, <1>6, <1>7

\* A t that the batch has not assigned.
LEMMA NextTIsNew ==
  ASSUME TypeInv, LogInv, Resolving
  PROVE  basisT \in Nat /\ basisT + 1 \notin DOMAIN entries
<1>1. PICK n \in Nat \ {0} : DOMAIN entries = (n + 1)..basisT
  BY DEF LogInv
<1>2. basisT \in Nat
  BY DEF TypeInv, TypeOK
<1> QED BY <1>1, <1>2

\* Assigning a t leaves the entries of the batch where they are.
LEMMA AssignKeeps ==
  ASSUME TypeInv, LogInv, Resolving, NEW r, NEW op, Assign(r, op)
  PROVE  /\ basisT' \in DOMAIN entries'
         /\ entries'[basisT'].op = op /\ entries'[basisT'].req = r
         /\ \A a : InBatch(a) => InBatch(a)'
<1>1. basisT \in Nat /\ basisT + 1 \notin DOMAIN entries
  BY NextTIsNew
<1> DEFINE e == [op |-> op, req |-> r, by |-> crashes]
<1>2. basisT' = basisT + 1 /\ entries' = Merge(entries, Row(basisT + 1, e))
  BY DEF Assign
<1>3. e.op = op /\ e.req = r
  OBVIOUS
<1> HIDE DEF e
<1>4. /\ basisT + 1 \in DOMAIN entries' /\ entries'[basisT + 1] = e
      /\ \A t \in DOMAIN entries : t \in DOMAIN entries' /\ entries'[t] = entries[t]
  BY <1>1, <1>2 DEF Merge, Row
<1> QED BY <1>2, <1>3, <1>4 DEF InBatch

\* The end of a request's turn: the loop is still in the batch, unless the
\* batch has assigned nothing.
LEMMA EndOfTurn ==
  ASSUME AfterItem(entries)
  PROVE  /\ pc' \in {"resolve", "write", "open", "idle"}
         /\ DOMAIN entries # {} => pc' \in {"resolve", "write"}
BY DEF AfterItem

\* Every step keeps each ack of the batch backed by an entry of the batch,
\* or of the log once it is written.
LEMMA BackedAcksStep ==
  ASSUME TypeInv, LogInv, AckInv, [Next]_vars
  PROVE  BackedAcks'
<1> USE DEF AckInv
<1>0. /\ acks \in Seq(Ack) /\ batchAcks \in AckMap /\ batch \in Seq(Requests)
      /\ Taking => batch # <<>>
  BY DEF TypeInv, TypeOK, Phases, Taking
<1>1. CASE UNCHANGED <<pc, acks, batchAcks, entries, log>>
  BY <1>1 DEF BackedAcks, Active, Taking, Pairs, Backed, InBatch, Landed
<1>2. CASE ~Active'
  BY <1>2 DEF BackedAcks
<1>3. CASE Boot \/ BootFails \/ Crash \/ Discard
  <2>1. CASE Boot \/ BootFails
    BY <1>1, <2>1 DEF Boot, BootFrom, BootFails, memory, loopVars, durable
  <2>2. CASE Crash \/ Discard
    BY <1>2, <2>2 DEF Crash, Discard, Fresh, Active, Taking
  <2> QED BY <1>3, <2>1, <2>2
<1>4. CASE \E r \in Requests : Caller(r)
  <2>1. PICK r \in Requests : Caller(r)
    BY <1>4
  <2>2. UNCHANGED <<acks, batchAcks, entries, log>>
    BY <2>1 DEF Caller, OpLookup, Transact, TransactReplay, RecordOpAck,
       ProvisionLookup, ProvisionSubmit, Refuse, Enqueue, memory, loopVars, durable
  <2>3. pc' = pc \/ pc' = "open"
    BY <2>1 DEF Caller, OpLookup, Transact, TransactReplay, RecordOpAck,
       ProvisionLookup, ProvisionSubmit, Refuse, Enqueue
  <2> QED BY <1>1, <1>2, <2>2, <2>3 DEF Active, Taking
<1>5. CASE TakeBatch
  <2>1. acks' = <<>> /\ batchAcks' = <<>>
    BY <1>5 DEF TakeBatch
  <2> QED BY <2>1 DEF BackedAcks, Pairs
<1>6. CASE ReplayItem \/ DenyItem \/ AckItemFails
  <2>1. /\ UNCHANGED <<acks, batchAcks, entries>> /\ Active /\ pc # "reply" /\ AfterItem(entries)
    BY <1>6 DEF ReplayItem, DenyItem, AckItemFails, Active, Taking
  <2>2. pc' # "reply"
    BY <2>1, EndOfTurn
  <2> QED BY <2>1, <2>2 DEF BackedAcks, Pairs, Backed, InBatch
<1>7. CASE ProvisionItem \/ AcceptItem
  <2>1. /\ UNCHANGED <<acks, batchAcks>> /\ Active /\ Resolving
        /\ pc # "reply" /\ pc' # "reply"
        /\ UNCHANGED entries \/ \E r, op : Assign(r, op)
    BY <1>7 DEF ProvisionItem, AcceptItem, Active, Taking, Resolving
  <2>2. \A a : InBatch(a) => InBatch(a)'
    <3>1. CASE UNCHANGED entries
      BY <3>1 DEF InBatch
    <3> QED BY <2>1, <3>1, AssignKeeps
  <2>3. \A a : Backed(a) => Backed(a)'
    BY <2>1, <2>2 DEF Backed
  <2>4. \A i \in DOMAIN acks' : acks'[i] = acks[i] /\ Backed(acks[i])
    BY <2>1 DEF BackedAcks
  <2>5. \A i \in DOMAIN acks' : Backed(acks[i])'
    BY <2>1, <2>3, <2>4
  <2> QED BY <2>1, <2>5 DEF BackedAcks, Pairs
<1>8. CASE AckItem
  <2> DEFINE r == Head(batch)
             a == [t |-> basisT, of |-> r]
             e == [k |-> ReplayKey(r), ack |-> a]
  <2>1. /\ pc = "ack" /\ Active /\ r \in Requests /\ AfterItem(entries) /\ basisT \in Nat
        /\ acks' = Append(acks, a) /\ UNCHANGED entries
        /\ batchAcks' = batchAcks \/ batchAcks' = MapSet(batchAcks, ReplayKey(r), a)
    BY <1>0, <1>8, HeadTail DEF AckItem, Active, Taking, TypeInv, TypeOK
  <2>2. a \in Ack /\ a.t = basisT /\ a.of = r
    BY <2>1 DEF Ack
  <2>3. IsWrite(r) => InBatch(a)
    BY <2>1, <2>2 DEF HeadEntry, InBatch, IsWrite, OpOf
  <2>4. e \in Pair /\ e.k = ReplayKey(r) /\ e.ack = a
    BY <2>1, <2>2, ReplayKeyType DEF Pair
  <2> HIDE DEF a, e
  <2>5. /\ \A i \in DOMAIN acks' : acks'[i] = a \/ (i \in DOMAIN acks /\ acks'[i] = acks[i])
        /\ \A i \in DOMAIN acks : i \in DOMAIN acks' /\ acks'[i] = acks[i]
        /\ \E i \in DOMAIN acks' : acks'[i] = a
    BY <1>0, <2>1, <2>2
  <2>6. Pairs(batchAcks') \subseteq Pairs(batchAcks) \cup {e}
    BY <1>0, <2>1, <2>4, MapSetPairs
  <2>7. pc' # "reply"
    BY <2>1, EndOfTurn
  <2>8. \A b : (IsWrite(b.of) => InBatch(b)) => Backed(b)'
    BY <2>1, <2>7 DEF Backed, InBatch
  <2>9. \A i \in DOMAIN acks : IsWrite(acks[i].of) => InBatch(acks[i])
    BY <2>1 DEF BackedAcks, Backed
  <2>10. \A i \in DOMAIN acks' : IsWrite(acks'[i].of) => InBatch(acks'[i])
    BY <2>2, <2>3, <2>5, <2>9
  <2>11. \A i \in DOMAIN acks' : \A b : b = acks'[i] => Backed(b)'
    BY <2>8, <2>10
  <2>12. \A p \in Pairs(batchAcks') : \E i \in DOMAIN acks' : acks'[i] = p.ack
    <3> SUFFICES ASSUME NEW p \in Pairs(batchAcks')
                 PROVE  \E i \in DOMAIN acks' : acks'[i] = p.ack
      OBVIOUS
    <3>1. CASE p = e
      BY <2>4, <2>5, <3>1
    <3>2. CASE p \in Pairs(batchAcks)
      BY <2>1, <2>5, <3>2 DEF BackedAcks
    <3> QED BY <2>6, <3>1, <3>2
  <2> QED BY <2>11, <2>12 DEF BackedAcks
<1>9. CASE Write
  <2>1. /\ pc' = "reply" /\ Active /\ UNCHANGED <<acks, batchAcks>>
    BY <1>9 DEF Write, loopVars, Active
  <2>2. \A i \in DOMAIN acks' : \A a : a = acks'[i] => Backed(a)'
    BY <1>9, <2>1, BatchLands DEF Backed
  <2>3. \A p \in Pairs(batchAcks') : \E i \in DOMAIN acks' : acks'[i] = p.ack
    BY <2>1 DEF BackedAcks
  <2> QED BY <2>2, <2>3 DEF BackedAcks
<1>10. CASE WriteFails \/ LoopFails \/ Reply \/ LoopAgain
  BY <1>2, <1>10 DEF WriteFails, LoopFails, Die, Reply, LoopAgain, Active, Taking
<1>11. CASE UNCHANGED vars
  BY <1>1, <1>11 DEF vars, memory, loopVars, durable
<1> QED BY <1>3, <1>4, <1>5, <1>6, <1>7, <1>8, <1>9, <1>10, <1>11 DEF Next, Loop

\* Every step keeps the newest entry that of the request about to be acked.
LEMMA HeadEntryStep ==
  ASSUME TypeInv, LogInv, AckInv, [Next]_vars
  PROVE  HeadEntry'
<1>1. CASE AcceptItem
  <2>1. Resolving /\ Assign(Head(batch), OpOf(Head(batch))) /\ batch' = batch
    BY <1>1 DEF AcceptItem, Resolving
  <2> QED BY <2>1, AssignKeeps DEF HeadEntry
<1>2. CASE ~AcceptItem
  <2>1. pc' = "ack" => pc = "ack" /\ UNCHANGED <<basisT, entries, batch>>
    <3>1. CASE Boot \/ BootFails \/ Crash \/ Discard
      BY <3>1 DEF Boot, BootFrom, BootFails, Crash, Discard, Fresh, TypeInv, Phases
    <3>2. CASE \E r \in Requests : Caller(r)
      BY <3>2 DEF Caller, OpLookup, Transact, TransactReplay, RecordOpAck, ProvisionLookup,
         ProvisionSubmit, Refuse, Enqueue, memory, loopVars
    <3>3. CASE Loop
      BY <1>2, <3>3 DEF Loop, TakeBatch, AfterItem, ReplayItem, ProvisionItem, DenyItem,
         AckItem, AckItemFails, Write, WriteFails, Reply, LoopFails, LoopAgain, Die
    <3>4. CASE UNCHANGED vars
      BY <3>4 DEF vars, memory, loopVars
    <3> QED BY <3>1, <3>2, <3>3, <3>4 DEF Next
  <2> QED BY <2>1 DEF AckInv, HeadEntry
<1> QED BY <1>1, <1>2

\* What becomes of an ack of the batch: it is kept, or it is durable by now,
\* or its own writer is told of the failure.
LEMMA AckFate ==
  ASSUME TypeInv, LogInv, FlightInv, AckInv, [Next]_vars,
         Active, NEW i \in DOMAIN acks, NEW a, a = acks[i], IsWrite(a.of)
  PROVE  \/ Landed(a)'
         \/ Rejected(a.of)'
         \/ Active' /\ \E j \in DOMAIN acks' : acks'[j] = a
<1>0. /\ acks \in Seq(Ack) /\ a \in Ack /\ a.of \in Requests /\ Backed(a)
      /\ outcome \in [Requests -> Statuses] /\ outcome[a.of] = "pending"
  <2>1. acks \in Seq(Ack) /\ outcome \in [Requests -> Statuses]
    BY DEF TypeInv, TypeOK
  <2>2. a \in Ack
    BY <2>1
  <2> QED BY <2>1, <2>2 DEF Ack, AckInv, BackedAcks, FlightInv
<1>1. CASE UNCHANGED acks /\ Active'
  BY <1>1
<1>2. CASE pc = "reply" /\ log' = log
  <2>1. Landed(a)
    BY <1>0, <1>2 DEF Backed
  <2> QED BY <2>1, LandedStays
<1>3. CASE Boot \/ BootFails
  BY <1>1, <1>3 DEF Boot, BootFrom, BootFails, memory, loopVars, Active, Taking
<1>4. CASE Crash \/ Discard
  BY <1>0, <1>4 DEF Crash, Discard, Abandon, Rejected
<1>5. CASE \E r \in Requests : Caller(r)
  <2>1. UNCHANGED acks /\ (pc' = pc \/ pc = "idle")
    BY <1>5 DEF Caller, OpLookup, Transact, TransactReplay, RecordOpAck,
       ProvisionLookup, ProvisionSubmit, Refuse, Enqueue, memory, loopVars
  <2> QED BY <1>1, <2>1 DEF Active, Taking
<1>6. CASE TakeBatch \/ LoopAgain
  BY <1>6 DEF TakeBatch, LoopAgain, Active, Taking
<1>7. CASE ReplayItem \/ DenyItem \/ AckItemFails
  <2>1. UNCHANGED acks /\ pc # "reply" /\ AfterItem(entries)
    BY <1>7 DEF ReplayItem, DenyItem, AckItemFails
  <2>2. DOMAIN entries # {}
    BY <1>0, <2>1 DEF Backed, InBatch
  <2> QED BY <1>1, <2>1, <2>2, EndOfTurn DEF Active, Taking
<1>8. CASE ProvisionItem \/ AcceptItem
  BY <1>1, <1>8 DEF ProvisionItem, AcceptItem, Active, Taking
<1>9. CASE AckItem
  <2>1. /\ pc # "reply" /\ AfterItem(entries)
        /\ acks' = Append(acks, [t |-> basisT, of |-> Head(batch)])
    BY <1>9 DEF AckItem
  <2>2. DOMAIN entries # {}
    BY <1>0, <2>1 DEF Backed, InBatch
  <2>3. i \in DOMAIN acks' /\ acks'[i] = a
    BY <1>0, <2>1
  <2> QED BY <2>1, <2>2, <2>3, EndOfTurn DEF Active, Taking
<1>10. CASE Write
  BY <1>1, <1>10 DEF Write, loopVars, Active
<1>11. CASE WriteFails
  <2>1. Die(acks)
    BY <1>11 DEF WriteFails
  <2> QED BY <1>0, <2>1 DEF Die, Rejected
<1>12. CASE LoopFails
  BY <1>2, <1>12 DEF LoopFails, Die, Active, Taking, durable
<1>13. CASE Reply
  BY <1>2, <1>13 DEF Reply
<1>14. CASE UNCHANGED vars
  BY <1>1, <1>14 DEF vars, memory, loopVars, Active, Taking
<1> QED BY <1>3, <1>4, <1>5, <1>6, <1>7, <1>8, <1>9, <1>10, <1>11, <1>12, <1>13, <1>14
        DEF Next, Loop

\* A reply that is given in this step.
LEMMA NewReply ==
  ASSUME TypeInv, LogInv, FlightInv, AckInv, [Next]_vars,
         NEW r \in Requests, outcome[r] # "acked", outcome'[r] = "acked"
  PROVE  /\ reply'[r] \in Ack
         /\ IsWrite(reply'[r].of) =>
              \/ Landed(reply'[r])
              \/ Active /\ pc # "reply" /\ \E i \in DOMAIN acks : acks[i] = reply'[r]
              \/ \E i \in DOMAIN acks : pc = "reply" /\ acks[i] = reply'[r]
<1>0. /\ outcome \in [Requests -> Statuses] /\ reply \in [Requests -> Ack \cup {NoAck}]
      /\ acks \in Seq(Ack) /\ batchAcks \in AckMap /\ recentAcks \in AckMap
      /\ recentOpAcks \in AckMap /\ basisT \in Nat
  BY DEF TypeInv, TypeOK
<1>1. /\ \A p \in Pairs(recentAcks) : IsWrite(p.ack.of) => Landed(p.ack)
      /\ \A p \in Pairs(recentOpAcks) : IsWrite(p.ack.of) => Landed(p.ack)
  BY RememberedPairs DEF AckInv
<1>2. CASE \E q \in Requests : Caller(q)
  <2>1. PICK q \in Requests : Caller(q)
    BY <1>2
  <2>2. q = r
    BY <1>0, <2>1 DEF Caller, OpLookup, Transact, TransactReplay, RecordOpAck,
       ProvisionLookup, ProvisionSubmit, Refuse, Settle, Enqueue
  <2>3. CASE OpLookup(r) \/ TransactReplay(r)
    <3>1. Remembered(r) /\ reply'[r] = RememberedAck(r)
      BY <1>0, <2>3 DEF OpLookup, TransactReplay, Settle
    <3>2. /\ RememberedAck(r) \in Ack
          /\ \E p \in Pairs(recentAcks) \cup Pairs(recentOpAcks) : p.ack = RememberedAck(r)
      BY <3>1, RememberedAckPair DEF TypeInv
    <3> QED BY <1>1, <3>1, <3>2
  <2>4. CASE RecordOpAck(r) \/ ProvisionLookup(r)
    <3>1. reply'[r] = [t |-> basisT, of |-> r] /\ ~IsWrite(r)
      BY <1>0, <2>4 DEF RecordOpAck, ProvisionLookup, Settle, IsWrite
    <3> QED BY <1>0, <3>1 DEF Ack
  <2>5. CASE Transact(r) \/ ProvisionSubmit(r) \/ Refuse(r)
    BY <1>0, <2>5 DEF Transact, ProvisionSubmit, Refuse, Enqueue
  <2> QED BY <2>1, <2>2, <2>3, <2>4, <2>5 DEF Caller
<1>3. CASE ReplayItem
  <2> DEFINE h == Head(batch)
             k == ReplayKey(h)
  <2>1. /\ k \in Keys(recentAcks) \cup Keys(batchAcks) /\ pc = "resolve" /\ Active
        /\ Settle(h, IF k \in Keys(recentAcks) THEN Lookup(recentAcks, k)
                                               ELSE Lookup(batchAcks, k))
    BY <1>3 DEF ReplayItem, Replayed, Active, Taking
  <2>2. h = r
    BY <1>0, <2>1 DEF Settle
  <2>3. CASE k \in Keys(recentAcks)
    <3>1. reply'[r] = Lookup(recentAcks, k)
      BY <1>0, <2>1, <2>2, <2>3 DEF Settle
    <3> QED BY <1>0, <1>1, <2>3, <3>1, LookupPair
  <2>4. CASE k \notin Keys(recentAcks)
    <3>1. reply'[r] = Lookup(batchAcks, k) /\ k \in Keys(batchAcks)
      BY <1>0, <2>1, <2>2, <2>4 DEF Settle
    <3>2. /\ reply'[r] \in Ack
          /\ \E p \in Pairs(batchAcks) : p.ack = reply'[r]
      BY <1>0, <3>1, LookupPair
    <3>3. \E i \in DOMAIN acks : acks[i] = reply'[r]
      BY <2>1, <3>2 DEF AckInv, BackedAcks
    <3> QED BY <2>1, <3>2, <3>3
  <2> QED BY <2>3, <2>4
<1>4. CASE Reply
  <2>1. \E i \in DOMAIN acks : acks[i].of = r
    BY <1>0, <1>4 DEF Reply
  <2> DEFINE i == CHOOSE i \in DOMAIN acks : acks[i].of = r
  <2>2. i \in DOMAIN acks /\ reply'[r] = acks[i] /\ pc = "reply"
    BY <1>4, <2>1 DEF Reply
  <2> HIDE DEF i
  <2> QED BY <1>0, <2>2
<1>5. CASE ~(Reply \/ ReplayItem \/ \E q \in Requests : Caller(q))
  <2>1. outcome'[r] # "acked"
    BY <1>0, <1>5 DEF Next, vars, Boot, BootFrom, BootFails, Crash, Discard, Abandon, Loop,
       TakeBatch, ProvisionItem, AcceptItem, DenyItem, AckItem, AckItemFails, Write,
       WriteFails, LoopFails, LoopAgain, Die, callers
  <2> QED BY <2>1
<1> QED BY <1>2, <1>3, <1>4, <1>5

\* Every step keeps each given ack durable, about to be given, or of a writer
\* that was told of a failure.
LEMMA KnownRepliesStep ==
  ASSUME TypeInv, LogInv, FlightInv, AckInv, [Next]_vars
  PROVE  KnownReplies'
<1> SUFFICES ASSUME NEW r \in Requests, outcome'[r] = "acked"
             PROVE  /\ reply'[r] \in Ack
                    /\ IsWrite(reply'[r].of) =>
                         \/ Landed(reply[r])'
                         \/ Rejected(reply[r].of)'
                         \/ Active' /\ \E i \in DOMAIN acks' : acks'[i] = reply'[r]
  BY DEF KnownReplies
<1> DEFINE a == reply'[r]
<1>1. CASE outcome[r] = "acked"
  <2>1. a = reply[r]
    BY <1>1, SettledStays
  <2>2. a \in Ack /\ a.of \in Requests
    BY <1>1, <2>1 DEF AckInv, KnownReplies, Ack
  <2>3. CASE IsWrite(a.of)
    <3>1. CASE Landed(reply[r])
      <4>1. Landed(a)
        BY <2>1, <3>1 
      <4> QED BY <2>2, <4>1, LandedStays DEF Landed
    <3>2. CASE Rejected(a.of)
      <4>1. outcome'[a.of] = outcome[a.of]
        BY <2>2, <3>2, SettledStays DEF Rejected
      <4> QED BY <2>2, <3>2, <4>1 DEF Rejected
    <3>3. CASE Active /\ \E i \in DOMAIN acks : acks[i] = a
      BY <2>2, <2>3, <3>3, AckFate DEF Landed, Rejected
    <3> QED BY <1>1, <2>1, <2>3, <3>1, <3>2, <3>3 DEF AckInv, KnownReplies
  <2> QED BY <2>2, <2>3
<1>2. CASE outcome[r] # "acked"
  <2>1. /\ a \in Ack
        /\ IsWrite(a.of) =>
             \/ Landed(a)
             \/ Active /\ pc # "reply" /\ \E i \in DOMAIN acks : acks[i] = a
             \/ \E i \in DOMAIN acks : pc = "reply" /\ acks[i] = a
    BY <1>2, NewReply
  <2>2. CASE Landed(a)
    BY <2>1, <2>2, LandedStays DEF Landed
  <2>3. CASE IsWrite(a.of) /\ Active /\ \E i \in DOMAIN acks : acks[i] = a
    BY <2>1, <2>3, AckFate DEF Landed, Rejected
  <2> QED BY <2>1, <2>2, <2>3 DEF Active
<1> QED BY <1>1, <1>2

\* Every step keeps the ack invariant.
LEMMA AckStep ==
  ASSUME TypeInv, LogInv, FlightInv, AckInv, [Next]_vars
  PROVE  AckInv'
BY RememberedStep, BackedAcksStep, HeadEntryStep, KnownRepliesStep DEF AckInv

-----------------------------------------------------------------------------
(* Theorems.                                                               *)

\* In every reachable state the variables have their types, the batch continues
\* the log, the requests in flight are where they should be and every ack is
\* backed: the inductive invariant of the commit loop.
IInv == TypeInv /\ LogInv /\ FlightInv /\ AckInv

\* Nothing in the invariant depends on how many storage calls have failed.
LEMMA FaultsAlone ==
  ASSUME IInv, faults' \in Nat,
         UNCHANGED <<durable, inst, memory, pc, callers, told, crashes>>
  PROVE  IInv'
<1>1. TypeInv'
  BY DEF IInv, TypeInv, TypeOK, Phases, durable, memory, loopVars, callers, IsDb
<1>2. LogInv'
  BY LogUntouched DEF IInv, durable, memory, loopVars, Resolving
<1>3. FlightInv'
  BY DEF IInv, FlightInv, Distinct, Taking, Active, memory, loopVars, callers
<1>4. AckInv'
  <2>1. /\ log' = log /\ metaAcks' = metaAcks /\ basisT' = basisT /\ pc' = pc
        /\ recentAcks' = recentAcks /\ recentOpAcks' = recentOpAcks
        /\ batch' = batch /\ entries' = entries /\ acks' = acks /\ batchAcks' = batchAcks
        /\ outcome' = outcome /\ reply' = reply
    BY DEF durable, memory, loopVars, callers
  <2>2. RememberedIsDurable'
    BY <2>1 DEF IInv, AckInv, RememberedIsDurable, Landed
  <2>3. BackedAcks'
    BY <2>1 DEF IInv, AckInv, BackedAcks, Active, Taking, Backed, Landed, InBatch, Pairs
  <2>4. HeadEntry'
    BY <2>1 DEF IInv, AckInv, HeadEntry
  <2>5. KnownReplies'
    BY <2>1 DEF IInv, AckInv, KnownReplies, Landed, Rejected, Active, Taking
  <2> QED BY <2>2, <2>3, <2>4, <2>5 DEF AckInv
<1> QED BY <1>1, <1>2, <1>3, <1>4 DEF IInv

\* The four parts hold in every reachable state (transactor.ts:400-533).
THEOREM Invariance == Spec => []IInv
<1>1. Init => IInv
  BY TypeInit, LogInit, FlightInit, AckInit DEF IInv
<1>2. IInv /\ [Next]_vars => IInv'
  BY TypeStep, LogStep, FlightStep, AckStep DEF IInv
<1> QED BY <1>1, <1>2, PTL DEF Spec

\* Type correctness of transactor.ts's state.
THEOREM TypeCorrect == Spec => []TypeOK
<1>1. IInv => TypeOK
  BY DEF IInv, TypeInv
<1> QED BY <1>1, Invariance, PTL

\* The durable log never has a gap (transactor.ts:12-15), whatever crashes and
\* failed writes the commit loop meets.
THEOREM LogIsDense == Spec => []DenseLog
<1>1. IInv => DenseLog
  <2> SUFFICES ASSUME LogInv PROVE DenseLog
    BY DEF IInv
  <2>1. PICK n \in Nat \ {0} : DOMAIN log = 1..n
    BY DEF LogInv
  <2>2. 1..n \in SUBSET Int /\ n \in 1..n /\ \A x \in 1..n : x <= n
    OBVIOUS
  <2>3. MaxOf(DOMAIN log) = n
    BY <2>1, <2>2, MaxOfFact
  <2> QED BY <2>1, <2>3 DEF DenseLog
<1> QED BY <1>1, Invariance, PTL

\* What a live instance reads is the durable log plus the batch being written.
THEOREM MemoryFollowsLog == Spec => []MemoryIsLogPlusBatch
<1>1. IInv => MemoryIsLogPlusBatch
  BY DEF IInv, LogInv
<1> QED BY <1>1, Invariance, PTL

\* No subscriber is ever sent an entry that is not durable.
THEOREM BroadcastsAreDurable == Spec => []BroadcastIsDurable
<1>1. IInv => BroadcastIsDurable
  BY DEF IInv, LogInv
<1> QED BY <1>1, Invariance, PTL

\* The log only grows and a durable t is never reassigned.
THEOREM LogGrows == Spec => LogOnlyGrows
<1>1. IInv /\ [Next]_vars =>
        [\A t \in DOMAIN log : t \in DOMAIN log' /\ log'[t] = log[t]]_vars
  <2> SUFFICES ASSUME TypeInv, LogInv, [Next]_vars
               PROVE  \A t \in DOMAIN log : t \in DOMAIN log' /\ log'[t] = log[t]
    BY DEF IInv
  <2>1. CASE Write
    BY <2>1, LogWrite
  <2>2. CASE ~Write
    BY <2>2, LogChangesByWrite
  <2> QED BY <2>1, <2>2
<1> QED BY <1>1, Invariance, PTL DEF Spec, LogOnlyGrows

\* Every ack a replay can be answered with is of a write in the durable log
\* (rememberAck runs after the storage transaction, transactor.ts:503).
THEOREM RememberedAcksAreDurable == Spec => []RememberedIsDurable
<1>1. IInv => RememberedIsDurable
  BY DEF IInv, AckInv
<1> QED BY <1>1, Invariance, PTL

\* The ack of a request whose original was acknowledged.
LEMMA AckBacked ==
  ASSUME IInv, NEW r \in Requests,
         outcome[r] = "acked", IsWrite(reply[r].of), outcome[reply[r].of] = "acked"
  PROVE  Landed(reply[r])
<1>1. ~Rejected(reply[r].of)
  BY DEF Rejected
<1>2. ASSUME Active, NEW i \in DOMAIN acks, acks[i] = reply[r]
      PROVE  FALSE
  <2>1. outcome[acks[i].of] = "pending"
    BY <1>2 DEF IInv, FlightInv
  <2> QED BY <1>2, <2>1
<1> QED BY <1>1, <1>2 DEF IInv, AckInv, KnownReplies

\* A write whose own promise resolved is durable at the t it was told, and so
\* is whatever its replays were told (transact, transactor.ts:323).
THEOREM AcksAreDurable == Spec => []AckIsDurable
<1>1. IInv => AckIsDurable
  BY AckBacked DEF AckIsDurable
<1> QED BY <1>1, Invariance, PTL

\* A promise settles once: neither a replay, nor the end of the batch, nor the
\* death of the instance answers again what was answered.
THEOREM PromisesSettleOnce == Spec => SettlesOnce
<1>1. IInv /\ [Next]_vars =>
        [\A r \in Requests : outcome[r] \in {"acked", "denied", "failed"} =>
           outcome'[r] = outcome[r] /\ reply'[r] = reply[r]]_vars
  BY SettledStays DEF IInv
<1> QED BY <1>1, Invariance, PTL DEF Spec, SettlesOnce

-----------------------------------------------------------------------------
(* The writer implements CommittedLog.                                     *)

answers == [r \in Requests |-> IF outcome[r] = "acked" /\ IsWrite(r) /\ reply[r].of = r
                               THEN reply[r].t ELSE 0]

\* The last t of a dense log 1..n is n.
LEMMA LastOfDense ==
  ASSUME NEW f, NEW n \in Nat \ {0}, DOMAIN f = 1..n
  PROVE  (CHOOSE t \in DOMAIN f : \A u \in DOMAIN f : u <= t) = n
<1> DEFINE c == CHOOSE t \in DOMAIN f : \A u \in DOMAIN f : u <= t
<1>1. n \in DOMAIN f /\ \A u \in DOMAIN f : u <= n
  OBVIOUS
<1>2. c \in DOMAIN f /\ \A u \in DOMAIN f : u <= c
  BY <1>1
<1>3. c <= n /\ n <= c /\ c \in Int
  BY <1>1, <1>2
<1> QED BY <1>3

\* The storage transaction of a batch is the Commit of the promise.
LEMMA WriteCommits ==
  ASSUME IInv, IInv', Write
  PROVE  Promise!Commit \/ UNCHANGED <<log, answers, told>>
<1>1. PICK n \in Nat \ {0} : DOMAIN log = 1..n
  BY DEF IInv, LogInv
<1>2. PICK m \in Nat \ {0} : DOMAIN log' = 1..m
  BY DEF IInv, LogInv
<1>3. Promise!LastT = n /\ Promise!LastT' = m
  BY <1>1, <1>2, LastOfDense DEF Promise!LastT
<1>4. \A t \in DOMAIN log : t \in DOMAIN log' /\ log'[t] = log[t]
  BY LogWrite DEF IInv
<1>5. UNCHANGED <<answers, told>>
  BY DEF Write, callers, answers
<1>6. log' \in [DOMAIN log' -> Entry] /\ log \in [DOMAIN log -> Entry]
  BY DEF IInv, TypeInv, TypeOK, IsDb
<1>7. n <= m
  <2>1. n \in 1..m
    BY <1>1, <1>2, <1>4
  <2> QED BY <2>1
<1>8. CASE n = m
  <2>1. log' = log
    BY <1>1, <1>2, <1>4, <1>6, <1>8
  <2> QED BY <1>5, <2>1
<1>9. CASE n < m
  <2>1. m > n /\ DOMAIN log' = 1..Promise!LastT'
    BY <1>2, <1>3, <1>9
  <2>2. \A t \in DOMAIN log' : log'[t] \in Entry
    BY <1>6
  <2> QED BY <1>3, <1>4, <1>5, <2>1, <2>2 DEF Promise!Commit, answers
<1> QED BY <1>1, <1>2, <1>7, <1>8, <1>9

\* The answer a request has is the t of its own row.
AnswersAreRows ==
  \A r \in Requests : answers[r] # 0 =>
    /\ answers[r] \in DOMAIN log
    /\ log[answers[r]].op = "tx" /\ log[answers[r]].req = r

\* A write that counts as answered has its own row at the t it was told.
LEMMA AnswersFact == IInv => AnswersAreRows
<1> SUFFICES ASSUME IInv, NEW r \in Requests, answers[r] # 0
             PROVE  /\ answers[r] \in DOMAIN log
                    /\ log[answers[r]].op = "tx" /\ log[answers[r]].req = r
  BY DEF AnswersAreRows
<1>1. outcome[r] = "acked" /\ IsWrite(r) /\ reply[r].of = r /\ answers[r] = reply[r].t
  BY DEF answers
<1>2. Landed(reply[r])
  BY <1>1, AckBacked
<1> QED BY <1>1, <1>2 DEF Landed

\* The same, after a step.
LEMMA AnswersStayRows == IInv' => AnswersAreRows'
BY AnswersFact, PTL

\* Every other step answers and broadcasts from the log, or is none of the
\* promise's business.
LEMMA OthersAnswer ==
  ASSUME IInv, IInv', [Next]_vars, ~Write
  PROVE  Promise!Answer
<1>1. log' = log
  BY LogChangesByWrite
<1>2. /\ answers' \in [Requests -> DOMAIN log \cup {0}]
      /\ \A r \in Requests : answers'[r] # 0 =>
           log[answers'[r]].op = "tx" /\ log[answers'[r]].req = r
  <2>1. ASSUME NEW r \in Requests, answers'[r] # 0
        PROVE  /\ answers'[r] \in DOMAIN log
               /\ log[answers'[r]].op = "tx" /\ log[answers'[r]].req = r
    BY <1>1, <2>1, AnswersStayRows DEF AnswersAreRows
  <2> QED BY <2>1 DEF answers
<1>3. \A r \in Requests : answers[r] # 0 => answers'[r] = answers[r]
  <2> SUFFICES ASSUME NEW r \in Requests, answers[r] # 0
               PROVE  answers'[r] = answers[r]
    OBVIOUS
  <2>1. outcome[r] = "acked"
    BY DEF answers
  <2>2. outcome'[r] = outcome[r] /\ reply'[r] = reply[r]
    BY <2>1, SettledStays DEF IInv
  <2> QED BY <2>2 DEF answers
<1>4. told \subseteq told'
  BY DEF Next, vars, Boot, BootFrom, BootFails, Crash, Discard, Caller, OpLookup, Transact,
     TransactReplay, RecordOpAck, ProvisionLookup, ProvisionSubmit, Refuse, Enqueue,
     Loop, TakeBatch, ReplayItem, ProvisionItem, AcceptItem, DenyItem, AckItem,
     AckItemFails, WriteFails, Reply, LoopFails, LoopAgain, Die
<1>5. \A m \in told' : m[1] \in DOMAIN log /\ log[m[1]] = m[2]
  BY <1>1 DEF IInv, LogInv, BroadcastIsDurable
<1> QED BY <1>1, <1>2, <1>3, <1>4, <1>5 DEF Promise!Answer, answers

\* Every step is one of the promise, or stutters on it.
LEMMA StepRefines ==
  ASSUME IInv, IInv', [Next]_vars
  PROVE  [Promise!Next]_(Promise!vars)
<1> SUFFICES Promise!Next \/ UNCHANGED <<log, answers, told>>
  BY DEF Promise!vars, answers
<1>1. CASE Write
  BY <1>1, WriteCommits DEF Promise!Next
<1>2. CASE ~Write
  BY <1>2, OthersAnswer DEF Promise!Next
<1> QED BY <1>1, <1>2

\* The commit loop implements the promise of the single writer
\* (transactor.ts:10-15): a batch lands entirely or not at all, at the next
\* dense t's, writers are answered and subscribers told from the durable log.
THEOREM Refinement == Spec => ImplementsCommittedLog
<1>1. Init => Promise!Init
  BY DEF Init, Promise!Init, Row
<1>2. IInv /\ IInv' /\ [Next]_vars => [Promise!Next]_(Promise!vars)
  BY StepRefines
<1> QED BY <1>1, <1>2, Invariance, PTL DEF Spec, ImplementsCommittedLog, Promise!Spec
=============================================================================
