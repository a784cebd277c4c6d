------------------------------ MODULE WireProofs ------------------------------
(***************************************************************************)
(* What Wire, with the token source (Tokens) and the isolate (Peer) it is  *)
(* built on, guarantees for every number of tasks and accounts: the token  *)
(* a reader gets is of no earlier tenant, a read is as fresh as the peer   *)
(* says, the session's principal is its socket's, and a closed session     *)
(* holds no socket.                                                        *)
(***************************************************************************)
EXTENDS Wire, FiniteSetTheorems, TLAPS

-----------------------------------------------------------------------------
(* Types.                                                                  *)

Token == [who : Accounts, gen : Nat, exp : Nat, refreshAt : Int]
Credential == [who : Accounts, exp : Nat]
Named == [who : Accounts \cup {None}, named : BOOLEAN]

TaskRecord ==
  [kind : {"none", "pin", "get", "put", "who"},
   pc : {"idle", "done", "token", "wait", "sent", "opening", "frame", "reply", "reauth",
         "auth", "provisioning", "describing", "ack", "again", "answer"},
   tries : Nat, minT : Nat, token : Credential \cup {None}, status : Nat,
   acked : Named \cup {None}]

Posts == {"get", "put", "who"}
OnSocket ==
  {"opening", "frame", "reply", "reauth", "auth", "provisioning", "describing", "ack", "again",
   "answer"}

\* What each kind of call goes through, and when it has a token in hand.
Tasks ==
  {k \in TaskRecord :
    /\ k.pc \in {"token", "sent"} => k.kind \in Posts
    /\ k.pc \in OnSocket => k.kind = "pin"
    /\ k.pc = "wait" => k.kind # "none"
    /\ k.pc = "sent" \/ (k.pc = "wait" /\ k.kind # "pin") => k.token \in Credential
    /\ k.pc \in {"auth", "provisioning", "describing"} => k.token \in Credential
    /\ k.pc = "describing" => k.acked \in Named}

Requested ==
  [route : {"read", "info", "transact"}, who : Accounts, minT : Nat,
   pc : {"arrived", "provision", "provisioned", "ask", "basis", "forward", "committed", "answered"},
   polls : Nat, t : Nat, seen : Nat, age : Int, named : BOOLEAN, status : Nat]

Mint == [epoch : Nat, who : Accounts]
Reading == [mint : Nat, got : Token \cup {None, Failed}, since : Nat]

TokenTypes ==
  /\ now \in Nat /\ account \in Accounts /\ epoch \in Nat
  /\ cached \in Token \cup {None}
  /\ minting \in [Attempts -> Mint \cup {None}]
  /\ reading \in [Readers -> Reading]
  /\ inflight \in Nat

Basis == [t : Nat, at : Nat, seen : Nat]
PeerTypes ==
  /\ written \in Nat /\ applied \in Nat
  /\ basisCache \in Basis \cup {None}
  /\ http \in [Slots -> Requested \cup {None}]

WireTypes ==
  /\ task \in [Slots -> Tasks]
  /\ socket \in Socket \cup {None}
  /\ opening \in {"no", "token", "dial"}
  /\ principal \in Named \cup {None}
  /\ fence \in Nat /\ closed \in BOOLEAN

\* Another attempt, or the end.
LEMMA TransientType ==
  ASSUME NEW k \in Tasks, k.kind # "none", k.kind = "pin" \/ k.token \in Credential
  PROVE  /\ Transient(k) \in Tasks /\ Transient(k).pc \in {"wait", "done"}
         /\ Transient(k).pc = "wait" => Transient(k).kind = k.kind
<1>1. k \in TaskRecord
  BY DEF Tasks
<1>2. Ended \in Tasks /\ Ended.pc = "done"
  BY DEF Ended, Idle, Tasks, TaskRecord, OnSocket
<1>3. CASE Transient(k) = Ended
  BY <1>2, <1>3
<1>4. CASE Transient(k) # Ended
  <2> DEFINE w == [k EXCEPT !.pc = "wait", !.tries = k.tries + 1, !.status = 0,
                            !.token = IF k.kind = "pin" THEN None ELSE k.token]
  <2>1. Transient(k) = w
    BY <1>4 DEF Transient
  <2>2. k.token \in Credential \cup {None} /\ k.tries + 1 \in Nat
    BY <1>1 DEF TaskRecord
  <2>3. w \in TaskRecord /\ w.pc = "wait" /\ w.kind = k.kind
        /\ w.token = IF k.kind = "pin" THEN None ELSE k.token
    BY <1>1, <2>2 DEF TaskRecord
  <2> HIDE DEF w
  <2>4. w \in Tasks
    BY <2>3 DEF Tasks, OnSocket
  <2> QED BY <2>1, <2>3, <2>4
<1> QED BY <1>3, <1>4

\* An ended call.
LEMMA EndedType == Ended \in Tasks /\ Ended.pc = "done"
BY DEF Ended, Idle, Tasks, TaskRecord, OnSocket

\* The tasks that a drop fails go on alone.
LEMMA FailType ==
  ASSUME WireTypes, NEW S, S \subseteq Slots,
         \A s \in S : task[s].kind = "pin", FailAll(S)
  PROVE  /\ task' \in [Slots -> Tasks]
         /\ \A s \in S : task'[s].pc \in {"wait", "done"}
         /\ \A s \in Slots \ S : task'[s] = task[s]
<1>1. \A s \in S : Transient(task[s]) \in Tasks /\ Transient(task[s]).pc \in {"wait", "done"}
  BY TransientType DEF WireTypes
<1>2. task' = [s \in Slots |-> IF s \in S THEN Transient(task[s]) ELSE task[s]]
  BY DEF FailAll
<1> QED BY <1>1, <1>2 DEF WireTypes

\* A call begins.
LEMMA CallType ==
  ASSUME WireTypes, NEW s \in Slots, NEW kind \in Posts \cup {"pin"},
         NEW pc \in {"token", "wait", "done"}, NewCall(s, kind, pc),
         pc = "token" => kind \in Posts, pc = "wait" => kind = "pin"
  PROVE  /\ task' \in [Slots -> Tasks] /\ task[s].pc \in {"idle", "done"}
         /\ task'[s].pc = pc /\ \A u \in Slots \ {s} : task'[u] = task[u]
<1>1. PICK m \in IF kind = "get" THEN {0, fence} ELSE {0} :
        task' = [task EXCEPT ![s] = [Idle EXCEPT !.kind = kind, !.pc = pc, !.minT = m,
                                     !.acked = IF kind = "who" THEN principal ELSE None]]
  BY DEF NewCall
<1> DEFINE k == [Idle EXCEPT !.kind = kind, !.pc = pc, !.minT = m,
                             !.acked = IF kind = "who" THEN principal ELSE None]
<1>2. k \in TaskRecord /\ k.pc = pc /\ k.kind = kind
  <2>1. m \in Nat /\ principal \in Named \cup {None}
    BY DEF WireTypes
  <2> QED BY <2>1 DEF Idle, TaskRecord, Posts
<1> HIDE DEF k
<1>3. k \in Tasks
  BY <1>2 DEF Tasks, OnSocket
<1>4. task' = [task EXCEPT ![s] = k]
  BY <1>1 DEF k
<1>5. task[s].pc \in {"idle", "done"}
  BY DEF NewCall
<1> QED BY <1>2, <1>3, <1>4, <1>5 DEF WireTypes

-----------------------------------------------------------------------------
(* The token source.                                                       *)

\* Each attempt under way has a reader that waits for it; what is cached, and
\* the attempt that new readers share, are of this epoch; a reader gets nothing
\* that was minted before it read.
TokenInv ==
  /\ cached # None => cached.gen = epoch
  /\ inflight # 0 => inflight \in Attempts /\ minting[inflight].epoch = epoch
  /\ \A m \in Attempts : minting[m] # None => \E r \in Readers : reading[r].mint = m
  /\ \A r \in Readers :
       /\ reading[r].since <= epoch
       /\ reading[r].mint # 0 => /\ reading[r].mint \in Attempts /\ reading[r].got = None
                                 /\ minting[reading[r].mint].epoch >= reading[r].since
       /\ reading[r].got \notin {None, Failed} => reading[r].got.gen >= reading[r].since

\* A reader that waits for nothing leaves an attempt free: the source never
\* has more mints under way than it has readers.
LEMMA FreeAttempt ==
  ASSUME TokenTypes, TokenInv, NEW r \in Readers, reading[r].mint = 0
  PROVE  \E a \in Attempts : minting[a] = None
<1> SUFFICES ASSUME \A a \in Attempts : minting[a] # None PROVE FALSE
  OBVIOUS
<1> DEFINE others == Readers \ {r}
           f == [a \in Attempts |-> CHOOSE x \in Readers : reading[x].mint = a]
<1>1. /\ IsFiniteSet(Readers) /\ Cardinality(Readers) \in Nat
      /\ IsFiniteSet(others) /\ Cardinality(others) = Cardinality(Readers) - 1
  BY TokensAssumption, FS_CardinalityType, FS_RemoveElement
<1>2. \A a \in Attempts : f[a] \in Readers /\ reading[f[a]].mint = a /\ a # 0
  BY <1>1 DEF TokenInv, Attempts
<1> HIDE DEF f
<1>3. f \in [Attempts -> others]
  BY <1>2 DEF f
<1>4. \A a, b \in Attempts : f[a] = f[b] => a = b
  BY <1>2
<1>5. f \in Injection(Attempts, others)
  BY <1>3, <1>4 DEF Injection, IsInjective
<1>6. Cardinality(Attempts) <= Cardinality(others)
  BY <1>1, <1>5, FS_Injection
<1>7. Cardinality(Attempts) = Cardinality(Readers)
  <2>1. Cardinality(1..Cardinality(Readers)) =
          IF 1 > Cardinality(Readers) THEN 0 ELSE Cardinality(Readers) - 1 + 1
    BY <1>1, FS_Interval
  <2> QED BY <1>1, <2>1 DEF Attempts
<1> QED BY <1>1, <1>6, <1>7

\* A reader gets the cached token, shares the mint under way or begins one.
LEMMA TokenRead ==
  ASSUME TokenTypes, TokenInv, NEW r \in Readers, reading[r].mint = 0, ReadToken(r),
         UNCHANGED signedIn
  PROVE  /\ TokenTypes' /\ TokenInv'
         /\ \A u \in Readers \ {r} : reading'[u] = reading[u]
<1>0. UNCHANGED <<now, account, epoch, cached>>
  BY DEF signedIn
<1>1. \A a \in Attempts : a \in Nat \ {0}
  <2>1. Cardinality(Readers) \in Nat
    BY TokensAssumption, FS_CardinalityType
  <2> QED BY <2>1 DEF Attempts
<1>2. CASE CacheIsFresh
  <2> DEFINE x == [mint |-> 0, got |-> cached, since |-> epoch]
  <2>1. reading' = [reading EXCEPT ![r] = x] /\ UNCHANGED <<inflight, minting>>
    BY <1>2 DEF ReadToken
  <2>2. cached \in Token /\ cached # None /\ epoch \in Nat /\ cached.gen = epoch
    BY <1>2 DEF CacheIsFresh, TokenTypes, TokenInv
  <2>3. x \in Reading /\ x.mint = 0 /\ x.got = cached /\ x.since = epoch
    BY <2>2 DEF Reading
  <2> HIDE DEF x
  <2>4. /\ reading' \in [Readers -> Reading] /\ reading'[r] = x
        /\ \A u \in Readers \ {r} : reading'[u] = reading[u]
    BY <2>1, <2>3 DEF TokenTypes
  <2>5. TokenTypes'
    BY <1>0, <2>1, <2>4 DEF TokenTypes
  <2>6. \A m \in Attempts : minting'[m] # None => \E u \in Readers : reading'[u].mint = m
    BY <1>1, <2>1, <2>4 DEF TokenInv
  <2>7. TokenInv'
    BY <1>0, <2>1, <2>2, <2>3, <2>4, <2>6 DEF TokenInv
  <2> QED BY <2>4, <2>5, <2>7
<1>3. CASE ~CacheIsFresh /\ inflight # 0
  <2> DEFINE x == [mint |-> inflight, got |-> None, since |-> epoch]
  <2>1. reading' = [reading EXCEPT ![r] = x] /\ UNCHANGED <<inflight, minting>>
    BY <1>3 DEF ReadToken
  <2>2. /\ inflight \in Attempts /\ minting[inflight].epoch = epoch
        /\ epoch \in Nat /\ inflight \in Nat
    BY <1>3 DEF TokenTypes, TokenInv
  <2>3. x \in Reading /\ x.mint = inflight /\ x.got = None /\ x.since = epoch
    BY <2>2 DEF Reading
  <2> HIDE DEF x
  <2>4. /\ reading' \in [Readers -> Reading] /\ reading'[r] = x
        /\ \A u \in Readers \ {r} : reading'[u] = reading[u]
    BY <2>1, <2>3 DEF TokenTypes
  <2>5. TokenTypes'
    BY <1>0, <2>1, <2>4 DEF TokenTypes
  <2>6. \A m \in Attempts : minting'[m] # None => \E u \in Readers : reading'[u].mint = m
    BY <1>1, <2>1, <2>4 DEF TokenInv
  <2>7. TokenInv'
    BY <1>0, <2>1, <2>2, <2>3, <2>4, <2>6 DEF TokenInv
  <2> QED BY <2>4, <2>5, <2>7
<1>4. CASE ~CacheIsFresh /\ inflight = 0
  <2> DEFINE m == CHOOSE a \in Attempts : minting[a] = None
             x == [mint |-> m, got |-> None, since |-> epoch]
             y == [epoch |-> epoch, who |-> account]
  <2>1. /\ reading' = [reading EXCEPT ![r] = x] /\ inflight' = m
        /\ minting' = [minting EXCEPT ![m] = y]
    BY <1>4 DEF ReadToken
  <2>2. m \in Attempts /\ minting[m] = None
    BY FreeAttempt
  <2> HIDE DEF m
  <2>3. /\ x \in Reading /\ x.mint = m /\ x.got = None /\ x.since = epoch
        /\ y \in Mint /\ y.epoch = epoch /\ epoch \in Nat
    BY <1>1, <2>2 DEF Reading, Mint, TokenTypes
  <2> HIDE DEF x, y
  <2>4. /\ reading' \in [Readers -> Reading] /\ reading'[r] = x
        /\ \A u \in Readers \ {r} : reading'[u] = reading[u]
    BY <2>1, <2>3 DEF TokenTypes
  <2>5. /\ minting' \in [Attempts -> Mint \cup {None}] /\ minting'[m] = y
        /\ \A a \in Attempts \ {m} : minting'[a] = minting[a]
    BY <2>1, <2>2, <2>3 DEF TokenTypes
  <2>6. TokenTypes'
    BY <1>0, <1>1, <2>1, <2>2, <2>4, <2>5 DEF TokenTypes
  <2>7. \A a \in Attempts : minting'[a] # None => \E u \in Readers : reading'[u].mint = a
    BY <1>1, <2>3, <2>4, <2>5 DEF TokenInv
  <2>8. \A u \in Readers : reading[u].since \in Nat /\ reading[u].since <= epoch
    BY DEF TokenTypes, TokenInv, Reading
  <2>9. \A u \in Readers :
          reading'[u].mint # 0 => /\ reading'[u].mint \in Attempts /\ reading'[u].got = None
                                  /\ minting'[reading'[u].mint].epoch >= reading'[u].since
    BY <1>0, <2>2, <2>3, <2>4, <2>5, <2>8 DEF TokenInv
  <2>10. TokenInv'
    BY <1>0, <1>1, <2>1, <2>2, <2>3, <2>4, <2>5, <2>7, <2>8, <2>9 DEF TokenInv
  <2> QED BY <2>4, <2>6, <2>10
<1> QED BY <1>2, <1>3, <1>4

\* A reader that has its token is done with it.
LEMMA TokenForget ==
  ASSUME TokenTypes, TokenInv, NEW r \in Readers, TokenReady(r), Forget(r),
         UNCHANGED <<signedIn, inflight, minting>>
  PROVE  /\ TokenTypes' /\ TokenInv'
         /\ \A u \in Readers \ {r} : reading'[u] = reading[u]
<1>0. UNCHANGED <<now, account, epoch, cached, inflight, minting>>
  BY DEF signedIn
<1>1. NotReading \in Reading /\ NotReading.mint = 0 /\ NotReading.got = None /\ NotReading.since = 0
  BY DEF NotReading, Reading
<1>2. /\ reading' \in [Readers -> Reading] /\ reading'[r] = NotReading
      /\ \A u \in Readers \ {r} : reading'[u] = reading[u]
  BY <1>1 DEF Forget, TokenTypes
<1>3. reading[r].mint = 0
  BY DEF TokenReady, TokenInv
<1>4. \A a \in Attempts : a # 0
  BY TokensAssumption, FS_CardinalityType DEF Attempts
<1>5. \A m \in Attempts : minting'[m] # None => \E u \in Readers : reading'[u].mint = m
  BY <1>0, <1>2, <1>3, <1>4 DEF TokenInv
<1>6. TokenTypes'
  BY <1>0, <1>2 DEF TokenTypes
<1>7. epoch \in Nat
  BY DEF TokenTypes
<1>8. TokenInv'
  BY <1>0, <1>1, <1>2, <1>5, <1>7 DEF TokenInv
<1> QED BY <1>2, <1>6, <1>8

\* Whoever waits for an attempt gets its answer.
LEMMA TokenResolve ==
  ASSUME TokenTypes, TokenInv, NEW m \in Attempts, minting[m] # None,
         NEW g \in Token \cup {Failed}, g # Failed => g.gen = minting[m].epoch,
         Resolve(m, g), cached' \in Token \cup {None}, cached' # None => cached'.gen = epoch,
         UNCHANGED <<now, account, epoch>>
  PROVE  /\ TokenTypes' /\ TokenInv'
         /\ \A r \in Readers : reading'[r].mint # 0 => reading[r].mint # 0
<1>0. /\ \A r \in Readers : reading[r] \in Reading
      /\ epoch \in Nat /\ 0 \notin Attempts /\ inflight \in Nat
  BY TokensAssumption, FS_CardinalityType DEF TokenTypes, Attempts
<1>1. /\ minting' \in [Attempts -> Mint \cup {None}] /\ minting'[m] = None
      /\ \A a \in Attempts \ {m} : minting'[a] = minting[a]
  BY DEF Resolve, TokenTypes
<1>2. ASSUME NEW r \in Readers
      PROVE  /\ reading'[r] \in Reading /\ reading'[r].since = reading[r].since
             /\ reading[r].mint = m => reading'[r].mint = 0 /\ reading'[r].got = g
             /\ reading[r].mint # m => reading'[r] = reading[r]
  <2> DEFINE x == [reading[r] EXCEPT !.mint = 0, !.got = g]
  <2>1. reading'[r] = IF reading[r].mint = m THEN x ELSE reading[r]
    BY DEF Resolve
  <2>2. x \in Reading /\ x.mint = 0 /\ x.got = g /\ x.since = reading[r].since
    BY <1>0 DEF Reading
  <2> HIDE DEF x
  <2> QED BY <1>0, <2>1, <2>2
<1>3. inflight' = IF inflight = m THEN 0 ELSE inflight
  BY DEF Resolve
<1>4. reading' = [r \in Readers |-> reading'[r]]
  BY DEF Resolve
<1>5. TokenTypes'
  BY <1>0, <1>1, <1>2, <1>3, <1>4 DEF TokenTypes
<1>6. \A a \in Attempts : minting'[a] # None => \E r \in Readers : reading'[r].mint = a
  BY <1>1, <1>2 DEF TokenInv
<1>7. inflight' # 0 => inflight' \in Attempts /\ minting'[inflight'].epoch = epoch'
  BY <1>1, <1>3 DEF TokenInv
<1>8. ASSUME NEW r \in Readers
      PROVE  /\ reading'[r].since <= epoch'
             /\ reading'[r].mint # 0 =>
                  /\ reading'[r].mint \in Attempts /\ reading'[r].got = None
                  /\ minting'[reading'[r].mint].epoch >= reading'[r].since
             /\ reading'[r].got \notin {None, Failed} => reading'[r].got.gen >= reading'[r].since
  <2>1. CASE reading[r].mint = m
    <3>1. minting[m].epoch >= reading[r].since
      BY <1>0, <2>1 DEF TokenInv
    <3> QED BY <1>2, <2>1, <3>1 DEF TokenInv
  <2>2. CASE reading[r].mint # m
    BY <1>1, <1>2, <2>2 DEF TokenInv
  <2> QED BY <2>1, <2>2
<1>9. TokenInv'
  BY <1>6, <1>7, <1>8 DEF TokenInv
<1> QED BY <1>0, <1>2, <1>5, <1>9

\* A mint is answered, or fails; the application signs in as another account.
LEMMA TokenMoves ==
  ASSUME TokenTypes, TokenInv, TokenStep
  PROVE  /\ TokenTypes' /\ TokenInv' /\ now' = now
         /\ \A r \in Readers : reading'[r].mint # 0 => reading[r].mint # 0
<1>1. ASSUME NEW m \in Attempts, MintAnswers(m)
      PROVE  /\ TokenTypes' /\ TokenInv' /\ now' = now
             /\ \A r \in Readers : reading'[r].mint # 0 => reading[r].mint # 0
  <2>1. /\ minting[m] \in Mint /\ minting[m] # None
        /\ now \in Nat /\ Lifetime \in Nat /\ Margin \in Nat
    BY <1>1, TokensAssumption DEF MintAnswers, TokenTypes
  <2>2. JwtOf(m) \in Token /\ JwtOf(m).gen = minting[m].epoch
    BY <2>1 DEF JwtOf, RefreshAt, Token, Mint
  <2>3. /\ cached' = IF minting[m].epoch = epoch THEN JwtOf(m) ELSE cached
        /\ Resolve(m, JwtOf(m)) /\ UNCHANGED <<now, account, epoch>>
    BY <1>1 DEF MintAnswers, CachedAfter
  <2>4. cached' \in Token \cup {None} /\ (cached' # None => cached'.gen = epoch)
    BY <2>2, <2>3 DEF TokenTypes, TokenInv
  <2> QED BY <2>1, <2>2, <2>3, <2>4, TokenResolve
<1>2. ASSUME NEW m \in Attempts, MintFailsAt(m)
      PROVE  /\ TokenTypes' /\ TokenInv' /\ now' = now
             /\ \A r \in Readers : reading'[r].mint # 0 => reading[r].mint # 0
  <2>1. minting[m] # None /\ Resolve(m, Failed) /\ UNCHANGED <<now, account, epoch, cached>>
    BY <1>2 DEF MintFailsAt, signedIn
  <2>2. cached' \in Token \cup {None} /\ (cached' # None => cached'.gen = epoch)
    BY <2>1 DEF TokenTypes, TokenInv
  <2> QED BY <2>1, <2>2, TokenResolve
<1>3. ASSUME NEW a \in Accounts, SwitchAccount(a)
      PROVE  /\ TokenTypes' /\ TokenInv' /\ now' = now
             /\ \A r \in Readers : reading'[r].mint # 0 => reading[r].mint # 0
  <2>1. /\ account' = a /\ epoch' = epoch + 1 /\ cached' = None /\ inflight' = 0
        /\ UNCHANGED <<now, minting, reading>>
    BY <1>3 DEF SwitchAccount
  <2>2. /\ epoch \in Nat
        /\ \A r \in Readers : reading[r].since \in Nat /\ reading[r].since <= epoch
    BY DEF TokenTypes, TokenInv, Reading
  <2>3. TokenTypes'
    BY <2>1, <2>2 DEF TokenTypes
  <2>4. TokenInv'
    BY <2>1, <2>2 DEF TokenInv
  <2> QED BY <2>1, <2>3, <2>4
<1> QED BY <1>1, <1>2, <1>3 DEF TokenStep

\* A reader waits for a mint only at the two places that read the token.
WaitersInv ==
  /\ \A s \in Slots : reading[s].mint # 0 => task[s].pc \in {"token", "reauth"}
  /\ reading[Dialer].mint # 0 => opening = "token"

CoreInv == TokenTypes /\ TokenInv /\ WireTypes /\ WaitersInv

\* A step that leaves the token source alone.
LEMMA TokenSame ==
  ASSUME TokenTypes, TokenInv, now' \in Nat,
         UNCHANGED <<account, epoch, cached, inflight, minting, reading>>
  PROVE  TokenTypes' /\ TokenInv'
BY DEF TokenTypes, TokenInv

\* One task moves.
LEMMA OneTask ==
  ASSUME WireTypes, NEW s \in Slots, NEW k \in Tasks, task' = [task EXCEPT ![s] = k]
  PROVE  /\ task' \in [Slots -> Tasks] /\ task'[s] = k
         /\ \A u \in Slots \ {s} : task'[u] = task[u]
BY DEF WireTypes

\* A task that moves to another place keeps what it has.
LEMMA MovedTask ==
  ASSUME NEW k \in Tasks,
         NEW pc \in {"frame", "opening", "reauth", "again", "sent", "reply", "answer",
                    "provisioning"},
         pc = "sent" => k.kind \in Posts /\ k.token \in Credential,
         pc = "provisioning" => k.token \in Credential,
         pc # "sent" => k.kind = "pin"
  PROVE  /\ [k EXCEPT !.pc = pc] \in Tasks /\ [k EXCEPT !.pc = pc].pc = pc
         /\ [k EXCEPT !.pc = pc].acked = k.acked /\ [k EXCEPT !.pc = pc].status = k.status
         /\ [k EXCEPT !.pc = pc].kind = k.kind /\ [k EXCEPT !.pc = pc].token = k.token
<1> DEFINE w == [k EXCEPT !.pc = pc]
<1>1. k \in TaskRecord
  BY DEF Tasks
<1>2. /\ w \in TaskRecord /\ w.pc = pc /\ w.kind = k.kind /\ w.token = k.token
      /\ w.acked = k.acked /\ w.status = k.status
  BY <1>1 DEF TaskRecord
<1> HIDE DEF w
<1>3. w \in Tasks
  BY <1>2 DEF Tasks, OnSocket, Posts
<1> QED BY <1>2, <1>3 DEF w

\* Who may be a reader, and what it finds in its hand.
LEMMA ReaderFacts ==
  ASSUME CoreInv
  PROVE  /\ Dialer \in Readers /\ \A s \in Slots : s \in Readers /\ s # Dialer
         /\ \A r \in Readers : TokenReady(r) => reading[r].mint = 0
         /\ \A r \in Readers : TokenReady(r) /\ ~TokenFailed(r) => TokenOf(r) \in Token
<1>1. Dialer \in Readers /\ \A s \in Slots : s \in Readers /\ s # Dialer
  BY WireAssumption
<1>2. \A r \in Readers : reading[r].got \in Token \cup {None, Failed}
  BY DEF CoreInv, TokenTypes, Reading
<1> QED BY <1>1, <1>2 DEF CoreInv, TokenInv, TokenReady, TokenFailed, TokenOf

\* Calls begin.
LEMMA CoreCall ==
  ASSUME CoreInv, NEW s \in Slots, CallPin(s) \/ CallPost(s) \/ CallWho(s)
  PROVE  CoreInv'
<1>0. UNCHANGED <<signedIn, peerVars, socket, opening, principal, fence, closed>>
  BY DEF CallPin, CallPost, CallWho, tokenVars, source
<1>2. s \in Readers /\ s # Dialer
  BY ReaderFacts
<1>3. ASSUME NEW kind \in Posts \cup {"pin"}, NEW pc \in {"token", "wait", "done"},
             NewCall(s, kind, pc), pc = "token" => kind \in Posts, pc = "wait" => kind = "pin",
             \/ pc = "token" /\ ReadToken(s)
             \/ pc # "token" /\ UNCHANGED <<inflight, minting, reading>>
      PROVE  CoreInv'
  <2>1. /\ task' \in [Slots -> Tasks] /\ task[s].pc \in {"idle", "done"}
        /\ task'[s].pc = pc /\ \A u \in Slots \ {s} : task'[u] = task[u]
    BY <1>3, CallType DEF CoreInv
  <2>2. WireTypes'
    BY <1>0, <2>1 DEF CoreInv, WireTypes
  <2>3. reading[s].mint = 0
    BY <2>1 DEF CoreInv, WaitersInv
  <2>4. /\ TokenTypes' /\ TokenInv' /\ \A u \in Readers \ {s} : reading'[u] = reading[u]
        /\ reading'[s].mint # 0 => pc = "token"
    <3>1. CASE ReadToken(s) /\ pc = "token"
      BY <1>0, <1>2, <2>3, <3>1, TokenRead DEF CoreInv
    <3>2. CASE UNCHANGED <<inflight, minting, reading>>
      BY <1>0, <2>3, <3>2, TokenSame DEF CoreInv, signedIn, TokenTypes
    <3> QED BY <1>3, <3>1, <3>2
  <2>5. WaitersInv'
    BY <1>0, <1>2, <2>1, <2>4, ReaderFacts DEF CoreInv, WaitersInv
  <2> QED BY <2>2, <2>4, <2>5 DEF CoreInv
<1>4. CASE CallPin(s)
  BY <1>3, <1>4 DEF CallPin, Posts, tokenVars, source
<1>5. CASE CallPost(s)
  BY <1>3, <1>5 DEF CallPost, Posts
<1>6. CASE CallWho(s)
  BY <1>3, <1>6 DEF CallWho, Posts
<1> QED BY <1>4, <1>5, <1>6

\* A task that neither waits for a token nor begins to.
LEMMA WaitersStay ==
  ASSUME CoreInv, task' \in [Slots -> Tasks],
         \A s \in Slots : task[s].pc \in {"token", "reauth"} => task'[s].pc = task[s].pc,
         opening = "token" => opening' = "token",
         \A r \in Readers : reading'[r].mint # 0 => reading[r].mint # 0
  PROVE  WaitersInv'
BY ReaderFacts DEF CoreInv, WaitersInv

\* An attempt is sent.
LEMMA CoreSend ==
  ASSUME CoreInv, NEW s \in Slots, Send(s)
  PROVE  CoreInv'
<1>0. UNCHANGED <<signedIn, inflight, minting, socket, opening, principal, fence, closed>>
  BY DEF Send
<1>1. s \in Readers /\ s # Dialer /\ task[s] \in Tasks
  BY ReaderFacts DEF CoreInv, WireTypes
<1>2. ASSUME NEW token, token.who \in Accounts, token.exp \in Nat, Sends(s, token),
             task[s].kind \in Posts
      PROVE  /\ task' \in [Slots -> Tasks] /\ task'[s].pc = "sent"
             /\ \A u \in Slots \ {s} : task'[u] = task[u]
  <2> DEFINE c == [who |-> token.who, exp |-> token.exp]
             w == [task[s] EXCEPT !.pc = "sent", !.token = c]
  <2>1. task' = [task EXCEPT ![s] = w]
    BY <1>2 DEF Sends
  <2>2. c \in Credential /\ task[s] \in TaskRecord
    BY <1>1, <1>2 DEF Credential, Tasks
  <2> HIDE DEF c
  <2>3. w \in TaskRecord /\ w.pc = "sent" /\ w.token = c /\ w.kind = task[s].kind
    BY <2>2 DEF TaskRecord
  <2> HIDE DEF w
  <2>4. w \in Tasks
    BY <1>2, <2>2, <2>3 DEF Tasks, OnSocket, Posts
  <2> QED BY <2>1, <2>3, <2>4, OneTask DEF CoreInv
<1>3. CASE task[s].pc = "token" /\ TokenReady(s) /\ Forget(s)
  <2>1. /\ TokenTypes' /\ TokenInv' /\ \A u \in Readers \ {s} : reading'[u] = reading[u]
    BY <1>0, <1>1, <1>3, TokenForget DEF CoreInv
  <2>2. task[s].kind \in Posts
    BY <1>1, <1>3 DEF Tasks
  <2>3. reading'[s].mint = 0
    BY <1>1, <1>3 DEF Forget, NotReading, CoreInv, TokenTypes
  <2>4. task' \in [Slots -> Tasks] /\ \A u \in Slots \ {s} : task'[u] = task[u]
    <3>1. CASE TokenFailed(s)
      <4>1. task' = [task EXCEPT ![s] = Ended]
        BY <1>3, <3>1 DEF Send
      <4> QED BY <4>1, EndedType, OneTask DEF CoreInv
    <3>2. CASE ~TokenFailed(s)
      <4>1. Sends(s, TokenOf(s)) /\ TokenOf(s) \in Token
        BY <1>1, <1>3, <3>2, ReaderFacts DEF Send
      <4> QED BY <1>2, <2>2, <4>1 DEF Token
    <3> QED BY <3>1, <3>2
  <2>5. WireTypes'
    BY <1>0, <2>4 DEF CoreInv, WireTypes
  <2>6. WaitersInv'
    BY <1>0, <1>1, <2>1, <2>3, <2>4, ReaderFacts DEF CoreInv, WaitersInv
  <2> QED BY <2>1, <2>5, <2>6 DEF CoreInv
<1>4. CASE /\ task[s].pc = "wait" /\ task[s].kind # "pin"
           /\ Sends(s, task[s].token) /\ UNCHANGED reading
  <2>1. task[s].kind \in Posts /\ task[s].token \in Credential
    BY <1>1, <1>4 DEF Tasks, TaskRecord, Posts
  <2>2. /\ task' \in [Slots -> Tasks] /\ \A u \in Slots \ {s} : task'[u] = task[u]
    BY <1>2, <1>4, <2>1 DEF Credential
  <2>3. TokenTypes' /\ TokenInv'
    BY <1>0, <1>4, TokenSame DEF CoreInv, signedIn, TokenTypes
  <2>4. WireTypes'
    BY <1>0, <2>2 DEF CoreInv, WireTypes
  <2>5. WaitersInv'
    BY <1>0, <1>4, <2>2, WaitersStay
  <2> QED BY <2>3, <2>4, <2>5 DEF CoreInv
<1> QED BY <1>3, <1>4 DEF Send

\* A request that is answered or lost.
LEMMA CoreAnswer ==
  ASSUME CoreInv, PeerTypes, NEW s \in Slots, Answer(s) \/ LoseRequest(s)
  PROVE  CoreInv'
<1>0. UNCHANGED <<source, socket, opening, principal, closed>> /\ task[s].pc = "sent"
  BY DEF Answer, LoseRequest, tokenVars
<1>1. task[s] \in Tasks /\ task[s].kind \in Posts /\ task[s].token \in Credential
  BY <1>0 DEF CoreInv, WireTypes, Tasks
<1>2. Transient(task[s]) \in Tasks /\ Ended \in Tasks
  BY <1>1, TransientType, EndedType DEF Posts
<1>3. PICK k \in Tasks : task' = [task EXCEPT ![s] = k]
  BY <1>2 DEF Answer, LoseRequest, Settle
<1>4. /\ task' \in [Slots -> Tasks] /\ \A u \in Slots \ {s} : task'[u] = task[u]
  BY <1>3, OneTask DEF CoreInv
<1>5. fence' \in Nat
  <2>1. CASE Answer(s)
    <3>1. http[s] \in Requested /\ fence \in Nat
      BY <2>1 DEF Answer, Awaits, PeerTypes, CoreInv, WireTypes
    <3>2. fence' = http[s].t \/ fence' = fence
      BY <2>1 DEF Answer
    <3> QED BY <3>1, <3>2 DEF Requested
  <2>2. CASE LoseRequest(s)
    BY <2>2 DEF LoseRequest, CoreInv, WireTypes
  <2> QED BY <2>1, <2>2
<1>6. WireTypes'
  BY <1>0, <1>4, <1>5 DEF CoreInv, WireTypes
<1>7. TokenTypes' /\ TokenInv'
  BY <1>0, TokenSame DEF CoreInv, source, signedIn, TokenTypes
<1>8. WaitersInv'
  BY <1>0, <1>4, WaitersStay DEF source
<1> QED BY <1>6, <1>7, <1>8 DEF CoreInv

\* A pinned read gets the socket, waits for it, or connects.
LEMMA CoreConnect ==
  ASSUME CoreInv, NEW s \in Slots, Connect(s)
  PROVE  CoreInv'
<1>0. /\ UNCHANGED <<signedIn, socket, principal, fence, closed>>
      /\ task[s].pc = "wait" /\ task[s].kind = "pin" /\ task[s] \in Tasks
  BY DEF Connect, CoreInv, WireTypes
<1>1. /\ Dialer \in Readers /\ opening' \in {opening, "token"}
      /\ opening = "token" => opening' = "token"
  BY ReaderFacts DEF Connect, CoreInv
<1>2. ASSUME NEW pc \in {"frame", "opening"}, Moves(s, pc)
      PROVE  task' \in [Slots -> Tasks] /\ \A u \in Slots \ {s} : task'[u] = task[u]
  <2>1. [task[s] EXCEPT !.pc = pc] \in Tasks
    BY <1>0, MovedTask
  <2>2. task' = [task EXCEPT ![s] = [task[s] EXCEPT !.pc = pc]]
    BY <1>2 DEF Moves
  <2> QED BY <2>1, <2>2, OneTask DEF CoreInv
<1>3. task' \in [Slots -> Tasks] /\ \A u \in Slots \ {s} : task'[u] = task[u]
  <2>1. CASE FailAll({s})
    BY <1>0, <2>1, FailType DEF CoreInv
  <2> QED BY <1>2, <2>1 DEF Connect
<1>4. /\ TokenTypes' /\ TokenInv'
      /\ \A r \in Readers \ {Dialer} : reading'[r] = reading[r]
      /\ reading'[Dialer].mint # 0 => opening' = "token"
  <2>1. CASE UNCHANGED <<inflight, minting, reading>>
    <3>1. TokenTypes' /\ TokenInv'
      BY <1>0, <2>1, TokenSame DEF CoreInv, signedIn, TokenTypes
    <3> QED BY <1>1, <2>1, <3>1 DEF CoreInv, WaitersInv
  <2>2. CASE opening = "no" /\ opening' = "token" /\ ReadToken(Dialer)
    <3>1. reading[Dialer].mint = 0
      BY <2>2 DEF CoreInv, WaitersInv
    <3> QED BY <1>0, <1>1, <2>2, <3>1, TokenRead DEF CoreInv
  <2> QED BY <2>1, <2>2 DEF Connect
<1>5. WireTypes'
  BY <1>0, <1>1, <1>3 DEF CoreInv, WireTypes
<1>6. \A u \in Slots : reading'[u] = reading[u]
  BY <1>4, ReaderFacts
<1>7. WaitersInv'
  BY <1>0, <1>3, <1>4, <1>6 DEF CoreInv, WaitersInv
<1> QED BY <1>4, <1>5, <1>7 DEF CoreInv

\* The tasks that some places hold are pinned reads.
LEMMA OnSocketArePins ==
  ASSUME WireTypes, NEW pcs, pcs \subseteq OnSocket
  PROVE  Waiting(pcs) \subseteq Slots /\ \A s \in Waiting(pcs) : task[s].kind = "pin"
BY DEF WireTypes, Waiting, Tasks

\* The connect has its token: it dials, or gives up.
LEMMA CoreDial ==
  ASSUME CoreInv, Dial
  PROVE  CoreInv'
<1>0. /\ UNCHANGED <<signedIn, inflight, minting, principal, fence, closed>>
      /\ opening = "token" /\ TokenReady(Dialer) /\ Forget(Dialer) /\ Dialer \in Readers
  BY ReaderFacts DEF Dial
<1>1. /\ TokenTypes' /\ TokenInv' /\ \A u \in Readers \ {Dialer} : reading'[u] = reading[u]
  BY <1>0, TokenForget DEF CoreInv
<1>2. reading'[Dialer].mint = 0
  BY <1>0 DEF Forget, NotReading, CoreInv, TokenTypes
<1>3. /\ task' \in [Slots -> Tasks] /\ socket' \in Socket \cup {None}
      /\ \A s \in Slots : task[s].pc # "opening" => task'[s] = task[s]
      /\ opening' \in {"dial", "no"}
  <2>1. CASE MayDial
    <3>1. TokenOf(Dialer) \in Token
      BY <1>0, <2>1, ReaderFacts DEF MayDial
    <3>2. socket' \in Socket
      <4>1. /\ TokenOf(Dialer).who \in Accounts /\ TokenOf(Dialer).exp \in Nat
            /\ <<>> \in Seq(Slots)
        BY <3>1 DEF Token
      <4>2. socket' = [who |-> TokenOf(Dialer).who, exp |-> TokenOf(Dialer).exp,
                       open |-> FALSE, expiring |-> FALSE, out |-> <<>>, crossed |-> FALSE]
        BY <2>1 DEF Dial
      <4> QED BY <4>1, <4>2 DEF Socket
    <3>3. task' = task /\ opening' = "dial"
      BY <2>1 DEF Dial
    <3> QED BY <3>2, <3>3 DEF CoreInv, WireTypes
  <2>2. CASE ~MayDial
    <3>1. FailAll(Waiting({"opening"})) /\ UNCHANGED socket /\ opening' = "no"
      BY <2>2 DEF Dial
    <3>2. /\ Waiting({"opening"}) \subseteq Slots
          /\ \A s \in Waiting({"opening"}) : task[s].kind = "pin"
      BY OnSocketArePins DEF CoreInv, OnSocket
    <3>3. /\ task' \in [Slots -> Tasks]
          /\ \A s \in Slots \ Waiting({"opening"}) : task'[s] = task[s]
      BY <3>1, <3>2, FailType DEF CoreInv
    <3> QED BY <3>1, <3>3 DEF Waiting, CoreInv, WireTypes
  <2> QED BY <2>1, <2>2
<1>4. WireTypes'
  BY <1>0, <1>3 DEF CoreInv, WireTypes
<1>5. \A s \in Slots : reading'[s] = reading[s]
  BY <1>1, ReaderFacts
<1>6. WaitersInv'
  BY <1>2, <1>3, <1>5 DEF CoreInv, WaitersInv
<1> QED BY <1>1, <1>4, <1>6 DEF CoreInv

\* What a drop does to the tasks.
LEMMA DropType ==
  ASSUME WireTypes, Drop
  PROVE  /\ task' \in [Slots -> Tasks]
         /\ \A s \in Slots : task'[s] = task[s] \/ task'[s].pc \in {"wait", "done"}
         /\ \A s \in Slots : task[s].pc \in {"token", "reauth"} => task'[s] = task[s]
         /\ \A s \in Slots : task[s].pc \in Pending => task'[s].pc \in {"wait", "done"}
         /\ \A s \in Slots : task'[s].pc \notin Pending
<1> DEFINE S == Waiting(FailedByDrop)
<1>1. FailAll(S)
  BY DEF Drop
<1>2. FailedByDrop \subseteq OnSocket /\ "reauth" \notin FailedByDrop /\ "token" \notin FailedByDrop
      /\ Pending \subseteq FailedByDrop
  BY DEF FailedByDrop, OnSocket, Pending, Swapping
<1>3. S \subseteq Slots /\ \A s \in S : task[s].kind = "pin"
  BY <1>2, OnSocketArePins
<1>4. /\ task' \in [Slots -> Tasks]
      /\ \A s \in S : task'[s].pc \in {"wait", "done"}
      /\ \A s \in Slots \ S : task'[s] = task[s]
  BY <1>1, <1>3, FailType
<1>5. \A s \in Slots : s \in S <=> task[s].pc \in FailedByDrop
  BY DEF Waiting
<1> HIDE DEF S
<1>6. \A s \in Slots : task[s].pc \in Pending => task'[s].pc \in {"wait", "done"}
  BY <1>2, <1>4, <1>5
<1>7. \A s \in Slots : task'[s].pc \notin Pending
  <2> TAKE s \in Slots
  <2>1. CASE s \in S
    BY <1>4, <2>1 DEF Pending, Swapping
  <2>2. CASE s \notin S
    BY <1>2, <1>4, <1>5, <2>2
  <2> QED BY <2>1, <2>2
<1> QED BY <1>2, <1>4, <1>5, <1>6, <1>7

\* The socket drops, is refused, shuts down or is closed.
LEMMA CoreDrop ==
  ASSUME CoreInv, SocketDrops \/ UpgradeRefused \/ Shutdown \/ Close
  PROVE  CoreInv'
<1>1. UNCHANGED source /\ closed' \in BOOLEAN
  BY DEF SocketDrops, UpgradeRefused, Shutdown, Close, Drop, CoreInv, WireTypes
<1>2. /\ task' \in [Slots -> Tasks]
      /\ \A s \in Slots : task[s].pc \in {"token", "reauth"} => task'[s].pc = task[s].pc
      /\ socket' \in Socket \cup {None} /\ opening' \in {opening, "no"}
      /\ opening = "token" => opening' = "token"
      /\ principal' \in Named \cup {None} /\ fence' = fence
  <2>1. CASE Drop
    <3>1. /\ task' \in [Slots -> Tasks]
          /\ \A s \in Slots : task[s].pc \in {"token", "reauth"} => task'[s] = task[s]
      BY <2>1, DropType DEF CoreInv
    <3> QED BY <2>1, <3>1 DEF Drop, WhoAfterDrop
  <2>2. CASE UNCHANGED <<task, socket, opening, principal, fence>>
    BY <2>2 DEF CoreInv, WireTypes
  <2> QED BY <2>1, <2>2 DEF SocketDrops, UpgradeRefused, Shutdown, Close
<1>3. WireTypes'
  BY <1>1, <1>2 DEF CoreInv, WireTypes
<1>4. TokenTypes' /\ TokenInv'
  BY <1>1, TokenSame DEF CoreInv, source, signedIn, TokenTypes
<1>5. WaitersInv'
  BY <1>1, <1>2, WaitersStay DEF source
<1> QED BY <1>3, <1>4, <1>5 DEF CoreInv

\* The socket opens, and what waited for it goes out.
LEMMA CoreOpens ==
  ASSUME CoreInv, socket # None, Opens
  PROVE  CoreInv'
<1>0. UNCHANGED <<source, principal, fence, closed>> /\ opening' = "no" /\ opening = "dial"
  BY DEF Opens, tokenVars
<1>1. \A s \in Slots : task'[s] = IF task[s].pc = "opening" THEN [task[s] EXCEPT !.pc = "frame"]
                                  ELSE task[s]
  BY DEF Opens
<1>2. ASSUME NEW s \in Slots
      PROVE  /\ task'[s] \in Tasks
             /\ task[s].pc \in {"token", "reauth"} => task'[s].pc = task[s].pc
  <2>1. task[s] \in Tasks
    BY DEF CoreInv, WireTypes
  <2>2. CASE task[s].pc = "opening"
    <3>1. task[s].kind = "pin"
      BY <2>1, <2>2 DEF Tasks, OnSocket
    <3>2. [task[s] EXCEPT !.pc = "frame"] \in Tasks
      BY <2>1, <3>1, MovedTask
    <3> QED BY <1>1, <2>2, <3>2
  <2> QED BY <1>1, <2>1, <2>2
<1>3. task' \in [Slots -> Tasks]
  <2>1. task' = [s \in Slots |-> task'[s]]
    BY DEF Opens
  <2> QED BY <1>2, <2>1
<1>4. socket' \in Socket \cup {None}
  <2>1. socket \in Socket /\ socket' = [socket EXCEPT !.open = TRUE]
    BY DEF Opens, CoreInv, WireTypes
  <2> QED BY <2>1 DEF Socket
<1>5. WireTypes'
  BY <1>0, <1>3, <1>4 DEF CoreInv, WireTypes
<1>6. TokenTypes' /\ TokenInv'
  BY <1>0, TokenSame DEF CoreInv, source, signedIn, TokenTypes
<1>7. WaitersInv'
  BY <1>0, <1>2, <1>3, WaitersStay DEF source
<1> QED BY <1>5, <1>6, <1>7 DEF CoreInv


\* What the replica's end does with a frame.
LEMMA ServeFacts ==
  ASSUME WireTypes, NEW s \in Slots, Serve(s)
  PROVE  /\ task[s].pc \in {"frame", "again"}
         /\ task' \in [Slots -> Tasks] /\ task'[s].pc \in {"reply", "answer"}
         /\ \A u \in Slots \ {s} : task'[u] = task[u]
         /\ socket \in Socket /\ socket' \in Socket
         /\ socket'.who = socket.who /\ socket'.out = Append(socket.out, s)
         /\ socket'.crossed = socket.crossed
<1>0. task[s].pc \in {"frame", "again"} /\ socket \in Socket /\ task[s] \in Tasks
  BY DEF Serve, WireTypes
<1>1. PICK status \in Statuses :
        /\ IF Verifies(socket) THEN Dispatched(status) ELSE status = 401 /\ UNCHANGED faults
        /\ task' = [task EXCEPT ![s].pc = IF @ = "frame" THEN "reply" ELSE "answer",
                                ![s].status = status]
        /\ socket' = [socket EXCEPT !.out = Append(@, s), !.expiring = @ \/ status = 401]
  BY DEF Serve
<1>2. PICK pc \in {"reply", "answer"} : task' = [task EXCEPT ![s].pc = pc, ![s].status = status]
  <2> DEFINE x == IF task[s].pc = "frame" THEN "reply" ELSE "answer"
  <2>1. task' = [task EXCEPT ![s].pc = x, ![s].status = status]
    BY <1>1, Zenon
  <2>2. x \in {"reply", "answer"}
    OBVIOUS
  <2> HIDE DEF x
  <2> QED BY <2>1, <2>2
<1> DEFINE w == [task[s] EXCEPT !.pc = pc, !.status = status]
<1>3. task' = [task EXCEPT ![s] = w]
  <2>1. task \in [Slots -> Tasks]
    BY DEF WireTypes
  <2> QED BY <1>2, <2>1
<1>4. w \in TaskRecord /\ w.kind = "pin" /\ w.pc = pc
  <2>1. task[s] \in TaskRecord /\ task[s].kind = "pin"
    BY <1>0 DEF Tasks, OnSocket
  <2>2. status \in Nat
    BY DEF Statuses
  <2> QED BY <2>1, <2>2 DEF TaskRecord
<1> HIDE DEF w
<1>5. w \in Tasks
  BY <1>4 DEF Tasks
<1>6. /\ socket' \in Socket /\ socket'.who = socket.who /\ socket'.out = Append(socket.out, s)
      /\ socket'.crossed = socket.crossed
  <2>1. socket.out \in Seq(Slots) /\ Append(socket.out, s) \in Seq(Slots)
    BY <1>0 DEF Socket
  <2>2. (socket.expiring \/ status = 401) \in BOOLEAN
    OBVIOUS
  <2> QED BY <1>0, <1>1, <2>1, <2>2 DEF Socket
<1> QED BY <1>0, <1>3, <1>4, <1>5, <1>6, OneTask

\* The replica's end answers a frame.
LEMMA CoreServe ==
  ASSUME CoreInv, NEW s \in Slots, Serve(s)
  PROVE  CoreInv'
<1>1. UNCHANGED <<source, opening, principal, fence, closed>>
  BY DEF Serve
<1>2. /\ task[s].pc \in {"frame", "again"} /\ task' \in [Slots -> Tasks] /\ socket' \in Socket
      /\ \A u \in Slots \ {s} : task'[u] = task[u]
  BY ServeFacts DEF CoreInv
<1>3. WireTypes'
  BY <1>1, <1>2 DEF CoreInv, WireTypes
<1>4. TokenTypes' /\ TokenInv'
  BY <1>1, TokenSame DEF CoreInv, source, signedIn, TokenTypes
<1>5. WaitersInv'
  BY <1>1, <1>2, WaitersStay DEF source
<1> QED BY <1>3, <1>4, <1>5 DEF CoreInv

\* An answer that arrives leaves the rest of the replica's end alone.
LEMMA DeliveredType ==
  ASSUME WireTypes, socket # None, socket.out # <<>>, Delivered
  PROVE  /\ socket \in Socket /\ socket' \in Socket
         /\ socket'.out = Tail(socket.out) /\ socket'.who = socket.who
         /\ socket'.crossed = socket.crossed
<1>1. socket \in Socket /\ socket' = [socket EXCEPT !.out = Tail(socket.out)]
  BY DEF WireTypes, Delivered
<1>2. socket.out \in Seq(Slots) /\ Tail(socket.out) \in Seq(Slots)
  BY <1>1 DEF Socket
<1> QED BY <1>1, <1>2 DEF Socket

\* The answer to a frame reaches its task.
LEMMA CoreReply ==
  ASSUME CoreInv, NEW s \in Slots, Reply(s)
  PROVE  CoreInv'
<1>0. /\ UNCHANGED <<signedIn, opening, principal, fence, closed>>
      /\ task[s].pc \in {"reply", "answer"} /\ task[s] \in Tasks
      /\ socket # None /\ socket.out # <<>> /\ Delivered
  BY DEF Reply, Delivers, CoreInv, WireTypes
<1>1. socket' \in Socket
  BY <1>0, DeliveredType DEF CoreInv
<1>2. task[s].kind = "pin" /\ s \in Readers /\ s # Dialer /\ reading[s].mint = 0
  BY <1>0, ReaderFacts DEF Tasks, OnSocket, CoreInv, WaitersInv
<1>3. CASE Moves(s, "reauth") /\ ReadToken(s)
  <2>1. [task[s] EXCEPT !.pc = "reauth"] \in Tasks /\ [task[s] EXCEPT !.pc = "reauth"].pc = "reauth"
    BY <1>0, <1>2, MovedTask
  <2>2. task' = [task EXCEPT ![s] = [task[s] EXCEPT !.pc = "reauth"]]
    BY <1>3 DEF Moves
  <2>3. /\ task' \in [Slots -> Tasks] /\ task'[s].pc = "reauth"
        /\ \A u \in Slots \ {s} : task'[u] = task[u]
    BY <2>1, <2>2, OneTask DEF CoreInv
  <2>4. /\ TokenTypes' /\ TokenInv' /\ \A u \in Readers \ {s} : reading'[u] = reading[u]
    BY <1>0, <1>2, <1>3, TokenRead DEF CoreInv
  <2>5. WireTypes'
    BY <1>0, <1>1, <2>3 DEF CoreInv, WireTypes
  <2>6. WaitersInv'
    BY <1>0, <1>2, <2>3, <2>4, ReaderFacts DEF CoreInv, WaitersInv
  <2> QED BY <2>4, <2>5, <2>6 DEF CoreInv
<1>4. CASE /\ task' = [task EXCEPT ![s] = Settle(task[s], task[s].status)]
           /\ UNCHANGED <<inflight, minting, reading>>
  <2>1. Settle(task[s], task[s].status) \in Tasks
    BY <1>0, <1>2, TransientType, EndedType DEF Settle
  <2>2. /\ task' \in [Slots -> Tasks] /\ \A u \in Slots \ {s} : task'[u] = task[u]
    BY <1>4, <2>1, OneTask DEF CoreInv
  <2>3. WireTypes'
    BY <1>0, <1>1, <2>2 DEF CoreInv, WireTypes
  <2>4. TokenTypes' /\ TokenInv'
    BY <1>0, <1>4, TokenSame DEF CoreInv, signedIn, TokenTypes
  <2>5. WaitersInv'
    BY <1>0, <1>4, <2>2, WaitersStay
  <2> QED BY <2>3, <2>4, <2>5 DEF CoreInv
<1> QED BY <1>3, <1>4 DEF Reply

\* The refused read has its token: an `auth` goes out, or the call fails.
LEMMA CoreReauth ==
  ASSUME CoreInv, NEW s \in Slots, Reauth(s)
  PROVE  CoreInv'
<1>0. /\ UNCHANGED <<signedIn, inflight, minting, socket, opening, principal, fence, closed>>
      /\ task[s].pc = "reauth" /\ task[s] \in Tasks /\ task[s].kind = "pin"
      /\ s \in Readers /\ TokenReady(s) /\ Forget(s)
  BY ReaderFacts DEF Reauth, CoreInv, WireTypes, Tasks, OnSocket
<1>1. /\ TokenTypes' /\ TokenInv' /\ \A u \in Readers \ {s} : reading'[u] = reading[u]
  BY <1>0, TokenForget DEF CoreInv
<1>2. reading'[s].mint = 0
  BY <1>0 DEF Forget, NotReading, CoreInv, TokenTypes
<1>3. task' \in [Slots -> Tasks] /\ \A u \in Slots \ {s} : task'[u] = task[u]
  <2>1. CASE FailAll({s})
    BY <1>0, <2>1, FailType DEF CoreInv
  <2>2. CASE ~TokenFailed(s) /\ ~FailAll({s})
    <3> DEFINE c == [who |-> TokenOf(s).who, exp |-> TokenOf(s).exp]
               w == [task[s] EXCEPT !.pc = "auth", !.token = c]
    <3>1. c \in Credential /\ task[s] \in TaskRecord
      BY <1>0, <2>2, ReaderFacts DEF Token, Credential, Tasks
    <3>2. task' = [task EXCEPT ![s] = w]
      BY <2>2 DEF Reauth
    <3> HIDE DEF c
    <3>3. w \in TaskRecord /\ w.kind = "pin" /\ w.pc = "auth" /\ w.token = c
      BY <1>0, <3>1 DEF TaskRecord
    <3> HIDE DEF w
    <3>4. w \in Tasks
      BY <3>1, <3>3 DEF Tasks
    <3> QED BY <3>2, <3>4, OneTask DEF CoreInv
  <2> QED BY <2>1, <2>2 DEF Reauth
<1>4. WireTypes'
  BY <1>0, <1>3 DEF CoreInv, WireTypes
<1>5. WaitersInv'
  BY <1>0, <1>1, <1>2, <1>3, ReaderFacts DEF CoreInv, WaitersInv
<1> QED BY <1>1, <1>4, <1>5 DEF CoreInv

\* What the replica's end does with an `auth`: the swap begins, or is refused,
LEMMA AuthFacts ==
  ASSUME WireTypes, NEW s \in Slots, Authenticate(s)
  PROVE  /\ task[s].pc = "auth" /\ task' \in [Slots -> Tasks]
         /\ \A u \in Slots \ {s} : task'[u] = task[u]
         /\ socket \in Socket /\ socket' \in Socket
         /\ \/ /\ task'[s].pc = "provisioning" /\ task'[s].token = task[s].token
               /\ socket'.out = socket.out /\ socket'.who = task[s].token.who
               /\ socket'.crossed = CrossedBy(s, task[s].token.who)
            \/ /\ task'[s].pc = "ack" /\ task'[s].status # 200
               /\ socket'.out = Append(socket.out, s)
               /\ socket'.who = socket.who /\ socket'.crossed = socket.crossed
<1> DEFINE k == task[s].token
<1>1. /\ task[s].pc = "auth" /\ socket \in Socket /\ task[s] \in TaskRecord /\ task[s] \in Tasks
      /\ task[s].kind = "pin" /\ k \in Credential /\ k.who \in Accounts /\ k.exp \in Nat
  BY DEF Authenticate, WireTypes, Tasks, OnSocket, Credential
<1>2. socket.out \in Seq(Slots) /\ Append(socket.out, s) \in Seq(Slots)
  BY <1>1 DEF Socket
<1>3. task \in [Slots -> Tasks]
  BY DEF WireTypes
<1>4. CASE Verifies(k)
  <2>1. PICK w : w = [task[s] EXCEPT !.pc = "provisioning"]
    OBVIOUS
  <2>2. task' = [task EXCEPT ![s] = w]
    BY <1>4, <2>1 DEF Authenticate, Moves
  <2>3. w \in Tasks /\ w.pc = "provisioning" /\ w.token = k
    BY <1>1, <2>1, MovedTask
  <2>4. PICK c \in BOOLEAN : c = CrossedBy(s, k.who)
    BY DEF CrossedBy
  <2>5. socket' = [socket EXCEPT !.who = k.who, !.exp = k.exp, !.crossed = c]
    BY <1>4, <2>4 DEF Authenticate
  <2> HIDE DEF k
  <2>6. /\ socket' \in Socket /\ socket'.out = socket.out /\ socket'.who = k.who
        /\ socket'.crossed = c
    BY ONLY <1>1, <2>5, c \in BOOLEAN DEF Socket
  <2>7. task' \in [Slots -> Tasks] /\ task'[s] = w /\ \A u \in Slots \ {s} : task'[u] = task[u]
    BY <2>2, <2>3, OneTask
  <2> QED BY <1>1, <2>3, <2>4, <2>6, <2>7 DEF k
<1>5. CASE ~Verifies(k)
  <2>1. PICK n \in Nat : n = 401
    OBVIOUS
  <2>2. PICK w : w = [task[s] EXCEPT !.pc = "ack", !.status = n, !.token = None]
    OBVIOUS
  <2>3. /\ task' = [task EXCEPT ![s].pc = "ack", ![s].status = n, ![s].token = None]
        /\ socket' = [socket EXCEPT !.out = Append(@, s)]
    BY <1>5, <2>1 DEF Authenticate, Refuses
  <2>4. task' = [task EXCEPT ![s] = w]
    BY ONLY <1>3, <2>2, <2>3
  <2>5. w \in TaskRecord /\ w.kind = "pin" /\ w.pc = "ack" /\ w.status = n
    BY ONLY <1>1, <2>2, n \in Nat DEF TaskRecord
  <2>6. w \in Tasks
    BY <2>5 DEF Tasks
  <2>7. /\ socket' \in Socket /\ socket'.out = Append(socket.out, s) /\ socket'.who = socket.who
        /\ socket'.crossed = socket.crossed
    BY ONLY <1>1, <1>2, <2>3 DEF Socket
  <2>8. task' \in [Slots -> Tasks] /\ task'[s] = w /\ \A u \in Slots \ {s} : task'[u] = task[u]
    BY <2>4, <2>6, OneTask
  <2> QED BY <1>1, <2>1, <2>5, <2>7, <2>8
<1> QED BY <1>4, <1>5

\* the row is there or not, and the frame's principal is the session's once more,
LEMMA ProvisionFacts ==
  ASSUME WireTypes, NEW s \in Slots, ProvisionSwap(s)
  PROVE  /\ task[s].pc = "provisioning" /\ task' \in [Slots -> Tasks]
         /\ task'[s].pc = "describing" /\ task'[s].token = task[s].token
         /\ task'[s].acked.who = task[s].token.who
         /\ \A u \in Slots \ {s} : task'[u] = task[u]
         /\ socket \in Socket /\ socket' \in Socket
         /\ socket'.out = socket.out /\ socket'.who = task[s].token.who
         /\ socket'.crossed = socket.crossed
<1> DEFINE k == task[s].token
<1>1. /\ task[s].pc = "provisioning" /\ socket \in Socket /\ task[s] \in TaskRecord
      /\ task[s].kind = "pin" /\ k \in Credential /\ k.who \in Accounts /\ k.exp \in Nat
  BY DEF ProvisionSwap, WireTypes, Tasks, OnSocket, Credential
<1>3. task \in [Slots -> Tasks]
  BY DEF WireTypes
<1>4. PICK named \in BOOLEAN :
        task' = [task EXCEPT ![s].pc = "describing", ![s].acked = [who |-> k.who, named |-> named]]
  BY DEF ProvisionSwap
<1>5. PICK a : a = [who |-> k.who, named |-> named]
  OBVIOUS
<1>6. PICK w : w = [task[s] EXCEPT !.pc = "describing", !.acked = a]
  OBVIOUS
<1>7. socket' = [socket EXCEPT !.who = k.who, !.exp = k.exp]
  BY DEF ProvisionSwap
<1>8. a \in Named /\ a.who = k.who
  BY <1>1, <1>5 DEF Named
<1>9. task' = [task EXCEPT ![s] = w]
  BY ONLY <1>3, <1>4, <1>5, <1>6
<1> HIDE DEF k
<1>10. /\ w \in TaskRecord /\ w.kind = "pin" /\ w.pc = "describing" /\ w.acked = a
       /\ w.token = task[s].token
  <2>1. a \in Named \cup {None}
    BY <1>8
  <2> QED BY ONLY <1>1, <1>6, <2>1 DEF TaskRecord
<1>11. w \in Tasks
  BY <1>1, <1>8, <1>10 DEF Tasks, k
<1>12. /\ socket' \in Socket /\ socket'.out = socket.out /\ socket'.who = k.who
       /\ socket'.crossed = socket.crossed
  BY ONLY <1>1, <1>7 DEF Socket
<1>13. task' \in [Slots -> Tasks] /\ task'[s] = w /\ \A u \in Slots \ {s} : task'[u] = task[u]
  BY <1>9, <1>11, OneTask
<1> QED BY <1>1, <1>8, <1>10, <1>12, <1>13 DEF k

\* and the principal is named in the ack.
LEMMA DescribeFacts ==
  ASSUME WireTypes, NEW s \in Slots, DescribeSwap(s)
  PROVE  /\ task[s].pc = "describing" /\ task' \in [Slots -> Tasks]
         /\ task'[s].pc = "ack" /\ task'[s].status = 200
         /\ task'[s].acked.who = task[s].acked.who
         /\ \A u \in Slots \ {s} : task'[u] = task[u]
         /\ socket \in Socket /\ socket' \in Socket
         /\ socket'.out = Append(socket.out, s) /\ socket'.who = socket.who
         /\ socket'.crossed = socket.crossed
<1>1. PICK k : k = task[s]
  OBVIOUS
<1>2. /\ k.pc = "describing" /\ socket \in Socket /\ k \in TaskRecord /\ k.kind = "pin"
      /\ k.acked \in Named
  BY <1>1 DEF DescribeSwap, WireTypes, Tasks, OnSocket
<1>3. socket.out \in Seq(Slots) /\ Append(socket.out, s) \in Seq(Slots)
  BY <1>2 DEF Socket
<1>4. PICK named \in BOOLEAN :
        task' = [task EXCEPT ![s] = [k EXCEPT !.pc = "ack", !.status = 200, !.token = None,
                                             !.acked = [who |-> k.acked.who, named |-> named]]]
  BY <1>1 DEF DescribeSwap
<1>5. PICK a : a = [who |-> k.acked.who, named |-> named]
  OBVIOUS
<1>6. a \in Named /\ a.who = k.acked.who /\ a \in Named \cup {None}
  BY <1>2, <1>5 DEF Named
<1>7. PICK n \in Nat : n = 200
  OBVIOUS
<1>8. PICK w1 : w1 = [k EXCEPT !.pc = "ack", !.status = n]
  OBVIOUS
<1>9. PICK w : w = [w1 EXCEPT !.token = None, !.acked = a]
  OBVIOUS
<1>10. w1 \in TaskRecord /\ w1.kind = "pin" /\ w1.pc = "ack" /\ w1.status = n
  BY ONLY <1>2, <1>8, n \in Nat DEF TaskRecord
<1>11. w \in TaskRecord /\ w.kind = "pin" /\ w.pc = "ack" /\ w.status = n /\ w.acked = a
  BY ONLY <1>6, <1>9, <1>10 DEF TaskRecord
<1>12. task' = [task EXCEPT ![s] = w]
  <2>1. [k EXCEPT !.pc = "ack", !.status = n, !.token = None, !.acked = a] = w
    BY ONLY <1>8, <1>9
  <2> QED BY <1>4, <1>5, <1>7, <2>1
<1>13. w \in Tasks
  BY <1>11 DEF Tasks
<1>14. /\ socket' \in Socket /\ socket'.out = Append(socket.out, s) /\ socket'.who = socket.who
       /\ socket'.crossed = socket.crossed
  <2>1. socket' = [socket EXCEPT !.out = Append(@, s)]
    BY DEF DescribeSwap
  <2> QED BY ONLY <1>2, <1>3, <2>1 DEF Socket
<1>15. task' \in [Slots -> Tasks] /\ task'[s] = w /\ \A u \in Slots \ {s} : task'[u] = task[u]
  BY <1>12, <1>13, OneTask
<1> QED BY <1>1, <1>2, <1>6, <1>7, <1>11, <1>14, <1>15

\* A swap takes a step.
LEMMA CoreSwap ==
  ASSUME CoreInv, NEW s \in Slots, Authenticate(s) \/ ProvisionSwap(s) \/ DescribeSwap(s)
  PROVE  CoreInv'
<1>1. UNCHANGED <<source, opening, principal, fence, closed>>
  BY DEF Authenticate, ProvisionSwap, DescribeSwap, tokenVars
<1>2. /\ task[s].pc \in {"auth", "provisioning", "describing"}
      /\ task' \in [Slots -> Tasks] /\ socket' \in Socket
      /\ \A u \in Slots \ {s} : task'[u] = task[u]
  BY AuthFacts, ProvisionFacts, DescribeFacts DEF CoreInv
<1>3. WireTypes'
  BY <1>1, <1>2 DEF CoreInv, WireTypes
<1>4. TokenTypes' /\ TokenInv'
  BY <1>1, TokenSame DEF CoreInv, source, signedIn, TokenTypes
<1>5. WaitersInv'
  BY <1>1, <1>2, WaitersStay DEF source
<1> QED BY <1>3, <1>4, <1>5 DEF CoreInv

\* What an ack does: the task it is for goes on, the others keep their places.
LEMMA AckFacts ==
  ASSUME WireTypes, NEW s \in Slots, Ack(s)
  PROVE  /\ task[s].pc = "ack" /\ socket # None /\ socket.out # <<>> /\ Head(socket.out) = s
         /\ task' \in [Slots -> Tasks] /\ task'[s].pc \in {"again", "done"}
         /\ \A u \in Slots \ {s} : task'[u].pc = task[u].pc /\ task'[u].status = task[u].status
         /\ \A u \in Slots \ {s} : task[u].kind = "pin" => task'[u] = task[u]
         /\ IF task[s].status = 200 THEN principal' = task[s].acked ELSE principal' = principal
<1>1. /\ task[s].pc = "ack" /\ socket # None /\ socket.out # <<>> /\ Head(socket.out) = s
      /\ task \in [Slots -> Tasks] /\ task[s] \in Tasks /\ task[s].kind = "pin"
  BY DEF Ack, Delivers, WireTypes, Tasks, OnSocket
<1>2. CASE task[s].status = 200
  <2> DEFINE g(u) == IF u = s THEN [task[s] EXCEPT !.pc = "again", !.acked = None]
                     ELSE IF task[u].kind = "who" THEN [task[u] EXCEPT !.acked = Superseded]
                     ELSE task[u]
  <2>1. task' = [u \in Slots |-> g(u)] /\ principal' = task[s].acked
    BY <1>2 DEF Ack
  <2>2. g(s) \in Tasks /\ g(s).pc = "again"
    <3> DEFINE w == [task[s] EXCEPT !.pc = "again", !.acked = None]
    <3>1. w \in TaskRecord /\ w.kind = "pin" /\ w.pc = "again"
      BY <1>1 DEF Tasks, TaskRecord
    <3> HIDE DEF w
    <3>2. w \in Tasks
      BY <3>1 DEF Tasks
    <3>3. g(s) = w
      BY DEF w
    <3> HIDE DEF g
    <3> QED BY <3>1, <3>2, <3>3
  <2>3. ASSUME NEW u \in Slots \ {s}
        PROVE  /\ g(u) \in Tasks /\ g(u).pc = task[u].pc /\ g(u).status = task[u].status
               /\ task[u].kind = "pin" => g(u) = task[u]
    <3>1. task[u] \in Tasks /\ task[u] \in TaskRecord
      BY <1>1 DEF Tasks
    <3>2. CASE task[u].kind = "who"
      <4> DEFINE w == [task[u] EXCEPT !.acked = Superseded]
      <4>1. Superseded \in Named
        BY DEF Superseded, Named
      <4>2. /\ w \in TaskRecord /\ w.kind = task[u].kind /\ w.pc = task[u].pc
            /\ w.status = task[u].status /\ w.token = task[u].token
        BY <3>1, <4>1 DEF TaskRecord
      <4>3. g(u) = w
        BY <3>2
      <4> HIDE DEF w, g
      <4>4. w \in Tasks
        BY <3>1, <3>2, <4>2 DEF Tasks, OnSocket
      <4> QED BY <3>2, <4>2, <4>3, <4>4
    <3>3. CASE task[u].kind # "who"
      <4>1. g(u) = task[u]
        BY <3>3
      <4> HIDE DEF g
      <4> QED BY <3>1, <4>1
    <3> QED BY <3>2, <3>3
  <2> HIDE DEF g
  <2> QED BY <1>1, <1>2, <2>1, <2>2, <2>3
<1>3. CASE task[s].status # 200
  <2>1. task' = [task EXCEPT ![s] = Ended] /\ principal' = principal
    BY <1>3 DEF Ack
  <2>2. /\ task' \in [Slots -> Tasks] /\ task'[s].pc = "done"
        /\ \A u \in Slots \ {s} : task'[u] = task[u]
    BY <2>1, EndedType, OneTask
  <2> QED BY <1>1, <1>3, <2>1, <2>2
<1> QED BY <1>2, <1>3

\* The ack of an `auth` arrives.
LEMMA CoreAck ==
  ASSUME CoreInv, NEW s \in Slots, Ack(s)
  PROVE  CoreInv'
<1>1. UNCHANGED <<source, opening, fence, closed>> /\ Delivered
  BY DEF Ack, tokenVars
<1>2. /\ task[s].pc = "ack" /\ task' \in [Slots -> Tasks] /\ socket # None /\ socket.out # <<>>
      /\ \A u \in Slots \ {s} : task'[u].pc = task[u].pc
      /\ principal' \in {task[s].acked, principal}
  BY AckFacts DEF CoreInv
<1>3. socket' \in Socket
  BY <1>1, <1>2, DeliveredType DEF CoreInv
<1>4. principal' \in Named \cup {None}
  <2>1. task[s] \in TaskRecord
    BY DEF CoreInv, WireTypes, Tasks
  <2> QED BY <1>2, <2>1 DEF TaskRecord, CoreInv, WireTypes
<1>5. WireTypes'
  BY <1>1, <1>2, <1>3, <1>4 DEF CoreInv, WireTypes
<1>6. TokenTypes' /\ TokenInv'
  BY <1>1, TokenSame DEF CoreInv, source, signedIn, TokenTypes
<1>7. WaitersInv'
  BY <1>1, <1>2, WaitersStay DEF source
<1> QED BY <1>5, <1>6, <1>7 DEF CoreInv

\* Steps of the peer, the replica, the clock and the token source.
LEMMA CoreElsewhere ==
  ASSUME CoreInv, UNCHANGED wireVars,
         \/ UNCHANGED source
         \/ TokenStep
         \/ Tick
  PROVE  CoreInv'
<1>1. UNCHANGED <<task, socket, opening, principal, fence, closed>>
  BY DEF wireVars
<1>2. WireTypes'
  BY <1>1 DEF CoreInv, WireTypes
<1>3. /\ TokenTypes' /\ TokenInv'
      /\ \A r \in Readers : reading'[r].mint # 0 => reading[r].mint # 0
  <2>1. CASE UNCHANGED source
    BY <2>1, TokenSame DEF CoreInv, source, signedIn, TokenTypes
  <2>2. CASE TokenStep
    BY <2>2, TokenMoves DEF CoreInv
  <2>3. CASE Tick
    <3>1. UNCHANGED <<account, epoch, cached, inflight, minting, reading>> /\ now' \in Nat
      BY <2>3 DEF Tick, CoreInv, TokenTypes
    <3> QED BY <3>1, TokenSame DEF CoreInv
  <2> QED BY <2>1, <2>2, <2>3
<1>4. WaitersInv'
  BY <1>1, <1>2, <1>3, WaitersStay DEF WireTypes
<1> QED BY <1>2, <1>3, <1>4 DEF CoreInv

\* The types and the readers of tokens, from the start,
LEMMA CoreStart == Init => CoreInv
<1> SUFFICES ASSUME Init PROVE CoreInv
  OBVIOUS
<1>1. NotReading \in Reading /\ NotReading.mint = 0 /\ NotReading.got = None /\ NotReading.since = 0
  BY DEF NotReading, Reading
<1>2. account \in Accounts
  BY TokensAssumption DEF Init, TokensInit
<1>3. TokenTypes
  BY <1>1, <1>2 DEF Init, TokensInit, TokenTypes
<1>4. \A r \in Readers : reading[r] = NotReading
  BY DEF Init, TokensInit
<1>5. TokenInv
  BY <1>1, <1>4 DEF Init, TokensInit, TokenInv
<1>6. Idle \in Tasks
  BY DEF Idle, Tasks, TaskRecord, OnSocket
<1>7. WireTypes
  BY <1>6 DEF Init, WireInit, WireTypes
<1>8. WaitersInv
  BY <1>1, <1>4, WireAssumption DEF WaitersInv
<1> QED BY <1>3, <1>5, <1>7, <1>8 DEF CoreInv

\* and through every step.
LEMMA CoreStep ==
  ASSUME CoreInv, PeerTypes, opening = "dial" => socket # None, [Next]_vars
  PROVE  CoreInv'
<1>1. CASE \E s \in Slots : CallPin(s) \/ CallPost(s) \/ CallWho(s)
  BY <1>1, CoreCall
<1>2. CASE \E s \in Slots : TaskStep(s)
  BY <1>2, CoreSend, CoreAnswer, CoreConnect, CoreServe, CoreReply, CoreReauth, CoreSwap, CoreAck
  DEF TaskStep
<1>3. CASE \E s \in Slots : LoseRequest(s)
  BY <1>3, CoreAnswer
<1>4. CASE \/ \E s \in Slots : PeerStep(s) /\ UNCHANGED <<source, wireVars>>
           \/ ReplicaApplies /\ UNCHANGED <<source, wireVars>>
           \/ TokenStep /\ UNCHANGED <<peerVars, wireVars>>
  BY <1>4, CoreElsewhere
<1>5. CASE Tick
  BY <1>5, CoreElsewhere DEF Tick
<1>6. CASE Dial \/ Opens
  <2>1. Opens => opening = "dial"
    BY DEF Opens
  <2> QED BY <1>6, <2>1, CoreDial, CoreOpens
<1>7. CASE SocketDrops \/ UpgradeRefused \/ Shutdown \/ Close
  BY <1>7, CoreDrop
<1>8. CASE UNCHANGED vars
  BY <1>8, CoreElsewhere DEF vars, tokenVars
<1> QED BY <1>1, <1>2, <1>3, <1>4, <1>5, <1>6, <1>7, <1>8 DEF Next

-----------------------------------------------------------------------------
(* The freshness of a read.                                                *)

\* A basis that is cached was on its way for a flight at most.
Recent(b) == b.seen <= b.at /\ b.at <= now /\ b.at - b.seen <= Flight

\* A basis on its way is of this flight, only a write is forwarded, and a read
\* that is answered is as fresh as the peer says.
Sound(q) ==
  /\ q.pc = "basis" => q.seen <= now /\ now - q.seen <= Flight
  /\ q.pc \in {"forward", "committed"} => q.route = "transact"
  /\ IsRead(q) => q.age < TTL + Flight /\ (q.t >= q.minT \/ q.polls > MinTRetries)

PeerInv ==
  /\ PeerTypes
  /\ basisCache # None => Recent(basisCache)
  /\ \A s \in Slots : http[s] # None => Sound(http[s])

\* An answer is the request with its status.
LEMMA AnsweredIs ==
  ASSUME NEW q \in Requested, NEW status \in Nat
  PROVE  /\ Answered(q, status) \in Requested /\ Answered(q, status).pc = "answered"
         /\ Answered(q, status).status = status /\ Answered(q, status).route = q.route
         /\ Answered(q, status).age = q.age /\ Answered(q, status).t = q.t
         /\ Answered(q, status).minT = q.minT /\ Answered(q, status).polls = q.polls
<1> DEFINE v == [q EXCEPT !.pc = "answered"]
<1>1. v \in Requested /\ v.pc = "answered" /\ v.route = q.route
  BY DEF Requested
<1>2. v.age = q.age /\ v.t = q.t /\ v.minT = q.minT /\ v.polls = q.polls
  BY DEF Requested
<1>3. Answered(q, status) = [v EXCEPT !.status = status]
  BY DEF Answered
<1> HIDE DEF v
<1> DEFINE w == [v EXCEPT !.status = status]
<1>4. w \in Requested /\ w.pc = "answered" /\ w.status = status /\ w.route = v.route
  BY <1>1 DEF Requested
<1>5. w.age = v.age /\ w.t = v.t /\ w.minT = v.minT /\ w.polls = v.polls
  BY <1>1 DEF Requested
<1> QED BY <1>1, <1>2, <1>3, <1>4, <1>5

\* The request answered with a status it has no basis for.
LEMMA RefusedIsSound ==
  ASSUME NEW q \in Requested, NEW status \in Nat \ {200}
  PROVE  Answered(q, status) \in Requested /\ Sound(Answered(q, status))
<1> DEFINE w == [q EXCEPT !.pc = "answered", !.status = status]
<1>1. w \in Requested /\ w.pc = "answered" /\ w.status = status
  BY DEF Requested
<1>2. Answered(q, status) = w
  BY DEF Answered
<1> HIDE DEF w
<1> QED BY <1>1, <1>2 DEF Sound, IsRead

\* A request that waits for something else.
LEMMA MovedIsSound ==
  ASSUME NEW q \in Requested, NEW pc \in {"provision", "provisioned", "ask", "forward"},
         pc = "forward" => q.route = "transact"
  PROVE  [q EXCEPT !.pc = pc] \in Requested /\ Sound([q EXCEPT !.pc = pc])
<1> DEFINE w == [q EXCEPT !.pc = pc]
<1>1. w \in Requested /\ w.pc = pc /\ w.route = q.route
  BY DEF Requested
<1> HIDE DEF w
<1>2. w \in Requested /\ Sound(w)
  BY <1>1 DEF Sound, IsRead
<1> QED BY <1>2 DEF w

\* A request that gets a basis young enough.
LEMMA UsedIsSound ==
  ASSUME now \in Nat, NEW q \in Requested, NEW t \in Nat, NEW seen \in Nat,
         now - seen < TTL + Flight, t >= q.minT \/ q.polls > MinTRetries,
         NEW u \in UseBasis(q, t, seen)
  PROVE  u \in Requested /\ Sound(u)
<1> DEFINE age == now - seen
           b == [q EXCEPT !.t = t, !.seen = 0, !.age = age]
<1>0. age \in Int /\ age < TTL + Flight
  OBVIOUS
<1> HIDE DEF age
<1>1. /\ b \in Requested /\ b.age = age /\ b.t = t
      /\ b.minT = q.minT /\ b.polls = q.polls /\ b.route = q.route
  BY <1>0 DEF Requested
<1>2. q.route \in {"read", "info", "transact"}
  BY DEF Requested
<1>3. u \in CASE q.route = "read" -> ReadsAt(b)
              [] q.route = "info" -> Describes(b)
              [] q.route = "transact" -> Checks(b)
  BY DEF UseBasis, age
<1> HIDE DEF b
<1>4. ASSUME NEW n \in BOOLEAN, u = Answered([b EXCEPT !.named = n], 200)
      PROVE  u \in Requested /\ Sound(u)
  <2> DEFINE c == [b EXCEPT !.named = n]
             w == [c EXCEPT !.pc = "answered", !.status = 200]
  <2>1. c \in Requested /\ c.age = b.age /\ c.t = b.t /\ c.minT = b.minT /\ c.polls = b.polls
    BY <1>1 DEF Requested
  <2>2. u = w
    BY <1>4 DEF Answered
  <2> HIDE DEF c
  <2>3. /\ w \in Requested /\ w.pc = "answered" /\ w.age = c.age /\ w.t = c.t
        /\ w.minT = c.minT /\ w.polls = c.polls
    <3>1. w = Answered(c, 200) /\ 200 \in Nat
      BY DEF Answered
    <3> HIDE DEF w
    <3>2. c \in Requested
      BY <2>1
    <3>3. w \in Requested
      BY ONLY <3>1, <3>2, AnsweredIs
    <3>4. w.pc = "answered"
      BY ONLY <3>1, <3>2, AnsweredIs
    <3>5. w.age = c.age
      BY ONLY <3>1, <3>2, AnsweredIs
    <3>6. w.t = c.t
      BY ONLY <3>1, <3>2, AnsweredIs
    <3>7. w.minT = c.minT /\ w.polls = c.polls
      BY ONLY <3>1, <3>2, AnsweredIs
    <3> QED BY ONLY <3>3, <3>4, <3>5, <3>6, <3>7
  <2> HIDE DEF w
  <2> QED BY <1>0, <1>1, <2>1, <2>2, <2>3 DEF Sound, IsRead
<1>5. Answered(b, 200) = Answered([b EXCEPT !.named = b.named], 200) /\ b.named \in BOOLEAN
  <2>1. [b EXCEPT !.named = b.named] = b /\ b.named \in BOOLEAN
    BY <1>1 DEF Requested
  <2> QED BY <2>1
<1>6. CASE q.route = "read"
  BY <1>3, <1>4, <1>5, <1>6 DEF ReadsAt
<1>7. CASE q.route = "info"
  <2>1. (b.named \/ rows[b.who] \in 1..b.t) \in BOOLEAN
    OBVIOUS
  <2> QED BY <1>3, <1>4, <1>7, <2>1 DEF Describes
<1>8. CASE q.route = "transact"
  <2>1. u \in {Answered(b, 403), Answered(b, 200), [b EXCEPT !.pc = "forward"]}
    BY <1>3, <1>8 DEF Checks
  <2>2. CASE u = Answered(b, 403)
    BY <1>1, <2>2, RefusedIsSound
  <2>3. CASE u = Answered(b, 200)
    BY <1>4, <1>5, <2>3
  <2>4. CASE u = [b EXCEPT !.pc = "forward"]
    BY <1>1, <1>8, <2>4, MovedIsSound
  <2> QED BY <2>1, <2>2, <2>3, <2>4
<1> QED BY <1>2, <1>6, <1>7, <1>8

\* A request that looks for a basis finds a cached one, or asks.
LEMMA LookIsSound ==
  ASSUME PeerInv, now \in Nat, NEW q \in Requested, NEW u \in Look(q)
  PROVE  u \in Requested /\ Sound(u)
<1>1. CASE Serves(basisCache, q)
  <2>1. /\ basisCache \in Basis /\ Recent(basisCache)
        /\ now - basisCache.at < TTL /\ basisCache.t >= q.minT
    BY <1>1 DEF Serves, PeerInv, PeerTypes
  <2>2. TTL \in Nat /\ Flight \in Nat
    BY PeerAssumption
  <2>3. /\ basisCache.t \in Nat /\ basisCache.seen \in Nat /\ basisCache.at \in Nat
        /\ now - basisCache.seen < TTL + Flight
    BY <2>1, <2>2 DEF Basis, Recent
  <2>4. u \in UseBasis(q, basisCache.t, basisCache.seen)
    BY <1>1 DEF Look
  <2> QED BY <2>1, <2>3, <2>4, UsedIsSound
<1>2. CASE ~Serves(basisCache, q)
  <2>1. u = [q EXCEPT !.pc = "ask"]
    BY <1>2 DEF Look
  <2> QED BY <2>1, MovedIsSound
<1> QED BY <1>1, <1>2

\* A request as it arrives.
LEMMA ArrivalIsSound ==
  ASSUME PeerInv, now \in Nat, NEW route \in {"read", "info", "transact"},
         NEW token, token.who \in Accounts, NEW minT \in Nat,
         NEW u \in Arrive(Request(route, token, minT), token)
  PROVE  u \in Requested /\ Sound(u)
<1> DEFINE q == Request(route, token, minT)
<1>1. q \in Requested
  BY DEF Request, Requested
<1> HIDE DEF q
<1>2. CASE ~Verifies(token)
  <2>1. u = Answered(q, 401) /\ 401 \in Nat \ {200}
    BY <1>2 DEF Arrive, q
  <2> QED BY <1>1, <2>1, RefusedIsSound
<1>3. CASE Verifies(token) /\ q.who \in provisioned
  <2> DEFINE w == [q EXCEPT !.named = TRUE]
  <2>1. u \in Look(w)
    BY <1>3 DEF Arrive, Established, q
  <2>2. w \in Requested
    BY <1>1 DEF Requested
  <2> HIDE DEF w
  <2> QED BY <2>1, <2>2, LookIsSound
<1>4. CASE Verifies(token) /\ q.who \notin provisioned
  <2>1. u = [q EXCEPT !.pc = "provision"]
    BY <1>4 DEF Arrive, Established, q
  <2> QED BY <1>1, <2>1, MovedIsSound
<1> QED BY <1>2, <1>3, <1>4

\* One request moves, and the cache is emptied, filled or left alone.
LEMMA Placed ==
  ASSUME PeerInv, now' = now, NEW s \in Slots, NEW u \in Requested \cup {None},
         u # None => Sound(u), Goes(s, u), written' \in Nat, applied' \in Nat,
         basisCache' \in Basis \cup {None}, basisCache' # None => Recent(basisCache')
  PROVE  PeerInv'
<1>1. /\ http' \in [Slots -> Requested \cup {None}] /\ http'[s] = u
      /\ \A r \in Slots \ {s} : http'[r] = http[r]
  BY DEF Goes, PeerInv, PeerTypes
<1>2. PeerTypes'
  BY <1>1 DEF PeerTypes
<1>3. basisCache' # None => Recent(basisCache)'
  BY DEF Recent
<1>4. \A r \in Slots : http'[r] # None => Sound(http[r])'
  BY <1>1 DEF PeerInv, Sound, IsRead
<1> QED BY <1>2, <1>3, <1>4 DEF PeerInv

\* The writer commits a row, or has it.
LEMMA UpsertType ==
  ASSUME PeerInv, NEW a, Upsert(a)
  PROVE  written' \in Nat
BY DEF Upsert, PeerInv, PeerTypes

\* A request takes a step.
LEMMA PeerStepIsSound ==
  ASSUME PeerInv, now \in Nat, now' = now, NEW s \in Slots, PeerStep(s)
  PROVE  PeerInv'
<1>0. /\ written \in Nat /\ applied \in Nat /\ basisCache \in Basis \cup {None}
      /\ basisCache # None => Recent(basisCache)
      /\ http[s] \in Requested \cup {None} /\ (http[s] # None => Sound(http[s]))
  BY DEF PeerInv, PeerTypes
<1>q. PICK q : q = http[s]
  OBVIOUS
<1>1. CASE Provision(s)
  <2>1. q \in Requested /\ Goes(s, [q EXCEPT !.pc = "provisioned"]) /\ written' \in Nat
        /\ UNCHANGED <<applied, basisCache>>
    BY <1>0, <1>1, <1>q, UpsertType DEF Provision, Awaits
  <2>2. [q EXCEPT !.pc = "provisioned"] \in Requested /\ Sound([q EXCEPT !.pc = "provisioned"])
    BY <2>1, MovedIsSound
  <2> QED BY <1>0, <2>1, <2>2, Placed
<1>2. CASE Provisioned(s)
  <2> DEFINE w == [q EXCEPT !.pc = "ask", !.named = TRUE]
  <2>1. q \in Requested /\ Goes(s, w) /\ basisCache' = None /\ UNCHANGED <<written, applied>>
    BY <1>0, <1>2, <1>q DEF Provisioned, Awaits, Remembers
  <2>2. w \in Requested /\ w.pc = "ask"
    BY <2>1 DEF Requested
  <2> HIDE DEF w
  <2>3. Sound(w)
    BY <2>2 DEF Sound, IsRead
  <2> QED BY <1>0, <2>1, <2>2, <2>3, Placed
<1>3. CASE ProvisionFails(s)
  <2>1. /\ q \in Requested /\ \E u \in Look(q) : Goes(s, u)
        /\ UNCHANGED <<written, applied, basisCache>>
    BY <1>0, <1>3, <1>q DEF ProvisionFails
  <2>2. PICK u \in Look(q) : Goes(s, u)
    BY <2>1
  <2>3. u \in Requested /\ Sound(u)
    BY <2>1, LookIsSound
  <2> QED BY <1>0, <2>1, <2>2, <2>3, Placed
<1>4. CASE AskReplica(s)
  <2> DEFINE polls == q.polls + 1
             w == [q EXCEPT !.pc = "basis", !.t = applied, !.seen = now, !.polls = polls]
  <2>1. q \in Requested /\ Goes(s, w) /\ UNCHANGED <<written, applied, basisCache>>
    BY <1>0, <1>4, <1>q DEF AskReplica, Awaits
  <2>2. polls \in Nat
    BY <2>1 DEF Requested
  <2> HIDE DEF polls
  <2>3. w \in Requested /\ w.pc = "basis" /\ w.seen = now
    BY <1>0, <2>1, <2>2 DEF Requested
  <2> HIDE DEF w
  <2>4. Sound(w)
    <3>1. now - now <= Flight
      BY PeerAssumption
    <3> QED BY <2>3, <3>1 DEF Sound, IsRead
  <2> QED BY <1>0, <2>1, <2>3, <2>4, Placed
<1>5. CASE ReplicaRefuses(s)
  <2>1. /\ q \in Requested /\ UNCHANGED <<written, applied, basisCache>>
        /\ \/ q.route = "transact" /\ Goes(s, [q EXCEPT !.pc = "forward"])
           \/ Goes(s, Answered(q, 500))
    BY <1>0, <1>5, <1>q DEF ReplicaRefuses, Awaits
  <2>2. 500 \in Nat \ {200}
    OBVIOUS
  <2>3. Answered(q, 500) \in Requested /\ Sound(Answered(q, 500))
    BY <2>1, <2>2, RefusedIsSound
  <2>4. q.route = "transact" =>
          [q EXCEPT !.pc = "forward"] \in Requested /\ Sound([q EXCEPT !.pc = "forward"])
    BY <2>1, MovedIsSound
  <2>5. PICK u \in Requested : Sound(u) /\ Goes(s, u)
    BY <2>1, <2>3, <2>4
  <2> QED BY <1>0, <2>1, <2>5, Placed
<1>6. CASE BasisComes(s)
  <2>1. q # None /\ q \in Requested /\ q.pc = "basis" /\ UNCHANGED <<written, applied>>
    BY <1>0, <1>6, <1>q DEF BasisComes, Awaits
  <2>2. /\ q.seen <= now /\ now - q.seen <= Flight /\ q.seen \in Nat /\ q.t \in Nat
        /\ q.minT \in Nat /\ q.polls \in Nat
    BY <1>0, <1>q, <2>1 DEF Sound, Requested
  <2>3. CASE q.t < q.minT /\ q.polls <= MinTRetries
    <3>1. Goes(s, [q EXCEPT !.pc = "ask"]) /\ UNCHANGED basisCache
      BY <1>6, <1>q, <2>3 DEF BasisComes
    <3>2. [q EXCEPT !.pc = "ask"] \in Requested /\ Sound([q EXCEPT !.pc = "ask"])
      BY <2>1, MovedIsSound
    <3> QED BY <1>0, <2>1, <3>1, <3>2, Placed
  <2>4. CASE ~(q.t < q.minT /\ q.polls <= MinTRetries)
    <3>1. basisCache' = CacheAfter(q) /\ \E u \in UseBasis(q, q.t, q.seen) : Goes(s, u)
      BY <1>6, <1>q, <2>4 DEF BasisComes
    <3>2. PICK u \in UseBasis(q, q.t, q.seen) : Goes(s, u)
      BY <3>1
    <3>3. TTL \in Nat /\ TTL > 0 /\ Flight \in Nat /\ MinTRetries \in Nat
      BY PeerAssumption
    <3>4. u \in Requested /\ Sound(u)
      BY <2>1, <2>2, <2>4, <3>3, UsedIsSound
    <3>5. basisCache' \in Basis \cup {None} /\ (basisCache' # None => Recent(basisCache'))
      <4> DEFINE b == [t |-> q.t, at |-> now, seen |-> q.seen]
      <4>1. b \in Basis /\ Recent(b)
        BY <2>2 DEF Basis, Recent
      <4>2. basisCache' \in {b, basisCache}
        BY <3>1 DEF CacheAfter
      <4> HIDE DEF b
      <4> QED BY <1>0, <4>1, <4>2
    <3> QED BY <1>0, <2>1, <3>2, <3>4, <3>5, Placed
  <2> QED BY <2>3, <2>4
<1>7. CASE WriterCommits(s)
  <2> DEFINE t == written + 1
             w == [q EXCEPT !.pc = "committed", !.t = t]
  <2>1. /\ q # None /\ q \in Requested /\ q.pc = "forward" /\ Goes(s, w) /\ written' = t
        /\ UNCHANGED <<applied, basisCache>> /\ t \in Nat
    BY <1>0, <1>7, <1>q DEF WriterCommits, Awaits
  <2> HIDE DEF t
  <2>2. q.route = "transact"
    BY <1>0, <1>q, <2>1 DEF Sound
  <2>3. w \in Requested /\ w.pc = "committed" /\ w.route = "transact"
    BY <2>1, <2>2 DEF Requested
  <2> HIDE DEF w
  <2>4. Sound(w)
    BY <2>3 DEF Sound, IsRead
  <2> QED BY <1>0, <2>1, <2>3, <2>4, Placed
<1>8. CASE WriterIsDead(s)
  <2>1. q \in Requested /\ Goes(s, Answered(q, 503)) /\ basisCache' = None
        /\ UNCHANGED <<written, applied>>
    BY <1>0, <1>8, <1>q DEF WriterIsDead, Awaits
  <2>2. 503 \in Nat \ {200}
    OBVIOUS
  <2>3. Answered(q, 503) \in Requested /\ Sound(Answered(q, 503))
    BY <2>1, <2>2, RefusedIsSound
  <2> QED BY <1>0, <2>1, <2>3, Placed
<1>9. CASE WriterAnswers(s)
  <2> DEFINE w == [q EXCEPT !.pc = "answered", !.status = 200]
  <2>1. q # None /\ q \in Requested /\ q.pc = "committed" /\ Goes(s, w) /\ basisCache' = None
        /\ UNCHANGED <<written, applied>>
    BY <1>0, <1>9, <1>q DEF WriterAnswers, Awaits, Answered
  <2>2. q.route = "transact"
    BY <1>0, <1>q, <2>1 DEF Sound
  <2>3. w \in Requested /\ w.pc = "answered" /\ w.route = "transact"
    <3>1. w = Answered(q, 200) /\ 200 \in Nat
      BY DEF Answered
    <3> HIDE DEF w
    <3> QED BY ONLY <3>1, <2>1, <2>2, AnsweredIs
  <2> HIDE DEF w
  <2>4. Sound(w)
    BY <2>3 DEF Sound, IsRead
  <2> QED BY <1>0, <2>1, <2>3, <2>4, Placed
<1> QED BY <1>1, <1>2, <1>3, <1>4, <1>5, <1>6, <1>7, <1>8, <1>9 DEF PeerStep

\* The isolate answers nobody at first.
LEMMA PeerStart == Init => PeerInv
<1> SUFFICES ASSUME Init PROVE PeerInv
  OBVIOUS
<1>1. PeerTypes
  BY DEF Init, PeerInit, PeerTypes
<1> QED BY <1>1 DEF Init, PeerInit, PeerInv

\* The upgrade of a socket writes a row at most, and empties the cache at most.
LEMMA PeerOpens ==
  ASSUME PeerInv, now' = now, Opens
  PROVE  PeerInv'
<1>1. /\ http' = http /\ applied' = applied /\ basisCache' \in {None, basisCache}
      /\ written' \in Nat
  <2>1. Upgrades(socket.who) /\ UNCHANGED <<applied, http>>
    BY DEF Opens
  <2>2. CASE Upsert(socket.who) /\ Remembers(socket.who)
    BY <2>1, <2>2, UpsertType DEF Remembers
  <2>3. CASE UNCHANGED <<written, rows, basisCache, provisioned>>
    BY <2>1, <2>3 DEF PeerInv, PeerTypes
  <2> QED BY <2>1, <2>2, <2>3 DEF Upgrades
<1>2. PeerTypes'
  BY <1>1 DEF PeerInv, PeerTypes
<1> QED BY <1>1, <1>2 DEF PeerInv, Sound, Recent, IsRead

\* Time passes, but not on a basis that has flown long enough.
LEMMA PeerTick ==
  ASSUME PeerInv, now \in Nat, Tick
  PROVE  PeerInv'
<1>1. /\ UNCHANGED <<written, applied, basisCache, http>> /\ now' = now + 1
      /\ \A s \in Slots : Awaits(s, "basis") => now - http[s].seen < Flight
  BY DEF Tick, peerVars
<1>2. PeerTypes'
  BY <1>1 DEF PeerInv, PeerTypes
<1>3. basisCache # None => Recent(basisCache)'
  <2>1. ASSUME basisCache # None
        PROVE  basisCache.at \in Nat /\ Recent(basisCache)
    BY <2>1 DEF PeerInv, PeerTypes, Basis
  <2> QED BY <1>1, <2>1 DEF Recent
<1>4. ASSUME NEW s \in Slots, http[s] # None
      PROVE  Sound(http[s])'
  <2>1. http[s].seen \in Nat /\ Sound(http[s]) /\ Flight \in Nat
    BY <1>4, PeerAssumption DEF PeerInv, PeerTypes, Requested
  <2>2. http[s].pc = "basis" => http[s].seen <= now + 1 /\ (now + 1) - http[s].seen <= Flight
    BY <1>1, <1>4, <2>1 DEF Awaits, Sound
  <2> QED BY <1>1, <2>1, <2>2 DEF Sound, IsRead
<1> QED BY <1>1, <1>2, <1>3, <1>4 DEF PeerInv

\* An attempt leaves the client.
LEMMA PeerSend ==
  ASSUME PeerInv, CoreInv, NEW s \in Slots, Send(s)
  PROVE  PeerInv'
<1>0. /\ now' = now /\ now \in Nat /\ UNCHANGED <<written, applied, basisCache>>
      /\ task[s] \in Tasks /\ task[s] \in TaskRecord /\ s \in Readers
  BY ReaderFacts DEF Send, signedIn, CoreInv, TokenTypes, WireTypes, Tasks
<1>1. ASSUME NEW token, token.who \in Accounts, task[s].kind \in Posts, Sends(s, token)
      PROVE  PeerInv'
  <2>1. PICK u \in Arrive(Request(RouteOf(task[s].kind), token, task[s].minT), token) : Goes(s, u)
    BY <1>1 DEF Sends
  <2>2. RouteOf(task[s].kind) \in {"read", "info", "transact"}
    BY <1>1 DEF RouteOf, Posts
  <2>3. task[s].minT \in Nat
    BY <1>0 DEF TaskRecord
  <2>4. u \in Requested /\ Sound(u)
    BY <1>0, <1>1, <2>1, <2>2, <2>3, ArrivalIsSound
  <2>5. /\ written \in Nat /\ applied \in Nat /\ basisCache \in Basis \cup {None}
        /\ basisCache # None => Recent(basisCache)
    BY DEF PeerInv, PeerTypes
  <2> QED BY <1>0, <2>1, <2>4, <2>5, Placed
<1>2. CASE task[s].pc = "token" /\ TokenReady(s) /\ ~TokenFailed(s) /\ Sends(s, TokenOf(s))
  <2>1. TokenOf(s) \in Token
    BY <1>0, <1>2, ReaderFacts
  <2>2. task[s].kind \in Posts
    BY <1>0, <1>2 DEF Tasks
  <2> QED BY <1>1, <1>2, <2>1, <2>2 DEF Token
<1>3. CASE task[s].pc = "wait" /\ task[s].kind # "pin" /\ Sends(s, task[s].token)
  <2>1. task[s].token \in Credential /\ task[s].kind \in Posts
    BY <1>0, <1>3 DEF Tasks, TaskRecord, Posts
  <2> QED BY <1>1, <1>3, <2>1 DEF Credential
<1>4. CASE UNCHANGED http
  BY <1>0, <1>4 DEF PeerInv, PeerTypes, Sound, Recent, IsRead
<1> QED BY <1>2, <1>3, <1>4 DEF Send

\* The peer is sound through every step.
LEMMA PeerNext ==
  ASSUME PeerInv, CoreInv, [Next]_vars
  PROVE  PeerInv'
<1>0. now \in Nat
  BY DEF CoreInv, TokenTypes
<1>1. ASSUME now' = now, UNCHANGED <<written, applied, basisCache, http>>
      PROVE  PeerInv'
  BY <1>1 DEF PeerInv, PeerTypes, Sound, Recent, IsRead
<1>2. ASSUME NEW s \in Slots, Goes(s, None), now' = now, UNCHANGED <<written, applied, basisCache>>
      PROVE  PeerInv'
  <2>1. /\ written \in Nat /\ applied \in Nat /\ basisCache \in Basis \cup {None}
        /\ basisCache # None => Recent(basisCache)
    BY DEF PeerInv, PeerTypes
  <2> QED BY <1>2, <2>1, Placed
<1>3. CASE \E s \in Slots : CallPin(s) \/ CallPost(s) \/ CallWho(s)
  BY <1>1, <1>3 DEF CallPin, CallPost, CallWho, tokenVars, source, signedIn, peerVars
<1>4. ASSUME NEW s \in Slots, TaskStep(s) \/ LoseRequest(s)
      PROVE  PeerInv'
  <2>1. CASE Send(s)
    BY <2>1, PeerSend
  <2>2. CASE Answer(s) \/ LoseRequest(s)
    BY <1>2, <2>2 DEF Answer, LoseRequest, tokenVars, source, signedIn
  <2>3. CASE Connect(s) \/ Serve(s) \/ Reply(s) \/ Reauth(s) \/ Ack(s)
    BY <1>1, <2>3 DEF Connect, Serve, Reply, Reauth, Ack, tokenVars, source, signedIn, peerVars
  <2>5. CASE Authenticate(s) \/ DescribeSwap(s)
    BY <1>1, <2>5 DEF Authenticate, DescribeSwap, tokenVars, source, signedIn, peerVars
  <2>4. CASE ProvisionSwap(s)
    <3>1. /\ now' = now /\ UNCHANGED <<applied, basisCache, http>>
          /\ Upsert(task[s].token.who) \/ UNCHANGED written
      BY <2>4 DEF ProvisionSwap, tokenVars, source, signedIn
    <3>2. written' \in Nat
      BY <3>1, UpsertType DEF PeerInv, PeerTypes
    <3> QED BY <3>1, <3>2 DEF PeerInv, PeerTypes, Sound, Recent, IsRead
  <2> QED BY <1>4, <2>1, <2>2, <2>3, <2>4, <2>5 DEF TaskStep
<1>5. CASE \E s \in Slots : PeerStep(s) /\ UNCHANGED <<source, wireVars>>
  BY <1>0, <1>5, PeerStepIsSound DEF source, signedIn
<1>6. CASE ReplicaApplies /\ UNCHANGED <<source, wireVars>>
  <2>1. now' = now /\ UNCHANGED <<written, basisCache, http>> /\ applied' \in Nat
    BY <1>6 DEF ReplicaApplies, source, signedIn, PeerInv, PeerTypes
  <2> QED BY <2>1 DEF PeerInv, PeerTypes, Sound, Recent, IsRead
<1>7. CASE TokenStep /\ UNCHANGED <<peerVars, wireVars>>
  BY <1>1, <1>7, TokenMoves DEF peerVars, CoreInv
<1>8. CASE Opens
  BY <1>8, PeerOpens DEF Opens, tokenVars, source, signedIn
<1>9. CASE Dial \/ SocketDrops \/ UpgradeRefused \/ Shutdown \/ Close
  BY <1>1, <1>9 DEF Dial, SocketDrops, UpgradeRefused, Shutdown, Close, Drop, source, signedIn,
     peerVars
<1>10. CASE Tick
  BY <1>0, <1>10, PeerTick
<1>11. CASE UNCHANGED vars
  BY <1>1, <1>11 DEF vars, tokenVars, source, signedIn, peerVars
<1> QED BY <1>3, <1>4, <1>5, <1>6, <1>7, <1>8, <1>9, <1>10, <1>11 DEF Next

-----------------------------------------------------------------------------
(* The session's principal.                                                *)

Queued == {"reply", "ack", "answer"}
Acks(s) == task[s].pc = "ack" /\ task[s].status = 200
AcksNext(s) == task'[s].pc = "ack" /\ task'[s].status = 200
LastAck(i) ==
  Acks(socket.out[i]) /\ \A j \in DOMAIN socket.out : j > i => ~Acks(socket.out[j])

\* No swap is under way, and those that were did not cross.
Settled == ~socket.crossed /\ \A u \in Slots : task[u].pc \notin Swapping

\* A frame is answered once; and once the swaps settled, the last ack the
\* replica's end sent names its principal; when none is on its way, the last
\* that came did.
QueueInv ==
  socket # None =>
    /\ \A i, j \in DOMAIN socket.out : socket.out[i] = socket.out[j] => i = j
    /\ \A i \in DOMAIN socket.out : task[socket.out[i]].pc \in Queued
    /\ Settled =>
         /\ \A i \in DOMAIN socket.out :
              LastAck(i) => task[socket.out[i]].acked.who = socket.who
         /\ (\A i \in DOMAIN socket.out : ~Acks(socket.out[i])) /\ principal # None =>
              principal.who = socket.who

\* The swaps under way are of the socket there is; unless some crossed, they are
\* all of its principal, and they name it in their acks.
SwapInv ==
  \A u \in Slots : task[u].pc \in Swapping =>
    /\ socket # None
    /\ ~socket.crossed => task[u].token.who = socket.who
    /\ task[u].pc = "describing" => task[u].acked.who = task[u].token.who

\* A closed session has no socket; a connect has one only while it dials; and
\* nobody is signed in without one.
FlagsInv ==
  /\ closed => socket = None /\ opening # "dial"
  /\ opening = "dial" => socket # None
  /\ opening = "token" => socket = None
  /\ principal # None => socket # None

SocketInv == QueueInv /\ SwapInv /\ FlagsInv

\* What is on its way stays as it is.
LEMMA QueueStays ==
  ASSUME WireTypes, QueueInv, principal' = principal,
         socket' # None => /\ socket # None /\ socket'.out = socket.out
                           /\ Settled' => Settled /\ socket'.who = socket.who,
         \A s \in Slots : task[s].pc \in Queued => task'[s] = task[s]
  PROVE  QueueInv'
<1> SUFFICES ASSUME socket' # None PROVE QueueInv'
  BY DEF QueueInv
<1>1. /\ socket \in Socket /\ socket # None /\ socket'.out = socket.out
      /\ Settled' => Settled /\ socket'.who = socket.who
  BY DEF WireTypes
<1>2. socket.out \in Seq(Slots)
  BY <1>1 DEF Socket
<1>3. \A i \in DOMAIN socket.out : socket.out[i] \in Slots
  BY <1>2
<1>4. \A i \in DOMAIN socket.out :
        /\ task[socket.out[i]].pc \in Queued
        /\ task'[socket.out[i]] = task[socket.out[i]]
  BY <1>1, <1>3 DEF QueueInv
<1>5. \A i \in DOMAIN socket.out :
        /\ socket'.out[i] = socket.out[i]
        /\ Acks(socket.out[i])' <=> Acks(socket.out[i])
  BY <1>1, <1>4 DEF Acks
<1> QED BY <1>1, <1>4, <1>5 DEF QueueInv, LastAck, Acks

\* What the queue is to be after a step.
LEMMA QueueNext ==
  ASSUME NEW next, socket'.out = next,
         \A i \in DOMAIN next : task'[next[i]].pc \in Queued,
         \A i, j \in DOMAIN next : next[i] = next[j] => i = j,
         Settled' => \A i \in DOMAIN next :
           AcksNext(next[i]) /\ (\A j \in DOMAIN next : j > i => ~AcksNext(next[j])) =>
             task'[next[i]].acked.who = socket'.who,
         Settled' /\ (\A i \in DOMAIN next : ~AcksNext(next[i])) /\ principal' # None =>
           principal'.who = socket'.who
  PROVE  QueueInv'
BY DEF QueueInv, LastAck, Acks, AcksNext

\* An answer joins those on their way.
LEMMA QueueGrows ==
  ASSUME WireTypes, QueueInv, NEW s \in Slots, socket \in Socket, principal' = principal,
         socket'.out = Append(socket.out, s), task[s].pc \notin Queued, task'[s].pc \in Queued,
         \A u \in Slots \ {s} : task'[u] = task[u],
         Settled' => IF AcksNext(s) THEN task'[s].acked.who = socket'.who
                     ELSE Settled /\ socket'.who = socket.who
  PROVE  QueueInv'
<1>0. PICK out, n : out = socket.out /\ n = Len(socket.out)
  OBVIOUS
<1>1. /\ socket # None /\ out \in Seq(Slots) /\ n \in Nat /\ DOMAIN out = 1..n
  BY <1>0, NoSocketAssumption DEF Socket
<1>2. PICK next : next = Append(out, s)
  OBVIOUS
<1>3. /\ socket'.out = next /\ DOMAIN next = 1..(n + 1) /\ next[n + 1] = s
      /\ \A i \in 1..n : next[i] = out[i] /\ out[i] \in Slots
  BY <1>0, <1>1, <1>2
<1>4. /\ \A i \in 1..n : task[out[i]].pc \in Queued
      /\ \A i, j \in 1..n : out[i] = out[j] => i = j
  BY <1>0, <1>1 DEF QueueInv
<1>5. \A i \in 1..n : /\ out[i] # s /\ task'[out[i]] = task[out[i]]
                      /\ AcksNext(next[i]) <=> Acks(out[i])
  BY <1>3, <1>4 DEF Acks, AcksNext
<1>6. \A i \in 1..(n + 1) : i \in 1..n \/ i = n + 1
  BY <1>1
<1>7. \A i \in DOMAIN next : task'[next[i]].pc \in Queued
  BY <1>3, <1>4, <1>5, <1>6
<1>8. \A i, j \in DOMAIN next : next[i] = next[j] => i = j
  BY <1>3, <1>4, <1>5, <1>6
<1>9. ASSUME NEW i \in DOMAIN next, AcksNext(next[i]),
             \A j \in DOMAIN next : j > i => ~AcksNext(next[j]), Settled'
      PROVE  task'[next[i]].acked.who = socket'.who
  <2>1. n + 1 \in DOMAIN next /\ n + 1 > n
    BY <1>1, <1>3
  <2>2. CASE i = n + 1
    BY <1>3, <1>9, <2>2
  <2>3. CASE i \in 1..n
    <3>1. n + 1 > i
      BY <1>1, <2>3
    <3>2. ~AcksNext(s) /\ Acks(out[i])
      BY <1>3, <1>5, <1>9, <2>1, <2>3, <3>1
    <3>3. \A j \in 1..n : j > i => ~Acks(out[j])
      <4> TAKE j \in 1..n
      <4>1. j \in DOMAIN next
        BY <1>1, <1>3
      <4> QED BY <1>5, <1>9, <4>1
    <3>4. LastAck(i)
      BY <1>0, <1>1, <3>2, <3>3 DEF LastAck
    <3>6. Settled /\ socket'.who = socket.who
      BY <1>9, <3>2
    <3>5. task[out[i]].acked.who = socket.who
      BY <1>0, <1>1, <2>3, <3>4, <3>6 DEF QueueInv
    <3> QED BY <1>3, <1>5, <2>3, <3>2, <3>5, <3>6
  <2> QED BY <1>3, <1>6, <2>2, <2>3
<1>10. Settled' /\ (\A i \in DOMAIN next : ~AcksNext(next[i])) /\ principal # None =>
         principal.who = socket'.who
  <2> SUFFICES ASSUME Settled', \A i \in DOMAIN next : ~AcksNext(next[i]), principal # None
               PROVE  principal.who = socket'.who
    OBVIOUS
  <2>1. ~AcksNext(s)
    BY <1>1, <1>3
  <2>2. \A i \in 1..n : ~Acks(out[i])
    <3> TAKE i \in 1..n
    <3>1. i \in DOMAIN next
      BY <1>1, <1>3
    <3> QED BY <1>5, <3>1
  <2>3. Settled /\ socket'.who = socket.who
    BY <2>1
  <2> QED BY <1>0, <1>1, <2>2, <2>3 DEF QueueInv
<1> QED BY <1>3, <1>7, <1>8, <1>9, <1>10, QueueNext

\* The first of those on their way arrives.
LEMMA QueueShrinks ==
  ASSUME WireTypes, QueueInv, NEW s \in Slots, socket \in Socket, socket.out # <<>>,
         Head(socket.out) = s, socket'.out = Tail(socket.out), socket'.who = socket.who,
         Settled' => Settled,
         \A u \in Slots \ {s} : task[u].pc \in Queued => task'[u] = task[u],
         IF Acks(s) THEN principal' = task[s].acked ELSE principal' = principal
  PROVE  QueueInv'
<1>0. PICK out, n : out = socket.out /\ n = Len(socket.out)
  OBVIOUS
<1>1. /\ socket # None /\ out \in Seq(Slots) /\ n \in Nat /\ n # 0
      /\ DOMAIN out = 1..n /\ out[1] = s
  BY <1>0, NoSocketAssumption DEF Socket
<1>2. PICK next : next = Tail(out)
  OBVIOUS
<1>3. /\ socket'.out = next /\ DOMAIN next = 1..(n - 1)
      /\ \A i \in 1..(n - 1) : next[i] = out[i + 1] /\ out[i + 1] \in Slots
  BY <1>0, <1>1, <1>2
<1>4. /\ \A i \in 1..n : task[out[i]].pc \in Queued
      /\ \A i, j \in 1..n : out[i] = out[j] => i = j
  BY <1>0, <1>1 DEF QueueInv
<1>5. ASSUME NEW i \in 1..(n - 1)
      PROVE  /\ i \in Int /\ i + 1 \in 1..n
             /\ task'[out[i + 1]] = task[out[i + 1]]
             /\ AcksNext(next[i]) <=> Acks(out[i + 1])
  <2>1. i \in Int /\ i + 1 \in 1..n /\ 1 \in 1..n /\ i + 1 # 1
    BY <1>1
  <2>2. out[i + 1] # s
    BY <1>1, <1>4, <2>1
  <2>3. task'[out[i + 1]] = task[out[i + 1]]
    BY <1>3, <1>4, <2>1, <2>2
  <2> QED BY <1>3, <2>1, <2>3 DEF Acks, AcksNext
<1>6. \A j \in 1..n : j > 1 => j - 1 \in 1..(n - 1) /\ (j - 1) + 1 = j
  BY <1>1
<1>7. \A i \in DOMAIN next : task'[next[i]].pc \in Queued
  BY <1>3, <1>4, <1>5
<1>8. \A i, j \in DOMAIN next : next[i] = next[j] => i = j
  <2> TAKE i, j \in DOMAIN next
  <2>1. i \in 1..(n - 1) /\ j \in 1..(n - 1)
    BY <1>3
  <2>2. i \in Int /\ j \in Int /\ i + 1 \in 1..n /\ j + 1 \in 1..n
    BY <1>5, <2>1
  <2>3. next[i] = next[j] => i + 1 = j + 1
    BY <1>3, <1>4, <2>1, <2>2
  <2> QED BY <2>2, <2>3
<1>9. ASSUME NEW i \in DOMAIN next, AcksNext(next[i]),
             \A j \in DOMAIN next : j > i => ~AcksNext(next[j]), Settled'
      PROVE  task'[next[i]].acked.who = socket'.who
  <2>1. i \in 1..(n - 1) /\ i \in Int /\ i + 1 \in 1..n /\ Acks(out[i + 1])
    BY <1>3, <1>5, <1>9
  <2>2. ASSUME NEW j \in 1..n, j > i + 1
        PROVE  ~Acks(out[j])
    <3>1. j > 1 /\ j - 1 > i
      BY <1>1, <2>1, <2>2
    <3>2. j - 1 \in 1..(n - 1) /\ (j - 1) + 1 = j
      BY <1>6, <3>1
    <3> QED BY <1>3, <1>5, <1>9, <3>1, <3>2
  <2>3. LastAck(i + 1)
    BY <1>0, <1>1, <2>1, <2>2 DEF LastAck
  <2>4. task[out[i + 1]].acked.who = socket.who
    BY <1>0, <1>1, <1>9, <2>1, <2>3 DEF QueueInv
  <2> QED BY <1>3, <1>5, <2>1, <2>4
<1>10. Settled' /\ (\A i \in DOMAIN next : ~AcksNext(next[i])) /\ principal' # None =>
         principal'.who = socket'.who
  <2> SUFFICES ASSUME Settled, \A i \in DOMAIN next : ~AcksNext(next[i]), principal' # None
               PROVE  principal'.who = socket.who
    OBVIOUS
  <2>1. \A j \in 1..n : j > 1 => ~Acks(out[j])
    BY <1>3, <1>5, <1>6
  <2>2. 1 \in 1..n
    BY <1>1
  <2>3. CASE Acks(s)
    <3>1. LastAck(1)
      BY <1>0, <1>1, <2>1, <2>3 DEF LastAck
    <3>2. task[s].acked.who = socket.who
      BY <1>0, <1>1, <2>2, <3>1 DEF QueueInv
    <3> QED BY <2>3, <3>2
  <2>4. CASE ~Acks(s)
    <3>1. \A j \in 1..n : ~Acks(out[j])
      <4> TAKE j \in 1..n
      <4>1. j = 1 \/ j > 1
        OBVIOUS
      <4> QED BY <1>1, <2>1, <2>4, <4>1
    <3> QED BY <1>0, <1>1, <2>4, <3>1 DEF QueueInv
  <2> QED BY <2>3, <2>4
<1> QED BY <1>3, <1>7, <1>8, <1>9, <1>10, QueueNext

\* What a step that swaps nothing does to the swaps.
LEMMA SwapsStay ==
  ASSUME SwapInv, socket' # None,
         \A s \in Slots : task'[s].pc \in Swapping <=> task[s].pc \in Swapping,
         \A s \in Slots : task[s].pc \in Swapping => task'[s] = task[s],
         socket # None => socket'.who = socket.who /\ socket'.crossed = socket.crossed
  PROVE  SwapInv' /\ (socket # None /\ Settled' => Settled)
BY DEF SwapInv, Settled

\* A step that touches neither the socket nor an answer on its way.
LEMMA SocketStays ==
  ASSUME WireTypes, SocketInv, UNCHANGED <<socket, principal, closed>>,
         opening' = opening \/ opening' = "no" \/ (opening' = "token" /\ socket = None),
         \A s \in Slots : task[s].pc \in Queued \cup Swapping => task'[s] = task[s],
         \A s \in Slots : task'[s].pc \in Swapping => task[s].pc \in Swapping
  PROVE  SocketInv'
<1>1. SwapInv'
  BY DEF SocketInv, SwapInv
<1>2. Settled' => Settled
  BY DEF Settled
<1>3. QueueInv'
  BY <1>2, QueueStays DEF SocketInv
<1>4. FlagsInv'
  BY DEF SocketInv, FlagsInv
<1> QED BY <1>1, <1>3, <1>4 DEF SocketInv

\* One task that is on its way nowhere.
LEMMA SocketAlone ==
  ASSUME WireTypes, SocketInv, NEW s \in Slots, task[s].pc \notin Queued \cup Swapping,
         task'[s].pc \notin Swapping,
         UNCHANGED <<socket, principal, closed>>,
         opening' = opening \/ (opening' = "token" /\ socket = None),
         \A u \in Slots \ {s} : task'[u] = task[u]
  PROVE  SocketInv'
BY SocketStays

\* Calls begin, attempts are sent, answered or lost, frames wait for the socket.
LEMMA SocketOfTask ==
  ASSUME CoreInv, SocketInv, NEW s \in Slots,
         \/ CallPin(s) \/ CallPost(s) \/ CallWho(s) \/ Send(s) \/ Answer(s) \/ LoseRequest(s)
         \/ Connect(s) \/ Reauth(s)
  PROVE  SocketInv'
<1>1. WireTypes /\ task \in [Slots -> Tasks]
  BY DEF CoreInv, WireTypes
<1>2. CASE CallPin(s) \/ CallPost(s) \/ CallWho(s)
  <2>1. UNCHANGED <<socket, opening, principal, closed>>
    BY <1>2 DEF CallPin, CallPost, CallWho
  <2>2. \E kind, pc : NewCall(s, kind, pc) /\ pc \in {"wait", "token", "done"}
    BY <1>2 DEF CallPin, CallPost, CallWho
  <2>3. /\ task[s].pc \notin Queued \cup Swapping /\ task'[s].pc \notin Swapping
        /\ \A u \in Slots \ {s} : task'[u] = task[u]
    BY <1>1, <2>2 DEF NewCall, Queued, Swapping, Idle
  <2> QED BY <1>1, <2>1, <2>3, SocketAlone
<1>3. CASE Send(s)
  <2>1. /\ UNCHANGED <<socket, opening, principal, closed>>
        /\ task[s].pc \notin Queued \cup Swapping
    BY <1>3 DEF Send, Queued, Swapping
  <2>2. /\ task'[s].pc \notin Swapping /\ \A u \in Slots \ {s} : task'[u] = task[u]
    <3>1. CASE task' = [task EXCEPT ![s] = Ended]
      BY <1>1, <3>1, EndedType DEF Swapping
    <3>2. CASE \E token : Sends(s, token)
      <4>1. PICK c, token : /\ c = [who |-> token.who, exp |-> token.exp]
                            /\ task' = [task EXCEPT ![s].pc = "sent", ![s].token = c]
        BY <3>2 DEF Sends
      <4>2. task'[s].pc = "sent" /\ \A u \in Slots \ {s} : task'[u] = task[u]
        <5>1. task[s] \in TaskRecord
          BY <1>1 DEF Tasks
        <5> QED BY ONLY <1>1, <4>1, <5>1 DEF TaskRecord
      <4> QED BY <4>2 DEF Swapping
    <3> QED BY <1>3, <3>1, <3>2 DEF Send
  <2> QED BY <1>1, <2>1, <2>2, SocketAlone
<1>4. CASE Answer(s) \/ LoseRequest(s)
  <2>1. /\ UNCHANGED <<socket, opening, principal, closed>> /\ task[s].pc = "sent"
        /\ task[s].pc \notin Queued \cup Swapping
    BY <1>4 DEF Answer, LoseRequest, Queued, Swapping
  <2>2. task[s] \in Tasks /\ task[s].kind # "none" /\ task[s].token \in Credential
    BY <1>1, <2>1 DEF Tasks, Posts
  <2>3. task' = [task EXCEPT ![s] = Ended] \/ task' = [task EXCEPT ![s] = Transient(task[s])]
    BY <1>4 DEF Answer, LoseRequest, Settle
  <2>4. task'[s].pc \notin Swapping /\ \A u \in Slots \ {s} : task'[u] = task[u]
    BY <1>1, <2>2, <2>3, TransientType, EndedType DEF Swapping
  <2> QED BY <1>1, <2>1, <2>4, SocketAlone
<1>5. CASE Connect(s)
  <2>1. /\ UNCHANGED <<socket, principal, closed>> /\ task[s].pc = "wait" /\ task[s].kind = "pin"
        /\ task[s].pc \notin Queued \cup Swapping
        /\ opening' = opening \/ (opening' = "token" /\ socket = None)
    BY <1>5 DEF Connect, Queued, Swapping
  <2>2. task'[s].pc \notin Swapping /\ \A u \in Slots \ {s} : task'[u] = task[u]
    <3>1. CASE FailAll({s})
      <4>1. \A u \in {s} : task[u].kind = "pin"
        BY <2>1
      <4>2. task'[s].pc \in {"wait", "done"} /\ \A u \in Slots \ {s} : task'[u] = task[u]
        BY <1>1, <3>1, <4>1, FailType
      <4> QED BY <4>2 DEF Swapping
    <3>2. CASE Moves(s, "frame") \/ Moves(s, "opening")
      BY <1>1, <3>2 DEF Moves, Swapping, Tasks, TaskRecord
    <3> QED BY <1>5, <3>1, <3>2 DEF Connect
  <2> QED BY <1>1, <2>1, <2>2, SocketAlone
<1>6. CASE Reauth(s)
  <2>1. /\ UNCHANGED <<socket, opening, principal, closed>> /\ task[s].pc = "reauth"
        /\ task[s].pc \notin Queued \cup Swapping
    BY <1>6 DEF Reauth, Queued, Swapping
  <2>2. task'[s].pc \notin Swapping /\ \A u \in Slots \ {s} : task'[u] = task[u]
    <3>1. CASE FailAll({s})
      <4>1. \A u \in {s} : task[u].kind = "pin"
        BY <1>1, <2>1 DEF Tasks, OnSocket
      <4>2. task'[s].pc \in {"wait", "done"} /\ \A u \in Slots \ {s} : task'[u] = task[u]
        BY <1>1, <3>1, <4>1, FailType
      <4> QED BY <4>2 DEF Swapping
    <3>2. CASE ~FailAll({s})
      <4>1. PICK c : /\ c = [who |-> TokenOf(s).who, exp |-> TokenOf(s).exp]
                     /\ task' = [task EXCEPT ![s].pc = "auth", ![s].token = c]
        BY <1>6, <3>2 DEF Reauth
      <4>2. task'[s].pc = "auth" /\ \A u \in Slots \ {s} : task'[u] = task[u]
        <5>1. task[s] \in TaskRecord
          BY <1>1 DEF Tasks
        <5> QED BY ONLY <1>1, <4>1, <5>1 DEF TaskRecord
      <4> QED BY <4>2 DEF Swapping
    <3> QED BY <3>1, <3>2
  <2> QED BY <1>1, <2>1, <2>2, SocketAlone
<1> QED BY <1>2, <1>3, <1>4, <1>5, <1>6

\* The connect dials, once it is told nobody closed the session.
LEMMA SocketOfDial ==
  ASSUME CoreInv, SocketInv, Dial
  PROVE  SocketInv'
<1>1. /\ WireTypes /\ task \in [Slots -> Tasks] /\ opening = "token" /\ socket = None
      /\ principal = None /\ UNCHANGED <<principal, closed>>
      /\ \A s \in Slots : task[s].pc \notin Swapping
  BY DEF Dial, CoreInv, WireTypes, SocketInv, FlagsInv, SwapInv
<1>2. CASE MayDial
  <2>1. /\ socket' = [who |-> TokenOf(Dialer).who, exp |-> TokenOf(Dialer).exp,
                      open |-> FALSE, expiring |-> FALSE, out |-> <<>>, crossed |-> FALSE]
        /\ opening' = "dial" /\ ~closed /\ task' = task
    BY <1>2 DEF Dial, MayDial
  <2>2. socket' # None
    <3>1. WireTypes'
      BY CoreDial DEF CoreInv
    <3>2. TokenOf(Dialer) \in Token
      BY <1>2, ReaderFacts DEF Dial, MayDial
    <3>3. TokenOf(Dialer).who \in Accounts /\ TokenOf(Dialer).exp \in Nat /\ <<>> \in Seq(Slots)
      BY <3>2 DEF Token
    <3>4. socket' \in Socket
      BY <2>1, <3>3 DEF Socket
    <3> QED BY <3>4, NoSocketAssumption
  <2>3. QueueInv'
    <3>1. socket'.out = <<>> /\ principal' = None
      BY <1>1, <2>1
    <3> QED BY <3>1, QueueNext
  <2>4. FlagsInv'
    BY <1>1, <2>1, <2>2 DEF FlagsInv
  <2>5. SwapInv'
    BY <1>1, <2>1 DEF SwapInv
  <2> QED BY <2>3, <2>4, <2>5 DEF SocketInv
<1>3. CASE ~MayDial
  <2>1. FailAll(Waiting({"opening"})) /\ opening' = "no" /\ socket' = socket
    BY <1>3 DEF Dial
  <2>2. \A s \in Slots : task[s].pc \in Queued \cup Swapping => task'[s] = task[s]
    BY <1>1, <2>1 DEF FailAll, Waiting, Queued, Swapping
  <2>3. \A s \in Slots : task'[s].pc \notin Swapping
    <3>1. Waiting({"opening"}) \subseteq Slots /\ \A s \in Waiting({"opening"}) : task[s].kind = "pin"
      BY <1>1, OnSocketArePins DEF OnSocket
    <3>2. /\ \A s \in Waiting({"opening"}) : task'[s].pc \in {"wait", "done"}
          /\ \A s \in Slots \ Waiting({"opening"}) : task'[s] = task[s]
      BY <1>1, <2>1, <3>1, FailType
    <3>3. \A s \in Waiting({"opening"}) : task'[s].pc \notin Swapping
      BY <3>2 DEF Swapping
    <3> QED BY <1>1, <3>2, <3>3
  <2> QED BY <1>1, <2>1, <2>2, <2>3, SocketStays
<1> QED BY <1>2, <1>3

\* The socket opens.
LEMMA SocketOfOpens ==
  ASSUME CoreInv, SocketInv, Opens
  PROVE  SocketInv'
<1>1. /\ WireTypes /\ UNCHANGED <<principal, closed>> /\ opening = "dial" /\ opening' = "no"
      /\ socket \in Socket /\ socket' = [socket EXCEPT !.open = TRUE] /\ ~closed
  BY DEF Opens, CoreInv, WireTypes, SocketInv, FlagsInv
<1>2. /\ socket' \in Socket /\ socket' # None /\ socket # None /\ socket'.out = socket.out
      /\ socket'.who = socket.who /\ socket'.crossed = socket.crossed
  BY <1>1, NoSocketAssumption DEF Socket
<1>3. \A s \in Slots : task[s].pc \in Queued \cup Swapping => task'[s] = task[s]
  BY DEF Opens, Queued, Swapping
<1>4. \A s \in Slots : task'[s].pc \in Swapping <=> task[s].pc \in Swapping
  <2> TAKE s \in Slots
  <2>1. task[s] \in TaskRecord
    BY <1>1 DEF WireTypes, Tasks
  <2>2. task'[s] = IF task[s].pc = "opening" THEN [task[s] EXCEPT !.pc = "frame"] ELSE task[s]
    BY DEF Opens
  <2> QED BY <2>1, <2>2 DEF TaskRecord, Swapping
<1>5. SwapInv' /\ (Settled' => Settled)
  BY <1>2, <1>3, <1>4, SwapsStay DEF SocketInv
<1>6. QueueInv'
  BY <1>1, <1>2, <1>3, <1>5, QueueStays DEF SocketInv
<1>7. FlagsInv'
  BY <1>1, <1>2 DEF FlagsInv
<1> QED BY <1>5, <1>6, <1>7 DEF SocketInv

\* The socket drops.
LEMMA SocketOfDrop ==
  ASSUME CoreInv, SocketInv, SocketDrops \/ UpgradeRefused \/ Shutdown \/ Close
  PROVE  SocketInv'
<1>1. CASE Drop
  <2>1. /\ socket' = None /\ principal' = None
        /\ opening' = IF opening = "dial" THEN "no" ELSE opening
    BY <1>1 DEF Drop, WhoAfterDrop
  <2>2. \A s \in Slots : task'[s].pc \notin Swapping
    BY <1>1, DropType DEF CoreInv, Pending
  <2> QED BY <2>1, <2>2 DEF SocketInv, FlagsInv, QueueInv, SwapInv
<1>2. CASE Close /\ ~Drop
  <2>1. UNCHANGED <<task, socket, opening, principal>> /\ socket = None
    BY <1>2 DEF Close
  <2> QED BY <2>1 DEF SocketInv, FlagsInv, QueueInv, SwapInv
<1> QED BY <1>1, <1>2 DEF SocketDrops, UpgradeRefused, Shutdown

\* An answer is sent, and arrives.
LEMMA SocketOfAnswers ==
  ASSUME CoreInv, SocketInv, NEW s \in Slots, Serve(s) \/ Reply(s) \/ Ack(s)
  PROVE  SocketInv'
<1>0. WireTypes /\ QueueInv /\ SwapInv /\ task \in [Slots -> Tasks]
  BY DEF CoreInv, WireTypes, SocketInv
<1>1. /\ UNCHANGED <<opening, closed>> /\ socket \in Socket /\ socket' \in Socket
      /\ socket'.crossed = socket.crossed /\ socket'.who = socket.who
  <2>1. CASE Serve(s)
    <3>1. UNCHANGED <<opening, closed>>
      BY <2>1 DEF Serve
    <3> QED BY <1>0, <2>1, <3>1, ServeFacts
  <2>3. CASE Reply(s) \/ Ack(s)
    BY <1>0, <2>3, DeliveredType DEF Reply, Ack, Delivers
  <2> QED BY <2>1, <2>3
<1>2. socket # None /\ socket' # None
  BY <1>1, NoSocketAssumption
<1>3. FlagsInv'
  BY <1>1, <1>2 DEF SocketInv, FlagsInv
<1>4. CASE Serve(s)
  <2>1. /\ task[s].pc \in {"frame", "again"} /\ task'[s].pc \in {"reply", "answer"}
        /\ \A u \in Slots \ {s} : task'[u] = task[u]
        /\ socket'.who = socket.who /\ socket'.out = Append(socket.out, s)
        /\ principal' = principal
    BY <1>0, <1>4, ServeFacts DEF Serve
  <2>2. /\ task[s].pc \notin Queued /\ task'[s].pc \in Queued /\ ~AcksNext(s)
        /\ task[s].pc \notin Swapping /\ task'[s].pc \notin Swapping
    BY <2>1 DEF Queued, AcksNext, Swapping
  <2>3. SwapInv' /\ (Settled' => Settled)
    BY <1>0, <1>1, <1>2, <2>1, <2>2, SwapsStay
  <2>4. QueueInv'
    BY <1>0, <1>1, <2>1, <2>2, <2>3, QueueGrows
  <2> QED BY <1>3, <2>3, <2>4 DEF SocketInv
<1>6. CASE Reply(s)
  <2>1. /\ task[s].pc \in {"reply", "answer"} /\ socket.out # <<>> /\ Head(socket.out) = s
        /\ Delivered /\ principal' = principal
    BY <1>6 DEF Reply, Delivers
  <2>2. \A u \in Slots \ {s} : task'[u] = task[u]
    BY <1>0, <1>6 DEF Reply, Moves
  <2>3. socket'.out = Tail(socket.out) /\ socket'.who = socket.who
    BY <1>0, <1>2, <2>1, DeliveredType
  <2>4. ~Acks(s) /\ task[s].pc \notin Swapping
    BY <2>1 DEF Acks, Swapping
  <2>6. task'[s].pc \notin Swapping
    <3>1. task[s] \in Tasks /\ task[s] \in TaskRecord /\ task[s].kind = "pin"
      BY <1>0, <2>1 DEF Tasks, OnSocket
    <3>2. CASE Moves(s, "reauth")
      BY <1>0, <3>1, <3>2 DEF Moves, TaskRecord, Swapping
    <3>3. CASE task' = [task EXCEPT ![s] = Settle(task[s], task[s].status)]
      BY <1>0, <3>1, <3>3, TransientType, EndedType DEF Settle, Swapping
    <3> QED BY <1>6, <3>2, <3>3 DEF Reply
  <2>7. SwapInv' /\ (Settled' => Settled)
    BY <1>0, <1>1, <1>2, <2>2, <2>4, <2>6, SwapsStay
  <2>5. QueueInv'
    BY <1>0, <1>1, <2>1, <2>2, <2>3, <2>4, <2>7, QueueShrinks
  <2> QED BY <1>3, <2>5, <2>7 DEF SocketInv
<1>7. CASE Ack(s)
  <2>1. /\ task[s].pc = "ack" /\ socket.out # <<>> /\ Head(socket.out) = s
        /\ task'[s].pc \in {"again", "done"}
        /\ \A u \in Slots \ {s} : task[u].kind = "pin" => task'[u] = task[u]
        /\ \A u \in Slots \ {s} : task'[u].pc = task[u].pc
        /\ IF task[s].status = 200 THEN principal' = task[s].acked ELSE principal' = principal
    BY <1>0, <1>7, AckFacts
  <2>2. socket'.out = Tail(socket.out) /\ socket'.who = socket.who
    BY <1>0, <1>2, <1>7, <2>1, DeliveredType DEF Ack
  <2>3. \A u \in Slots : task[u].pc \in Queued \cup Swapping => task[u].kind = "pin"
    BY <1>0 DEF Tasks, OnSocket, Queued, Swapping
  <2>4. IF Acks(s) THEN principal' = task[s].acked ELSE principal' = principal
    BY <2>1 DEF Acks
  <2>6. task[s].pc \notin Swapping /\ task'[s].pc \notin Swapping
    BY <2>1 DEF Swapping
  <2>7. SwapInv' /\ (Settled' => Settled)
    BY <1>0, <1>1, <1>2, <2>1, <2>3, <2>6, SwapsStay
  <2>5. QueueInv'
    BY <1>0, <1>1, <2>1, <2>2, <2>3, <2>4, <2>7, QueueShrinks
  <2> QED BY <1>3, <2>5, <2>7 DEF SocketInv
<1> QED BY <1>4, <1>6, <1>7

\* The session's principal is swapped: what was acked until now says nothing of
\* the socket until this swap's ack, the last.
LEMMA SocketOfSwaps ==
  ASSUME CoreInv, SocketInv, NEW s \in Slots,
         Authenticate(s) \/ ProvisionSwap(s) \/ DescribeSwap(s)
  PROVE  SocketInv'
<1>0. WireTypes /\ QueueInv /\ SwapInv /\ task \in [Slots -> Tasks]
  BY DEF CoreInv, WireTypes, SocketInv
<1>1. /\ UNCHANGED <<opening, closed, principal>> /\ socket \in Socket /\ socket' \in Socket
      /\ \A u \in Slots \ {s} : task'[u] = task[u]
  <2>1. CASE Authenticate(s)
    <3>1. UNCHANGED <<opening, closed, principal>>
      BY <2>1 DEF Authenticate
    <3> QED BY <1>0, <2>1, <3>1, AuthFacts
  <2>2. CASE ProvisionSwap(s)
    <3>1. UNCHANGED <<opening, closed, principal>>
      BY <2>2 DEF ProvisionSwap
    <3> QED BY <1>0, <2>2, <3>1, ProvisionFacts
  <2>3. CASE DescribeSwap(s)
    <3>1. UNCHANGED <<opening, closed, principal>>
      BY <2>3 DEF DescribeSwap
    <3> QED BY <1>0, <2>3, <3>1, DescribeFacts
  <2> QED BY <2>1, <2>2, <2>3
<1>2. socket # None /\ socket' # None
  BY <1>1, NoSocketAssumption
<1>3. FlagsInv'
  BY <1>1, <1>2 DEF SocketInv, FlagsInv
<1>4. ASSUME NEW who, task'[s].pc \in Swapping, task[s].pc \notin Queued,
             task'[s].token.who = who, socket'.who = who, socket'.out = socket.out,
             task'[s].pc = "describing" => task'[s].acked.who = who,
             ~socket'.crossed =>
               \A u \in Slots \ {s} : task[u].pc \in Swapping => task[u].token.who = who
      PROVE  SocketInv'
  <2>1. SwapInv'
    BY <1>0, <1>1, <1>2, <1>4 DEF SwapInv
  <2>2. ~Settled'
    BY <1>4 DEF Settled
  <2>3. QueueInv'
    BY <1>0, <1>1, <1>2, <1>4, <2>2, QueueStays
  <2> QED BY <1>3, <2>1, <2>3 DEF SocketInv
<1>5. CASE Authenticate(s) /\ task'[s].pc = "provisioning"
  <2>1. /\ task[s].pc = "auth" /\ task'[s].token = task[s].token
        /\ socket'.out = socket.out /\ socket'.who = task[s].token.who
        /\ socket'.crossed = CrossedBy(s, task[s].token.who)
    BY <1>0, <1>5, AuthFacts
  <2>2. ~socket'.crossed => \A u \in Slots \ {s} :
          task[u].pc \in Swapping => task[u].token.who = task[s].token.who
    BY <2>1 DEF CrossedBy, OtherSwaps, Waiting
  <2> QED BY <1>4, <1>5, <2>1, <2>2 DEF Queued, Swapping
<1>6. CASE Authenticate(s) /\ task'[s].pc # "provisioning"
  <2>1. /\ task[s].pc = "auth" /\ task'[s].pc = "ack" /\ task'[s].status # 200
        /\ socket'.out = Append(socket.out, s)
        /\ socket'.who = socket.who /\ socket'.crossed = socket.crossed
    BY <1>0, <1>6, AuthFacts
  <2>2. /\ task[s].pc \notin Queued /\ task'[s].pc \in Queued /\ ~AcksNext(s)
        /\ task[s].pc \notin Swapping /\ task'[s].pc \notin Swapping
    BY <2>1 DEF Queued, AcksNext, Swapping
  <2>3. SwapInv' /\ (Settled' => Settled)
    BY <1>0, <1>1, <1>2, <2>1, <2>2, SwapsStay
  <2>4. QueueInv'
    BY <1>0, <1>1, <2>1, <2>2, <2>3, QueueGrows
  <2> QED BY <1>3, <2>3, <2>4 DEF SocketInv
<1>7. CASE ProvisionSwap(s)
  <2>1. /\ task[s].pc = "provisioning" /\ task'[s].pc = "describing"
        /\ task'[s].token = task[s].token /\ task'[s].acked.who = task[s].token.who
        /\ socket'.out = socket.out /\ socket'.who = task[s].token.who
        /\ socket'.crossed = socket.crossed
    BY <1>0, <1>7, ProvisionFacts
  <2>2. ~socket'.crossed => \A u \in Slots \ {s} :
          task[u].pc \in Swapping => task[u].token.who = task[s].token.who
    BY <1>0, <2>1 DEF SwapInv, Swapping
  <2> QED BY <1>4, <2>1, <2>2 DEF Queued, Swapping
<1>8. CASE DescribeSwap(s)
  <2>1. /\ task[s].pc = "describing" /\ task'[s].pc = "ack"
        /\ task'[s].status = 200 /\ task'[s].acked.who = task[s].acked.who
        /\ socket'.out = Append(socket.out, s) /\ socket'.who = socket.who
        /\ socket'.crossed = socket.crossed
    BY <1>0, <1>8, DescribeFacts
  <2>2. /\ task[s].pc \notin Queued /\ task'[s].pc \in Queued /\ AcksNext(s)
        /\ task'[s].pc \notin Swapping
    BY <2>1 DEF Queued, AcksNext, Swapping
  <2>3. SwapInv'
    BY <1>0, <1>1, <1>2, <2>1, <2>2 DEF SwapInv
  <2>4. Settled' => task'[s].acked.who = socket'.who
    BY <1>0, <2>1 DEF SwapInv, Settled, Swapping
  <2>5. QueueInv'
    BY <1>0, <1>1, <2>1, <2>2, <2>4, QueueGrows
  <2> QED BY <1>3, <2>3, <2>5 DEF SocketInv
<1> QED BY <1>5, <1>6, <1>7, <1>8

\* The session's socket, from the start,
LEMMA SocketStart == Init => SocketInv
BY DEF Init, WireInit, SocketInv, QueueInv, SwapInv, FlagsInv, Idle, Swapping

\* and through every step.
LEMMA SocketNext ==
  ASSUME CoreInv, SocketInv, [Next]_vars
  PROVE  SocketInv'
<1>1. ASSUME UNCHANGED <<task, socket, opening, principal, closed>>
      PROVE  SocketInv'
  BY <1>1, SocketStays DEF CoreInv
<1>2. CASE \E s \in Slots : CallPin(s) \/ CallPost(s) \/ CallWho(s) \/ LoseRequest(s)
  BY <1>2, SocketOfTask
<1>3. CASE \E s \in Slots : TaskStep(s)
  BY <1>3, SocketOfTask, SocketOfAnswers, SocketOfSwaps DEF TaskStep
<1>4. CASE \/ \E s \in Slots : PeerStep(s) /\ UNCHANGED <<source, wireVars>>
           \/ ReplicaApplies /\ UNCHANGED <<source, wireVars>>
           \/ TokenStep /\ UNCHANGED <<peerVars, wireVars>>
           \/ Tick \/ UNCHANGED vars
  BY <1>1, <1>4 DEF Tick, vars, wireVars
<1>5. CASE Dial \/ Opens
  BY <1>5, SocketOfDial, SocketOfOpens
<1>6. CASE SocketDrops \/ UpgradeRefused \/ Shutdown \/ Close
  BY <1>6, SocketOfDrop
<1> QED BY <1>2, <1>3, <1>4, <1>5, <1>6 DEF Next

-----------------------------------------------------------------------------
(* The theorems.                                                           *)

WireInv == CoreInv /\ PeerInv /\ SocketInv

\* The three together are an invariant.
LEMMA WireInvariance == Spec => []WireInv
<1>1. Init => WireInv
  BY CoreStart, PeerStart, SocketStart DEF WireInv
<1>2. WireInv /\ [Next]_vars => WireInv'
  <2> SUFFICES ASSUME WireInv, [Next]_vars PROVE WireInv'
    OBVIOUS
  <2>1. CoreInv'
    BY CoreStep DEF WireInv, PeerInv, SocketInv, FlagsInv
  <2>2. PeerInv'
    BY PeerNext DEF WireInv
  <2>3. SocketInv'
    BY SocketNext DEF WireInv
  <2> QED BY <2>1, <2>2, <2>3 DEF WireInv
<1> QED BY <1>1, <1>2, PTL DEF Spec

(* A reader never gets a token minted before the last invalidate() it began *)
(* after (token.ts:139-141), whatever mints, sign-ins and readers there are. *)
THEOREM ReadersGetTheirTenant == Spec => []TokenIsCurrent
<1>1. WireInv => TokenIsCurrent
  BY DEF WireInv, CoreInv, TokenInv, TokenIsCurrent, TokenReady, TokenFailed, TokenOf
<1> QED BY <1>1, WireInvariance, PTL

(* A read that is answered is younger than a TTL and a flight and, unless   *)
(* the polls were spent, no older than its x-ramose-min-t (peer.ts:136,     *)
(* index.ts:9), whatever provisions, writes and drops happen meanwhile.     *)
THEOREM AnswersAreFresh == Spec => []ReadsAreFresh
<1>1. WireInv => ReadsAreFresh
  BY DEF WireInv, PeerInv, Sound, ReadsAreFresh, IsRead
<1> QED BY <1>1, WireInvariance, PTL

(* With no `auth` on its way, the principal a session reports from its acks  *)
(* is the one its socket has (db/session.ts:108-113), unless swaps of         *)
(* different principals overlapped on that socket and none ran alone since.   *)
THEOREM SessionSaysWho == Spec => []PrincipalIsSockets
<1>1. WireInv => PrincipalIsSockets
  <2> SUFFICES ASSUME WireInv, principal # None,
                      Waiting({"auth", "ack"} \union Swapping) = {}
               PROVE  socket # None /\ (~socket.crossed => principal.who = socket.who)
    BY DEF PrincipalIsSockets
  <2>1. socket # None /\ socket \in Socket /\ QueueInv
    BY DEF WireInv, SocketInv, FlagsInv, CoreInv, WireTypes
  <2>2. socket.out \in Seq(Slots)
    BY <2>1 DEF Socket
  <2>3. \A i \in DOMAIN socket.out : ~Acks(socket.out[i])
    BY <2>2 DEF Waiting, Acks
  <2>4. ~socket.crossed => Settled
    BY DEF Waiting, Settled
  <2> QED BY <2>1, <2>3, <2>4 DEF QueueInv
<1> QED BY <1>1, WireInvariance, PTL

(* A closed session keeps no socket, whatever connect was under way when it *)
(* was closed (session.ts:269-272).                                         *)
THEOREM CloseIsFinal == Spec => []ClosedLeaksNothing
<1>1. WireInv => ClosedLeaksNothing
  BY DEF WireInv, SocketInv, FlagsInv, ClosedLeaksNothing
<1> QED BY <1>1, WireInvariance, PTL
=============================================================================
