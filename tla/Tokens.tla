------------------------------- MODULE Tokens -------------------------------
(***************************************************************************)
(* The refreshing token source (db/token.ts): one cached JWT, one mint at  *)
(* a time shared by every reader, and an epoch that invalidate() bumps so  *)
(* that a mint of the old tenant in flight stays out of the cache.  The    *)
(* readers are the client's tasks and the connect of its session socket    *)
(* (Wire.tla).  A token names the account the application was signed in as *)
(* when its mint was called; `gen` numbers the sign-ins.                   *)
(***************************************************************************)
EXTENDS Integers, FiniteSets

CONSTANTS
  Accounts,     \* who the application can be signed in as
  Readers,      \* who reads the source
  Lifetime,     \* exp - iat of a minted token, in ticks
  Margin,       \* options.refreshMargin
  MaxNow,       \* bound: the clock
  None

ASSUME TokensAssumption ==
  /\ Accounts # {} /\ None \notin Accounts /\ IsFiniteSet(Readers)
  /\ {Lifetime, Margin, MaxNow} \subseteq Nat

VARIABLES
  now,          \* Date.now()
  account,      \* who the application is signed in as
  epoch,        \* jwt's epoch: invalidate() calls so far
  cached,       \* jwt's cached entry, or None
  inflight,     \* jwt's inflight attempt, or 0
  minting,      \* the attempts under way
  reading,      \* every reader's last read of `token`
  faults        \* bound: the faults left (sign-ins, failures, drops, losses)

signedIn == <<now, account, epoch, cached>>
source == <<signedIn, inflight, minting, reading>>
tokenVars == <<source, faults>>

\* An attempt has a reader, so no more attempts than readers are under way.
Attempts == 1..Cardinality(Readers)

Fault == faults > 0 /\ faults' = faults - 1

NotReading == [mint |-> 0, got |-> None, since |-> 0]
Failed == [who |-> None]

TokensInit ==
  /\ now = 0
  /\ account = CHOOSE a \in Accounts : TRUE
  /\ epoch = 0
  /\ cached = None
  /\ inflight = 0
  /\ minting = [m \in Attempts |-> None]
  /\ reading = [r \in Readers |-> NotReading]

\* When a token is due: its margin before exp, or at half its life when the
\* margin is longer than the life.
RefreshAt(exp) == IF Lifetime <= Margin THEN now + Lifetime \div 2 ELSE exp - Margin

JwtOf(m) ==
  [who |-> minting[m].who, gen |-> minting[m].epoch, exp |-> now + Lifetime,
   refreshAt |-> RefreshAt(now + Lifetime)]

CacheIsFresh == cached # None /\ now < cached.refreshAt

\* current(): the cached token until it is due, else the mint under way, else
\* a new one.
ReadToken(r) ==
  \/ /\ CacheIsFresh
     /\ reading' = [reading EXCEPT ![r] = [mint |-> 0, got |-> cached, since |-> epoch]]
     /\ UNCHANGED <<inflight, minting>>
  \/ /\ ~CacheIsFresh /\ inflight # 0
     /\ reading' = [reading EXCEPT ![r] = [mint |-> inflight, got |-> None, since |-> epoch]]
     /\ UNCHANGED <<inflight, minting>>
  \/ /\ ~CacheIsFresh /\ inflight = 0
     /\ LET m == CHOOSE a \in Attempts : minting[a] = None IN
          /\ minting' = [minting EXCEPT ![m] = [epoch |-> epoch, who |-> account]]
          /\ inflight' = m
          /\ reading' = [reading EXCEPT ![r] = [mint |-> m, got |-> None, since |-> epoch]]

\* Whoever waits for attempt m gets g.
Resolve(m, g) ==
  /\ minting' = [minting EXCEPT ![m] = None]
  /\ inflight' = IF inflight = m THEN 0 ELSE inflight
  /\ reading' = [r \in Readers |-> IF reading[r].mint = m
                                   THEN [reading[r] EXCEPT !.mint = 0, !.got = g]
                                   ELSE reading[r]]

\* Mutant: a mint's answer is cached whatever happened meanwhile.
CachedAlways(m) == JwtOf(m)
\* A mint's answer is cached only if no invalidate() came since it was called.
CachedAfter(m) == IF minting[m].epoch = epoch THEN JwtOf(m) ELSE cached

MintAnswers(m) ==
  /\ minting[m] # None
  /\ cached' = CachedAfter(m)
  /\ Resolve(m, JwtOf(m))
  /\ UNCHANGED <<now, account, epoch, faults>>

MintFailsAt(m) ==
  /\ minting[m] # None
  /\ Fault
  /\ Resolve(m, Failed)
  /\ UNCHANGED signedIn

\* The application signs in as another account and calls invalidate().
SwitchAccount(a) ==
  /\ a # account
  /\ Fault
  /\ account' = a
  /\ epoch' = epoch + 1
  /\ cached' = None
  /\ inflight' = 0
  /\ UNCHANGED <<now, minting, reading>>

\* What a reader is done with is forgotten.
Forget(r) == reading' = [reading EXCEPT ![r] = NotReading]

TokenReady(r) == reading[r].got # None
TokenFailed(r) == reading[r].got = Failed
TokenOf(r) == reading[r].got

\* The peer's verification of a token: whatever its memo holds, an expired
\* token is refused.
Verifies(token) == now < token.exp
-----------------------------------------------------------------------------
(* A read begun after an invalidate() never gets a token minted before it:  *)
(* neither the cache, nor a mint the old tenant left in flight, resurrects  *)
(* it (token.ts:139-141).                                                   *)
TokenIsCurrent ==
  \A r \in Readers : TokenReady(r) /\ ~TokenFailed(r) => TokenOf(r).gen >= reading[r].since
=============================================================================
