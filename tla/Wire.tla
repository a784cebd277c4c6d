-------------------------------- MODULE Wire --------------------------------
(***************************************************************************)
(* A client and the peer it talks to: the transports of db/Databases.ts    *)
(* and db/http.ts, the reconnecting session socket of db/session.ts, the   *)
(* token source both read (Tokens.tla), the isolate that answers requests  *)
(* (Peer.tla) and the replica's end of the socket (worker/session.ts,      *)
(* replica-do.ts).                                                         *)
(*                                                                         *)
(* A task is one call of the client: "pin", a pinned read over the socket; *)
(* "get", a read POSTed by a client without a socket; "put", its write;    *)
(* "who", db.principal().  What a live database pushes over the socket is  *)
(* Replica.tla's and Overlay.tla's.                                        *)
(***************************************************************************)
EXTENDS Peer, Sequences

CONSTANTS
  Dialer,       \* the reader that is the connect of the session socket
  Loads,        \* bound: the calls each task makes, and the faults they meet
  TransientAttempts  \* TRANSIENT_ATTEMPTS

ASSUME WireAssumption ==
  /\ Dialer \notin Slots /\ Readers = Slots \union {Dialer}
  /\ \A load \in Loads, s \in Slots :
       \A i \in DOMAIN load.calls[s] : load.calls[s][i] \in {"pin", "get", "put", "who"}
  /\ TransientAttempts \in Nat \ {0}

\* The socket, and what the replica's end of it keeps: the session's principal,
\* who it has answers for, in the order it sent them, and whether swaps of
\* different principals were under way at once.
Socket == [who : Accounts, exp : Nat, open : BOOLEAN, expiring : BOOLEAN, out : Seq(Slots), crossed : BOOLEAN]
ASSUME NoSocketAssumption == None \notin Socket

VARIABLES
  task,         \* what each task is at
  calls,        \* the calls each task has still to make
  socket,       \* the session's socket with the replica's end of it, or None
  opening,      \* "no", "token" while the connect reads the token, "dial" until it opens
  principal,    \* who the peer's last `auth` ack says this socket is, or None
  principals,   \* db.principal()'s cached answer, or None
  fence,        \* the t of the last write acknowledged: dbAfter's minT
  closed        \* close() ran

wireVars == <<task, calls, socket, opening, principal, principals, fence, closed>>
vars == <<tokenVars, peerVars, wireVars>>

Idle ==
  [kind |-> "none", pc |-> "idle", tries |-> 0, minT |-> 0, token |-> None, status |-> 0,
   acked |-> None]

\* An ack that a later one superseded: acks are told apart by identity.
Superseded == [who |-> None, named |-> FALSE]

WireInit ==
  /\ task = [s \in Slots |-> Idle]
  /\ \E load \in Loads : calls = load.calls /\ faults = load.faults
  /\ socket = None /\ opening = "no"
  /\ principal = None /\ principals = None
  /\ fence = 0 /\ closed = FALSE

Init == TokensInit /\ PeerInit /\ WireInit

Moves(s, pc) == task' = [task EXCEPT ![s].pc = pc]
Ended == [Idle EXCEPT !.pc = "done"]

\* retryTransient: another attempt while some are left; a closed session ends
\* the ladder of its frames.
Transient(k) ==
  IF k.tries + 1 < TransientAttempts /\ ~(k.kind = "pin" /\ closed)
  THEN [k EXCEPT !.pc = "wait", !.tries = @ + 1, !.status = 0,
                 !.token = IF k.kind = "pin" THEN None ELSE @]
  ELSE Ended

\* What an answer of this status is to the caller (fromResponse): 503 is
\* transient, every other refusal is final.
Settle(k, status) == IF status = 503 THEN Transient(k) ELSE Ended

FailAll(S) == task' = [s \in Slots |-> IF s \in S THEN Transient(task[s]) ELSE task[s]]
-----------------------------------------------------------------------------
(* Calls.                                                                   *)

NewCall(s, kind, pc) ==
  /\ task[s].pc \in {"idle", "done"}
  /\ calls[s] # <<>> /\ Head(calls[s]) = kind
  /\ calls' = [calls EXCEPT ![s] = Tail(@)]
  /\ \E m \in IF kind = "get" THEN {0, fence} ELSE {0} :
       task' = [task EXCEPT ![s] = [Idle EXCEPT !.kind = kind, !.pc = pc, !.minT = m,
                                   !.acked = IF kind = "who" THEN principal ELSE None]]

CallPin(s) ==
  /\ NewCall(s, "pin", "wait")
  /\ UNCHANGED <<tokenVars, peerVars, socket, opening, principal, principals, fence, closed>>

\* A POST reads the token once, before the ladder of its attempts.
CallPost(s) ==
  /\ \E kind \in {"get", "put"} : NewCall(s, kind, "token")
  /\ ReadToken(s)
  /\ UNCHANGED <<signedIn, faults, peerVars>>
  /\ UNCHANGED <<socket, opening, principal, principals, fence, closed>>

\* db.principal(): the swap's ack if it named the row, the cached answer while
\* generation and ack are those it was kept under, else /info.  A generation that
\* ends takes the cached answer with it.
PrincipalIsKnown ==
  \/ principal # None /\ principal.named
  \/ principals # None /\ principals.acked = principal

CallWho(s) ==
  /\ IF PrincipalIsKnown
     THEN NewCall(s, "who", "done") /\ UNCHANGED <<inflight, minting, reading>>
     ELSE NewCall(s, "who", "token") /\ ReadToken(s)
  /\ UNCHANGED <<signedIn, faults, peerVars>>
  /\ UNCHANGED <<socket, opening, principal, principals, fence, closed>>
-----------------------------------------------------------------------------
(* HTTPS: one request, and the ladder.                                      *)

RouteOf(kind) == CASE kind = "get" -> "read" [] kind = "put" -> "transact" [] kind = "who" -> "info"

\* The first attempt once the token is there, or the next with the same token.
Sends(s, token) ==
  /\ task' = [task EXCEPT ![s].pc = "sent", ![s].token = [who |-> token.who, exp |-> token.exp]]
  /\ \E q \in Arrive(Request(RouteOf(task[s].kind), token, task[s].minT), token) : Goes(s, q)

Send(s) ==
  /\ \/ /\ task[s].pc = "token" /\ TokenReady(s)
        /\ IF TokenFailed(s)
           THEN task' = [task EXCEPT ![s] = Ended] /\ UNCHANGED http
           ELSE Sends(s, TokenOf(s))
        /\ Forget(s)
     \/ /\ task[s].pc = "wait" /\ task[s].kind # "pin"
        /\ Sends(s, task[s].token)
        /\ UNCHANGED reading
  /\ UNCHANGED <<signedIn, inflight, minting, faults>>
  /\ UNCHANGED <<written, rows, applied, basisCache, provisioned>>
  /\ UNCHANGED <<calls, socket, opening, principal, principals, fence, closed>>

\* A write's ack moves dbAfter; a principal with a row is kept under the ack its
\* call began with and the generation there is by now.
Answer(s) ==
  /\ task[s].pc = "sent" /\ Awaits(s, "answered")
  /\ LET q == http[s]  ok == q.status = 200 IN
     /\ task' = [task EXCEPT ![s] = Settle(task[s], q.status)]
     /\ fence' = IF ok /\ task[s].kind = "put" /\ q.t > fence THEN q.t ELSE fence
     /\ principals' = IF ok /\ task[s].kind = "who" /\ q.named
                      THEN [acked |-> task[s].acked, who |-> q.who]
                      ELSE principals
  /\ Goes(s, None)
  /\ UNCHANGED <<tokenVars, written, rows, applied, basisCache, provisioned>>
  /\ UNCHANGED <<calls, socket, opening, principal, closed>>

\* The network loses a request, or its answer: whatever it did is done.
LoseRequest(s) ==
  /\ task[s].pc = "sent" /\ Fault
  /\ task' = [task EXCEPT ![s] = Transient(task[s])]
  /\ Goes(s, None)
  /\ UNCHANGED <<source, written, rows, applied, basisCache, provisioned>>
  /\ UNCHANGED <<calls, socket, opening, principal, principals, fence, closed>>
-----------------------------------------------------------------------------
(* The session's socket.                                                    *)

\* What waits for an answer on the socket, in the order the peer sent them.
Swapping == {"provisioning", "describing"}
Pending == {"frame", "reply", "auth", "ack", "again", "answer"} \union Swapping
Waiting(pcs) == {s \in Slots : task[s].pc \in pcs}

\* request: connect, or wait for the connect under way; then the frame goes
\* out on the socket, which refuses it while it is not open.
Connect(s) ==
  /\ task[s].kind = "pin" /\ task[s].pc = "wait"
  /\ \/ /\ closed \/ (socket # None /\ ~socket.open)
        /\ FailAll({s})
        /\ UNCHANGED <<opening, inflight, minting, reading>>
     \/ /\ ~closed /\ socket # None /\ socket.open
        /\ Moves(s, "frame")
        /\ UNCHANGED <<opening, inflight, minting, reading>>
     \/ /\ ~closed /\ socket = None /\ opening # "no"
        /\ Moves(s, "opening")
        /\ UNCHANGED <<opening, inflight, minting, reading>>
     \/ /\ ~closed /\ socket = None /\ opening = "no"
        /\ Moves(s, "opening")
        /\ opening' = "token"
        /\ ReadToken(Dialer)
  /\ UNCHANGED <<signedIn, faults, peerVars>>
  /\ UNCHANGED <<calls, socket, principal, principals, fence, closed>>

\* Mutant: the close is not looked for again once the token is read.
MayDialClosed == ~TokenFailed(Dialer)
\* A close that landed while the token was read wins.
MayDial == ~TokenFailed(Dialer) /\ ~closed

Dial ==
  /\ opening = "token" /\ TokenReady(Dialer)
  /\ IF MayDial
     THEN /\ socket' = [who |-> TokenOf(Dialer).who, exp |-> TokenOf(Dialer).exp,
                        open |-> FALSE, expiring |-> FALSE, out |-> <<>>, crossed |-> FALSE]
          /\ opening' = "dial"
          /\ principals' = None
          /\ UNCHANGED task
     ELSE /\ FailAll(Waiting({"opening"}))
          /\ opening' = "no"
          /\ UNCHANGED <<socket, principals>>
  /\ Forget(Dialer)
  /\ UNCHANGED <<signedIn, inflight, minting, faults, peerVars>>
  /\ UNCHANGED <<calls, principal, fence, closed>>

\* The peer verified the caller and the replica accepted the socket.
Opens ==
  /\ opening = "dial" /\ Verifies(socket)
  /\ Upgrades(socket.who)
  /\ socket' = [socket EXCEPT !.open = TRUE]
  /\ opening' = "no"
  /\ task' = [s \in Slots |-> IF task[s].pc = "opening" THEN [task[s] EXCEPT !.pc = "frame"]
                             ELSE task[s]]
  /\ UNCHANGED <<tokenVars, applied, http>>
  /\ UNCHANGED <<calls, principal, principals, fence, closed>>

\* Mutants: a drop keeps the principal; it fails what awaits an answer, not
\* what awaits the socket.
WhoIsKept == principal
FailedFrames == Pending
\* drop: everything waiting on the socket fails, and nobody is signed in on it.
WhoAfterDrop == None
FailedByDrop == Pending \union IF opening = "dial" THEN {"opening"} ELSE {}
Drop ==
  /\ socket' = None
  /\ principal' = WhoAfterDrop
  /\ FailAll(Waiting(FailedByDrop))
  /\ opening' = IF opening = "dial" THEN "no" ELSE opening
  /\ principals' = None
  /\ UNCHANGED <<source, peerVars, calls, fence>>

SocketDrops ==
  /\ socket # None /\ Fault
  /\ Drop
  /\ UNCHANGED closed

UpgradeRefused ==
  /\ opening = "dial" /\ ~Verifies(socket)
  /\ Drop
  /\ UNCHANGED <<closed, faults>>

\* The session of an expired principal closes behind the answers it sent.
Shutdown ==
  /\ socket # None /\ socket.expiring /\ socket.out = <<>>
  /\ Drop
  /\ UNCHANGED <<closed, faults>>

Close ==
  /\ ~closed /\ Fault
  /\ closed' = TRUE
  /\ IF socket # None THEN Drop
     ELSE /\ principals' = None
          /\ UNCHANGED <<source, peerVars, calls, task, socket, opening, principal, fence>>
-----------------------------------------------------------------------------
(* Frames.                                                                  *)

\* What a frame is answered with.
Statuses == {200, 401, 503}

\* sessionDispatch answers the read, or has no root yet.
Dispatched(status) ==
  \/ status = 200 /\ UNCHANGED faults
  \/ status = 503 /\ Fault

\* The replica's end answers a frame under the principal it has when the frame
\* is planned, and refuses every frame of an expired one.
Serve(s) ==
  /\ task[s].pc \in {"frame", "again"} /\ socket # None /\ socket.open
  /\ \E status \in Statuses :
       /\ IF Verifies(socket) THEN Dispatched(status) ELSE status = 401 /\ UNCHANGED faults
       /\ task' = [task EXCEPT ![s].pc = IF @ = "frame" THEN "reply" ELSE "answer",
                               ![s].status = status]
       /\ socket' = [socket EXCEPT !.out = Append(@, s), !.expiring = @ \/ status = 401]
  /\ UNCHANGED <<source, peerVars, calls, opening, principal, principals, fence, closed>>

Delivers(s, pc) == task[s].pc = pc /\ socket # None /\ socket.out # <<>> /\ Head(socket.out) = s
Delivered == socket' = [socket EXCEPT !.out = Tail(@)]

\* A refusal re-reads the token; the answer to a re-issued frame is final.
Reply(s) ==
  /\ \/ /\ Delivers(s, "reply") /\ task[s].status = 401
        /\ Moves(s, "reauth")
        /\ ReadToken(s)
     \/ /\ Delivers(s, "answer") \/ (Delivers(s, "reply") /\ task[s].status # 401)
        /\ task' = [task EXCEPT ![s] = Settle(task[s], task[s].status)]
        /\ UNCHANGED <<inflight, minting, reading>>
  /\ Delivered
  /\ UNCHANGED <<signedIn, faults, peerVars>>
  /\ UNCHANGED <<calls, opening, principal, principals, fence, closed>>

\* reauth: {op: "auth"} on the socket there is by now, if any.
Reauth(s) ==
  /\ task[s].pc = "reauth" /\ TokenReady(s)
  /\ IF TokenFailed(s) \/ socket = None \/ ~socket.open THEN FailAll({s})
     ELSE task' = [task EXCEPT ![s].pc = "auth",
                            ![s].token = [who |-> TokenOf(s).who, exp |-> TokenOf(s).exp]]
  /\ Forget(s)
  /\ UNCHANGED <<signedIn, inflight, minting, faults, peerVars>>
  /\ UNCHANGED <<calls, socket, opening, principal, principals, fence, closed>>

\* refresh, up to its first answer: the frame is verified and the session's
\* principal swapped; a refusal keeps the old one.  Frames are not handled one
\* after the other (replica-do.ts webSocketMessage): others run at every await.
\* crossed is a history variable: swaps of two principals overlap.
OtherSwaps(s) == Waiting(Swapping) \ {s}
CrossedBy(s, who) ==
  OtherSwaps(s) # {} /\ (socket.crossed \/ \E u \in OtherSwaps(s) : task[u].token.who # who)
Refuses(s) ==
  /\ task' = [task EXCEPT ![s].pc = "ack", ![s].status = 401, ![s].token = None]
  /\ socket' = [socket EXCEPT !.out = Append(@, s)]
Authenticate(s) ==
  /\ task[s].pc = "auth" /\ socket # None
  /\ LET k == task[s].token IN
     IF Verifies(k)
     THEN /\ Moves(s, "provisioning")
          /\ socket' = [socket EXCEPT !.who = k.who, !.exp = k.exp, !.crossed = CrossedBy(s, k.who)]
     ELSE Refuses(s)
  /\ UNCHANGED <<tokenVars, peerVars, calls, opening, principal, principals, fence, closed>>

\* The writer has answered, or failed: the frame's own principal is the session's
\* once more, with its row or without.
ProvisionSwap(s) ==
  /\ task[s].pc = "provisioning" /\ socket # None
  /\ LET k == task[s].token
         Described(named) == task' = [task EXCEPT ![s].pc = "describing", ![s].acked = [who |-> k.who, named |-> named]]
     IN  /\ \/ Upsert(k.who) /\ Described(TRUE)
            \/ UNCHANGED <<written, rows>> /\ Described(FALSE)
         /\ socket' = [socket EXCEPT !.who = k.who, !.exp = k.exp]
  /\ UNCHANGED <<tokenVars, applied, basisCache, provisioned, http>>
  /\ UNCHANGED <<calls, opening, principal, principals, fence, closed>>

\* describe: the row the writer named, or the one the replica has; then the ack.
DescribeSwap(s) ==
  /\ task[s].pc = "describing" /\ socket # None
  /\ LET k == task[s] IN
     \E named \in BOOLEAN :
       /\ k.acked.named => named
       /\ named => k.acked.named \/ rows[k.acked.who] \in 1..applied
       /\ task' = [task EXCEPT ![s] = [k EXCEPT !.pc = "ack", !.status = 200, !.token = None,
                                                !.acked = [who |-> k.acked.who, named |-> named]]]
  /\ socket' = [socket EXCEPT !.out = Append(@, s)]
  /\ UNCHANGED <<tokenVars, peerVars, calls, opening, principal, principals, fence, closed>>

\* The ack names the session's principal and the frame goes out once more; a
\* refused swap leaves the frame its first refusal.
Ack(s) ==
  /\ Delivers(s, "ack")
  /\ IF task[s].status = 200
     THEN /\ principal' = task[s].acked
          /\ task' = [u \in Slots |->
               IF u = s THEN [task[s] EXCEPT !.pc = "again", !.acked = None]
               ELSE IF task[u].kind = "who" THEN [task[u] EXCEPT !.acked = Superseded]
               ELSE task[u]]
          /\ principals' = None
     ELSE /\ task' = [task EXCEPT ![s] = Ended]
          /\ UNCHANGED <<principal, principals>>
  /\ Delivered
  /\ UNCHANGED <<tokenVars, peerVars, calls, opening, fence, closed>>
-----------------------------------------------------------------------------
\* Time passes; no basis is on its way for longer than Flight.
Tick ==
  /\ now < MaxNow
  /\ \A s \in Slots : Awaits(s, "basis") => now - http[s].seen < Flight
  /\ now' = now + 1
  /\ UNCHANGED <<account, epoch, cached, inflight, minting, reading, faults, peerVars, wireVars>>

TokenStep ==
  \/ \E m \in Attempts : MintAnswers(m) \/ MintFailsAt(m)
  \/ \E a \in Accounts : SwitchAccount(a)

TaskStep(s) ==
  \/ Send(s) \/ Answer(s) \/ Connect(s) \/ Serve(s) \/ Reply(s)
  \/ Reauth(s) \/ Authenticate(s) \/ ProvisionSwap(s) \/ DescribeSwap(s) \/ Ack(s)

Next ==
  \/ \E s \in Slots : CallPin(s) \/ CallPost(s) \/ CallWho(s) \/ TaskStep(s) \/ LoseRequest(s)
  \/ \E s \in Slots : PeerStep(s) /\ UNCHANGED <<source, wireVars>>
  \/ ReplicaApplies /\ UNCHANGED <<source, wireVars>>
  \/ TokenStep /\ UNCHANGED <<peerVars, wireVars>>
  \/ Dial \/ Opens \/ SocketDrops \/ UpgradeRefused \/ Shutdown \/ Close
  \/ Tick

\* Handlers run, mints and upgrades are answered, one way or the other.  No
\* call need be made, nothing need be lost and time need not pass.
Fairness ==
  /\ \A s \in Slots : WF_vars(TaskStep(s))
  /\ \A s \in Slots : WF_vars(PeerStep(s) /\ UNCHANGED <<source, wireVars>>)
  /\ \A m \in Attempts : WF_vars(MintAnswers(m) /\ UNCHANGED <<peerVars, wireVars>>)
  /\ WF_vars(Dial) /\ WF_vars(Opens \/ UpgradeRefused) /\ WF_vars(Shutdown)

Spec == Init /\ [][Next]_vars /\ Fairness
-----------------------------------------------------------------------------
(* db/session.ts:108-113: the principal the session reports from its acks  *)
(* is the one its socket has, whatever swaps and drops there were, except  *)
(* while an `auth` is on its way: nobody reads who an earlier socket was.   *)
(* Nor is it said of a socket on which swaps of different principals        *)
(* overlapped, until one runs alone: their acks may leave in either order.  *)
PrincipalIsSockets ==
  principal # None /\ Waiting({"auth", "ack"} \union Swapping) = {} =>
    socket # None /\ (socket.crossed \/ principal.who = socket.who)

(* session.ts:269-272: a socket opened for a closed session would leak.     *)
ClosedLeaksNothing == closed => socket = None

(* Every call ends, with an answer or an error: no drop, refusal, swap,     *)
(* close or failed mint leaves one waiting for good.                        *)
EveryCallEnds ==
  \A s \in Slots : task[s].pc \notin {"idle", "done"} ~> task[s].pc = "done"
=============================================================================
