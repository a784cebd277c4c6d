---------------------------- MODULE CommittedLog ----------------------------
(***************************************************************************)
(* What the single writer of a database promises, without batches, memory  *)
(* or instances: a log whose t are dense, a write answered with its own t  *)
(* only when the log has it, and subscribers that hear only of the log.    *)
(***************************************************************************)
EXTENDS Integers

CONSTANTS Requests,   \* the writes
          Entry,      \* what a log row holds
          IsWriteOf(_, _),  \* entry e is the transaction of request r
          Bootstrap   \* the entry of t = 1

VARIABLES log,        \* t -> entry
          answered,   \* request -> the t it was told, 0 before
          told        \* the <<t, entry>> that subscribers were sent

vars == <<log, answered, told>>

Init ==
  /\ log = [t \in {1} |-> Bootstrap]
  /\ answered = [r \in Requests |-> 0]
  /\ told = {}

LastT == CHOOSE t \in DOMAIN log : \A u \in DOMAIN log : u <= t

\* A batch lands entirely, at the next t's, or not at all.
Commit ==
  /\ LastT' > LastT
  /\ DOMAIN log' = 1..LastT'
  /\ \A t \in DOMAIN log : log'[t] = log[t]
  /\ \A t \in DOMAIN log' : log'[t] \in Entry
  /\ UNCHANGED <<answered, told>>

\* Writers are answered and subscribers told, from the log.
Answer ==
  /\ answered' \in [Requests -> DOMAIN log \cup {0}]
  /\ \A r \in Requests :
       answered'[r] # answered[r] => /\ answered[r] = 0
                                     /\ IsWriteOf(log[answered'[r]], r)
  /\ told \subseteq told'
  /\ \A m \in told' \ told : m[1] \in DOMAIN log /\ log[m[1]] = m[2]
  /\ UNCHANGED log

Next == Commit \/ Answer
Spec == Init /\ [][Next]_vars
=============================================================================
