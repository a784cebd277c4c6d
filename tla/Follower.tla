------------------------------ MODULE Follower ------------------------------
(***************************************************************************)
(* What a read copy of a database promises: it holds a prefix of the       *)
(* committed log, and the prefix only grows.  The log only grows too.      *)
(***************************************************************************)
EXTENDS Naturals, Sequences, FiniteSets

VARIABLES
  log,    \* the committed entries
  copy    \* the t's the copy holds

Prefixes == {1..n : n \in 0..Len(log)}

Init == log = <<>> /\ copy = {}

Write == Len(log') = Len(log) + 1 /\ SubSeq(log', 1, Len(log)) = log /\ UNCHANGED copy

CatchUp == copy' \in Prefixes /\ copy \subseteq copy' /\ UNCHANGED log

Next == Write \/ CatchUp

Spec == Init /\ [][Next]_<<log, copy>>
=============================================================================
