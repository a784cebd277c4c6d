----------------------------- MODULE MCDatabase -----------------------------
(* Instances of Database for TLC: which requests there are.                *)
EXTENDS Database, TLC

CONSTANTS r1, r2, r3, ada

\* Plain writes without ids, of one principal: one is as good as another.
PlainKind == [r \in Requests |-> "tx"]
PlainWho == [r \in Requests |-> ada]
PlainId == [r \in Requests |-> NoId]
AnyOrder == Permutations(Requests)

\* No property says anything of the states after a slice that ends in a batch.
SlicesAreWritten == ~overran
=============================================================================
