---------------------------- MODULE MCTransactor ----------------------------
(* Instances of Transactor for TLC: which requests there are.              *)
EXTENDS Transactor

CONSTANTS r1, r2, r3, r4, ada, bob, c1, c2

\* Ada writes, retries under the same id, and writes again without an id;
\* Bob uses Ada's id.
WriterKind == [r \in Requests |-> "tx"]
WriterWho == [r \in Requests |-> IF r = r4 THEN bob ELSE ada]
WriterId == [r \in Requests |-> IF r = r3 THEN NoId ELSE c1]

\* One operation that writes, and its retry; one that writes nothing; and the
\* /provision of their principal.
OpKind == [r \in Requests |->
             CASE r \in {r1, r2} -> "op" [] r = r3 -> "emptyOp" [] OTHER -> "system"]
OpWho == [r \in Requests |-> ada]
OpId == [r \in Requests |->
           CASE r \in {r1, r2} -> c1 [] r = r3 -> c2 [] OTHER -> NoId]

=============================================================================
