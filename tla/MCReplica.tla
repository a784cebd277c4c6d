----------------------------- MODULE MCReplica -----------------------------
(***************************************************************************)
(* Histories for Replica: what each entry is to the one caller.            *)
(***************************************************************************)
EXTENDS Replica

\* Where no access changes.
Plain == {<<"public", "public">>}
PlainLong == {<<"public", "public", "public">>}

\* Access granted and taken away again around a private entry.
Revoked == {<<"grant", "private", "revoke">>}

\* That, and access granted after a private entry.
Changing == Revoked \cup {<<"private", "grant", "public">>}

\* What is explored of sessions: the whole log over one upstream socket, and
\* restarts with sessions open and failed calls over a short one.
Focused ==
  \/ opened = ws /\ opened <= 1 /\ restarts = 0 /\ fails = 0
  \/ assigned <= IF chunked = 0 /\ fails = 0 THEN 2 ELSE 1
=============================================================================
