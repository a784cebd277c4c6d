------------------------------- MODULE MCWire -------------------------------
(***************************************************************************)
(* Wire with two tasks: each load sets a few calls against each other.     *)
(***************************************************************************)
EXTENDS Wire

CONSTANTS s1, s2, dialer

BothTasks == {s1, s2}
TasksAndDialer == {s1, s2, dialer}
Load(n, a, b) == [calls |-> [s \in BothTasks |-> IF s = s1 THEN a ELSE b], faults |-> n]

\* A write and the read behind it beside another request that fills the cache;
\* reads that share the socket, its refusals and its swaps; a principal asked
\* while the socket's is swapped, and kept after; one request and its losses.
ManyLoads ==
  {Load(0, <<"who">>, <<"put", "get">>),
   Load(2, <<"pin">>, <<"pin">>),
   Load(1, <<"pin">>, <<"who", "who">>),
   Load(1, <<"pin", "who">>, <<>>),
   Load(2, <<"put">>, <<>>),
   Load(2, <<"get">>, <<>>)}
=============================================================================
