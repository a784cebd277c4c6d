---------------------------- MODULE SessionProofs ----------------------------
(***************************************************************************)
(* What the sessions of Replica.tla show, for every number of them, of     *)
(* sockets, restarts and failures: a client that has been told all its     *)
(* session walked shows the view its caller may read at that t.            *)
(***************************************************************************)
EXTENDS ReplicaProofs

(***************************************************************************)
(* What the caller may read at a t of the log does not change.             *)
(***************************************************************************)
\* A set of naturals below a bound has a greatest element.
LEMMA Greatest ==
  ASSUME NEW n \in Nat, NEW T \in SUBSET (0..n), T # {}
  PROVE  \E m \in T : \A y \in T : m >= y
<1> DEFINE R == {n - x : x \in T}
<1>1. R \in SUBSET Nat /\ R # {}
  <2>1. ASSUME NEW x \in T PROVE n - x \in Nat
    <3>1. x \in 0..n
      OBVIOUS
    <3> QED BY <3>1
  <2> QED BY <2>1
<1>2. PICK r \in R : \A y \in R : r <= y
  <2> HIDE DEF R
  <2> QED BY <1>1, Least
<1>3. PICK m \in T : r = n - m
  BY <1>2
<1>4. ASSUME NEW y \in T PROVE m >= y
  <2>1. n - y \in R
    OBVIOUS
  <2>2. n - m <= n - y /\ m \in 0..n /\ y \in 0..n
    BY <1>2, <1>3, <2>1
  <2> QED BY <2>2
<1> QED BY <1>4

\* The changes of the caller's access up to a t.
Changes(t) == {u \in 1..t : log[u] \in {"grant", "revoke"}}

\* The last change is one of them.
LEMMA LastChange ==
  ASSUME NEW t \in Nat, Changes(t) # {}
  PROVE  Max0(Changes(t)) \in Changes(t)
<1> DEFINE T == Changes(t) \cup {0}
<1>1. T \in SUBSET (0..t) /\ T # {}
  BY DEF Changes
<1>2. PICK m \in T : \A y \in T : m >= y
  <2> HIDE DEF T
  <2> QED BY <1>1, Greatest
<1>3. Max(T) \in T /\ \A y \in T : Max(T) >= y
  <2> HIDE DEF T
  <2> QED BY <1>2 DEF Max
<1>4. PICK c \in Changes(t) : c \in 1..t
  BY DEF Changes
<1>5. Max(T) # 0
  BY <1>3, <1>4
<1> QED BY <1>3, <1>5 DEF Max0

\* What a step leaves of the past: what the caller could read at the t's the replica has.
Kept ==
  /\ BasisT \in Nat /\ BasisT' \in Nat /\ BasisT <= BasisT'
  /\ root # NoRoot => root' # NoRoot
  /\ \A t \in 0..BasisT : Access(t)' = Access(t) /\ View(t)' = View(t)
  /\ \A t \in 1..BasisT : Readable(t, t)' = Readable(t, t) /\ Decide(t)' = Decide(t)

\* No step changes what the caller could read at a t the replica has.
LEMMA PastIsKept ==
  ASSUME ReplicaInv, ReplicaInv', Follows, CopyGrows
  PROVE  Kept
<1>1. BasisFacts /\ BasisFacts' /\ BasisT <= BasisT' /\ (root # NoRoot => root' # NoRoot)
  BY BasisIs, BasisIsNext DEF ReplicaInv, Follows, CopyGrows
<1>2. BasisT \in 0..Len(log) /\ BasisT' \in Nat /\ Len(log) \in Nat
  BY <1>1 DEF BasisFacts
<1>3. \A u \in 1..Len(log) : log'[u] = log[u]
  BY DEF Follows, LogGrown
<1>4. ASSUME NEW t \in 0..Len(log) PROVE Access(t)' = Access(t)
  <2>1. Changes(t)' = Changes(t)
    BY <1>2, <1>3 DEF Changes
  <2>2. Access(t) = (Changes(t) # {} /\ log[Max0(Changes(t))] = "grant")
    BY DEF Access, Changes
  <2>3. Access(t)' = (Changes(t)' # {} /\ log'[Max0(Changes(t)')] = "grant")
    BY DEF Access, Changes, Max0, Max
  <2>4. CASE Changes(t) = {}
    BY <2>1, <2>2, <2>3, <2>4
  <2>5. CASE Changes(t) # {}
    <3>1. Max0(Changes(t)) \in Changes(t)
      BY <2>5, LastChange
    <3>2. PICK m \in Changes(t) : m = Max0(Changes(t))
      BY <3>1
    <3>3. m \in 1..Len(log)
      BY <1>2 DEF Changes
    <3> QED BY <3>2, <3>3, <2>1, <2>2, <2>3, <1>3
  <2> QED BY <2>4, <2>5
<1>5. ASSUME NEW t \in 0..Len(log), NEW u \in 1..t PROVE Readable(u, t)' = Readable(u, t)
  <2>1. log'[u] = log[u]
    BY <1>2, <1>3
  <2> QED BY <2>1, <1>4 DEF Readable
<1>6. ASSUME NEW t \in 0..Len(log) PROVE View(t)' = View(t)
  BY <1>5 DEF View
<1>7. ASSUME NEW t \in 1..Len(log) PROVE Readable(t, t)' = Readable(t, t) /\ Decide(t)' = Decide(t)
  <2>1. Readable(t, t)' = Readable(t, t)
    BY <1>5
  <2>2. Access(t)' = Access(t) /\ Access(t - 1)' = Access(t - 1)
    BY <1>4
  <2> QED BY <2>1, <2>2 DEF Decide, RuleViewChanged
<1> QED BY <1>1, <1>2, <1>4, <1>6, <1>7 DEF Kept

(***************************************************************************)
(* The invariant.  What counts is what the client will show once it has    *)
(* applied the frames on their way to it, so each session has the states   *)
(* its client goes through.                                                *)
(***************************************************************************)
Shown == [facts : SUBSET Nat, painted : SUBSET Nat, confirmedT : Nat]
ShownOf(c) == [facts |-> c.facts, painted |-> c.painted, confirmedT |-> c.confirmedT]
After(x, f) ==
  [facts |-> IF f.op = "tx" THEN x.facts \cup ({f.t} \ x.painted)
             ELSE IF f.op = "resync" THEN View(f.t) ELSE x.facts,
   painted |-> IF f.op = "tx" THEN x.painted \cup {f.t}
               ELSE IF f.op = "resync" THEN 1..f.t ELSE x.painted,
   confirmedT |-> IF f.op = "tx" THEN x.confirmedT
                  ELSE IF f.op = "resync" THEN f.t
                  ELSE IF x.confirmedT >= f.t THEN x.confirmedT ELSE f.t]

\* A client shows the view at its cursor and what was pushed since, over which
\* the caller's access did not change.
Steady(a, b) == \A u \in a..b : Access(u) = Access(a)
Coherent(x) ==
  /\ x.confirmedT <= BasisT /\ x.painted \subseteq 1..BasisT
  /\ x.facts = View(x.confirmedT) \cup {t \in x.painted : t > x.confirmedT}
  /\ \A t \in x.painted : t > x.confirmedT => Steady(x.confirmedT, t) /\ Readable(t, t)
  /\ \A t \in 1..x.confirmedT : Decide(t) = "tx" => t \in x.painted

\* The states a client goes through.
Leads(c, q, st) ==
  /\ st \in [0..Len(q) -> Shown] /\ st[0] = ShownOf(c)
  /\ \A i \in 1..Len(q) : st[i] = After(st[i - 1], q[i])
  /\ \A i \in 0..Len(q) : Coherent(st[i])
  /\ \A i, j \in 0..Len(q) : i <= j => st[i].confirmedT <= st[j].confirmedT

\* Where the session has walked past what its client will have, there was no
\* change of access, and the client has what may be read.
Walked(v, z) ==
  /\ v.watermark <= BasisT /\ v.cursor <= BasisT
  /\ \A u \in 1..BasisT :
       u > z.confirmedT /\ (u <= v.watermark \/ u <= v.cursor) =>
         Access(u) = Access(z.confirmedT) /\ (Readable(u, u) => u \in z.painted)
\* A dump that is read is of a t the client does not go back to.
Dumps(v, z) == v.at = "snap" => z.confirmedT <= v.snapT /\ v.snapT <= BasisT
\* Once the client's cursor is taken, either the session has walked all that the
\* client has, or the walk the client asked for is still to come and reaches it.
UpTo(z, n) == z.confirmedT <= n /\ \A p \in z.painted : p <= n
AllWalked(v, z) == UpTo(z, v.watermark) /\ (v.at = "walk" => v.cursor = v.watermark)
WalkComes(v, z) ==
  \E i \in 1..Len(v.queue) :
    /\ v.queue[i].by = -1 /\ UpTo(z, v.queue[i].t) /\ v.watermark <= v.queue[i].t
    /\ \A j \in 1..i : \A e \in Range(v.queue[j].entries) : e <= v.queue[i].t
    /\ v.at = "walk" =>
         /\ \A k \in 1..Len(v.rest) : v.rest[k] <= v.queue[i].t
         /\ i > 1 \/ v.cursor = v.watermark
Told(v, asked, z) == asked \in {"taken", "done"} => AllWalked(v, z) \/ WalkComes(v, z)
EndOf(v, asked, z) == Walked(v, z) /\ Dumps(v, z) /\ Told(v, asked, z)

Jobs == [t : Nat, rootT : Nat, entries : Seq(Nat), by : Int]
Walks == [open : BOOLEAN, who : {"caller"}, watermark : Nat, queue : Seq(Jobs),
          at : {"idle", "walk", "snap"}, cursor : Nat, rest : Seq(Nat), snapT : Nat]
Clients == [facts : SUBSET Nat, painted : SUBSET Nat, confirmedT : Nat,
            asked : {"no", "sent", "taken", "done"}, from : Nat, opens : Nat]
Pushes == [op : {"tx", "resync", "reply"}, t : Nat]

\* What the jobs of a session read is of the replica's log.
JobIsOf(job) ==
  job.t <= BasisT /\ \E a \in Nat, b \in 0..BasisT : Range(job.entries) = a..b
Queued(v) ==
  /\ \A i \in 1..Len(v.queue) : JobIsOf(v.queue[i])
  /\ \A k \in 1..Len(v.rest) : v.rest[k] <= BasisT
  /\ v.at # "idle" => v.queue # <<>>
\* A client that did not ask is owed no answer.
Owed(v, asked, q) ==
  asked \notin {"taken", "done"} =>
    /\ \A i \in 1..Len(q) : q[i].op # "reply"
    /\ \A i \in 1..Len(v.queue) : v.queue[i].by # -1

\* Of a replica that has no root no client has anything, or it strayed.
Blank(v, c, q) ==
  /\ v.watermark = 0 /\ v.at # "snap" /\ c.confirmedT = 0 /\ c.painted = {}
  /\ \A i \in 1..Len(q) : q[i].op = "reply" /\ q[i].t = 0

SessionOK(v, c, q) ==
  /\ v \in Walks /\ c \in Clients /\ q \in Seq(Pushes)
  /\ ~ v.open => v = Closed /\ q = <<>> /\ c.asked = "no"
  /\ root = NoRoot => Blank(v, c, q)
  /\ c.asked = "sent" => c.from <= c.confirmedT
  /\ Queued(v) /\ Owed(v, c.asked, q)
  /\ \E st : Leads(c, q, st) /\ (v.open => EndOf(v, c.asked, st[Len(q)]))

\* A socket that no walk found without its session: it may still be accepted.
Earlies == [accepted : BOOLEAN, watermark : Nat, queue : {<<>>}, at : {"idle"}, snapT : Nat,
            stored : BOOLEAN]
EarlyOK(v, e) == e \in Earlies /\ ~ e.stored /\ (e.accepted => ~ v.open)

Arrays ==
  /\ DOMAIN session = Sessions /\ DOMAIN inbox = Sessions /\ DOMAIN client = Sessions
  /\ DOMAIN early = Sessions
  /\ session = [s \in Sessions |-> session[s]] /\ inbox = [s \in Sessions |-> inbox[s]]
  /\ client = [s \in Sessions |-> client[s]] /\ early = [s \in Sessions |-> early[s]]
SessionsInv ==
  /\ Arrays
  /\ \A s \in Sessions \ strayed :
       SessionOK(session[s], client[s], inbox[s]) /\ EarlyOK(session[s], early[s])

(***************************************************************************)
(* It holds on while the log and the copy grow.                            *)
(***************************************************************************)
\* A coherent client stays coherent while the log and the copy grow.
LEMMA CoherentStays ==
  ASSUME Kept, NEW x \in Shown, Coherent(x)
  PROVE  Coherent(x)'
<1>1. x.confirmedT \in 0..BasisT /\ BasisT \in Nat /\ BasisT' \in Nat /\ BasisT <= BasisT'
  BY DEF Kept, Coherent, Shown
<1>2. x.painted \subseteq 1..BasisT /\ x.painted \subseteq 1..BasisT'
  BY <1>1 DEF Coherent
<1>3. View(x.confirmedT)' = View(x.confirmedT)
  BY <1>1 DEF Kept
<1>4. ASSUME NEW t \in x.painted, t > x.confirmedT
      PROVE  Steady(x.confirmedT, t)' /\ Readable(t, t)'
  <2>1. t \in 1..BasisT /\ Steady(x.confirmedT, t) /\ Readable(t, t)
    BY <1>2, <1>4 DEF Coherent
  <2>2. \A u \in x.confirmedT..t : u \in 0..BasisT
    BY <2>1, <1>1
  <2>3. \A u \in x.confirmedT..t : Access(u)' = Access(u)
    BY <2>2 DEF Kept
  <2>4. Access(x.confirmedT)' = Access(x.confirmedT)
    BY <1>1 DEF Kept
  <2>5. Readable(t, t)'
    BY <2>1 DEF Kept
  <2> QED BY <2>1, <2>3, <2>4, <2>5 DEF Steady
<1>5. ASSUME NEW t \in 1..x.confirmedT, Decide(t)' = "tx" PROVE t \in x.painted
  <2>1. t \in 1..BasisT
    BY <1>1
  <2>2. Decide(t) = "tx"
    BY <2>1, <1>5 DEF Kept
  <2> QED BY <2>2 DEF Coherent
<1> QED BY <1>1, <1>2, <1>3, <1>4, <1>5 DEF Coherent

\* So does the relation of a session to where its client comes to.
LEMMA EndStays ==
  ASSUME Kept, NEW v \in Walks, NEW asked, NEW z \in Shown, Coherent(z), EndOf(v, asked, z)
  PROVE  EndOf(v, asked, z)'
<1>1. z.confirmedT \in 0..BasisT /\ BasisT \in Nat /\ BasisT' \in Nat /\ BasisT <= BasisT'
      /\ v.watermark \in Nat /\ v.cursor \in Nat /\ v.snapT \in Nat
  BY DEF Kept, Coherent, Shown, Walks
<1>2. Walked(v, z)'
  <2>1. v.watermark <= BasisT /\ v.cursor <= BasisT
    BY DEF EndOf, Walked
  <2>2. ASSUME NEW u \in 1..BasisT', u > z.confirmedT, u <= v.watermark \/ u <= v.cursor
        PROVE  Access(u)' = Access(z.confirmedT)' /\ (Readable(u, u)' => u \in z.painted)
    <3>1. u \in 1..BasisT /\ u \in 0..BasisT
      BY <2>1, <2>2, <1>1
    <3>2. Access(u) = Access(z.confirmedT) /\ (Readable(u, u) => u \in z.painted)
      BY <3>1, <2>2 DEF EndOf, Walked
    <3>3. Access(u)' = Access(u) /\ Access(z.confirmedT)' = Access(z.confirmedT)
          /\ Readable(u, u)' = Readable(u, u)
      BY <3>1, <1>1 DEF Kept
    <3> QED BY <3>2, <3>3
  <2> QED BY <2>1, <2>2, <1>1 DEF Walked
<1>3. Dumps(v, z)'
  BY <1>1 DEF EndOf, Dumps
<1>4. Told(v, asked, z)'
  BY DEF EndOf, Told, AllWalked, WalkComes, UpTo
<1> QED BY <1>2, <1>3, <1>4 DEF EndOf

\* So do the states a client goes through.
LEMMA LeadsStay ==
  ASSUME Kept, NEW c, NEW q \in Seq(Pushes), NEW st, Leads(c, q, st)
  PROVE  Leads(c, q, st)'
<1>1. st \in [0..Len(q) -> Shown] /\ Len(q) \in Nat
  BY DEF Leads
<1>2. \A i \in 0..Len(q) : Coherent(st[i])'
  BY <1>1, CoherentStays DEF Leads
<1>3. ASSUME NEW i \in 1..Len(q) PROVE st[i] = After(st[i - 1], q[i])'
  <2>1. st[i] = After(st[i - 1], q[i]) /\ Coherent(st[i]) /\ q[i] \in Pushes
    BY <1>1 DEF Leads
  <2>2. CASE q[i].op # "resync"
    BY <2>1, <2>2 DEF After
  <2>3. CASE q[i].op = "resync"
    <3>1. st[i].confirmedT = q[i].t
      BY <2>1, <2>3 DEF After
    <3>2. q[i].t \in 0..BasisT
      BY <3>1, <2>1 DEF Coherent, Pushes, Kept
    <3>3. View(q[i].t)' = View(q[i].t)
      BY <3>2 DEF Kept
    <3> QED BY <2>1, <3>3 DEF After
  <2> QED BY <2>2, <2>3
<1> QED BY <1>1, <1>2, <1>3 DEF Leads

\* So do the jobs a session has.
LEMMA QueuedStays ==
  ASSUME Kept, NEW v \in Walks, Queued(v)
  PROVE  Queued(v)'
<1>1. BasisT \in Nat /\ BasisT' \in Nat /\ BasisT <= BasisT'
  BY DEF Kept
<1>2. ASSUME NEW i \in 1..Len(v.queue) PROVE JobIsOf(v.queue[i])'
  <2>1. v.queue[i] \in Jobs /\ JobIsOf(v.queue[i])
    BY DEF Walks, Queued
  <2>2. v.queue[i].t \in Nat /\ v.queue[i].t <= BasisT
    BY <2>1 DEF Jobs, JobIsOf
  <2>3. PICK a \in Nat, b \in 0..BasisT : Range(v.queue[i].entries) = a..b
    BY <2>1 DEF JobIsOf
  <2>4. b \in 0..BasisT'
    BY <1>1
  <2>5. v.queue[i].t <= BasisT'
    BY <2>2, <1>1
  <2>6. \E c \in Nat, d \in 0..BasisT' : Range(v.queue[i].entries) = c..d
    BY <2>3, <2>4
  <2> QED BY <2>5, <2>6 DEF JobIsOf
<1>3. \A k \in 1..Len(v.rest) : v.rest[k] <= BasisT'
  <2>1. \A k \in 1..Len(v.rest) : v.rest[k] \in Nat /\ v.rest[k] <= BasisT
    BY DEF Queued, Walks
  <2> QED BY <2>1, <1>1
<1> QED BY <1>2, <1>3 DEF Queued

\* So does all that is known of a session.
LEMMA SessionStays ==
  ASSUME Kept, NEW v, NEW c, NEW q, SessionOK(v, c, q)
  PROVE  SessionOK(v, c, q)'
<1>1. v \in Walks /\ c \in Clients /\ q \in Seq(Pushes) /\ Queued(v)
  BY DEF SessionOK
<1>2. PICK st : Leads(c, q, st) /\ (v.open => EndOf(v, c.asked, st[Len(q)]))
  BY DEF SessionOK
<1>3. Leads(c, q, st)'
  BY <1>1, <1>2, LeadsStay
<1>4. v.open => EndOf(v, c.asked, st[Len(q)])'
  <2>1. st[Len(q)] \in Shown /\ Coherent(st[Len(q)])
    BY <1>1, <1>2 DEF Leads
  <2> QED BY <2>1, <1>1, <1>2, EndStays
<1>5. Queued(v)'
  BY <1>1, QueuedStays
<1>6. root' = NoRoot => Blank(v, c, q)
  BY DEF Kept, SessionOK
<1>7. Owed(v, c.asked, q)'
  BY DEF SessionOK, Owed
<1> QED BY <1>1, <1>3, <1>4, <1>5, <1>6, <1>7 DEF SessionOK

(***************************************************************************)
(* What a frame does to a coherent client.                                 *)
(***************************************************************************)
\* A frame more on the way.
LEMMA Extends ==
  ASSUME NEW c, NEW q \in Seq(Pushes), NEW st, Leads(c, q, st), NEW f \in Pushes,
         NEW z \in Shown, z = After(st[Len(q)], f), Coherent(z),
         st[Len(q)].confirmedT <= z.confirmedT
  PROVE  /\ q \o <<f>> \in Seq(Pushes) /\ Len(q \o <<f>>) = Len(q) + 1
         /\ \E st2 : Leads(c, q \o <<f>>, st2) /\ st2[Len(q) + 1] = z
<1> DEFINE n == Len(q)
           p == q \o <<f>>
           st2 == [i \in 0..n + 1 |-> IF i = n + 1 THEN z ELSE st[i]]
<1>1. n \in Nat /\ p \in Seq(Pushes) /\ Len(p) = n + 1
      /\ \A i \in 1..n + 1 : p[i] = IF i = n + 1 THEN f ELSE q[i]
  OBVIOUS
<1>2. /\ st \in [0..n -> Shown] /\ st[0] = ShownOf(c)
      /\ \A i \in 1..n : st[i] = After(st[i - 1], q[i])
      /\ \A i \in 0..n : Coherent(st[i])
      /\ \A i, j \in 0..n : i <= j => st[i].confirmedT <= st[j].confirmedT
  BY DEF Leads
<1>3. st2 \in [0..n + 1 -> Shown] /\ st2[0] = ShownOf(c)
  BY <1>1, <1>2
<1>4. ASSUME NEW i \in 1..n + 1 PROVE st2[i] = After(st2[i - 1], p[i])
  <2>1. CASE i = n + 1
    BY <2>1, <1>1
  <2>2. CASE i # n + 1
    <3>1. i \in 1..n /\ i - 1 \in 0..n
      BY <2>2, <1>1
    <3>2. p[i] = q[i] /\ st2[i] = st[i] /\ st2[i - 1] = st[i - 1]
      BY <3>1, <2>2, <1>1
    <3> HIDE DEF p, st2
    <3> QED BY <3>1, <3>2, <1>2
  <2> QED BY <2>1, <2>2
<1>5. \A i \in 0..n + 1 : Coherent(st2[i])
  BY <1>1, <1>2
<1>6. ASSUME NEW i \in 0..n + 1, NEW j \in 0..n + 1, i <= j
      PROVE  st2[i].confirmedT <= st2[j].confirmedT
  <2>1. CASE j # n + 1
    <3>1. i \in 0..n /\ j \in 0..n
      BY <2>1, <1>1, <1>6
    <3>2. st2[i] = st[i] /\ st2[j] = st[j]
      BY <3>1, <1>1
    <3> HIDE DEF st2
    <3> QED BY <3>1, <3>2, <1>2, <1>6
  <2>2. CASE j = n + 1 /\ i # n + 1
    <3>1. i \in 0..n /\ n \in 0..n
      BY <2>2, <1>1
    <3>2. st2[i] = st[i] /\ st2[j] = z
      BY <3>1, <2>2, <1>1
    <3>3. st[i].confirmedT <= st[n].confirmedT /\ st[i] \in Shown /\ st[n] \in Shown
      BY <3>1, <1>2
    <3> HIDE DEF st2
    <3> QED BY <3>2, <3>3 DEF Shown
  <2>3. CASE j = n + 1 /\ i = n + 1
    BY <2>3 DEF Shown
  <2> QED BY <2>1, <2>2, <2>3
<1>7. Leads(c, p, st2)
  <2> HIDE DEF p, st2
  <2> QED BY <1>1, <1>3, <1>4, <1>5, <1>6 DEF Leads
<1>8. st2[n + 1] = z
  BY <1>1
<1> HIDE DEF st2
<1> QED BY <1>1, <1>7, <1>8

\* An entry the caller may read is painted once.
LEMMA TxKeeps ==
  ASSUME BasisT \in Nat, NEW x \in Shown, Coherent(x), NEW t \in 1..BasisT, Decide(t) = "tx",
         t > x.confirmedT => Steady(x.confirmedT, t)
  PROVE  LET z == After(x, TxPush(t))
         IN  /\ z \in Shown /\ Coherent(z) /\ z.confirmedT = x.confirmedT
             /\ z.painted = x.painted \cup {t}
<1> DEFINE z == After(x, TxPush(t))
<1>1. /\ z = [facts |-> x.facts \cup ({t} \ x.painted), painted |-> x.painted \cup {t},
              confirmedT |-> x.confirmedT]
  BY DEF After, TxPush
<1>2. z \in Shown /\ z.confirmedT = x.confirmedT /\ z.painted = x.painted \cup {t}
      /\ z.facts = x.facts \cup ({t} \ x.painted)
  BY <1>1 DEF Shown
<1>3. Readable(t, t)
  BY DEF Decide
<1>4. x.confirmedT \in 0..BasisT /\ x.painted \subseteq 1..BasisT
      /\ x.facts = View(x.confirmedT) \cup {u \in x.painted : u > x.confirmedT}
  BY DEF Coherent, Shown
<1>5. t <= x.confirmedT => t \in x.painted
  BY <1>4 DEF Coherent
<1> HIDE DEF z
<1>6. z.facts = View(z.confirmedT) \cup {u \in z.painted : u > z.confirmedT}
  <2>1. CASE t \in x.painted
    <3>1. z.facts = x.facts /\ z.painted = x.painted
      BY <2>1, <1>2
    <3> QED BY <3>1, <1>2, <1>4
  <2>2. CASE t \notin x.painted
    <3>1. t > x.confirmedT /\ z.facts = x.facts \cup {t}
      BY <2>2, <1>2, <1>4, <1>5
    <3> QED BY <3>1, <1>2, <1>4
  <2> QED BY <2>1, <2>2
<1>7. \A u \in z.painted : u > z.confirmedT => Steady(z.confirmedT, u) /\ Readable(u, u)
  BY <1>2, <1>3 DEF Coherent
<1>8. \A u \in 1..z.confirmedT : Decide(u) = "tx" => u \in z.painted
  BY <1>2 DEF Coherent
<1>9. Coherent(z)
  BY <1>2, <1>4, <1>6, <1>7, <1>8 DEF Coherent
<1> QED BY <1>2, <1>9 DEF z

\* A dump replaces what the client has.
LEMMA DumpKeeps ==
  ASSUME BasisT \in Nat, NEW x \in Shown, NEW t \in 0..BasisT
  PROVE  LET z == After(x, Resync("caller", t))
         IN  z \in Shown /\ Coherent(z) /\ z.confirmedT = t /\ z.painted = 1..t
<1> DEFINE z == After(x, Resync("caller", t))
<1>1. z = [facts |-> View(t), painted |-> 1..t, confirmedT |-> t]
  BY DEF After, Resync
<1>2. z.facts = View(t) /\ z.painted = 1..t /\ z.confirmedT = t
  BY <1>1
<1>3. View(t) \subseteq 1..t
  BY DEF View
<1>4. z \in Shown
  BY <1>1, <1>3 DEF Shown
<1> HIDE DEF z
<1>5. Coherent(z)
  BY <1>2, <1>3 DEF Coherent
<1> QED BY <1>2, <1>4, <1>5 DEF z

\* A reply moves the cursor over what the session has walked.
LEMMA ReplyKeeps ==
  ASSUME BasisT \in Nat, NEW x \in Shown, Coherent(x), NEW n \in 0..BasisT,
         \A u \in 1..BasisT :
            u > x.confirmedT /\ u <= n =>
              Access(u) = Access(x.confirmedT) /\ (Readable(u, u) => u \in x.painted)
  PROVE  LET z == After(x, Reply(n))
         IN  /\ z \in Shown /\ Coherent(z) /\ z.painted = x.painted
             /\ z.confirmedT = IF x.confirmedT >= n THEN x.confirmedT ELSE n
<1> DEFINE z == After(x, Reply(n))
           m == IF x.confirmedT >= n THEN x.confirmedT ELSE n
<1>1. z = [facts |-> x.facts, painted |-> x.painted, confirmedT |-> m]
  BY DEF After, Reply
<1>2. z.facts = x.facts /\ z.painted = x.painted /\ z.confirmedT = m /\ z \in Shown
  BY <1>1 DEF Shown
<1>3. x.confirmedT \in 0..BasisT /\ x.painted \subseteq 1..BasisT /\ m \in 0..BasisT
      /\ x.facts = View(x.confirmedT) \cup {u \in x.painted : u > x.confirmedT}
  BY DEF Coherent, Shown
<1> HIDE DEF z
<1>4. ASSUME x.confirmedT >= n PROVE Coherent(z)
  BY <1>2, <1>3, <1>4 DEF Coherent
<1>5. ASSUME ~ (x.confirmedT >= n) PROVE Coherent(z)
  <2>1. m = n /\ n > x.confirmedT
    BY <1>3, <1>5
  <2>2. \A u \in x.confirmedT..n : Access(u) = Access(x.confirmedT)
    <3> SUFFICES ASSUME NEW u \in x.confirmedT..n PROVE Access(u) = Access(x.confirmedT)
      OBVIOUS
    <3>1. u = x.confirmedT \/ (u \in 1..BasisT /\ u > x.confirmedT /\ u <= n)
      BY <1>3
    <3> QED BY <3>1
  <2>3. ASSUME NEW u \in 1..n
        PROVE  Readable(u, n) <=> (Readable(u, x.confirmedT) /\ u <= x.confirmedT)
                                  \/ (u \in x.painted /\ u > x.confirmedT)
    <3>1. Access(n) = Access(x.confirmedT)
      BY <2>1, <2>2, <1>3
    <3>2. CASE u <= x.confirmedT
      BY <3>1, <3>2, <1>3 DEF Readable
    <3>3. CASE ~ (u <= x.confirmedT)
      <4>1. u \in x.confirmedT..n /\ u > x.confirmedT /\ u \in 1..BasisT
        BY <3>3, <1>3
      <4>2. Access(u) = Access(n)
        BY <4>1, <3>1, <2>2
      <4>3. Readable(u, n) <=> Readable(u, u)
        BY <4>2 DEF Readable
      <4>4. u \in x.painted => Readable(u, u)
        BY <4>1 DEF Coherent
      <4>5. Readable(u, u) => u \in x.painted
        BY <4>1
      <4> QED BY <4>1, <4>3, <4>4, <4>5, <1>3
    <3> QED BY <3>2, <3>3
  <2>4. View(n) = View(x.confirmedT) \cup {u \in x.painted : u > x.confirmedT /\ u <= n}
    <3>1. \A u \in 1..n : u \in View(n) <=> Readable(u, n)
      BY DEF View
    <3>2. \A u \in 1..n : u \in View(x.confirmedT) <=> Readable(u, x.confirmedT) /\ u <= x.confirmedT
      BY <1>3 DEF View
    <3>3. View(n) \subseteq 1..n /\ View(x.confirmedT) \subseteq 1..n
      BY <2>1, <1>3 DEF View
    <3>4. \A u \in x.painted : u <= n => u \in 1..n
      BY <1>3
    <3> QED BY <3>1, <3>2, <3>3, <3>4, <2>3, <1>3
  <2>5. z.facts = View(n) \cup {u \in z.painted : u > n}
    BY <2>1, <2>4, <1>2, <1>3
  <2>6. ASSUME NEW u \in x.painted, u > n PROVE Steady(n, u) /\ Readable(u, u)
    <3>1. Steady(x.confirmedT, u) /\ Readable(u, u) /\ u \in 1..BasisT
      BY <2>1, <2>6, <1>3 DEF Coherent
    <3>2. \A w \in n..u : w \in x.confirmedT..u
      BY <2>1, <1>3
    <3>3. n \in x.confirmedT..u
      BY <2>1, <2>6, <1>3, <3>1
    <3> QED BY <3>1, <3>2, <3>3 DEF Steady
  <2>7. ASSUME NEW u \in 1..n, Decide(u) = "tx" PROVE u \in x.painted
    <3>1. CASE u <= x.confirmedT
      BY <3>1, <2>7, <1>3 DEF Coherent
    <3>2. CASE ~ (u <= x.confirmedT)
      <4>1. u \in 1..BasisT /\ u > x.confirmedT /\ u <= n /\ Readable(u, u)
        BY <3>2, <2>7, <1>3 DEF Decide
      <4> QED BY <4>1
    <3> QED BY <3>1, <3>2
  <2> QED BY <2>1, <2>5, <2>6, <2>7, <1>2, <1>3 DEF Coherent
<1>6. Coherent(z)
  BY <1>4, <1>5
<1> QED BY <1>2, <1>6 DEF z

(***************************************************************************)
(* What a step of a session does to it.                                    *)
(***************************************************************************)
\* The state a client comes to.
LEMMA EndIs ==
  ASSUME NEW c, NEW q \in Seq(Pushes), NEW st, Leads(c, q, st)
  PROVE  /\ Len(q) \in Nat /\ st[Len(q)] \in Shown /\ Coherent(st[Len(q)])
         /\ ShownOf(c) \in Shown /\ Coherent(ShownOf(c))
         /\ c.confirmedT <= st[Len(q)].confirmedT
<1>1. Len(q) \in Nat /\ 0 \in 0..Len(q) /\ Len(q) \in 0..Len(q) /\ 0 <= Len(q)
  OBVIOUS
<1>2. st[0] = ShownOf(c) /\ st[0] \in Shown /\ Coherent(st[0])
      /\ st[Len(q)] \in Shown /\ Coherent(st[Len(q)])
      /\ st[0].confirmedT <= st[Len(q)].confirmedT
  BY <1>1 DEF Leads
<1> QED BY <1>1, <1>2 DEF ShownOf

\* A client that has nothing on the way to it.
LEMMA NothingComes ==
  ASSUME NEW c \in Clients, Coherent(ShownOf(c))
  PROVE  \E st : Leads(c, <<>>, st) /\ st[0] = ShownOf(c)
<1> DEFINE st == [i \in 0..0 |-> ShownOf(c)]
<1>1. ShownOf(c) \in Shown /\ ShownOf(c).confirmedT \in Nat
  BY DEF ShownOf, Shown, Clients
<1>2. st \in [0..0 -> Shown] /\ st[0] = ShownOf(c) /\ \A i \in 0..0 : st[i] = ShownOf(c)
  BY <1>1
<1> HIDE DEF st
<1>3. Leads(c, <<>>, st)
  BY <1>1, <1>2 DEF Leads
<1> QED BY <1>2, <1>3

\* notifySessions: one more log to consider.
LEMMA Enqueues ==
  ASSUME BasisT \in Nat, NEW v, NEW c, NEW q, SessionOK(v, c, q), v.open,
         NEW job \in Jobs, JobIsOf(job), job.by # -1
  PROVE  SessionOK([v EXCEPT !.queue = Append(@, job)], c, q)
<1> DEFINE w == [v EXCEPT !.queue = Append(@, job)]
<1>1. v \in Walks /\ v.queue \in Seq(Jobs) /\ Len(v.queue) \in Nat
  BY DEF SessionOK, Walks
<1>0. PICK more \in Seq(Jobs) : more = Append(v.queue, job)
  <2>1. PICK queue \in Seq(Jobs) : queue = v.queue
    BY <1>1
  <2>2. Append(queue, job) \in Seq(Jobs)
    OBVIOUS
  <2> QED BY <2>1, <2>2
<1>9. w = [v EXCEPT !.queue = more]
  BY <1>0
<1>2. /\ w \in Walks /\ w.open = v.open /\ w.watermark = v.watermark /\ w.at = v.at
      /\ w.cursor = v.cursor /\ w.rest = v.rest /\ w.snapT = v.snapT
      /\ w.queue = Append(v.queue, job)
  <2> HIDE DEF w
  <2> QED BY <1>0, <1>1, <1>9 DEF Walks
<1> HIDE DEF w
<1>3. /\ Len(w.queue) = Len(v.queue) + 1 /\ w.queue[Len(v.queue) + 1] = job /\ w.queue # <<>>
      /\ \A i \in 1..Len(v.queue) : w.queue[i] = v.queue[i]
  BY <1>1, <1>2
<1>4. Queued(w)
  <2>1. ASSUME NEW i \in 1..Len(w.queue) PROVE JobIsOf(w.queue[i])
    BY <1>1, <1>3 DEF SessionOK, Queued
  <2> QED BY <2>1, <1>2, <1>3 DEF SessionOK, Queued
<1>5. Owed(w, c.asked, q)
  <2> SUFFICES ASSUME c.asked \notin {"taken", "done"}
               PROVE  \A i \in 1..Len(w.queue) : w.queue[i].by # -1
    BY DEF SessionOK, Owed
  <2> SUFFICES ASSUME NEW i \in 1..Len(w.queue) PROVE w.queue[i].by # -1
    OBVIOUS
  <2>1. \A k \in 1..Len(v.queue) : v.queue[k].by # -1
    BY DEF SessionOK, Owed
  <2>2. CASE i = Len(v.queue) + 1
    BY <2>2, <1>3
  <2>3. CASE i # Len(v.queue) + 1
    <3>1. i \in 1..Len(v.queue)
      BY <2>3, <1>1, <1>3
    <3>2. w.queue[i] = v.queue[i]
      BY <3>1, <1>3
    <3> QED BY <3>1, <3>2, <2>1
  <2> QED BY <2>2, <2>3
<1>6. PICK st : Leads(c, q, st) /\ EndOf(v, c.asked, st[Len(q)])
  BY DEF SessionOK
<1>7. EndOf(w, c.asked, st[Len(q)])
  <2> DEFINE z == st[Len(q)]
  <2>1. WalkComes(v, z) => WalkComes(w, z)
    <3> SUFFICES ASSUME WalkComes(v, z) PROVE WalkComes(w, z)
      OBVIOUS
    <3> HIDE DEF z
    <3>1. PICK i \in 1..Len(v.queue) :
            /\ v.queue[i].by = -1 /\ UpTo(z, v.queue[i].t) /\ v.watermark <= v.queue[i].t
            /\ \A j \in 1..i : \A e \in Range(v.queue[j].entries) : e <= v.queue[i].t
            /\ v.at = "walk" =>
                 /\ \A k \in 1..Len(v.rest) : v.rest[k] <= v.queue[i].t
                 /\ i > 1 \/ v.cursor = v.watermark
      BY DEF WalkComes
    <3>0. Len(v.queue) \in Nat /\ i \in 1..Len(v.queue)
      BY <1>1
    <3>2. i \in 1..Len(w.queue) /\ \A j \in 1..i : w.queue[j] = v.queue[j]
      BY ONLY <3>0, <1>3
    <3>3. w.queue[i] = v.queue[i]
      BY ONLY <3>0, <1>3
    <3>4. \A j \in 1..i : \A e \in Range(w.queue[j].entries) : e <= w.queue[i].t
      BY <3>1, <3>2, <3>3
    <3> QED BY <3>1, <3>2, <3>3, <3>4, <1>2 DEF WalkComes
  <2> QED BY <2>1, <1>2, <1>6 DEF EndOf, Walked, Dumps, Told, AllWalked
<1>8. SessionOK(w, c, q)
  BY <1>2, <1>4, <1>5, <1>6, <1>7 DEF SessionOK, Blank
<1> QED BY <1>8 DEF w

\* upgradeSession: a socket for a client that has nothing on the way to it.
LEMMA Accepts ==
  ASSUME NEW v, NEW c, NEW q, SessionOK(v, c, q), ~ v.open
  PROVE  SessionOK(v, [c EXCEPT !.opens = @ + 1], q)
<1> DEFINE d == [c EXCEPT !.opens = @ + 1]
<1>1. c \in Clients /\ q \in Seq(Pushes)
  BY DEF SessionOK
<1>2. /\ d \in Clients /\ d.asked = c.asked /\ ShownOf(d) = ShownOf(c)
      /\ d.from = c.from /\ d.confirmedT = c.confirmedT /\ d.painted = c.painted
  BY <1>1 DEF Clients, ShownOf
<1> HIDE DEF d
<1>3. PICK st : Leads(c, q, st)
  BY DEF SessionOK
<1>4. Leads(d, q, st)
  BY <1>2, <1>3 DEF Leads
<1>5. SessionOK(v, d, q)
  BY <1>1, <1>2, <1>4 DEF SessionOK, Owed, Blank
<1> QED BY <1>5 DEF d

\* The session is made on the accepted socket.
LEMMA Opens ==
  ASSUME BasisT \in Nat, NEW v, NEW c, NEW q, SessionOK(v, c, q), ~ v.open
  PROVE  SessionOK(NewSession, c, q)
<1> DEFINE w == NewSession
<1>1. c \in Clients /\ q = <<>> /\ c.asked = "no" /\ q \in Seq(Pushes)
  BY DEF SessionOK
<1>3. /\ w.open /\ w.watermark = 0 /\ w.queue = <<>> /\ w.at = "idle" /\ w.cursor = 0
      /\ w.rest = <<>> /\ w.snapT = 0
  BY DEF NewSession
<1>4. w \in Walks
  BY DEF NewSession, Walks
<1> HIDE DEF w
<1>6. PICK st : Leads(c, q, st)
  BY DEF SessionOK
<1>7. EndOf(w, c.asked, st[Len(q)])
  <2>1. st[Len(q)] \in Shown /\ st[Len(q)].confirmedT \in Nat
    BY <1>1, <1>6, EndIs DEF Shown
  <2> QED BY <2>1, <1>1, <1>3 DEF EndOf, Walked, Dumps, Told
<1>8. Queued(w) /\ Owed(w, c.asked, q)
  BY <1>1, <1>3 DEF Queued, Owed
<1>9. SessionOK(w, c, q)
  BY <1>1, <1>3, <1>4, <1>6, <1>7, <1>8 DEF SessionOK, Blank
<1> QED BY <1>9 DEF w

\* The socket goes, and what was on it.
LEMMA Closes ==
  ASSUME NEW v, NEW c, NEW q, SessionOK(v, c, q)
  PROVE  SessionOK(Closed, [c EXCEPT !.asked = "no"], <<>>)
<1> DEFINE d == [c EXCEPT !.asked = "no"]
<1>1. c \in Clients /\ q \in Seq(Pushes)
  BY DEF SessionOK
<1>2. /\ d \in Clients /\ d.asked = "no" /\ ShownOf(d) = ShownOf(c)
      /\ d.confirmedT = c.confirmedT /\ d.painted = c.painted
  BY <1>1 DEF Clients, ShownOf
<1>3. /\ ~ Closed.open /\ Closed.queue = <<>> /\ Closed.rest = <<>> /\ Closed.at = "idle"
      /\ Closed.watermark = 0
  BY DEF Closed, NewSession
<1>4. Closed \in Walks
  <2>1. NewSession \in Walks
    BY DEF NewSession, Walks
  <2> QED BY <2>1 DEF Closed, Walks
<1> HIDE DEF d
<1>5. Coherent(ShownOf(c))
  BY <1>1, EndIs DEF SessionOK
<1>6. PICK st : Leads(d, <<>>, st)
  BY <1>2, <1>5, NothingComes
<1>7. Queued(Closed) /\ Owed(Closed, d.asked, <<>>)
  BY <1>3 DEF Queued, Owed
<1>8. SessionOK(Closed, d, <<>>)
  BY <1>2, <1>3, <1>4, <1>6, <1>7 DEF SessionOK, Blank
<1> QED BY <1>8 DEF d

\* The client asks for what follows its cursor.
LEMMA Asks ==
  ASSUME NEW v, NEW c, NEW q, SessionOK(v, c, q), v.open, c.asked = "no"
  PROVE  SessionOK(v, [c EXCEPT !.asked = "sent", !.from = c.confirmedT], q)
<1> DEFINE d == [c EXCEPT !.asked = "sent", !.from = c.confirmedT]
<1>1. c \in Clients /\ q \in Seq(Pushes)
  BY DEF SessionOK
<1>2. /\ d \in Clients /\ d.asked = "sent" /\ ShownOf(d) = ShownOf(c)
      /\ d.from = d.confirmedT /\ d.confirmedT \in Nat
      /\ d.confirmedT = c.confirmedT /\ d.painted = c.painted
  BY <1>1 DEF Clients, ShownOf
<1> HIDE DEF d
<1>3. PICK st : Leads(c, q, st) /\ EndOf(v, c.asked, st[Len(q)])
  BY DEF SessionOK
<1>4. Leads(d, q, st)
  BY <1>2, <1>3 DEF Leads
<1>5. EndOf(v, d.asked, st[Len(q)])
  BY <1>2, <1>3 DEF EndOf, Told
<1>6. Owed(v, d.asked, q)
  BY <1>2 DEF SessionOK, Owed
<1>7. SessionOK(v, d, q)
  BY <1>1, <1>2, <1>4, <1>5, <1>6 DEF SessionOK, Blank
<1> QED BY <1>7 DEF d

\* The cursor is set back to the client's, and the log up to the basis enqueued.
LEMMA Taken ==
  ASSUME BasisT \in Nat, NEW v, NEW c, NEW q, SessionOK(v, c, q), v.open, c.asked = "sent",
         NEW job \in Jobs, JobIsOf(job), job.by = -1, job.t = BasisT
  PROVE  SessionOK([v EXCEPT !.watermark = c.from, !.queue = Append(@, job)],
                   [c EXCEPT !.asked = "taken"], q)
<1> DEFINE w == [v EXCEPT !.watermark = c.from, !.queue = Append(@, job)]
           d == [c EXCEPT !.asked = "taken"]
           n == Len(v.queue)
<1>1. /\ v \in Walks /\ v.queue \in Seq(Jobs) /\ n \in Nat /\ c \in Clients
      /\ q \in Seq(Pushes) /\ c.from \in Nat /\ c.from <= c.confirmedT
  BY DEF SessionOK, Walks, Clients
<1>2. PICK more \in Seq(Jobs) : more = Append(v.queue, job)
  <2>1. PICK queue \in Seq(Jobs) : queue = v.queue
    BY <1>1
  <2>2. Append(queue, job) \in Seq(Jobs)
    OBVIOUS
  <2> QED BY <2>1, <2>2
<1>3. PICK from \in Nat : from = c.from
  BY <1>1
<1>4. w = [v EXCEPT !.watermark = from, !.queue = more]
  BY <1>2, <1>3
<1>5. /\ d \in Clients /\ d.asked = "taken" /\ ShownOf(d) = ShownOf(c)
      /\ d.confirmedT = c.confirmedT /\ d.painted = c.painted
  BY <1>1 DEF Clients, ShownOf
<1> HIDE DEF w, d
<1>6. /\ w \in Walks /\ w.open = v.open /\ w.watermark = from /\ w.at = v.at
      /\ w.cursor = v.cursor /\ w.rest = v.rest /\ w.snapT = v.snapT /\ w.queue = more
  BY <1>1, <1>4 DEF Walks
<1>7. /\ Len(w.queue) = n + 1 /\ w.queue[n + 1] = job /\ w.queue # <<>>
      /\ \A i \in 1..n : w.queue[i] = v.queue[i]
  <2>1. PICK queue \in Seq(Jobs) : queue = v.queue
    BY <1>1
  <2>2. more = Append(queue, job) /\ n = Len(queue)
    BY <2>1, <1>2
  <2> HIDE DEF n
  <2>3. Len(more) = n + 1 /\ more[n + 1] = job /\ \A i \in 1..n : more[i] = queue[i]
    BY ONLY <2>2, queue \in Seq(Jobs), job \in Jobs
  <2>4. more # <<>>
    BY ONLY <2>3, <1>1, more \in Seq(Jobs)
  <2> QED BY <2>1, <2>3, <2>4, <1>6
<1> HIDE DEF n
<1>8. \A i \in 1..n + 1 : JobIsOf(w.queue[i])
  <2>1. \A i \in 1..n : JobIsOf(v.queue[i])
    BY DEF SessionOK, Queued, n
  <2> SUFFICES ASSUME NEW i \in 1..n + 1 PROVE JobIsOf(w.queue[i])
    OBVIOUS
  <2>2. CASE i = n + 1
    BY <2>2, <1>7
  <2>3. CASE i # n + 1
    <3>1. i \in 1..n
      BY <2>3, <1>1
    <3> QED BY <3>1, <2>1, <1>7
  <2> QED BY <2>2, <2>3
<1>9. Queued(w) /\ Owed(w, d.asked, q)
  BY <1>5, <1>6, <1>7, <1>8 DEF SessionOK, Queued, Owed
<1>10. PICK st : Leads(c, q, st) /\ EndOf(v, c.asked, st[Len(q)])
  BY DEF SessionOK
<1>11. Leads(d, q, st)
  BY <1>5, <1>10 DEF Leads
<1>12. EndOf(w, d.asked, st[Len(q)])
  <2> DEFINE z == st[Len(q)]
  <2>1. z \in Shown /\ Coherent(z) /\ c.confirmedT <= z.confirmedT /\ c.confirmedT \in Nat
    BY <1>1, <1>10, EndIs DEF Clients
  <2>2. EndOf(v, c.asked, z)
    BY <1>10
  <2> HIDE DEF z
  <2>3. z.confirmedT \in Nat /\ z.confirmedT <= BasisT /\ z.painted \subseteq 1..BasisT
        /\ from <= z.confirmedT
    BY <2>1, <1>1, <1>3 DEF Shown, Coherent
  <2>4. Walked(w, z)
    BY <2>2, <2>3, <1>6 DEF EndOf, Walked
  <2>5. Dumps(w, z)
    BY <2>2, <1>6 DEF EndOf, Dumps
  <2>6. WalkComes(w, z)
    <3>1. n + 1 \in 1..Len(w.queue)
      BY <1>1, <1>7
    <3>2. w.queue[n + 1].t = BasisT /\ w.queue[n + 1].by = -1
      BY <1>7
    <3>3. UpTo(z, BasisT) /\ w.watermark <= BasisT
      BY <2>3, <1>6 DEF UpTo
    <3>4. ASSUME NEW j \in 1..n + 1, NEW e \in Range(w.queue[j].entries) PROVE e <= BasisT
      <4>1. PICK a \in Nat, b \in 0..BasisT : Range(w.queue[j].entries) = a..b
        BY <1>8 DEF JobIsOf
      <4>2. e \in a..b
        BY <4>1, <3>4
      <4> QED BY <4>2
    <3>5. \A k \in 1..Len(w.rest) : w.rest[k] <= BasisT
      BY <1>6 DEF SessionOK, Queued
    <3>6. w.at = "walk" => n + 1 > 1
      <4> SUFFICES ASSUME w.at = "walk" PROVE n + 1 > 1
        OBVIOUS
      <4>1. v.queue # <<>>
        BY <1>6 DEF SessionOK, Queued
      <4>2. n # 0
        BY <4>1, <1>1 DEF n
      <4> QED BY <4>2, <1>1
    <3> QED BY <3>1, <3>2, <3>3, <3>4, <3>5, <3>6 DEF WalkComes
  <2>7. EndOf(w, d.asked, z)
    BY <2>4, <2>5, <2>6 DEF EndOf, Told
  <2> QED BY <2>7 DEF z
<1>13. root = NoRoot => Blank(w, d, q)
  <2> SUFFICES ASSUME root = NoRoot PROVE Blank(w, d, q)
    OBVIOUS
  <2>1. Blank(v, c, q) /\ from = 0
    BY <1>1, <1>3 DEF SessionOK, Blank
  <2> QED BY <2>1, <1>5, <1>6 DEF Blank
<1>14. SessionOK(w, d, q)
  BY <1>1, <1>5, <1>6, <1>9, <1>11, <1>12, <1>13 DEF SessionOK
<1> QED BY <1>14 DEF w, d

\* What moves only where the session is.
LEMMA Moves ==
  ASSUME NEW v, NEW c, NEW q, SessionOK(v, c, q), v.open, NEW w \in Walks, w.open,
         w.queue = v.queue, v.queue # <<>>,
         root = NoRoot => w.at # "snap" /\ w.watermark = v.watermark,
         \A k \in 1..Len(w.rest) : w.rest[k] <= BasisT,
         \A z \in Shown : Coherent(z) /\ EndOf(v, c.asked, z) => EndOf(w, c.asked, z)
  PROVE  SessionOK(w, c, q)
<1>1. PICK st : Leads(c, q, st) /\ EndOf(v, c.asked, st[Len(q)])
  BY DEF SessionOK
<1>2. q \in Seq(Pushes)
  BY DEF SessionOK
<1>3. EndOf(w, c.asked, st[Len(q)])
  BY <1>1, <1>2, EndIs
<1>4. Queued(w) /\ Owed(w, c.asked, q)
  BY DEF SessionOK, Queued, Owed
<1> QED BY <1>1, <1>3, <1>4 DEF SessionOK, Blank

\* pushResync begins.
LEMMA Snaps ==
  ASSUME BasisT \in Nat, root # NoRoot, NEW v, NEW c, NEW q, SessionOK(v, c, q), v.open,
         v.queue # <<>>
  PROVE  SessionOK(Snapshot(v), c, q)
<1> DEFINE w == Snapshot(v)
<1>1. v \in Walks
  BY DEF SessionOK
<1>2. /\ w \in Walks /\ w.open = v.open /\ w.watermark = v.watermark /\ w.at = "snap"
      /\ w.cursor = v.cursor /\ w.rest = v.rest /\ w.snapT = BasisT /\ w.queue = v.queue
  BY <1>1 DEF Snapshot, DumpT, Walks
<1> HIDE DEF w
<1>3. ASSUME NEW z \in Shown, Coherent(z), EndOf(v, c.asked, z) PROVE EndOf(w, c.asked, z)
  <2>1. Walked(w, z)
    BY <1>2, <1>3 DEF EndOf, Walked
  <2>2. Dumps(w, z)
    BY <1>2, <1>3 DEF Dumps, Coherent
  <2>3. WalkComes(v, z) => WalkComes(w, z)
    BY <1>2 DEF WalkComes
  <2>4. Told(w, c.asked, z)
    BY <1>2, <1>3, <2>3 DEF EndOf, Told, AllWalked
  <2> QED BY <2>1, <2>2, <2>4 DEF EndOf
<1>4. \A k \in 1..Len(w.rest) : w.rest[k] <= BasisT
  BY <1>2 DEF SessionOK, Queued
<1>5. SessionOK(w, c, q)
  BY <1>2, <1>3, <1>4, Moves
<1> QED BY <1>5 DEF w

\* consider begins, at the cursor as it is.
LEMMA Runs ==
  ASSUME BasisT \in Nat, NEW v, NEW c, NEW q, SessionOK(v, c, q), v.open, v.at = "idle",
         v.queue # <<>>
  PROVE  SessionOK([v EXCEPT !.at = "walk", !.cursor = v.watermark,
                             !.rest = Above(Head(v.queue).entries, v.watermark)], c, q)
<1> DEFINE from == v.watermark
           rest == Above(Head(v.queue).entries, from)
           w == [v EXCEPT !.at = "walk", !.cursor = from, !.rest = rest]
<1>1. v \in Walks /\ v.queue \in Seq(Jobs) /\ from \in Nat
  BY DEF SessionOK, Walks
<1>2. 1 \in 1..Len(v.queue) /\ Head(v.queue) = v.queue[1] /\ Len(v.queue) \in Nat
  BY <1>1
<1>3. PICK a \in Nat, b \in 0..BasisT : Range(v.queue[1].entries) = a..b
  BY <1>2 DEF SessionOK, Queued, JobIsOf
<1>4. /\ rest \in Seq(Nat) /\ \A k \in 1..Len(rest) : rest[k] \in Range(v.queue[1].entries)
      /\ \A k \in 1..Len(rest) : rest[k] <= BasisT
  <2> DEFINE lo == IF a > from THEN a ELSE from + 1
  <2>1. {u \in a..b : u > from} = lo..b /\ lo \in Nat /\ b \in Int
    BY <1>1
  <2>2. rest = Ascending(lo..b)
    BY <2>1, <1>2, <1>3 DEF Above
  <2>3. lo >= a
    BY <1>1
  <2> HIDE DEF lo, rest
  <2>4. rest \in Seq(Nat) /\ \A k \in 1..Len(rest) : rest[k] \in lo..b
    BY <2>1, <2>2, AscendingIsWithin
  <2>5. ASSUME NEW k \in 1..Len(rest) PROVE rest[k] \in a..b /\ rest[k] <= BasisT
    <3>1. rest[k] \in lo..b
      BY <2>4
    <3> QED BY <3>1, <2>1, <2>3
  <2> QED BY <2>4, <2>5, <1>3
<1> HIDE DEF rest
<1>5. /\ w \in Walks /\ w.open = v.open /\ w.watermark = from /\ w.at = "walk"
      /\ w.cursor = from /\ w.rest = rest /\ w.snapT = v.snapT /\ w.queue = v.queue
  BY <1>1, <1>4 DEF Walks
<1> HIDE DEF w
<1>6. ASSUME NEW z \in Shown, Coherent(z), EndOf(v, c.asked, z) PROVE EndOf(w, c.asked, z)
  <2>1. Walked(w, z)
    BY <1>5, <1>6 DEF EndOf, Walked
  <2>2. Dumps(w, z)
    BY <1>5 DEF Dumps
  <2>3. WalkComes(v, z) => WalkComes(w, z)
    <3> SUFFICES ASSUME WalkComes(v, z) PROVE WalkComes(w, z)
      OBVIOUS
    <3>1. PICK i \in 1..Len(v.queue) :
            /\ v.queue[i].by = -1 /\ UpTo(z, v.queue[i].t) /\ v.watermark <= v.queue[i].t
            /\ \A j \in 1..i : \A e \in Range(v.queue[j].entries) : e <= v.queue[i].t
      BY DEF WalkComes
    <3>2. 1 \in 1..i
      OBVIOUS
    <3>3. \A k \in 1..Len(rest) : rest[k] <= v.queue[i].t
      BY <3>1, <3>2, <1>4
    <3> QED BY <3>1, <3>3, <1>5 DEF WalkComes
  <2>4. Told(w, c.asked, z)
    BY <1>5, <1>6, <2>3 DEF EndOf, Told, AllWalked
  <2> QED BY <2>1, <2>2, <2>4 DEF EndOf
<1>7. \A k \in 1..Len(w.rest) : w.rest[k] <= BasisT
  BY <1>4, <1>5
<1>8. SessionOK(w, c, q)
  BY <1>5, <1>6, <1>7, Moves
<1> QED BY <1>8 DEF w, rest

\* One entry further on the walk.
Passed(v) == [v EXCEPT !.cursor = Head(v.rest), !.watermark = Head(v.rest), !.rest = Tail(@)]

\* It is the next entry, and the caller's access is what it was.
LEMMA Passes ==
  ASSUME BasisT \in Nat, NEW v, NEW c, NEW q, SessionOK(v, c, q), v.open, v.at = "walk",
         v.rest # <<>>, Head(v.rest) = v.cursor + 1
  PROVE  LET w == Passed(v)
             t == Head(v.rest)
         IN  /\ w \in Walks /\ w.open /\ w.watermark = t /\ w.at = "walk" /\ w.cursor = t
             /\ w.queue = v.queue /\ t \in 1..BasisT
             /\ w.rest \in Seq(Nat) /\ Len(v.rest) = Len(w.rest) + 1 /\ v.rest[1] = t
             /\ \A k \in 1..Len(w.rest) : w.rest[k] = v.rest[k + 1] /\ w.rest[k] <= BasisT
<1> DEFINE w == Passed(v)
           t == Head(v.rest)
<1>1. v \in Walks /\ v.rest \in Seq(Nat) /\ v.cursor \in Nat
  BY DEF SessionOK, Walks
<1>2. PICK rest \in Seq(Nat) : rest = Tail(v.rest)
  <2>1. PICK list \in Seq(Nat) : list = v.rest
    BY <1>1
  <2>2. list # <<>> /\ Tail(list) \in Seq(Nat)
    BY <2>1
  <2> QED BY <2>1, <2>2
<1>3. /\ Len(v.rest) = Len(rest) + 1 /\ v.rest[1] = t /\ t \in Nat /\ 1 \in 1..Len(v.rest)
      /\ \A k \in 1..Len(rest) : rest[k] = v.rest[k + 1]
  BY <1>1, <1>2
<1>4. t <= BasisT
  BY <1>3 DEF SessionOK, Queued
<1>5. t \in 1..BasisT
  BY <1>1, <1>3, <1>4
<1> HIDE DEF t
<1>6. w = [v EXCEPT !.cursor = t, !.watermark = t, !.rest = rest]
  BY <1>2 DEF Passed, t
<1> HIDE DEF w
<1>7. /\ w \in Walks /\ w.open = v.open /\ w.watermark = t /\ w.at = v.at /\ w.cursor = t
      /\ w.queue = v.queue /\ w.rest = rest
  BY <1>1, <1>3, <1>6 DEF Walks
<1>8. ASSUME NEW k \in 1..Len(rest) PROVE rest[k] <= BasisT
  <2>1. k + 1 \in 1..Len(v.rest)
    BY <1>2, <1>3
  <2>2. v.rest[k + 1] <= BasisT
    BY <2>1 DEF SessionOK, Queued
  <2> QED BY <2>2, <1>3
<1> QED BY <1>3, <1>5, <1>7, <1>8 DEF w, t

\* The walk passes an entry, which the client has if the caller may read it.
LEMMA EndPasses ==
  ASSUME BasisT \in Nat, NEW v, NEW c, NEW q, SessionOK(v, c, q), v.open, v.at = "walk",
         v.rest # <<>>, Head(v.rest) = v.cursor + 1, Access(Head(v.rest)) = Access(v.cursor),
         NEW z \in Shown, Coherent(z), EndOf(v, c.asked, z),
         NEW y \in Shown, y.confirmedT = z.confirmedT,
         y.painted = z.painted \/ y.painted = z.painted \cup {Head(v.rest)},
         Readable(Head(v.rest), Head(v.rest)) => Head(v.rest) \in y.painted
  PROVE  /\ EndOf(Passed(v), c.asked, y)
         /\ Head(v.rest) > z.confirmedT => Steady(z.confirmedT, Head(v.rest))
<1> DEFINE t == Head(v.rest)
           w == Passed(v)
<1>1. /\ w \in Walks /\ w.open /\ w.watermark = t /\ w.at = "walk" /\ w.cursor = t
      /\ w.queue = v.queue /\ t \in 1..BasisT
      /\ w.rest \in Seq(Nat) /\ Len(v.rest) = Len(w.rest) + 1 /\ v.rest[1] = t
      /\ \A k \in 1..Len(w.rest) : w.rest[k] = v.rest[k + 1]
  BY Passes
<1>2. v \in Walks /\ v.cursor \in Nat /\ t = v.cursor + 1 /\ Len(w.rest) \in Nat
  BY <1>1 DEF SessionOK, Walks
<1>3. z.confirmedT \in Nat /\ z.painted \in SUBSET Nat /\ y.painted \in SUBSET Nat
  BY DEF Shown
<1>4. Access(t) = Access(v.cursor)
  OBVIOUS
<1>5. Readable(t, t) => t \in y.painted
  OBVIOUS
<1>6. y.painted = z.painted \/ y.painted = z.painted \cup {t}
  OBVIOUS
<1> HIDE DEF t, w
<1>7. \A u \in 1..BasisT : u > z.confirmedT /\ u < t =>
        Access(u) = Access(z.confirmedT) /\ (Readable(u, u) => u \in z.painted)
  BY <1>2 DEF EndOf, Walked
<1>8. t > z.confirmedT => Access(t) = Access(z.confirmedT)
  <2> SUFFICES ASSUME t > z.confirmedT PROVE Access(t) = Access(z.confirmedT)
    OBVIOUS
  <2>1. CASE v.cursor = z.confirmedT
    BY <2>1, <1>4
  <2>2. CASE v.cursor # z.confirmedT
    <3>1. v.cursor \in 1..BasisT /\ v.cursor > z.confirmedT /\ v.cursor < t
      BY <2>2, <1>1, <1>2, <1>3
    <3> QED BY <3>1, <1>4, <1>7
  <2> QED BY <2>1, <2>2
<1>9. Walked(w, y)
  <2> SUFFICES ASSUME NEW u \in 1..BasisT, u > y.confirmedT, u <= t
               PROVE  Access(u) = Access(y.confirmedT) /\ (Readable(u, u) => u \in y.painted)
    BY <1>1 DEF Walked
  <2>1. CASE u = t
    BY <2>1, <1>5, <1>8
  <2>2. CASE u # t
    <3>1. u < t /\ u > z.confirmedT
      BY <2>2, <1>1, <1>3
    <3> QED BY <3>1, <1>6, <1>7
  <2> QED BY <2>1, <2>2
<1>10. Dumps(w, y)
  BY <1>1 DEF Dumps
<1>11. AllWalked(v, z) => AllWalked(w, y)
  <2> SUFFICES ASSUME AllWalked(v, z) PROVE AllWalked(w, y)
    OBVIOUS
  <2>1. v.watermark = v.cursor /\ UpTo(z, v.cursor)
    BY DEF AllWalked
  <2>2. y.confirmedT <= t
    BY <2>1, <1>2, <1>3 DEF UpTo
  <2>3. ASSUME NEW p \in y.painted PROVE p <= t
    <3>1. CASE p = t
      BY <3>1, <1>1
    <3>2. CASE p \in z.painted
      BY <3>2, <2>1, <1>2, <1>3 DEF UpTo
    <3> QED BY <3>1, <3>2, <1>6
  <2> QED BY <2>2, <2>3, <1>1 DEF AllWalked, UpTo
<1>12. WalkComes(v, z) => WalkComes(w, y)
  <2> SUFFICES ASSUME WalkComes(v, z) PROVE WalkComes(w, y)
    OBVIOUS
  <2>1. PICK i \in 1..Len(v.queue) :
          /\ v.queue[i].by = -1 /\ UpTo(z, v.queue[i].t) /\ v.watermark <= v.queue[i].t
          /\ \A j \in 1..i : \A e \in Range(v.queue[j].entries) : e <= v.queue[i].t
          /\ v.at = "walk" =>
               /\ \A k \in 1..Len(v.rest) : v.rest[k] <= v.queue[i].t
               /\ i > 1 \/ v.cursor = v.watermark
    BY DEF WalkComes
  <2>2. t <= v.queue[i].t
    BY <2>1, <1>1, <1>2
  <2>3. \A k \in 1..Len(w.rest) : w.rest[k] <= v.queue[i].t
    <3> SUFFICES ASSUME NEW k \in 1..Len(w.rest) PROVE w.rest[k] <= v.queue[i].t
      OBVIOUS
    <3>1. k + 1 \in 1..Len(v.rest) /\ w.rest[k] = v.rest[k + 1]
      BY <1>1, <1>2
    <3> QED BY <3>1, <2>1
  <2>4. UpTo(y, v.queue[i].t)
    BY <2>1, <2>2, <1>6 DEF UpTo
  <2> QED BY <2>1, <2>2, <2>3, <2>4, <1>1 DEF WalkComes
<1>13. Steady(z.confirmedT, t) \/ ~ t > z.confirmedT
  <2> SUFFICES ASSUME t > z.confirmedT, NEW u \in z.confirmedT..t
               PROVE  Access(u) = Access(z.confirmedT)
    BY DEF Steady
  <2>1. u = z.confirmedT \/ u = t \/ (u \in 1..BasisT /\ u > z.confirmedT /\ u < t)
    BY <1>1, <1>3
  <2> QED BY <2>1, <1>7, <1>8
<1>14. EndOf(w, c.asked, y)
  BY <1>9, <1>10, <1>11, <1>12 DEF EndOf, Told
<1> QED BY <1>13, <1>14 DEF t, w

\* An entry the caller may not read.
LEMMA SkipKeeps ==
  ASSUME BasisT \in Nat, root # NoRoot, NEW v, NEW c, NEW q, SessionOK(v, c, q), v.open,
         v.at = "walk",
         v.rest # <<>>, Head(v.rest) = v.cursor + 1, Decide(Head(v.rest)) = "skip"
  PROVE  SessionOK(Passed(v), c, q)
<1> DEFINE t == Head(v.rest)
           w == Passed(v)
<1>1. /\ w \in Walks /\ w.open /\ w.queue = v.queue /\ t \in 1..BasisT
      /\ w.rest \in Seq(Nat) /\ Len(v.rest) = Len(w.rest) + 1
      /\ \A k \in 1..Len(w.rest) : w.rest[k] <= BasisT
  BY Passes
<1>2. v.cursor \in Nat /\ t = v.cursor + 1 /\ v.queue # <<>>
  BY DEF SessionOK, Queued, Walks
<1>3. Access(t) = Access(t - 1) /\ ~ Readable(t, t)
  BY DEF Decide, RuleViewChanged
<1>4. Access(t) = Access(v.cursor)
  <2>1. t - 1 = v.cursor
    BY <1>2
  <2> QED BY <2>1, <1>3
<1>5. ASSUME NEW z \in Shown, Coherent(z), EndOf(v, c.asked, z) PROVE EndOf(w, c.asked, z)
  BY <1>3, <1>4, <1>5, EndPasses
<1>6. \A k \in 1..Len(w.rest) : w.rest[k] <= BasisT
  BY <1>1
<1> HIDE DEF w
<1>7. SessionOK(w, c, q)
  BY <1>1, <1>2, <1>5, <1>6, Moves
<1> QED BY <1>7 DEF w

\* An entry the caller may read is sent.
LEMMA PushKeeps ==
  ASSUME BasisT \in Nat, root # NoRoot, NEW v, NEW c, NEW q, SessionOK(v, c, q), v.open,
         v.at = "walk",
         v.rest # <<>>, Head(v.rest) = v.cursor + 1, Decide(Head(v.rest)) = "tx"
  PROVE  SessionOK(Passed(v), c, q \o <<TxPush(Head(v.rest))>>)
<1> DEFINE t == Head(v.rest)
           w == Passed(v)
           f == TxPush(t)
           p == q \o <<f>>
<1>1. /\ w \in Walks /\ w.open /\ w.queue = v.queue /\ t \in 1..BasisT
      /\ w.rest \in Seq(Nat) /\ Len(v.rest) = Len(w.rest) + 1
      /\ \A k \in 1..Len(w.rest) : w.rest[k] <= BasisT
  BY Passes
<1>2. v.cursor \in Nat /\ t = v.cursor + 1 /\ v.queue # <<>> /\ q \in Seq(Pushes)
      /\ c \in Clients /\ root # NoRoot
  BY DEF SessionOK, Queued, Walks
<1>3. Access(t) = Access(t - 1) /\ Readable(t, t)
  BY DEF Decide, RuleViewChanged
<1>4. Access(t) = Access(v.cursor)
  <2>1. t - 1 = v.cursor
    BY <1>2
  <2> QED BY <2>1, <1>3
<1>5. PICK st : Leads(c, q, st) /\ EndOf(v, c.asked, st[Len(q)])
  BY DEF SessionOK
<1>6. PICK z \in Shown : z = st[Len(q)] /\ Coherent(z)
  BY <1>2, <1>5, EndIs
<1>7. Head(v.rest) > z.confirmedT => Steady(z.confirmedT, Head(v.rest))
  <2>1. PICK y \in Shown : y = [facts |-> {}, painted |-> z.painted \cup {t},
                                confirmedT |-> z.confirmedT]
    <3>1. z.painted \cup {t} \in SUBSET Nat /\ z.confirmedT \in Nat
      BY <1>1 DEF Shown
    <3> HIDE DEF t
    <3> QED BY <3>1 DEF Shown
  <2>2. y.painted = z.painted \cup {t} /\ y.confirmedT = z.confirmedT
    BY <2>1
  <2> QED BY <2>2, <1>4, <1>5, <1>6, EndPasses
<1>8. PICK y \in Shown : /\ y = After(z, f) /\ Coherent(y) /\ y.confirmedT = z.confirmedT
                         /\ y.painted = z.painted \cup {t}
  <2>1. t > z.confirmedT => Steady(z.confirmedT, t)
    BY <1>7
  <2>2. Decide(t) = "tx"
    OBVIOUS
  <2> HIDE DEF t
  <2>3. LET k == After(z, TxPush(t))
        IN  /\ k \in Shown /\ Coherent(k) /\ k.confirmedT = z.confirmedT
            /\ k.painted = z.painted \cup {t}
    BY <2>1, <2>2, <1>1, <1>6, TxKeeps
  <2> QED BY <2>3
<1>9. EndOf(w, c.asked, y)
  BY <1>4, <1>5, <1>6, <1>8, EndPasses
<1>10. f \in Pushes /\ f.op = "tx"
  BY <1>1 DEF TxPush, Pushes
<1>11. p \in Seq(Pushes) /\ Len(p) = Len(q) + 1 /\ Len(q) \in Nat
       /\ \E s2 : Leads(c, p, s2) /\ s2[Len(q) + 1] = y
  <2>1. z.confirmedT <= y.confirmedT
    BY <1>8 DEF Shown
  <2> HIDE DEF f
  <2>2. y = After(st[Len(q)], f) /\ st[Len(q)].confirmedT <= y.confirmedT
    BY <2>1, <1>6, <1>8
  <2>3. y \in Shown /\ Coherent(y) /\ f \in Pushes /\ q \in Seq(Pushes) /\ Leads(c, q, st)
    BY <1>2, <1>5, <1>8, <1>10
  <2>4. /\ q \o <<f>> \in Seq(Pushes) /\ Len(q \o <<f>>) = Len(q) + 1
        /\ \E s2 : Leads(c, q \o <<f>>, s2) /\ s2[Len(q) + 1] = y
    BY <2>2, <2>3, Extends
  <2> QED BY <2>3, <2>4
<1>12. PICK s2 : Leads(c, p, s2) /\ s2[Len(p)] = y
  BY <1>11
<1>13. Queued(w)
  <2>1. \A k \in 1..Len(w.rest) : w.rest[k] <= BasisT
    BY <1>1
  <2> HIDE DEF w
  <2> QED BY <2>1, <1>1, <1>2 DEF SessionOK, Queued
<1>14. Owed(w, c.asked, p)
  <2> SUFFICES ASSUME c.asked \notin {"taken", "done"}, NEW i \in 1..Len(p)
               PROVE  p[i].op # "reply"
    BY <1>1 DEF SessionOK, Owed
  <2>1. \A k \in 1..Len(q) : q[k].op # "reply"
    BY DEF SessionOK, Owed
  <2>2. p[i] = IF i = Len(q) + 1 THEN f ELSE q[i]
    BY <1>2, <1>11
  <2> HIDE DEF p, f
  <2> QED BY <2>1, <2>2, <1>10, <1>11
<1> HIDE DEF w, p
<1>15. c.asked = "sent" => c.from <= c.confirmedT
  BY DEF SessionOK
<1>16. SessionOK(w, c, p)
  BY <1>1, <1>2, <1>9, <1>11, <1>12, <1>13, <1>14, <1>15 DEF SessionOK
<1> QED BY <1>16 DEF w, p

\* A job is done.
Ended(v) == [v EXCEPT !.at = "idle", !.cursor = 0, !.rest = <<>>, !.snapT = 0, !.queue = Tail(@)]

\* What a session that has ended a job is.
LEMMA EndedIs ==
  ASSUME NEW v \in Walks, Queued(v), v.queue # <<>>
  PROVE  LET w == Ended(v)
         IN  /\ w \in Walks /\ w.open = v.open /\ w.watermark = v.watermark /\ w.at = "idle"
             /\ w.cursor = 0 /\ Queued(w) /\ Len(w.queue) \in Nat
             /\ Len(v.queue) = Len(w.queue) + 1 /\ v.queue[1] = Head(v.queue)
             /\ \A k \in 1..Len(w.queue) : w.queue[k] = v.queue[k + 1]
<1> DEFINE w == Ended(v)
<1>1. PICK queue \in Seq(Jobs) : queue = v.queue /\ queue # <<>>
  BY DEF Walks
<1>2. PICK more \in Seq(Jobs) : more = Tail(queue)
  <2>1. Tail(queue) \in Seq(Jobs)
    BY <1>1
  <2> QED BY <2>1
<1>3. /\ Len(queue) = Len(more) + 1 /\ Len(more) \in Nat /\ queue[1] = Head(queue)
      /\ \A k \in 1..Len(more) : more[k] = queue[k + 1]
  BY <1>1, <1>2
<1>4. PICK none \in Seq(Nat) : none = <<>>
  <2>1. <<>> \in Seq(Nat)
    OBVIOUS
  <2> QED BY <2>1
<1>5. w = [v EXCEPT !.at = "idle", !.cursor = 0, !.rest = none, !.snapT = 0, !.queue = more]
  BY <1>1, <1>2, <1>4 DEF Ended
<1> HIDE DEF w
<1>6. /\ w \in Walks /\ w.open = v.open /\ w.watermark = v.watermark /\ w.at = "idle"
      /\ w.cursor = 0 /\ w.rest = none /\ w.queue = more
  BY <1>5 DEF Walks
<1>7. ASSUME NEW k \in 1..Len(more) PROVE JobIsOf(more[k])
  <2>1. k + 1 \in 1..Len(queue)
    BY <1>3
  <2>2. JobIsOf(queue[k + 1])
    BY <1>1, <2>1 DEF Queued
  <2> QED BY <2>2, <1>3
<1>8. Queued(w)
  BY <1>4, <1>6, <1>7 DEF Queued
<1> QED BY <1>1, <1>3, <1>6, <1>8 DEF w

\* Whether the answer is part of it.
Answer(v) == IF Head(v.queue).by = -1 THEN <<Reply(v.watermark)>> ELSE <<>>

\* A walk that is done leaves the session where the client comes to.
LEMMA EndEnds ==
  ASSUME BasisT \in Nat, NEW v \in Walks, Queued(v), v.queue # <<>>, v.at = "walk",
         v.cursor >= Head(v.queue).t, NEW asked, NEW z \in Shown, Coherent(z), EndOf(v, asked, z),
         NEW y \in Shown, y.painted = z.painted,
         \/ y.confirmedT = z.confirmedT
         \/ y.confirmedT = IF z.confirmedT >= v.watermark THEN z.confirmedT ELSE v.watermark
  PROVE  EndOf(Ended(v), asked, y)
<1> DEFINE w == Ended(v)
<1>1. /\ w \in Walks /\ w.watermark = v.watermark /\ w.at = "idle" /\ w.cursor = 0
      /\ Len(w.queue) \in Nat /\ Len(v.queue) = Len(w.queue) + 1 /\ v.queue[1] = Head(v.queue)
      /\ \A k \in 1..Len(w.queue) : w.queue[k] = v.queue[k + 1]
  BY EndedIs
<1> HIDE DEF w
<1>2. /\ v.watermark \in Nat /\ v.cursor \in Nat /\ z.confirmedT \in Nat /\ y.confirmedT \in Nat
      /\ z.painted \in SUBSET Nat /\ v.queue \in Seq(Jobs)
  BY DEF Walks, Shown
<1>3. Walked(w, y)
  <2> SUFFICES ASSUME NEW u \in 1..BasisT, u > y.confirmedT, u <= v.watermark
               PROVE  Access(u) = Access(y.confirmedT) /\ (Readable(u, u) => u \in y.painted)
    BY <1>1, <1>2 DEF Walked, EndOf
  <2>1. y.confirmedT = z.confirmedT
    BY <1>2
  <2> QED BY <2>1 DEF EndOf, Walked
<1>4. Dumps(w, y)
  BY <1>1 DEF Dumps
<1>5. ASSUME NEW n \in Nat, UpTo(z, n), v.watermark <= n PROVE UpTo(y, n)
  BY <1>2, <1>5 DEF UpTo
<1>6. AllWalked(v, z) => AllWalked(w, y)
  BY <1>1, <1>2, <1>5 DEF AllWalked
<1>7. WalkComes(v, z) => AllWalked(w, y) \/ WalkComes(w, y)
  <2> SUFFICES ASSUME WalkComes(v, z) PROVE AllWalked(w, y) \/ WalkComes(w, y)
    OBVIOUS
  <2>1. PICK i \in 1..Len(v.queue) :
          /\ v.queue[i].by = -1 /\ UpTo(z, v.queue[i].t) /\ v.watermark <= v.queue[i].t
          /\ \A j \in 1..i : \A e \in Range(v.queue[j].entries) : e <= v.queue[i].t
          /\ v.at = "walk" =>
               /\ \A k \in 1..Len(v.rest) : v.rest[k] <= v.queue[i].t
               /\ i > 1 \/ v.cursor = v.watermark
    BY DEF WalkComes
  <2>2. v.queue[i].t \in Nat
    <3>1. v.queue[i] \in Jobs
      BY <1>2
    <3> QED BY <3>1 DEF Jobs
  <2>3. CASE i = 1
    <3>1. v.queue[1].t <= v.watermark
      BY <2>1, <2>3, <1>1
    <3>2. UpTo(z, v.watermark)
      BY <2>1, <2>2, <2>3, <3>1, <1>2 DEF UpTo
    <3> QED BY <3>2, <1>1, <1>2, <1>5 DEF AllWalked
  <2>4. CASE i # 1
    <3>1. i - 1 \in 1..Len(w.queue) /\ w.queue[i - 1] = v.queue[i]
      BY <2>4, <1>1
    <3>2. PICK k \in 1..Len(w.queue) : k = i - 1
      BY <3>1
    <3>3. w.queue[k] = v.queue[i] /\ UpTo(y, v.queue[i].t)
      BY <3>1, <3>2, <2>1, <2>2, <1>5
    <3>4. ASSUME NEW j \in 1..k PROVE w.queue[j] = v.queue[j + 1] /\ j + 1 \in 1..i
      <4>1. j \in 1..Len(w.queue)
        BY <3>2, <1>1
      <4>2. j + 1 \in 1..i
        BY <3>2, <1>1
      <4> QED BY <4>1, <4>2, <1>1
    <3>5. \A j \in 1..k : \A e \in Range(w.queue[j].entries) : e <= v.queue[i].t
      BY <3>4, <2>1
    <3>6. WalkComes(w, y)
      BY <3>3, <3>5, <2>1, <1>1 DEF WalkComes
    <3> QED BY <3>6
  <2> QED BY <2>3, <2>4
<1>8. Told(w, asked, y)
  BY <1>6, <1>7 DEF EndOf, Told
<1> QED BY <1>3, <1>4, <1>8 DEF EndOf, w

\* The frames on the way, and an answer where one is owed.
LEMMA OwedStays ==
  ASSUME NEW v \in Walks, Queued(v), v.queue # <<>>, NEW asked, NEW q \in Seq(Pushes),
         Owed(v, asked, q), NEW f \in Pushes, NEW w, Len(w.queue) \in Nat,
         Len(v.queue) = Len(w.queue) + 1, v.queue[1] = Head(v.queue),
         \A k \in 1..Len(w.queue) : w.queue[k] = v.queue[k + 1]
  PROVE  /\ Owed(w, asked, q)
         /\ f.op # "reply" \/ Head(v.queue).by = -1 => Owed(w, asked, q \o <<f>>)
<1> SUFFICES ASSUME asked \notin {"taken", "done"}
             PROVE  /\ Owed(w, asked, q)
                    /\ f.op # "reply" \/ Head(v.queue).by = -1 => Owed(w, asked, q \o <<f>>)
  BY DEF Owed
<1>1. ASSUME NEW k \in 1..Len(w.queue) PROVE w.queue[k].by # -1
  <2>1. k + 1 \in 1..Len(v.queue) /\ w.queue[k] = v.queue[k + 1]
    OBVIOUS
  <2> QED BY <2>1 DEF Owed
<1>2. Head(v.queue).by # -1
  <2>1. 1 \in 1..Len(v.queue)
    OBVIOUS
  <2> QED BY <2>1 DEF Owed
<1>3. ASSUME f.op # "reply", NEW i \in 1..Len(q \o <<f>>) PROVE (q \o <<f>>)[i].op # "reply"
  <2>1. Len(q) \in Nat /\ Len(q \o <<f>>) = Len(q) + 1
        /\ (q \o <<f>>)[i] = IF i = Len(q) + 1 THEN f ELSE q[i]
    OBVIOUS
  <2>2. CASE i = Len(q) + 1
    BY <2>1, <2>2, <1>3
  <2>3. CASE i # Len(q) + 1
    <3>1. i \in 1..Len(q)
      BY <2>1, <2>3
    <3>2. q[i].op # "reply"
      BY <3>1 DEF Owed
    <3> QED BY <3>2, <2>1, <2>3
  <2> QED BY <2>2, <2>3
<1> QED BY <1>1, <1>2, <1>3 DEF Owed

\* The walk is over, and a sync is answered.
LEMMA WalkEnds ==
  ASSUME BasisT \in Nat, NEW v, NEW c, NEW q, SessionOK(v, c, q), v.open, v.at = "walk",
         v.queue # <<>>, v.cursor >= Head(v.queue).t
  PROVE  SessionOK(Ended(v), c, q \o Answer(v))
<1> DEFINE w == Ended(v)
           f == Reply(v.watermark)
<1>1. /\ v \in Walks /\ Queued(v) /\ c \in Clients /\ q \in Seq(Pushes) /\ Owed(v, c.asked, q)
      /\ (root = NoRoot => Blank(v, c, q)) /\ (c.asked = "sent" => c.from <= c.confirmedT)
      /\ v.watermark \in Nat
  BY DEF SessionOK, Walks
<1>2. /\ w \in Walks /\ w.open /\ w.watermark = v.watermark /\ w.at = "idle"
      /\ w.cursor = 0 /\ Queued(w) /\ Len(w.queue) \in Nat
      /\ Len(v.queue) = Len(w.queue) + 1 /\ v.queue[1] = Head(v.queue)
      /\ \A k \in 1..Len(w.queue) : w.queue[k] = v.queue[k + 1]
  BY <1>1, EndedIs
<1>3. PICK st : Leads(c, q, st) /\ EndOf(v, c.asked, st[Len(q)])
  BY DEF SessionOK
<1>4. PICK z \in Shown : z = st[Len(q)] /\ Coherent(z) /\ EndOf(v, c.asked, z)
  BY <1>1, <1>3, EndIs
<1>5. f \in Pushes /\ f.op = "reply" /\ f.t = v.watermark
  BY <1>1 DEF Reply, Pushes
<1>6. Owed(w, c.asked, q) /\ (Head(v.queue).by = -1 => Owed(w, c.asked, q \o <<f>>))
  <2> HIDE DEF w, f
  <2> QED BY <1>1, <1>2, <1>5, OwedStays
<1>7. CASE Head(v.queue).by # -1
  <2>1. EndOf(w, c.asked, z)
    BY <1>1, <1>4, EndEnds
  <2> HIDE DEF w
  <2>2. SessionOK(w, c, q)
    BY <2>1, <1>1, <1>2, <1>3, <1>4, <1>6 DEF SessionOK, Blank
  <2>3. q \o Answer(v) = q
    BY <1>1, <1>7 DEF Answer
  <2> QED BY <2>2, <2>3 DEF w
<1>8. CASE Head(v.queue).by = -1
  <2>1. v.watermark \in 0..BasisT
    BY <1>1, <1>4 DEF EndOf, Walked
  <2>2. PICK y \in Shown :
          /\ y = After(z, f) /\ Coherent(y) /\ y.painted = z.painted
          /\ y.confirmedT = IF z.confirmedT >= v.watermark THEN z.confirmedT ELSE v.watermark
    <3>1. PICK n \in 0..BasisT : n = v.watermark
      BY <2>1
    <3>2. \A u \in 1..BasisT :
            u > z.confirmedT /\ u <= n =>
              Access(u) = Access(z.confirmedT) /\ (Readable(u, u) => u \in z.painted)
      BY <3>1, <1>4 DEF EndOf, Walked
    <3>3. LET k == After(z, Reply(n))
          IN  /\ k \in Shown /\ Coherent(k) /\ k.painted = z.painted
              /\ k.confirmedT = IF z.confirmedT >= n THEN z.confirmedT ELSE n
      BY <3>2, <1>4, ReplyKeeps
    <3> QED BY <3>1, <3>3
  <2>3. EndOf(w, c.asked, y)
    BY <2>2, <1>1, <1>4, EndEnds
  <2>4. y = After(st[Len(q)], f) /\ st[Len(q)].confirmedT <= y.confirmedT
    BY <2>1, <2>2, <1>4 DEF Shown
  <2> HIDE DEF f, w
  <2>5. /\ q \o <<f>> \in Seq(Pushes) /\ Len(q \o <<f>>) = Len(q) + 1
        /\ \E s2 : Leads(c, q \o <<f>>, s2) /\ s2[Len(q) + 1] = y
    BY <2>2, <2>4, <1>1, <1>3, <1>5, Extends
  <2>6. PICK s2 : Leads(c, q \o <<f>>, s2) /\ s2[Len(q \o <<f>>)] = y
    BY <2>5
  <2>9. root = NoRoot => Blank(w, c, q \o <<f>>)
    <3> SUFFICES ASSUME root = NoRoot, NEW i \in 1..Len(q \o <<f>>)
                 PROVE  (q \o <<f>>)[i].op = "reply" /\ (q \o <<f>>)[i].t = 0
      BY <1>1, <1>2 DEF Blank
    <3>1. Len(q) \in Nat /\ (q \o <<f>>)[i] = IF i = Len(q) + 1 THEN f ELSE q[i]
      BY <2>5, <1>1, <1>5
    <3>2. CASE i = Len(q) + 1
      BY <3>1, <3>2, <1>1, <1>5 DEF Blank
    <3>3. CASE i # Len(q) + 1
      <4>1. i \in 1..Len(q)
        BY <3>1, <3>3, <2>5
      <4> QED BY <3>1, <3>3, <4>1, <1>1 DEF Blank
    <3> QED BY <3>2, <3>3
  <2>7. SessionOK(w, c, q \o <<f>>)
    BY <2>3, <2>5, <2>6, <2>9, <1>1, <1>2, <1>6, <1>8 DEF SessionOK
  <2>8. q \o Answer(v) = q \o <<f>>
    BY <1>8 DEF Answer, f
  <2> QED BY <2>7, <2>8 DEF w
<1> QED BY <1>7, <1>8

\* pushResync: the view at the t it was read at, and a sync is answered.
LEMMA DumpEnds ==
  ASSUME BasisT \in Nat, NEW v, NEW c, NEW q, SessionOK(v, c, q), v.open, v.at = "snap",
         v.queue # <<>>
  PROVE  LET x == [v EXCEPT !.watermark = v.snapT]
         IN  SessionOK(Ended(x), c, q \o (<<Resync("caller", v.snapT)>> \o Answer(x)))
<1> DEFINE x == [v EXCEPT !.watermark = v.snapT]
           w == Ended(x)
           n == v.snapT
           f == Resync("caller", n)
           g == Reply(n)
<1>1. /\ v \in Walks /\ Queued(v) /\ c \in Clients /\ q \in Seq(Pushes) /\ Owed(v, c.asked, q)
      /\ root # NoRoot /\ (c.asked = "sent" => c.from <= c.confirmedT) /\ n \in Nat
  BY DEF SessionOK, Walks, Blank
<1>2. x \in Walks /\ x.queue = v.queue /\ x.open = v.open /\ x.watermark = n
      /\ x.rest = v.rest /\ x.at = v.at
  BY <1>1 DEF Walks
<1>3. Queued(x) /\ Owed(x, c.asked, q)
  BY <1>1, <1>2 DEF Queued, Owed
<1>4. PICK st : Leads(c, q, st) /\ EndOf(v, c.asked, st[Len(q)])
  BY DEF SessionOK
<1>5. PICK z \in Shown : z = st[Len(q)] /\ Coherent(z) /\ EndOf(v, c.asked, z)
  BY <1>1, <1>4, EndIs
<1>6. n \in 0..BasisT /\ z.confirmedT <= n
  BY <1>1, <1>5 DEF EndOf, Dumps
<1>7. f \in Pushes /\ f.op = "resync" /\ g \in Pushes /\ g.op = "reply"
  BY <1>1 DEF Resync, Reply, Pushes
<1>8. PICK y \in Shown : y = After(z, f) /\ Coherent(y) /\ y.confirmedT = n /\ y.painted = 1..n
  <2> HIDE DEF n
  <2>1. LET k == After(z, Resync("caller", n))
        IN  k \in Shown /\ Coherent(k) /\ k.confirmedT = n /\ k.painted = 1..n
    BY <1>5, <1>6, DumpKeeps
  <2> QED BY <2>1
<1> HIDE DEF x, n
<1>9. /\ w \in Walks /\ w.open /\ w.watermark = n /\ w.at = "idle"
      /\ w.cursor = 0 /\ Queued(w) /\ Len(w.queue) \in Nat
      /\ Len(x.queue) = Len(w.queue) + 1 /\ x.queue[1] = Head(x.queue)
      /\ \A k \in 1..Len(w.queue) : w.queue[k] = x.queue[k + 1]
  BY <1>2, <1>3, EndedIs
<1> HIDE DEF w, f, g
<1>10. ASSUME NEW k \in Shown, k.confirmedT = n, k.painted = 1..n
       PROVE  EndOf(w, c.asked, k)
  <2>1. Walked(w, k)
    BY <1>6, <1>9, <1>10 DEF Walked
  <2>2. Dumps(w, k) /\ AllWalked(w, k)
    BY <1>1, <1>9, <1>10 DEF Dumps, AllWalked, UpTo
  <2> QED BY <2>1, <2>2 DEF EndOf, Told
<1>11. Owed(w, c.asked, q \o <<f>>)
  BY <1>1, <1>2, <1>3, <1>7, <1>9, OwedStays
<1>12. y = After(st[Len(q)], f) /\ st[Len(q)].confirmedT <= y.confirmedT
  BY <1>5, <1>6, <1>8
<1>13. /\ q \o <<f>> \in Seq(Pushes) /\ Len(q \o <<f>>) = Len(q) + 1
       /\ \E s2 : Leads(c, q \o <<f>>, s2) /\ s2[Len(q) + 1] = y
  BY <1>1, <1>4, <1>7, <1>8, <1>12, Extends
<1>14. PICK p \in Seq(Pushes) : p = q \o <<f>>
  BY <1>13
<1>15. PICK s2 : Leads(c, p, s2) /\ s2[Len(p)] = y
  BY <1>13, <1>14
<1>16. CASE Head(x.queue).by # -1
  <2>1. EndOf(w, c.asked, y)
    BY <1>8, <1>10
  <2>2. SessionOK(w, c, p)
    BY <2>1, <1>1, <1>9, <1>11, <1>14, <1>15 DEF SessionOK
  <2>3. <<f>> \o Answer(x) = <<f>>
    BY <1>7, <1>16 DEF Answer
  <2> QED BY <2>2, <2>3, <1>14 DEF w, x, n, f
<1>17. CASE Head(x.queue).by = -1
  <2>1. PICK k \in Shown : k = After(y, g) /\ Coherent(k) /\ k.painted = y.painted /\ k.confirmedT = n
    <3>1. \A u \in 1..BasisT : ~ (u > y.confirmedT /\ u <= n)
      BY <1>6, <1>8
    <3>2. LET a == After(y, Reply(n))
          IN  /\ a \in Shown /\ Coherent(a) /\ a.painted = y.painted
              /\ a.confirmedT = IF y.confirmedT >= n THEN y.confirmedT ELSE n
      BY <3>1, <1>6, <1>8, ReplyKeeps
    <3> QED BY <3>2, <1>8 DEF g
  <2>2. EndOf(w, c.asked, k)
    BY <2>1, <1>8, <1>10
  <2>3. k = After(s2[Len(p)], g) /\ s2[Len(p)].confirmedT <= k.confirmedT
    BY <2>1, <1>6, <1>8, <1>15
  <2>4. /\ p \o <<g>> \in Seq(Pushes) /\ Len(p \o <<g>>) = Len(p) + 1
        /\ \E s3 : Leads(c, p \o <<g>>, s3) /\ s3[Len(p) + 1] = k
    BY <2>1, <2>3, <1>7, <1>15, Extends
  <2>5. PICK s3 : Leads(c, p \o <<g>>, s3) /\ s3[Len(p \o <<g>>)] = k
    BY <2>4
  <2>6. Owed(w, c.asked, p \o <<g>>)
    <3>1. Owed(x, c.asked, p)
      <4>1. c.asked \in {"taken", "done"}
        <5>1. 1 \in 1..Len(x.queue)
          BY <1>9
        <5> QED BY <5>1, <1>3, <1>9, <1>17 DEF Owed
      <4> QED BY <4>1 DEF Owed
    <3> QED BY <3>1, <1>1, <1>2, <1>3, <1>7, <1>9, <1>17, OwedStays
  <2>7. SessionOK(w, c, p \o <<g>>)
    BY <2>2, <2>4, <2>5, <2>6, <1>1, <1>9 DEF SessionOK
  <2>8. Answer(x) = <<g>>
    BY <1>2, <1>17 DEF Answer, g
  <2>9. q \o (<<f>> \o <<g>>) = p \o <<g>>
    BY <1>1, <1>7, <1>14
  <2> QED BY <2>7, <2>8, <2>9 DEF w, x, n, f
<1> QED BY <1>16, <1>17

\* The client applies a frame.
LEMMA AppliedIs ==
  ASSUME NEW c \in Clients, NEW f \in Pushes
  PROVE  LET d == Applied(c, f)
         IN  /\ d \in Clients /\ ShownOf(d) = After(ShownOf(c), f) /\ d.from = c.from
             /\ d.asked = IF f.op = "reply" THEN "done" ELSE c.asked
<1>1. c.confirmedT \in Nat /\ f.t \in Nat /\ c.facts \in SUBSET Nat /\ c.painted \in SUBSET Nat
  BY DEF Clients, Pushes
<1>2. CASE f.op = "tx"
  <2>1. PICK a \in SUBSET Nat : a = c.facts \cup ({f.t} \ c.painted)
    BY <1>1
  <2>2. PICK b \in SUBSET Nat : b = c.painted \cup {f.t}
    BY <1>1
  <2>3. Applied(c, f) = [c EXCEPT !.facts = a, !.painted = b]
    BY <1>2, <2>1, <2>2 DEF Applied
  <2>4. After(ShownOf(c), f) = [facts |-> a, painted |-> b, confirmedT |-> c.confirmedT]
    BY <1>2, <2>1, <2>2 DEF After, ShownOf
  <2> QED BY <2>3, <2>4, <1>2 DEF Clients, ShownOf
<1>3. CASE f.op = "resync"
  <2>1. PICK a \in SUBSET Nat : a = View(f.t)
    <3>1. View(f.t) \in SUBSET Nat
      BY <1>1 DEF View
    <3> QED BY <3>1
  <2>2. PICK b \in SUBSET Nat : b = 1..f.t
    BY <1>1
  <2>3. Applied(c, f) = [c EXCEPT !.facts = a, !.painted = b, !.confirmedT = f.t]
    BY <1>3, <2>1, <2>2 DEF Applied
  <2>4. After(ShownOf(c), f) = [facts |-> a, painted |-> b, confirmedT |-> f.t]
    BY <1>3, <2>1, <2>2 DEF After, ShownOf
  <2> QED BY <2>3, <2>4, <1>1, <1>3 DEF Clients, ShownOf
<1>4. CASE f.op = "reply"
  <2>1. PICK k \in Nat : k = Max0({c.confirmedT, f.t})
    <3>1. c.confirmedT \in Int /\ f.t \in Int
      BY <1>1
    <3> QED BY <3>1, MaxOfTwo
  <2>2. k = IF c.confirmedT >= f.t THEN c.confirmedT ELSE f.t
    <3>1. c.confirmedT \in Int /\ f.t \in Int
      BY <1>1
    <3>2. k >= c.confirmedT /\ k >= f.t /\ k \in {c.confirmedT, f.t, 0}
      BY <3>1, <2>1, MaxOfTwo
    <3> QED BY <3>2, <1>1
  <2>3. Applied(c, f) = [c EXCEPT !.asked = "done", !.confirmedT = k]
    BY <1>4, <2>1 DEF Applied
  <2>4. After(ShownOf(c), f) = [facts |-> c.facts, painted |-> c.painted, confirmedT |-> k]
    BY <1>4, <2>2 DEF After, ShownOf
  <2> QED BY <2>3, <2>4, <1>4 DEF Clients, ShownOf
<1> QED BY <1>2, <1>3, <1>4 DEF Pushes

\* A client goes on from the next of its states.
LEMMA Delivered ==
  ASSUME NEW v, NEW c, NEW q, SessionOK(v, c, q), q # <<>>
  PROVE  SessionOK(v, Applied(c, Head(q)), Tail(q))
<1> DEFINE d == Applied(c, Head(q))
           p == Tail(q)
<1>1. /\ v \in Walks /\ c \in Clients /\ q \in Seq(Pushes) /\ v.open /\ Queued(v)
      /\ (root = NoRoot => Blank(v, c, q))
  BY DEF SessionOK
<1>2. PICK f \in Pushes : f = Head(q)
  BY <1>1
<1>3. /\ p \in Seq(Pushes) /\ Len(p) \in Nat /\ Len(q) = Len(p) + 1 /\ q[1] = f
      /\ \A k \in 1..Len(p) : p[k] = q[k + 1]
  BY <1>1, <1>2
<1>4. /\ d \in Clients /\ ShownOf(d) = After(ShownOf(c), f) /\ d.from = c.from
      /\ d.asked = IF f.op = "reply" THEN "done" ELSE c.asked
  BY <1>1, <1>2, AppliedIs
<1> HIDE DEF d, p
<1>5. PICK st : Leads(c, q, st) /\ EndOf(v, c.asked, st[Len(q)])
  BY <1>1 DEF SessionOK
<1>6. /\ st \in [0..Len(q) -> Shown] /\ st[0] = ShownOf(c)
      /\ \A i \in 1..Len(q) : st[i] = After(st[i - 1], q[i])
      /\ \A i \in 0..Len(q) : Coherent(st[i])
      /\ \A i, j \in 0..Len(q) : i <= j => st[i].confirmedT <= st[j].confirmedT
  BY <1>5 DEF Leads
<1> DEFINE s2 == [i \in 0..Len(p) |-> st[i + 1]]
<1>7. s2 \in [0..Len(p) -> Shown] /\ \A i \in 0..Len(p) : i + 1 \in 0..Len(q) /\ s2[i] = st[i + 1]
  BY <1>3, <1>6
<1> HIDE DEF s2
<1>8. s2[0] = ShownOf(d)
  <2>1. 1 \in 1..Len(q) /\ 0 \in 0..Len(p)
    BY <1>3
  <2>2. st[1] = After(st[0], q[1])
    <3>1. st[1] = After(st[1 - 1], q[1])
      BY <2>1, <1>6
    <3> QED BY <3>1
  <2> QED BY <2>1, <2>2, <1>3, <1>4, <1>6, <1>7
<1>9. ASSUME NEW i \in 1..Len(p) PROVE s2[i] = After(s2[i - 1], p[i])
  <2>1. i + 1 \in 1..Len(q) /\ i - 1 \in 0..Len(p) /\ i \in 0..Len(p) /\ (i + 1) - 1 = i
        /\ (i - 1) + 1 = i
    BY <1>3
  <2>2. st[i + 1] = After(st[i], q[i + 1])
    <3>1. st[i + 1] = After(st[(i + 1) - 1], q[i + 1])
      BY <2>1, <1>6
    <3> QED BY <3>1, <2>1
  <2>3. s2[i] = st[i + 1] /\ p[i] = q[i + 1]
    BY <2>1, <1>3, <1>7
  <2>4. s2[i - 1] = st[i]
    <3>1. s2[i - 1] = st[(i - 1) + 1]
      BY <2>1, <1>7
    <3> QED BY <3>1, <2>1
  <2> QED BY <2>2, <2>3, <2>4
<1>10. \A i \in 0..Len(p) : Coherent(s2[i])
  BY <1>6, <1>7
<1>11. ASSUME NEW i \in 0..Len(p), NEW j \in 0..Len(p), i <= j
       PROVE  s2[i].confirmedT <= s2[j].confirmedT
  BY <1>6, <1>7, <1>11
<1>12. Leads(d, p, s2)
  BY <1>7, <1>8, <1>9, <1>10, <1>11 DEF Leads
<1>13. s2[Len(p)] = st[Len(q)]
  BY <1>3, <1>7
<1>14. f.op = "reply" => c.asked \in {"taken", "done"}
  <2>1. 1 \in 1..Len(q)
    BY <1>3
  <2> QED BY <2>1, <1>3 DEF SessionOK, Owed
<1>15. d.asked \in {"taken", "done"} => c.asked \in {"taken", "done"}
  BY <1>4, <1>14
<1>16. EndOf(v, d.asked, s2[Len(p)])
  BY <1>5, <1>13, <1>15 DEF EndOf, Told
<1>17. d.asked = "sent" => d.from <= d.confirmedT
  <2> SUFFICES ASSUME d.asked = "sent" PROVE d.from <= d.confirmedT
    OBVIOUS
  <2>1. c.asked = "sent" /\ c.from <= c.confirmedT
    BY <1>4 DEF SessionOK
  <2>2. 0 \in 0..Len(q) /\ 1 \in 0..Len(q) /\ 0 \in 0..Len(p)
    BY <1>3
  <2>3. st[0].confirmedT <= st[1].confirmedT
    BY <2>2, <1>6
  <2>4. c.confirmedT = st[0].confirmedT
    BY <1>6 DEF ShownOf
  <2>5. d.confirmedT = st[1].confirmedT
    <3>1. s2[0] = st[0 + 1]
      BY <2>2, <1>7
    <3>2. st[0 + 1] = st[1]
      OBVIOUS
    <3> QED BY <3>1, <3>2, <1>8 DEF ShownOf
  <2>6. c.from \in Nat /\ c.confirmedT \in Nat /\ d.confirmedT \in Nat
    BY <1>1, <1>4 DEF Clients
  <2> QED BY <2>1, <2>3, <2>4, <2>5, <2>6, <1>4
<1>18. Owed(v, d.asked, p)
  <2> SUFFICES ASSUME d.asked \notin {"taken", "done"}
               PROVE  /\ \A i \in 1..Len(p) : p[i].op # "reply"
                      /\ \A i \in 1..Len(v.queue) : v.queue[i].by # -1
    BY DEF Owed
  <2>1. c.asked \notin {"taken", "done"}
    BY <1>4, <1>14
  <2>2. \A i \in 1..Len(p) : i + 1 \in 1..Len(q)
    BY <1>3
  <2> QED BY <2>1, <2>2, <1>3 DEF SessionOK, Owed
<1>19. root = NoRoot => Blank(v, d, p)
  <2> SUFFICES ASSUME root = NoRoot PROVE Blank(v, d, p)
    OBVIOUS
  <2>1. c.confirmedT = 0 /\ c.painted = {} /\ f.op = "reply" /\ f.t = 0
    <3>1. 1 \in 1..Len(q)
      BY <1>3
    <3> QED BY <3>1, <1>1, <1>3 DEF Blank
  <2>2. d.confirmedT = 0 /\ d.painted = {}
    <3>1. ShownOf(d).confirmedT = 0 /\ ShownOf(d).painted = {}
      BY <2>1, <1>4 DEF After, ShownOf
    <3> QED BY <3>1 DEF ShownOf
  <2>3. \A i \in 1..Len(p) : i + 1 \in 1..Len(q) /\ p[i] = q[i + 1]
    BY <1>3
  <2> QED BY <2>2, <2>3, <1>1 DEF Blank
<1>20. SessionOK(v, d, p)
  BY <1>1, <1>3, <1>4, <1>12, <1>16, <1>17, <1>18, <1>19 DEF SessionOK
<1> QED BY <1>20 DEF d, p

(***************************************************************************)
(* What the handlers hand to the sessions is of the replica's log.         *)
(***************************************************************************)
WalkInv == \A h \in Handlers : handler[h].walk <= BasisT
Grows == BasisT \in Nat /\ BasisT' \in Nat /\ BasisT <= BasisT' /\ HandlersInv

\* A handler that goes on hands out what it did, or the basis.
LEMMA WalkGoes ==
  ASSUME WalkInv, Grows, NEW h \in Handlers, NEW hd, Goto(h, hd), hd.walk <= BasisT'
  PROVE  WalkInv'
<1> SUFFICES ASSUME NEW x \in Handlers PROVE handler'[x].walk <= BasisT'
  BY DEF WalkInv
<1>1. handler' = [handler EXCEPT ![h] = hd] /\ handler \in [Handlers -> Handling]
  BY DEF Goto, Grows, HandlersInv
<1>2. handler[x].walk \in Nat /\ handler[x].walk <= BasisT
  BY <1>1 DEF WalkInv, Handling
<1>3. CASE x = h
  BY <1>1, <1>3
<1>4. CASE x # h
  BY <1>1, <1>2, <1>4 DEF Grows
<1> QED BY <1>3, <1>4

\* An entry that is applied is the basis.
LEMMA AppliedIsBasis ==
  ASSUME CopyInv, NEW t \in Nat, ApplyDatoms(t)
  PROVE  BasisT' = t
<1>1. entries \in Seq(Nat) /\ entries' = Append(entries, t)
  BY DEF CopyInv, ApplyDatoms
<1>2. entries' # <<>> /\ entries'[Len(entries')] = t
  BY <1>1
<1> QED BY <1>2 DEF BasisT, Last

\* Where the handlers that walk are moved, the entry they walk is not.
LEMMA WalkStays ==
  ASSUME WalkInv, Grows, NEW on, NEW wait,
         handler' = [x \in Handlers |-> [handler[x] EXCEPT !.on = on[x], !.wait = wait[x]]]
  PROVE  WalkInv'
<1> SUFFICES ASSUME NEW x \in Handlers PROVE handler'[x].walk <= BasisT'
  BY DEF WalkInv
<1>1. PICK k \in Handling : k = handler[x]
  BY DEF Grows, HandlersInv
<1>2. handler'[x] = [k EXCEPT !.on = on[x], !.wait = wait[x]]
  BY <1>1
<1>3. handler'[x].walk = k.walk
  <2>1. PICK o, w : o = on[x] /\ w = wait[x]
    OBVIOUS
  <2>2. handler'[x] = [k EXCEPT !.on = o, !.wait = w]
    BY <1>2, <2>1
  <2> QED BY ONLY <2>2, k \in Handling DEF Handling
<1>4. k.walk \in Nat /\ k.walk <= BasisT
  BY <1>1 DEF Handling, WalkInv
<1>5. k.walk <= BasisT'
  BY ONLY <1>4, Grows DEF Grows
<1> QED BY ONLY <1>3, <1>5

\* A step of a handler.
LEMMA HandlersWalk ==
  ASSUME ReplicaInv, WalkInv, Grows, NEW h \in Handlers, Handle(h) \/ ReadFails(h)
  PROVE  WalkInv'
<1>1. PICK k \in Handling : k = handler[h]
  BY DEF Grows, HandlersInv
<1>2. k.walk \in Nat /\ k.walk <= BasisT' /\ BasisT' \in Nat /\ 0 <= BasisT'
  BY <1>1 DEF Handling, Grows, WalkInv
<1>3. Idle \in Handling /\ Idle.walk = 0
  BY IdleIs
<1>4. CopyInv /\ handler \in [Handlers -> Handling]
  BY DEF ReplicaInv, HandlersInv
<1>5. CASE UNCHANGED handler
  <2> SUFFICES ASSUME NEW x \in Handlers PROVE handler[x].walk <= BasisT'
    BY <1>5 DEF WalkInv
  <2>1. PICK y \in Handling : y = handler[x]
    BY <1>4
  <2>2. y.walk \in Nat
    BY ONLY <2>1 DEF Handling
  <2>3. y.walk <= BasisT /\ BasisT <= BasisT' /\ BasisT \in Nat /\ BasisT' \in Nat
    BY <2>1 DEF WalkInv, Grows
  <2>4. y.walk <= BasisT'
    BY ONLY <2>2, <2>3
  <2> QED BY ONLY <2>1, <2>4
<1>6. ASSUME NEW hd, Goto(h, hd), hd.walk = k.walk \/ hd.walk = 0 PROVE WalkInv'
  <2>1. hd.walk <= BasisT'
    BY <1>2, <1>6
  <2> QED BY <2>1, <1>6, WalkGoes
<1>7. ASSUME NEW f \in {Idle, k, [k EXCEPT !.list = Tail(@)]}, NEW at, NEW t \in Nat,
             ApplyDatoms(t), Goto(h, Walking(f, at, t))
      PROVE  WalkInv'
  <2>1. PICK hd : hd = Walking(f, at, t)
    OBVIOUS
  <2>2. f \in {Idle, k} \/ f = [k EXCEPT !.list = Tail(@)]
    OBVIOUS
  <2>3. hd.walk = t
    <3>1. PICK tail : tail = Tail(k.list)
      OBVIOUS
    <3>2. f \in {Idle, k} \/ f = [k EXCEPT !.list = tail]
      BY <2>2, <3>1
    <3> HIDE <2>2
    <3>3. CASE f \in {Idle, k}
      <4>1. f \in Handling
        BY <3>3, <1>3
      <4> QED BY <4>1, <2>1 DEF Walking, Handling
    <3>4. CASE f = [k EXCEPT !.list = tail]
      BY <3>4, <2>1 DEF Walking, Handling
    <3> QED BY <3>2, <3>3, <3>4
  <2>4. BasisT' = t
    BY <1>4, <1>7, AppliedIsBasis
  <2> QED BY <2>1, <2>3, <2>4, <1>2, <1>7, WalkGoes
<1>8. CASE HandleRoot(h)
  BY <1>5, <1>8 DEF HandleRoot
<1>9. CASE HandleGap(h)
  <2>1. PICK hd : hd = [Idle EXCEPT !.at = "bucket", !.from = Frame(h).t, !.to = MaxT] /\ Goto(h, hd)
    BY <1>9 DEF HandleGap
  <2>2. hd.walk = 0
    BY <2>1, <1>3 DEF Handling
  <2> QED BY <2>1, <2>2, <1>6
<1>10. CASE HandleTx(h) /\ h # 0
  <2>1. PICK t : t = Frame(h).t
    OBVIOUS
  <2>2. t \in Nat
    <3>1. chain[h] # <<>> /\ h \in Sockets /\ log' = log
      BY <1>10 DEF HandleTx, Ready, writer, Handlers, Sockets
    <3>2. Take(h) /\ LogInv /\ FramesInv
      BY <1>10 DEF HandleTx, ReplicaInv
    <3>3. Frame(h) \in Frames
      BY <3>1, <3>2, Takes
    <3> QED BY <3>3, <2>1 DEF Frames
  <2>3. CASE UNCHANGED handler
    BY <2>3, <1>5
  <2>4. CASE ApplyDatoms(t) /\ Goto(h, Walking(Idle, "last", t))
    BY <2>2, <2>4, <1>7
  <2>5. CASE Goto(h, [Idle EXCEPT !.at = "log", !.from = BasisT, !.to = t - 1, !.frame = t])
    <3>1. PICK hd : hd = [Idle EXCEPT !.at = "log", !.from = BasisT, !.to = t - 1, !.frame = t]
                    /\ Goto(h, hd)
      BY <2>5
    <3>2. hd.walk = 0
      BY <3>1, <1>3 DEF Handling
    <3> QED BY <3>1, <3>2, <1>6
  <2> QED BY <2>1, <2>3, <2>4, <2>5, <1>10 DEF HandleTx
<1>11. CASE ReadWriterLog(h)
  <2>1. PICK list : list = ReadLog(handler[h].from, handler[h].to)
    OBVIOUS
  <2>2. PICK hd : /\ hd = [k EXCEPT !.at = "apply", !.list = list] \/ hd = [k EXCEPT !.at = "bucket"]
                  /\ Goto(h, hd)
    BY <2>1, <1>1, <1>11 DEF ReadWriterLog
  <2>3. hd.walk = k.walk
    BY <2>2 DEF Handling
  <2> QED BY <2>2, <2>3, <1>6
<1>12. CASE ReadBucket(h)
  <2>1. PICK list : Goto(h, [k EXCEPT !.at = "apply", !.list = list])
    BY <1>1, <1>12 DEF ReadBucket
  <2>2. PICK hd : hd = [k EXCEPT !.at = "apply", !.list = list] /\ Goto(h, hd)
    BY <2>1
  <2>3. hd.walk = k.walk
    BY <2>2 DEF Handling
  <2> QED BY <2>2, <2>3, <1>6
<1>13. CASE ReadFails(h)
  <2>1. PICK hd : hd \in {Idle, [k EXCEPT !.at = "bucket"]} /\ Goto(h, hd)
    BY <1>1, <1>13 DEF ReadFails
  <2>2. hd.walk = k.walk \/ hd.walk = 0
    BY <2>1, <1>3 DEF Handling
  <2> QED BY <2>1, <2>2, <1>6
<1>14. CASE ApplyRead(h)
  <2>1. PICK t \in Nat : t = Head(k.list)
    <3>1. k.list # <<>> /\ k.list \in Seq(Nat)
      BY <1>1, <1>14 DEF ApplyRead, Handling
    <3> QED BY <3>1
  <2>2. PICK r : r = [k EXCEPT !.list = Tail(@)]
    OBVIOUS
  <2>3. (ApplyDatoms(t) /\ Goto(h, Walking(r, "next", t))) \/ Goto(h, r)
    BY <2>1, <2>2, <1>1, <1>14 DEF ApplyRead
  <2>4. r.walk = k.walk
    <3>1. PICK tail : tail = Tail(k.list)
      OBVIOUS
    <3>2. r = [k EXCEPT !.list = tail]
      BY <2>2, <3>1
    <3> HIDE <2>2
    <3> QED BY <3>2 DEF Handling
  <2> QED BY <2>2, <2>3, <2>4, <1>6, <1>7
<1>15. CASE ApplyFrame(h)
  <2>1. PICK t \in Nat : t = k.frame
    BY DEF Handling
  <2>2. (ApplyDatoms(t) /\ Goto(h, Walking(Idle, "last", t))) \/ Goto(h, Idle)
    BY <2>1, <1>1, <1>15 DEF ApplyFrame
  <2> QED BY <2>2, <1>3, <1>6, <1>7
<1>16. CASE Notify(h)
  <2>1. CASE k.wait = {}
    <3>1. PICK hd : Goto(h, hd) /\ hd \in {Idle, [k EXCEPT !.at = "apply", !.walk = 0]}
      BY <1>1, <1>16, <2>1 DEF Notify
    <3>2. hd.walk = 0
      BY <3>1, <1>3 DEF Handling
    <3> QED BY <3>1, <3>2, <1>6
  <2>2. CASE k.wait # {}
    <3>1. PICK s \in k.wait :
            Goto(h, [k EXCEPT !.wait = @ \ {s}, !.on = {s}])
      BY <1>1, <1>16, <2>2 DEF Notify
    <3>3. PICK hd : hd = [k EXCEPT !.wait = @ \ {s}, !.on = {s}] /\ Goto(h, hd)
      BY <3>1
    <3>4. hd.walk = k.walk
      BY <3>3 DEF Handling
    <3> QED BY <3>3, <3>4, <1>6
  <2> QED BY <2>1, <2>2
<1> QED BY <1>8, <1>9, <1>10, <1>11, <1>12, <1>13, <1>14, <1>15, <1>16 DEF Handle

\* Every step.
LEMMA WalkStep ==
  ASSUME ReplicaInv, WalkInv, Grows, [Next]_vars
  PROVE  WalkInv'
<1>1. handler \in [Handlers -> Handling]
  BY DEF ReplicaInv, HandlersInv
<1>2. CASE UNCHANGED handler
  BY <1>1, <1>2 DEF WalkInv, Grows, Handling
<1>3. CASE Writer \/ UNCHANGED vars \/ UpstreamDrops
  <2>1. UNCHANGED handler
    BY <1>3 DEF Writer, Assign, Commit, WriterDies, PutChunk, PublishRoot, IndexerAdopts, replica,
       upstream, vars, UpstreamDrops
  <2> QED BY <2>1, <1>2
<1>4. CASE Connecting
  <2>1. CASE ConnectFails
    <3>1. PICK hd : hd = [Idle EXCEPT !.at = "bucket", !.from = BasisT, !.to = MaxT] /\ Goto(0, hd)
      BY <2>1 DEF ConnectFails, Goto
    <3>2. hd.walk = 0
      BY <3>1, IdleIs DEF Handling
    <3>3. 0 \in Handlers
      BY ReplicaAssumption DEF Handlers
    <3>4. hd.walk <= BasisT'
      BY <3>2 DEF Grows
    <3> QED BY <3>1, <3>3, <3>4, WalkGoes
  <2>2. CASE ~ ConnectFails
    <3>1. UNCHANGED handler
      BY <1>4, <2>2 DEF Connecting, SyncStart, Connect, SyncDone
    <3> QED BY <3>1, <1>2
  <2> QED BY <2>1, <2>2
<1>5. CASE Hibernate \/ Crash
  <2>1. handler' = [x \in Handlers |-> Idle]
    BY <1>5 DEF Hibernate, Crash, Boot
  <2>2. \A x \in Handlers : handler'[x].walk <= BasisT'
    BY <2>1, IdleIs DEF Grows
  <2> QED BY <2>2 DEF WalkInv
<1>6. CASE \E h \in Handlers : Handle(h) \/ ReadFails(h)
  BY <1>6, HandlersWalk
<1>7. ASSUME NEW s \in Sessions, Session(s) PROVE WalkInv'
  <2>1. \A x \in Handlers : handler[x] \in Handling
    BY <1>1
  <2>2. CASE CloseSession(s)
    <3> DEFINE on == [x \in Handlers |-> handler[x].on \ {s}]
               wait == [x \in Handlers |-> handler[x].wait \ {s}]
    <3>1. handler' = [x \in Handlers |-> [handler[x] EXCEPT !.on = on[x], !.wait = wait[x]]]
      BY <2>2 DEF CloseSession
    <3> HIDE DEF on, wait
    <3> QED BY <3>1, WalkStays
  <2>3. ASSUME NEW by, handler' = [x \in Handlers |->
                                     IF x = by THEN [handler[x] EXCEPT !.on = {}] ELSE handler[x]]
        PROVE  WalkInv'
    <3> DEFINE on == [x \in Handlers |-> IF x = by THEN {} ELSE handler[x].on]
               wait == [x \in Handlers |-> handler[x].wait]
    <3>2. ASSUME NEW x \in Handlers
          PROVE  [handler[x] EXCEPT !.on = on[x], !.wait = wait[x]]
                   = IF x = by THEN [handler[x] EXCEPT !.on = {}] ELSE handler[x]
      <4>1. PICK k \in Handling : k = handler[x]
        BY <2>1
      <4>2. [k EXCEPT !.wait = k.wait, !.on = k.on] = k
        BY DEF Handling
      <4>3. [k EXCEPT !.wait = k.wait, !.on = {}] = [k EXCEPT !.on = {}]
        BY DEF Handling
      <4>4. [k EXCEPT !.on = on[x], !.wait = wait[x]]
              = IF x = by THEN [k EXCEPT !.wait = k.wait, !.on = {}]
                ELSE [k EXCEPT !.wait = k.wait, !.on = k.on]
        BY <4>1 DEF Handling
      <4> QED BY <4>1, <4>2, <4>3, <4>4
    <3>3. handler' = [x \in Handlers |-> [handler[x] EXCEPT !.on = on[x], !.wait = wait[x]]]
      BY <2>3, <3>2
    <3> HIDE DEF on, wait
    <3> QED BY <3>3, WalkStays
  <2>4. CASE Considered(s) \/ PushResync(s)
    <3>1. UNCHANGED handler \/ (\E v, frames : Finish(s, v, frames))
      BY <2>4 DEF Considered, PushResync, upstream
    <3>2. ASSUME NEW v, NEW frames, Finish(s, v, frames) PROVE WalkInv'
      <4>1. PICK by : handler' = [x \in Handlers |->
                                    IF x = by THEN [handler[x] EXCEPT !.on = {}] ELSE handler[x]]
        BY <3>2 DEF Finish
      <4> QED BY ONLY <4>1, <2>3
    <3> QED BY <3>1, <3>2, <1>2
  <2>5. CASE EarlyWalk(s)
    <3>1. UNCHANGED handler \/ (\E v, frames : EarlyDone(s, v, frames))
      BY <2>5 DEF EarlyWalk, EarlyConsider, EarlyDump, upstream
    <3>2. ASSUME NEW v, NEW frames, EarlyDone(s, v, frames) PROVE WalkInv'
      <4>1. PICK by : handler' = [x \in Handlers |->
                                    IF x = by THEN [handler[x] EXCEPT !.on = {}] ELSE handler[x]]
        BY <3>2 DEF EarlyDone
      <4> QED BY ONLY <4>1, <2>3
    <3> QED BY <3>1, <3>2, <1>2
  <2>6. CASE \/ AcceptSocket(s) \/ OpenSession(s) \/ AskSync(s) \/ TakeSync(s) \/ RunJob(s)
             \/ Consider(s) \/ Deliver(s)
    <3>1. UNCHANGED handler
      BY <2>6 DEF AcceptSocket, OpenSession, AskSync, TakeSync, RunJob, Consider, Deliver, upstream
    <3> QED BY <3>1, <1>2
  <2> QED BY <2>2, <2>4, <2>5, <2>6, <1>7 DEF Session, Walk
<1> QED BY <1>3, <1>4, <1>5, <1>6, <1>7 DEF Next

(***************************************************************************)
(* Every step keeps every session.                                         *)
(***************************************************************************)
\* A step that leaves what there is of a session alone.
LEMMA OneStays ==
  ASSUME SessionsInv, Kept, NEW x \in Sessions \ strayed, session'[x] = session[x],
         client'[x] = client[x], inbox'[x] = inbox[x],
         EarlyOK(session[x], early[x]) => EarlyOK(session'[x], early'[x])
  PROVE  SessionOK(session[x], client[x], inbox[x])' /\ EarlyOK(session[x], early[x])'
<1>1. PICK v, c, q : v = session[x] /\ c = client[x] /\ q = inbox[x]
  OBVIOUS
<1>2. SessionOK(v, c, q) /\ EarlyOK(session[x], early[x])
  BY <1>1 DEF SessionsInv
<1>3. SessionOK(v, c, q)'
  BY <1>2, SessionStays
<1>4. v = session'[x] /\ c = client'[x] /\ q = inbox'[x]
  BY <1>1
<1>5. SessionOK(session[x], client[x], inbox[x])'
  BY <1>3, <1>4
<1>6. EarlyOK(session[x], early[x])'
  BY <1>2 DEF EarlyOK, Earlies, NotEarly
<1> QED BY <1>5, <1>6

\* A step that leaves the sessions alone.
LEMMA AllStay ==
  ASSUME SessionsInv, Kept, UNCHANGED sessions
  PROVE  SessionsInv'
<1>1. UNCHANGED <<session, early, inbox, client, strayed>>
  BY DEF sessions
<1>2. ASSUME NEW s \in Sessions \ strayed'
      PROVE  SessionOK(session[s], client[s], inbox[s])' /\ EarlyOK(session[s], early[s])'
  <2>1. s \in Sessions \ strayed
    BY <1>1
  <2> QED BY <2>1, <1>1, OneStays
<1>3. Arrays'
  BY <1>1 DEF SessionsInv, Arrays
<1> QED BY <1>2, <1>3 DEF SessionsInv

\* A step of one session.
Only(s) ==
  /\ Arrays'
  /\ \A x \in Sessions \ {s} : /\ session'[x] = session[x] /\ client'[x] = client[x]
                                /\ inbox'[x] = inbox[x] /\ early'[x] = early[x]
  /\ strayed' = strayed \/ strayed' = strayed \cup {s}

\* What a step of one session leaves of it is enough to look at.
LEMMA OneMoves ==
  ASSUME SessionsInv, Kept, NEW s \in Sessions, Only(s),
         s \notin strayed' => /\ SessionOK(session'[s], client'[s], inbox'[s])
                             /\ EarlyOK(session'[s], early'[s])
  PROVE  SessionsInv'
<1>1. ASSUME NEW x \in Sessions \ strayed'
      PROVE  SessionOK(session[x], client[x], inbox[x])' /\ EarlyOK(session[x], early[x])'
  <2>1. x \notin strayed
    BY DEF Only
  <2>2. CASE x = s
    <3>1. PICK v, c, q : v = session'[x] /\ c = client'[x] /\ q = inbox'[x]
      OBVIOUS
    <3>2. SessionOK(v, c, q) /\ EarlyOK(session'[x], early'[x])
      BY <2>2, <3>1
    <3>3. SessionOK(v, c, q)'
      BY <3>2, SessionStays
    <3>4. SessionOK(session[x], client[x], inbox[x])'
      BY <3>1, <3>3
    <3>5. EarlyOK(session[x], early[x])'
      BY <3>2 DEF EarlyOK, Earlies, NotEarly
    <3> QED BY <3>4, <3>5
  <2>3. CASE x # s
    BY <2>1, <2>3, OneStays DEF Only
  <2> QED BY <2>2, <2>3
<1> QED BY <1>1 DEF SessionsInv, Only

\* A step of a session touches nothing of the others.
LEMMA OnlyOne ==
  ASSUME Arrays, NEW s \in Sessions, Session(s)
  PROVE  Only(s)
<1> USE DEF Arrays, Only
<1>1. CASE AcceptSocket(s)
  BY <1>1 DEF AcceptSocket
<1>2. CASE OpenSession(s)
  BY <1>2 DEF OpenSession, Set
<1>3. CASE AskSync(s)
  BY <1>3 DEF AskSync
<1>4. CASE TakeSync(s)
  BY <1>4 DEF TakeSync, Set
<1>5. ASSUME NEW v, NEW frames, Finish(s, v, frames), UNCHANGED strayed PROVE Only(s)
  <2>1. PICK w, p : /\ session' = [session EXCEPT ![s] = w]
                    /\ inbox' = [inbox EXCEPT ![s] = @ \o p]
    BY <1>5 DEF Finish, Set, Send
  <2>2. early' = [early EXCEPT ![s].stored = FALSE] /\ client' = client
    BY <1>5 DEF Finish
  <2> QED BY <2>1, <2>2, <1>5
<1>6. CASE RunJob(s)
  BY <1>6 DEF RunJob, Set, Strays
<1>7. CASE Consider(s)
  BY <1>7 DEF Consider, Set, Send, Strays
<1>8. CASE Considered(s)
  <2>1. CASE Finish(s, session[s], <<>>) /\ UNCHANGED strayed
    BY <2>1, <1>5
  <2>2. CASE Set(s, Snapshot(session[s])) /\ Strays(s) /\ UNCHANGED <<early, inbox, client>>
    BY <2>2 DEF Set, Strays
  <2> QED BY <1>8, <2>1, <2>2 DEF Considered
<1>9. CASE PushResync(s)
  BY <1>5, <1>9 DEF PushResync
<1>10. ASSUME NEW v, NEW frames, EarlyDone(s, v, frames) PROVE Only(s)
  <2>1. PICK e, p : early' = [early EXCEPT ![s] = e] /\ inbox' = [inbox EXCEPT ![s] = @ \o p]
    BY <1>10 DEF EarlyDone, Send
  <2>2. UNCHANGED <<session, client, strayed>>
    BY <1>10 DEF EarlyDone
  <2> QED BY <2>1, <2>2
<1>11. CASE EarlyConsider(s)
  <2>1. CASE \E v, frames : EarlyDone(s, v, frames)
    BY <2>1, <1>10
  <2>2. CASE /\ early' = [early EXCEPT ![s].at = "snap", ![s].snapT = DumpT]
             /\ UNCHANGED <<session, inbox, client, strayed>>
    BY <2>2
  <2> QED BY <1>11, <2>1, <2>2 DEF EarlyConsider
<1>12. CASE EarlyDump(s)
  BY <1>10, <1>12 DEF EarlyDump
<1>13. CASE CloseSession(s)
  BY <1>13 DEF CloseSession, Set
<1>14. CASE Deliver(s)
  BY <1>14 DEF Deliver
<1> QED BY <1>1, <1>2, <1>3, <1>4, <1>6, <1>7, <1>8, <1>9, <1>11, <1>12, <1>13, <1>14
        DEF Session, Walk, EarlyWalk

\* A step of a session.
LEMMA SessionMoves ==
  ASSUME ReplicaInv, SessionsInv, Kept, NEW s \in Sessions, Session(s)
  PROVE  SessionsInv'
<1>0. PICK v, c, q, e : v = session[s] /\ c = client[s] /\ q = inbox[s] /\ e = early[s]
  OBVIOUS
<1> USE DEF Arrays
<1>1. Only(s) /\ BasisT \in Nat /\ BasisFacts /\ Arrays
  BY OnlyOne, BasisIs DEF SessionsInv, Kept, ReplicaInv
<1> SUFFICES ASSUME s \notin strayed'
             PROVE  /\ SessionOK(session'[s], client'[s], inbox'[s])
                    /\ EarlyOK(session'[s], early'[s])
  BY <1>1, OneMoves
<1>2. SessionOK(v, c, q) /\ EarlyOK(v, e)
  <2>1. s \notin strayed
    BY <1>1 DEF Only
  <2> QED BY <1>0, <2>1 DEF SessionsInv
<1>3. v \in Walks /\ c \in Clients /\ (q # <<>> => v.open)
      /\ (~ v.open => v = Closed) /\ (v.at # "idle" => v.queue # <<>>)
  BY <1>2 DEF SessionOK, Queued
<1>4. ~ Closed.open /\ Closed.at = "idle" /\ Closed.queue = <<>>
  BY DEF Closed, NewSession
<1>5. e \in Earlies /\ e.queue = <<>> /\ e.at = "idle" /\ ~ e.stored /\ (e.accepted => ~ v.open)
  BY <1>2 DEF EarlyOK, Earlies
<1>6. NotEarly \in Earlies /\ ~ NotEarly.accepted /\ ~ NotEarly.stored
  BY DEF NotEarly, Earlies
<1>7. ASSUME NEW w, NEW d, NEW p, session'[s] = w, client'[s] = d, inbox'[s] = p,
             SessionOK(w, d, p), w.open = v.open,
             early'[s] = e \/ early'[s] = [e EXCEPT !.stored = FALSE]
      PROVE  SessionOK(session'[s], client'[s], inbox'[s]) /\ EarlyOK(session'[s], early'[s])
  <2>1. early'[s] \in Earlies /\ ~ early'[s].stored /\ (early'[s].accepted => e.accepted)
    BY <1>5, <1>7 DEF Earlies
  <2> QED BY <1>5, <1>7, <2>1 DEF EarlyOK
<1>8. ASSUME NEW w, NEW d, NEW p, session'[s] = w, client'[s] = d, inbox'[s] = p,
             SessionOK(w, d, p),
             early'[s] = NotEarly \/ early'[s] = [e EXCEPT !.accepted = FALSE, !.stored = FALSE]
      PROVE  SessionOK(session'[s], client'[s], inbox'[s]) /\ EarlyOK(session'[s], early'[s])
  <2>1. early'[s] \in Earlies /\ ~ early'[s].stored /\ ~ early'[s].accepted
    BY <1>5, <1>6, <1>8 DEF Earlies
  <2> QED BY <1>8, <2>1 DEF EarlyOK
<1>9. CASE AcceptSocket(s)
  <2>1. ~ v.open
    BY <1>0, <1>9 DEF AcceptSocket, Attached
  <2>2. PICK d : d = [c EXCEPT !.opens = @ + 1]
    OBVIOUS
  <2>3. SessionOK(v, d, q)
    BY <1>2, <2>1, <2>2, Accepts
  <2>4. session'[s] = v /\ client'[s] = d /\ inbox'[s] = q
        /\ early'[s] = [NotEarly EXCEPT !.accepted = TRUE]
    BY <1>0, <1>1, <1>9, <2>2 DEF AcceptSocket
  <2>5. early'[s] \in Earlies /\ ~ early'[s].stored
    BY <1>6, <2>4 DEF Earlies
  <2> QED BY <2>1, <2>3, <2>4, <2>5 DEF EarlyOK
<1>10. CASE OpenSession(s)
  <2>1. ~ v.open
    BY <1>0, <1>5, <1>10 DEF OpenSession
  <2>2. SessionOK(NewSession, c, q)
    BY <1>1, <1>2, <2>1, Opens
  <2>3. session'[s] = NewSession /\ client'[s] = c /\ inbox'[s] = q
    BY <1>0, <1>1, <1>10 DEF OpenSession, Set
  <2>4. early'[s] = [e EXCEPT !.accepted = FALSE, !.stored = FALSE]
    BY <1>0, <1>1, <1>10 DEF OpenSession
  <2> QED BY <1>8, <2>2, <2>3, <2>4
<1>11. CASE AskSync(s)
  <2>1. PICK d : d = [c EXCEPT !.asked = "sent", !.from = c.confirmedT]
    OBVIOUS
  <2>2. SessionOK(v, d, q)
    BY <1>0, <1>2, <1>11, <2>1, Asks DEF AskSync
  <2>3. client'[s] = d /\ session'[s] = v /\ inbox'[s] = q /\ early'[s] = e
    BY <1>0, <1>1, <1>11, <2>1 DEF AskSync
  <2> QED BY <1>7, <2>2, <2>3
<1>12. CASE TakeSync(s)
  <2>1. PICK job : job = SyncJob
    OBVIOUS
  <2>2. job \in Jobs /\ JobIsOf(job) /\ job.by = -1 /\ job.t = BasisT
    <3>1. Max0({root}) \in Nat /\ entries \in Seq(Nat) /\ Base \in Nat
      BY BaseIs DEF ReplicaInv, CopyInv
    <3>2. Range(entries) = Base + 1 .. BasisT /\ BasisT \in 0..BasisT /\ Base + 1 \in Nat
      BY <1>1, <3>1 DEF BasisFacts
    <3> QED BY <1>1, <2>1, <3>1, <3>2 DEF SyncJob, Jobs, JobIsOf
  <2>3. PICK w, d : /\ w = [v EXCEPT !.watermark = c.from, !.queue = Append(@, job)]
                    /\ d = [c EXCEPT !.asked = "taken"]
    OBVIOUS
  <2>4. SessionOK(w, d, q) /\ w.open = v.open
    <3>1. SessionOK(w, d, q)
      BY <1>0, <1>1, <1>2, <1>12, <2>2, <2>3, Taken DEF TakeSync
    <3>2. w.open = v.open
      BY <1>3, <2>3 DEF Walks
    <3> QED BY <3>1, <3>2
  <2>5. session'[s] = w
    BY <1>0, <1>1, <1>12, <2>1, <2>3 DEF TakeSync, Set
  <2>6. client'[s] = d
    BY <1>0, <1>1, <1>12, <2>3 DEF TakeSync
  <2>7. inbox'[s] = q /\ early'[s] = e
    BY <1>0, <1>12 DEF TakeSync
  <2> QED BY <1>7, <2>4, <2>5, <2>6, <2>7
<1>13. ASSUME v.open, v.queue # <<>>, Set(s, Snapshot(v)), Strays(s),
              UNCHANGED <<early, inbox, client>>
       PROVE  SessionOK(session'[s], client'[s], inbox'[s]) /\ EarlyOK(session'[s], early'[s])
  <2>1. PICK w : w = Snapshot(v)
    OBVIOUS
  <2>2. root # NoRoot
    BY <1>13 DEF Strays
  <2>3. SessionOK(w, c, q)
    BY <1>1, <1>2, <1>13, <2>1, <2>2, Snaps
  <2>4. w.open = v.open
    BY <1>3, <2>1 DEF Snapshot, Walks
  <2>5. session'[s] = w
    BY <1>1, <1>13, <2>1 DEF Set
  <2>6. client'[s] = c /\ inbox'[s] = q /\ early'[s] = e
    BY <1>0, <1>13
  <2> QED BY <1>7, <2>3, <2>4, <2>5, <2>6
<1>14. CASE RunJob(s)
  <2>1. v.at = "idle" /\ v.queue # <<>> /\ v.open /\ UNCHANGED <<early, inbox, client>>
    BY <1>0, <1>3, <1>4, <1>14 DEF RunJob
  <2>2. CASE Set(s, Snapshot(v)) /\ Strays(s)
    BY <1>13, <2>1, <2>2
  <2>3. CASE ~ (Set(s, Snapshot(v)) /\ Strays(s))
    <3>1. PICK w : w = [v EXCEPT !.at = "walk", !.cursor = v.watermark,
                                 !.rest = Above(Head(v.queue).entries, v.watermark)]
      OBVIOUS
    <3>2. session'[s] = w
      BY <1>0, <1>1, <1>14, <2>3, <3>1 DEF RunJob, Set, Job
    <3>3. SessionOK(w, c, q)
      BY <1>1, <1>2, <2>1, <3>1, Runs
    <3>4. w.open = v.open
      <4>1. PICK rest : rest = Above(Head(v.queue).entries, v.watermark)
        OBVIOUS
      <4>2. w = [v EXCEPT !.at = "walk", !.cursor = v.watermark, !.rest = rest]
        BY <3>1, <4>1
      <4> QED BY ONLY <4>2, <1>3 DEF Walks
    <3>5. client'[s] = c /\ inbox'[s] = q /\ early'[s] = e
      BY <1>0, <2>1
    <3> QED BY <1>7, <3>2, <3>3, <3>4, <3>5
  <2> QED BY <2>2, <2>3
<1>15. CASE Consider(s)
  <2>1. /\ v.at = "walk" /\ v.rest # <<>> /\ v.open /\ v.queue # <<>>
        /\ UNCHANGED <<early, client>> /\ Strays(s)
    BY <1>0, <1>3, <1>4, <1>15 DEF Consider
  <2>2. root # NoRoot
    BY <2>1 DEF Strays
  <2>3. v.who = "caller"
    BY <1>3 DEF Walks
  <2>4. Sieve(v.who, Head(v.rest)) = Decide(Head(v.rest))
    BY <2>2, <2>3 DEF Sieve
  <2>5. CASE Set(s, Snapshot(v)) /\ UNCHANGED inbox
    BY <1>13, <2>1, <2>5
  <2>6. Passed(v).open = v.open
    <3>1. PICK k, rest : k = Head(v.rest) /\ rest = Tail(v.rest)
      OBVIOUS
    <3>2. Passed(v) = [v EXCEPT !.cursor = k, !.watermark = k, !.rest = rest]
      BY <3>1 DEF Passed
    <3> QED BY ONLY <3>2, <1>3 DEF Walks
  <2>7. CASE /\ Head(v.rest) = v.cursor + 1 /\ Decide(Head(v.rest)) = "tx"
             /\ Set(s, Passed(v)) /\ Send(s, <<TxPush(Head(v.rest))>>)
    <3>1. PICK w, p : w = Passed(v) /\ p = q \o <<TxPush(Head(v.rest))>>
      OBVIOUS
    <3>2. SessionOK(w, c, p)
      BY <1>1, <1>2, <2>1, <2>2, <2>7, <3>1, PushKeeps
    <3>3. session'[s] = w
      BY <1>1, <2>7, <3>1 DEF Set
    <3>4. inbox'[s] = p
      BY <1>0, <1>1, <2>7, <3>1 DEF Send
    <3>5. client'[s] = c /\ early'[s] = e
      BY <1>0, <2>1
    <3> QED BY <1>7, <2>6, <3>1, <3>2, <3>3, <3>4, <3>5
  <2>8. CASE /\ Head(v.rest) = v.cursor + 1 /\ Decide(Head(v.rest)) = "skip"
             /\ Set(s, Passed(v)) /\ UNCHANGED inbox
    <3>1. PICK w : w = Passed(v)
      OBVIOUS
    <3>2. SessionOK(w, c, q)
      BY <1>1, <1>2, <2>1, <2>2, <2>8, <3>1, SkipKeeps
    <3>3. session'[s] = w
      BY <1>1, <2>8, <3>1 DEF Set
    <3>4. client'[s] = c /\ early'[s] = e /\ inbox'[s] = q
      BY <1>0, <2>1, <2>8
    <3> QED BY <1>7, <2>6, <3>1, <3>2, <3>3, <3>4
  <2> QED BY <1>0, <1>15, <2>1, <2>4, <2>5, <2>7, <2>8 DEF Consider, Passed
<1>16. ASSUME NEW x \in Walks, x.open = v.open, NEW frames, Finish(s, x, frames)
       PROVE  /\ session'[s] = Ended(x) /\ client'[s] = c
              /\ early'[s] = [e EXCEPT !.stored = FALSE]
              /\ inbox'[s] = q \o (frames \o (IF Job(s).by = -1 THEN <<Reply(x.watermark)>>
                                                                     ELSE <<>>))
              /\ Ended(x).open = v.open
  <2>1. session'[s] = Ended(x)
    BY <1>1, <1>16 DEF Finish, Set, Ended
  <2>2. client'[s] = c
    BY <1>0, <1>16 DEF Finish
  <2>3. early'[s] = [e EXCEPT !.stored = FALSE]
    BY <1>0, <1>1, <1>16 DEF Finish
  <2>4. PICK p : /\ p = frames \o (IF Job(s).by = -1 THEN <<Reply(x.watermark)>> ELSE <<>>)
                 /\ inbox' = [inbox EXCEPT ![s] = @ \o p]
    BY <1>16 DEF Finish, Send
  <2>5. inbox'[s] = q \o p
    BY <1>0, <1>1, <2>4
  <2>6. Ended(x).open = x.open
    <3>1. PICK more : more = Tail(x.queue)
      OBVIOUS
    <3>2. Ended(x) = [x EXCEPT !.at = "idle", !.cursor = 0, !.rest = <<>>, !.snapT = 0,
                               !.queue = more]
      BY <3>1 DEF Ended
    <3> QED BY ONLY <3>2, x \in Walks DEF Walks
  <2> QED BY <1>16, <2>1, <2>2, <2>3, <2>4, <2>5, <2>6
<1>17. CASE Considered(s)
  <2>1. v.at = "walk" /\ v.open /\ v.queue # <<>>
    BY <1>0, <1>3, <1>4, <1>17 DEF Considered
  <2>2. CASE v.cursor >= Head(v.queue).t
    <3>1. Finish(s, v, <<>>)
      BY <1>0, <1>17, <2>2 DEF Considered, Job
    <3>2. PICK w, p : w = Ended(v) /\ p = q \o Answer(v)
      OBVIOUS
    <3>3. SessionOK(w, c, p)
      BY <1>1, <1>2, <2>1, <2>2, <3>2, WalkEnds
    <3>4. session'[s] = w /\ client'[s] = c /\ w.open = v.open
          /\ early'[s] = [e EXCEPT !.stored = FALSE]
      BY <1>3, <1>16, <3>1, <3>2
    <3>5. inbox'[s] = q \o (<<>> \o Answer(v))
      <4>1. Answer(v) = IF Job(s).by = -1 THEN <<Reply(v.watermark)>> ELSE <<>>
        BY <1>0 DEF Answer, Job
      <4> QED BY <1>3, <1>16, <3>1, <4>1
    <3>6. <<>> \o Answer(v) = Answer(v)
      <4>1. CASE Head(v.queue).by = -1
        BY <4>1 DEF Answer
      <4>2. CASE Head(v.queue).by # -1
        BY <4>2 DEF Answer
      <4> QED BY <4>1, <4>2
    <3>7. inbox'[s] = p
      BY ONLY <3>2, <3>5, <3>6
    <3> QED BY <1>7, <3>3, <3>4, <3>7
  <2>3. CASE ~ v.cursor >= Head(v.queue).t
    <3>1. Set(s, Snapshot(v)) /\ Strays(s) /\ UNCHANGED <<early, inbox, client>>
      BY <1>0, <1>17, <2>3 DEF Considered, Job
    <3> QED BY <1>13, <2>1, <3>1
  <2> QED BY <2>2, <2>3
<1>18. CASE PushResync(s)
  <2>1. v.at = "snap" /\ v.open /\ v.queue # <<>> /\ v.who = "caller"
    BY <1>0, <1>3, <1>4, <1>18 DEF PushResync, Walks
  <2>2. PICK x, f : x = [v EXCEPT !.watermark = v.snapT] /\ f = Resync("caller", v.snapT)
    OBVIOUS
  <2>3. Finish(s, x, <<f>>)
    BY <1>0, <1>18, <2>1, <2>2 DEF PushResync
  <2>4. PICK w, p : w = Ended(x) /\ p = q \o (<<f>> \o Answer(x))
    OBVIOUS
  <2>5. SessionOK(w, c, p)
    BY <1>1, <1>2, <2>1, <2>2, <2>4, DumpEnds
  <2>6. x \in Walks /\ x.open = v.open /\ x.queue = v.queue
    BY <1>3, <2>2 DEF Walks
  <2>7. session'[s] = w /\ client'[s] = c /\ w.open = v.open
        /\ early'[s] = [e EXCEPT !.stored = FALSE]
    BY <1>16, <2>3, <2>4, <2>6
  <2>8. inbox'[s] = p
    <3>1. Answer(x) = IF Job(s).by = -1 THEN <<Reply(x.watermark)>> ELSE <<>>
      BY <1>0, <2>6 DEF Job, Answer
    <3> QED BY <1>16, <2>3, <2>4, <2>6, <3>1
  <2> QED BY <1>7, <2>5, <2>7, <2>8
<1>19. CASE EarlyWalk(s)
  <2>1. FALSE
    BY <1>0, <1>5, <1>19 DEF EarlyWalk, EarlyConsider, EarlyDump
  <2> QED BY <2>1
<1>20. CASE CloseSession(s)
  <2>1. PICK w, d, p : w = Closed /\ d = [c EXCEPT !.asked = "no"] /\ p = <<>>
    OBVIOUS
  <2>2. SessionOK(w, d, p)
    BY <1>2, <2>1, Closes
  <2>3. session'[s] = w /\ client'[s] = d /\ inbox'[s] = p /\ early'[s] = NotEarly
    BY <1>0, <1>1, <1>20, <2>1 DEF CloseSession, Set
  <2> QED BY <1>8, <2>2, <2>3
<1>21. CASE Deliver(s)
  <2>1. PICK d, p : d = Applied(c, Head(q)) /\ p = Tail(q)
    OBVIOUS
  <2>2. SessionOK(v, d, p)
    BY <1>0, <1>2, <1>21, <2>1, Delivered DEF Deliver
  <2>3. client'[s] = d /\ inbox'[s] = p
    BY <1>0, <1>1, <1>21, <2>1 DEF Deliver
  <2>4. session'[s] = v /\ early'[s] = e
    BY <1>0, <1>21 DEF Deliver
  <2> QED BY <1>7, <2>2, <2>3, <2>4
<1> QED BY <1>9, <1>10, <1>11, <1>12, <1>14, <1>15, <1>17, <1>18, <1>19, <1>20, <1>21
        DEF Session, Walk

\* notifySessions: a session is handed one more entry.
LEMMA NotifyMoves ==
  ASSUME ReplicaInv, SessionsInv, WalkInv, Kept, NEW h \in Handlers, Notify(h)
  PROVE  SessionsInv'
<1>1. PICK k \in Handling : k = handler[h]
  BY DEF ReplicaInv, HandlersInv
<1>2. k.wait \subseteq Sessions /\ k.walk \in Nat /\ k.walk <= BasisT /\ BasisT \in Nat
  BY <1>1 DEF Handling, WalkInv, Kept
<1>3. UNCHANGED <<inbox, client>>
  BY DEF Notify
<1>4. CASE UNCHANGED <<session, early, strayed>>
  BY <1>3, <1>4, AllStay DEF sessions
<1>5. CASE k.wait # {}
  <2>1. PICK job : job = [t |-> k.walk, rootT |-> Max0({root}), entries |-> <<k.walk>>, by |-> h]
    OBVIOUS
  <2>2. PICK s \in k.wait :
          \/ /\ session[s].open /\ session' = [session EXCEPT ![s].queue = Append(@, job)]
             /\ UNCHANGED <<early, strayed>>
          \/ /\ early' = [early EXCEPT ![s].queue = Append(@, job)]
             /\ strayed' = strayed \cup {s} /\ UNCHANGED session
    BY <1>1, <1>5, <2>1 DEF Notify
  <2>3. PICK v, c, q, e : v = session[s] /\ c = client[s] /\ q = inbox[s] /\ e = early[s]
    OBVIOUS
  <2>4. s \in Sessions /\ Arrays
    BY <1>2 DEF SessionsInv
  <2>5. Only(s)
    BY <1>3, <2>2, <2>4 DEF Only, Arrays
  <2>6. ASSUME s \notin strayed'
        PROVE  SessionOK(session'[s], client'[s], inbox'[s]) /\ EarlyOK(session'[s], early'[s])
    <3>1. /\ SessionOK(v, c, q) /\ EarlyOK(v, e) /\ v.open /\ UNCHANGED early
          /\ session' = [session EXCEPT ![s].queue = Append(@, job)]
      BY <2>2, <2>3, <2>4, <2>6 DEF SessionsInv
    <3>2. job \in Jobs /\ JobIsOf(job) /\ job.by # -1
      <4>1. h \in Nat
        BY ReplicaAssumption DEF Handlers
      <4>2. Max0({root}) \in Nat
        BY BaseIs DEF ReplicaInv
      <4>3. job.t = k.walk /\ job.rootT = Max0({root}) /\ job.entries = <<k.walk>> /\ job.by = h
        BY <2>1
      <4>4. <<k.walk>> \in Seq(Nat) /\ Range(<<k.walk>>) = k.walk..k.walk /\ k.walk \in 0..BasisT
        BY <1>2 DEF Range
      <4>5. job \in Jobs
        BY <1>2, <2>1, <4>1, <4>2, <4>4 DEF Jobs
      <4>6. job.by # -1
        BY <4>1, <4>3
      <4>7. JobIsOf(job)
        <5>1. PICK a \in Nat, b \in 0..BasisT : a = k.walk /\ b = k.walk
          BY <1>2, <4>4
        <5>2. Range(job.entries) = a..b
          BY <4>3, <4>4, <5>1
        <5> QED BY <1>2, <4>3, <5>2 DEF JobIsOf
      <4> QED BY <4>5, <4>6, <4>7
    <3>3. PICK w : w = [v EXCEPT !.queue = Append(@, job)]
      OBVIOUS
    <3>4. SessionOK(w, c, q)
      BY <1>2, <3>1, <3>2, <3>3, Enqueues
    <3>5. session'[s] = w
      BY <2>3, <2>4, <3>1, <3>3 DEF Arrays
    <3>6. w.open = v.open
      <4>1. PICK more : more = Append(v.queue, job)
        OBVIOUS
      <4>2. w = [v EXCEPT !.queue = more] /\ v \in Walks
        BY <3>1, <3>3, <4>1 DEF SessionOK
      <4> QED BY ONLY <4>2 DEF Walks
    <3>7. client'[s] = c /\ inbox'[s] = q /\ early'[s] = e
      BY <1>3, <2>3, <3>1
    <3>8. EarlyOK(w, e)
      BY <3>1, <3>6 DEF EarlyOK
    <3> QED BY <3>4, <3>5, <3>7, <3>8
  <2> QED BY <2>4, <2>5, <2>6, OneMoves
<1>6. CASE k.wait = {}
  <2>1. UNCHANGED <<session, early, strayed>>
    BY <1>1, <1>6 DEF Notify
  <2> QED BY <2>1, <1>4
<1> QED BY <1>5, <1>6

\* A restart from hibernation restores every session from its attachment.
LEMMA HibernateRestores ==
  ASSUME SessionsInv, Kept, Hibernate
  PROVE  SessionsInv'
<1>1. /\ session' = [s \in Sessions |-> Restored(s)] /\ early' = [s \in Sessions |-> NotEarly]
      /\ UNCHANGED <<inbox, client, strayed>>
  BY DEF Hibernate
<1>2. ASSUME NEW s \in Sessions \ strayed'
      PROVE  SessionOK(session[s], client[s], inbox[s])' /\ EarlyOK(session[s], early[s])'
  <2>1. s \in Sessions \ strayed /\ session'[s] = Restored(s) /\ early'[s] = NotEarly
    BY <1>1
  <2>2. ~ early[s].stored
    BY <2>1 DEF SessionsInv, EarlyOK
  <2>3. session'[s] = session[s]
    BY <2>1, <2>2 DEF Restored
  <2>4. EarlyOK(session'[s], early'[s])
    BY <2>1 DEF EarlyOK, Earlies, NotEarly
  <2> QED BY <1>1, <2>1, <2>3, <2>4, OneStays
<1>3. Arrays'
  BY <1>1 DEF SessionsInv, Arrays
<1> QED BY <1>2, <1>3 DEF SessionsInv

\* A crash takes every session with it, and what a replica held that had no root.
LEMMA CrashCloses ==
  ASSUME SessionsInv, Crash, Kept \/ (Forgotten /\ BasisT \in Nat)
  PROVE  SessionsInv'
<1>1. /\ session' = [s \in Sessions |-> Closed] /\ inbox' = [s \in Sessions |-> <<>>]
      /\ client' = [s \in Sessions |-> [client[s] EXCEPT !.asked = "no"]]
      /\ early' = [s \in Sessions |-> NotEarly] /\ strayed' = strayed
  BY DEF Crash, LostSockets
<1>2. ASSUME NEW s \in Sessions \ strayed'
      PROVE  SessionOK(session[s], client[s], inbox[s])' /\ EarlyOK(session[s], early[s])'
  <2>1. PICK v, c, q : v = session[s] /\ c = client[s] /\ q = inbox[s]
    OBVIOUS
  <2>2. SessionOK(v, c, q)
    BY <1>1, <2>1 DEF SessionsInv
  <2>3. PICK w, d, p : w = Closed /\ d = [c EXCEPT !.asked = "no"] /\ p = <<>>
    OBVIOUS
  <2>4. SessionOK(w, d, p)
    BY <2>2, <2>3, Closes
  <2>5. SessionOK(w, d, p)'
    <3>1. CASE Kept
      BY <2>4, <3>1, SessionStays
    <3>2. CASE Forgotten /\ BasisT \in Nat
      <4>1. root = NoRoot /\ root' = NoRoot /\ BasisT' = 0
        BY <3>2 DEF Forgotten
      <4>2. PICK st : Leads(d, <<>>, st)
        BY <2>3, <2>4 DEF SessionOK
      <4>3. /\ d \in Clients /\ d.confirmedT = 0 /\ d.painted = {} /\ d.asked = "no"
        <5>1. Blank(w, d, p) /\ d \in Clients
          BY <2>4, <4>1 DEF SessionOK
        <5>2. c \in Clients
          BY <2>2 DEF SessionOK
        <5> QED BY <5>1, <5>2, <2>3 DEF Blank, Clients
      <4>4. d.facts = {}
        <5>1. Coherent(ShownOf(d))
          <6>1. PICK k \in Seq(Pushes) : k = <<>>
            BY <2>3, <2>4 DEF SessionOK
          <6> QED BY <4>2, <6>1, EndIs
        <5>2. View(0) = {}
          BY DEF View
        <5> QED BY <5>1, <5>2, <4>3 DEF Coherent, ShownOf
      <4>5. Coherent(ShownOf(d))'
        <5>1. View(0)' = {}
          BY DEF View
        <5>2. ShownOf(d) = [facts |-> {}, painted |-> {}, confirmedT |-> 0]
          BY <4>3, <4>4 DEF ShownOf
        <5> QED BY <5>1, <5>2, <4>1 DEF Coherent
      <4>6. Leads(d, <<>>, st)'
        <5>1. Len(<<>>) = 0
          OBVIOUS
        <5>2. st \in [0..0 -> Shown] /\ st[0] = ShownOf(d)
          BY <4>2, <5>1 DEF Leads
        <5>3. st[0].confirmedT <= st[0].confirmedT
          BY <5>2 DEF Shown
        <5> QED BY <4>5, <5>1, <5>2, <5>3 DEF Leads
      <4>7. w \in Walks /\ ~ w.open /\ w.queue = <<>> /\ w.rest = <<>> /\ w.at = "idle"
        BY <2>3, <2>4 DEF SessionOK, Closed, NewSession
      <4>8. Queued(w)' /\ Owed(w, d.asked, p)' /\ Blank(w, d, p)'
        BY <2>3, <2>4, <4>1, <4>7 DEF Queued, Owed, Blank, SessionOK
      <4> QED BY <2>3, <4>3, <4>6, <4>7, <4>8 DEF SessionOK
    <3> QED BY <3>1, <3>2
  <2>6. w = session'[s] /\ d = client'[s] /\ p = inbox'[s] /\ early'[s] = NotEarly
    BY <1>1, <2>1, <2>3
  <2>7. EarlyOK(session[s], early[s])'
    BY <2>6 DEF EarlyOK, Earlies, NotEarly
  <2> QED BY <2>5, <2>6, <2>7
<1>3. Arrays'
  BY <1>1 DEF Arrays
<1> QED BY <1>2, <1>3 DEF SessionsInv

\* Every step.
LEMMA SessionsStep ==
  ReplicaInv /\ ReplicaInv' /\ WalkInv /\ SessionsInv /\ [Next]_vars => WalkInv' /\ SessionsInv'
<1> SUFFICES ASSUME ReplicaInv, ReplicaInv', WalkInv, SessionsInv, [Next]_vars
             PROVE  WalkInv' /\ SessionsInv'
  OBVIOUS
<1>1. Follows /\ BasisT \in Nat /\ BasisT' \in Nat
  BY ReplicaStep, BasisIs, BasisIsNext DEF ReplicaInv, BasisFacts
<1>2. CASE Crash /\ Forgotten
  <2>1. handler' = [x \in Handlers |-> Idle]
    BY <1>2 DEF Crash, Boot
  <2>2. WalkInv'
    BY <1>1, <2>1, IdleIs DEF WalkInv
  <2> QED BY <1>1, <1>2, <2>2, CrashCloses
<1>3. CASE CopyGrows
  <2>1. Kept
    BY <1>1, <1>3, PastIsKept
  <2>2. WalkInv'
    <3>1. Grows
      BY <2>1 DEF Grows, Kept, ReplicaInv
    <3> QED BY <3>1, WalkStep
  <2>3. ASSUME UNCHANGED sessions PROVE SessionsInv'
    BY <2>1, <2>3, AllStay
  <2>4. ASSUME Writer \/ Connecting \/ UpstreamDrops \/ UNCHANGED vars PROVE SessionsInv'
    <3>1. UNCHANGED sessions
      BY <2>4 DEF Writer, Assign, Commit, WriterDies, PutChunk, PublishRoot, IndexerAdopts, replica,
         Connecting, SyncStart, Connect, ConnectFails, SyncDone, UpstreamDrops, vars
    <3> QED BY <3>1, <2>3
  <2>5. ASSUME Hibernate PROVE SessionsInv'
    BY <2>1, <2>5, HibernateRestores
  <2>6. ASSUME Crash PROVE SessionsInv'
    BY <2>1, <2>6, CrashCloses
  <2>7. ASSUME NEW h \in Handlers, Handle(h) \/ ReadFails(h) PROVE SessionsInv'
    <3>1. CASE Notify(h)
      BY <2>1, <3>1, NotifyMoves
    <3>2. CASE ~ Notify(h)
      <4>1. UNCHANGED sessions
        BY <2>7, <3>2 DEF Handle, HandleRoot, HandleGap, HandleTx, ReadWriterLog, ReadBucket,
           ApplyRead, ApplyFrame, ReadFails
      <4> QED BY <4>1, <2>3
    <3> QED BY <3>1, <3>2
  <2>8. ASSUME NEW s \in Sessions, Session(s) PROVE SessionsInv'
    BY <2>1, <2>8, SessionMoves
  <2>9. SessionsInv'
    BY <2>4, <2>5, <2>6, <2>7, <2>8 DEF Next
  <2> QED BY <2>2, <2>9
<1> QED BY <1>1, <1>2, <1>3 DEF Follows

\* No session is open at first, and no client has anything.
LEMMA SessionsStart == Init => WalkInv /\ SessionsInv
<1> SUFFICES ASSUME Init PROVE WalkInv /\ SessionsInv
  OBVIOUS
<1>1. BasisT = 0
  <2>1. Max0({NoRoot}) = 0
    BY MaxOfOne DEF NoRoot
  <2> QED BY <2>1 DEF Init, BasisT
<1>2. WalkInv
  BY <1>1, IdleIs DEF Init, WalkInv
<1>3. NewClient \in Clients /\ NewClient.asked = "no" /\ NewClient.facts = {}
      /\ NewClient.painted = {} /\ NewClient.confirmedT = 0
  BY DEF NewClient, Clients
<1>4. Closed \in Walks /\ ~ Closed.open /\ Closed.queue = <<>> /\ Closed.rest = <<>>
      /\ Closed.at = "idle"
  <2>1. NewSession \in Walks /\ NewSession.queue = <<>> /\ NewSession.rest = <<>>
        /\ NewSession.at = "idle"
    BY DEF NewSession, Walks
  <2> QED BY <2>1 DEF Closed, Walks
<1>5. Coherent(ShownOf(NewClient))
  <2>1. View(0) = {}
    BY DEF View
  <2> QED BY <1>1, <1>3, <2>1 DEF Coherent, ShownOf
<1>6. PICK st : Leads(NewClient, <<>>, st)
  BY <1>3, <1>5, NothingComes
<1>7. Queued(Closed) /\ Owed(Closed, NewClient.asked, <<>>)
  BY <1>4 DEF Queued, Owed
<1>8. SessionOK(Closed, NewClient, <<>>)
  <2>1. Blank(Closed, NewClient, <<>>)
    BY <1>3 DEF Blank, Closed, NewSession
  <2> QED BY <2>1, <1>3, <1>4, <1>6, <1>7 DEF SessionOK
<1>9. EarlyOK(Closed, NotEarly)
  BY DEF EarlyOK, Earlies, NotEarly
<1>10. Arrays
  BY DEF Init, Arrays
<1> QED BY <1>2, <1>8, <1>9, <1>10 DEF Init, SessionsInv

\* What a client shows once it has been told all that its session walked.
LEMMA ToldShows == SessionsInv /\ BasisT \in Nat => ShowsView
<1> SUFFICES ASSUME SessionsInv, BasisT \in Nat, NEW s \in Sessions \ strayed, Synced(s)
             PROVE  /\ client[s].facts = View(session[s].watermark)
                    /\ client[s].confirmedT <= session[s].watermark
  BY DEF ShowsView
<1>1. PICK v, c, q : v = session[s] /\ c = client[s] /\ q = inbox[s]
  OBVIOUS
<1>2. SessionOK(v, c, q) /\ v.open /\ c.asked = "done" /\ v.queue = <<>> /\ q = <<>>
      /\ v.at = "idle"
  BY <1>1 DEF SessionsInv, Synced, SessionIdle
<1>3. PICK st : Leads(c, q, st) /\ EndOf(v, c.asked, st[Len(q)])
  BY <1>2 DEF SessionOK
<1>4. PICK z \in Shown : z = ShownOf(c) /\ Coherent(z) /\ EndOf(v, c.asked, z)
  <2>1. Len(q) = 0 /\ q \in Seq(Pushes)
    BY <1>2 DEF SessionOK
  <2>2. st[0] = ShownOf(c)
    BY <1>3 DEF Leads
  <2> QED BY <1>3, <2>1, <2>2, EndIs
<1>5. UpTo(z, v.watermark)
  <2>1. ~ WalkComes(v, z)
    BY <1>2 DEF WalkComes
  <2> QED BY <1>2, <1>4, <2>1 DEF EndOf, Told, AllWalked
<1>6. PICK n \in 0..BasisT : n = v.watermark
  <2>1. v.watermark \in Nat /\ v.watermark <= BasisT
    BY <1>2, <1>4 DEF SessionOK, Walks, EndOf, Walked
  <2> QED BY <2>1
<1>7. \A u \in 1..BasisT :
        u > z.confirmedT /\ u <= n =>
          Access(u) = Access(z.confirmedT) /\ (Readable(u, u) => u \in z.painted)
  BY <1>4, <1>6 DEF EndOf, Walked
<1>8. LET y == After(z, Reply(n))
      IN  /\ y \in Shown /\ Coherent(y) /\ y.painted = z.painted
          /\ y.confirmedT = IF z.confirmedT >= n THEN z.confirmedT ELSE n
  BY <1>4, <1>7, ReplyKeeps
<1>9. PICK y : y = After(z, Reply(n)) /\ Coherent(y) /\ y.painted = z.painted /\ y.confirmedT = n
  <2>1. z.confirmedT <= n /\ z.confirmedT \in Nat
    BY <1>5, <1>6 DEF UpTo, Shown
  <2> QED BY <1>8, <2>1
<1>10. y.facts = z.facts
  BY <1>9 DEF After, Reply
<1>11. {t \in y.painted : t > n} = {}
  <2>1. \A t \in y.painted : t <= n /\ t \in Nat
    BY <1>4, <1>5, <1>6, <1>9 DEF UpTo, Shown
  <2> QED BY <2>1
<1>12. y.facts = View(n)
  BY <1>9, <1>11 DEF Coherent
<1>13. z.facts = c.facts /\ z.confirmedT = c.confirmedT
  BY <1>4 DEF ShownOf
<1> QED BY <1>1, <1>5, <1>6, <1>10, <1>12, <1>13 DEF UpTo

\* Over any number of sockets, lost frames and restarts, a client that has been told all
\* its session walked shows what its caller may read at the session's cursor, unless a
\* walk found its socket without a session, or a replica with no root told it of entries.
THEOREM SessionsShowViews == Spec => []ShowsView
<1>1. ReplicaInv => BasisT \in Nat
  BY BasisIs DEF ReplicaInv, BasisFacts
<1>2. Spec => [](WalkInv /\ SessionsInv)
  <2>1. ReplicaInv /\ ReplicaInv' /\ WalkInv /\ SessionsInv /\ [Next]_vars => (WalkInv /\ SessionsInv)'
    BY SessionsStep
  <2> QED BY <2>1, SessionsStart, ReplicaInvariance, PTL DEF Spec
<1> QED BY <1>1, <1>2, ToldShows, ReplicaInvariance, PTL
=============================================================================
