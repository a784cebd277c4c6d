----------------------------- MODULE ViewsProofs -----------------------------
(***************************************************************************)
(* What the two collapses of Views compute, for histories, cuts into       *)
(* chunks and asOf of any size.                                            *)
(*                                                                         *)
(* n is how much of the history q has been read.  What holds between two   *)
(* chunks is one of three things: nothing is kept back and all that was    *)
(* read is over (AtRest); the newest visible datom is kept back (Pends); a *)
(* chunk of datoms that all count is kept back (Holds).                    *)
(*                                                                         *)
(* In the second part, that the histories readers are given are such: the  *)
(* sorted union of a scan and the novelty, whatever the chunks of both.    *)
(***************************************************************************)
EXTENDS Views, SequenceTheorems, WellFoundedInduction, TLAPS

\* What holds of the first n datoms of q as of a t: those that are the last visible
\* of their fact, and assert it.
Visible(q, i, asOf) == q[i].t <= asOf
Live(q, n, asOf) ==
  {i \in 1..n : /\ q[i].op /\ Visible(q, i, asOf)
                /\ \A j \in (i + 1)..n : Visible(q, j, asOf) => ~SameFact(q[i], q[j])}
\* Every index orders the datoms of a fact beside one another.
Grouped(q) ==
  \A i, j, k \in 1..Len(q) : i < j /\ j < k /\ SameFact(q[i], q[k]) => SameFact(q[i], q[j])
History(D, q) == /\ \A d \in D : d.t \in Int /\ d.op \in BOOLEAN
                 /\ q \in Seq(D) /\ Grouped(q)

\* out is the elements of q at the places in L, in order: f tells which is which.
Enumerates(f, n, L) ==
  /\ f \in [1..n -> L]
  /\ \A i, j \in 1..n : i < j => f[i] < f[j]
  /\ \A x \in L : \E i \in 1..n : f[i] = x
Ordering(out, q, L, f) ==
  /\ Enumerates(f, Len(out), L)
  /\ \A i \in 1..Len(out) : out[i] = q[f[i]]
Picks(out, q, L) == \E f : Ordering(out, q, L, f)

\* Nothing is picked by nothing.
LEMMA PicksNone ==
  ASSUME NEW q PROVE Picks(<<>>, q, {})
<1>1. Ordering(<<>>, q, {}, [i \in 1..0 |-> 0])
  BY DEF Ordering, Enumerates
<1> QED BY <1>1 DEF Picks

\* A stretch of a sequence, element by element.
LEMMA Run ==
  ASSUME NEW D, NEW q \in Seq(D), NEW a \in 1..(Len(q) + 1), NEW b \in 0..Len(q), a <= b + 1
  PROVE  /\ SubSeq(q, a, b) \in Seq(D) /\ Len(SubSeq(q, a, b)) = b - a + 1
         /\ \A i \in 1..(b - a + 1) : SubSeq(q, a, b)[i] = q[a + i - 1]
         /\ a = b => SubSeq(q, a, b) = <<q[a]>>
<1>1. /\ SubSeq(q, a, b) \in Seq(D) /\ Len(SubSeq(q, a, b)) = b - a + 1
      /\ \A i \in 1..(b - a + 1) : SubSeq(q, a, b)[i] = q[a + i - 1]
  BY SubSeqProperties
<1>2. ASSUME a = b PROVE SubSeq(q, a, b) = <<q[a]>>
  <2>1. Len(SubSeq(q, a, b)) = 1 /\ SubSeq(q, a, b)[1] = q[a]
    BY <1>1, <1>2
  <2>2. <<q[a]>> \in Seq(D) /\ Len(<<q[a]>>) = 1 /\ <<q[a]>>[1] = q[a]
    BY <1>2
  <2>3. \A i \in 1..1 : SubSeq(q, a, b)[i] = <<q[a]>>[i]
    BY <2>1, <2>2
  <2> QED BY ONLY <2>1, <2>2, <2>3, <1>1, SeqEqual
<1> QED BY <1>1, <1>2

\* Appending the whole stretch a..b to what comes before it.
LEMMA PicksRun ==
  ASSUME NEW D, NEW q \in Seq(D), NEW out \in Seq(D),
         NEW a \in 1..(Len(q) + 1), NEW b \in 0..Len(q), a <= b + 1,
         NEW L \in SUBSET (1..(a - 1)), Picks(out, q, L)
  PROVE  /\ Picks(out \o SubSeq(q, a, b), q, L \cup (a..b))
         /\ out \o SubSeq(q, a, b) \in Seq(D)
<1> DEFINE r == SubSeq(q, a, b)
           m == Len(out)
           z == out \o r
<1>1. r \in Seq(D) /\ Len(r) = b - a + 1 /\ \A i \in 1..(b - a + 1) : r[i] = q[a + i - 1]
  BY Run
<1> HIDE DEF r
<1>2. /\ z \in Seq(D) /\ Len(z) = m + (b - a + 1)
      /\ \A i \in 1..m : z[i] = out[i]
      /\ \A i \in (m + 1)..(m + (b - a + 1)) : z[i] = q[a + (i - m) - 1]
  <2>1. z \in Seq(D) /\ Len(z) = m + Len(r)
        /\ \A i \in 1..(m + Len(r)) : z[i] = IF i <= m THEN out[i] ELSE r[i - m]
    BY <1>1, ConcatProperties
  <2>2. m \in Nat /\ a \in Int /\ b \in Int
    OBVIOUS
  <2> HIDE DEF z, m
  <2>3. ASSUME NEW i \in 1..m PROVE z[i] = out[i]
    BY <2>1, <2>2, <2>3, <1>1
  <2>4. ASSUME NEW i \in (m + 1)..(m + (b - a + 1)) PROVE z[i] = q[a + (i - m) - 1]
    <3>1. i \in 1..(m + Len(r)) /\ ~ i <= m /\ i - m \in 1..(b - a + 1)
      BY <2>2, <1>1
    <3> QED BY <2>1, <1>1, <3>1
  <2> QED BY <2>1, <1>1, <2>3, <2>4
<1>3. PICK f : Ordering(out, q, L, f)
  BY DEF Picks
<1> DEFINE M == m + (b - a + 1)
           N == L \cup (a..b)
           g == [i \in 1..M |-> IF i <= m THEN f[i] ELSE a + (i - m) - 1]
<1>4. m \in Nat /\ M \in Nat /\ m <= M /\ a \in Int /\ b \in Int
  BY <1>1
<1>5. \A i \in 1..m : f[i] \in L /\ f[i] \in Int /\ f[i] < a
  <2>1. \A x \in L : x \in Int /\ x < a
    BY <1>4
  <2>2. \A i \in 1..m : f[i] \in L
    BY <1>3 DEF Ordering, Enumerates
  <2> QED BY <2>1, <2>2
<1>6. \A i \in 1..M : (i <= m => g[i] = f[i]) /\ (~ i <= m => g[i] = a + (i - m) - 1)
  OBVIOUS
<1>7. g \in [1..M -> N]
  <2> SUFFICES ASSUME NEW i \in 1..M PROVE (IF i <= m THEN f[i] ELSE a + (i - m) - 1) \in N
    OBVIOUS
  <2> QED BY <1>4, <1>5
<1> HIDE DEF g
<1>8. \A i, j \in 1..M : i < j => g[i] < g[j]
  <2> SUFFICES ASSUME NEW i \in 1..M, NEW j \in 1..M, i < j PROVE g[i] < g[j]
    OBVIOUS
  <2>1. CASE j <= m
    BY <2>1, <1>3, <1>4, <1>6 DEF Ordering, Enumerates
  <2>2. CASE i <= m /\ ~ j <= m
    BY <2>2, <1>4, <1>5, <1>6
  <2>3. CASE ~ i <= m /\ ~ j <= m
    BY <2>3, <1>4, <1>6
  <2> QED BY <2>1, <2>2, <2>3, <1>4
<1>9. \A x \in N : \E i \in 1..M : g[i] = x
  <2> SUFFICES ASSUME NEW x \in N PROVE \E i \in 1..M : g[i] = x
    OBVIOUS
  <2>1. CASE x \in L
    <3>1. PICK i \in 1..m : f[i] = x
      BY <2>1, <1>3 DEF Ordering, Enumerates
    <3> QED BY <3>1, <1>4, <1>6
  <2>2. CASE x \in a..b
    <3>1. x - a + 1 + m \in 1..M /\ ~ (x - a + 1 + m <= m) /\ a + ((x - a + 1 + m) - m) - 1 = x
      BY <2>2, <1>4
    <3> QED BY <3>1, <1>6
  <2> QED BY <2>1, <2>2
<1>10. \A i \in 1..M : z[i] = q[g[i]]
  <2> SUFFICES ASSUME NEW i \in 1..M PROVE z[i] = q[g[i]]
    OBVIOUS
  <2>1. CASE i <= m
    BY <2>1, <1>2, <1>3, <1>4, <1>6 DEF Ordering, Enumerates
  <2>2. CASE ~ i <= m
    BY <2>2, <1>2, <1>4, <1>6
  <2> QED BY <2>1, <2>2
<1>11. Ordering(z, q, N, g)
  BY <1>2, <1>7, <1>8, <1>9, <1>10 DEF Ordering, Enumerates
<1> QED BY <1>2, <1>11 DEF Picks, r

\* Appending one datom to what comes before it.
LEMMA PicksOne ==
  ASSUME NEW D, NEW q \in Seq(D), NEW out \in Seq(D), NEW a \in 1..Len(q),
         NEW L \in SUBSET (1..(a - 1)), Picks(out, q, L)
  PROVE  /\ Picks(out \o <<q[a]>>, q, L \cup {a})
         /\ out \o <<q[a]>> \in Seq(D)
<1>1. a \in 1..(Len(q) + 1) /\ a \in 0..Len(q) /\ a <= a + 1
  OBVIOUS
<1>2. SubSeq(q, a, a) = <<q[a]>>
  BY <1>1, Run
<1>3. a..a = {a}
  OBVIOUS
<1> QED BY <1>1, <1>2, <1>3, PicksRun

\* A set of naturals that is not empty has a least element.
LEMMA Least ==
  ASSUME NEW T \in SUBSET Nat, T # {}
  PROVE  \E x \in T : \A y \in T : x <= y
<1> DEFINE R == {p \in Nat \X Nat : p[1] < p[2]}
<1>1. R = OpToRel(<, Nat)
  BY Zenon DEF OpToRel
<1>2. IsWellFoundedOn(R, Nat)
  BY <1>1, NatLessThanWellFounded
<1>3. PICK x \in T : \A y \in T : ~ (<<y, x>> \in R)
  <2> HIDE DEF R
  <2> QED BY <1>2, WFMin
<1>4. ASSUME NEW y \in T PROVE x <= y
  <2>1. x \in Nat /\ y \in Nat
    OBVIOUS
  <2>2. ~ (<<y, x>> \in R)
    BY <1>3
  <2>3. <<y, x>> \in R <=> y < x
    BY <2>1
  <2> QED BY <2>1, <2>2, <2>3
<1> QED BY <1>4

\* A set of integers is enumerated in order in one way.
LEMMA OrderingsAgree ==
  ASSUME NEW L \in SUBSET Int, NEW n \in Nat, NEW m \in Nat, n <= m,
         NEW f, NEW g, Enumerates(f, n, L), Enumerates(g, m, L)
  PROVE  n = m /\ \A i \in 1..n : f[i] = g[i]
<1>0. /\ \A i \in 1..n : f[i] \in L /\ f[i] \in Int
      /\ \A i \in 1..m : g[i] \in L /\ g[i] \in Int
      /\ \A i, j \in 1..n : i < j => f[i] < f[j]
      /\ \A i, j \in 1..m : i < j => g[i] < g[j]
      /\ \A x \in L : \E i \in 1..n : f[i] = x
      /\ \A x \in L : \E i \in 1..m : g[i] = x
  BY DEF Enumerates
<1> DEFINE Bad == {i \in 1..n : f[i] # g[i]}
<1>1. Bad = {}
  <2> SUFFICES ASSUME Bad # {} PROVE FALSE
    OBVIOUS
  <2>1. PICK i \in Bad : \A j \in Bad : i <= j
    <3>1. Bad \in SUBSET Nat
      OBVIOUS
    <3> QED BY <3>1, Least
  <2>2. i \in 1..n /\ i \in 1..m /\ f[i] \in L /\ g[i] \in L /\ f[i] # g[i]
        /\ f[i] \in Int /\ g[i] \in Int
    BY <1>0
  <2>3. \A j \in 1..n : j < i => f[j] = g[j]
    BY <2>1, <2>2
  <2>4. CASE f[i] < g[i]
    <3>1. PICK j \in 1..m : g[j] = f[i]
      BY <1>0, <2>2
    <3>2. j < i
      <4>1. CASE i < j
        <5>1. g[i] < g[j]
          BY <4>1, <2>2, <1>0
        <5> QED BY <5>1, <3>1, <2>4, <2>2
      <4>2. CASE i = j
        BY <4>2, <3>1, <2>2
      <4> QED BY <4>1, <4>2, <2>2
    <3>3. j \in 1..n /\ f[j] = f[i] /\ f[j] < f[i]
      BY <3>1, <3>2, <2>2, <2>3, <1>0
    <3> QED BY <3>3, <2>2
  <2>5. CASE g[i] < f[i]
    <3>1. PICK j \in 1..n : f[j] = g[i]
      BY <1>0, <2>2
    <3>2. j < i
      <4>1. CASE i < j
        <5>1. f[i] < f[j]
          BY <4>1, <2>2, <1>0
        <5> QED BY <5>1, <3>1, <2>5, <2>2
      <4>2. CASE i = j
        BY <4>2, <3>1, <2>2
      <4> QED BY <4>1, <4>2, <2>2
    <3>3. j \in 1..m /\ g[j] = g[i] /\ g[j] < g[i]
      BY <3>1, <3>2, <2>2, <2>3, <1>0
    <3> QED BY <3>3, <2>2
  <2> QED BY <2>2, <2>4, <2>5
<1>2. \A i \in 1..n : f[i] = g[i]
  BY <1>1
<1>3. n = m
  <2> SUFFICES ASSUME n < m PROVE FALSE
    OBVIOUS
  <2>1. m \in 1..m /\ g[m] \in L /\ g[m] \in Int
    BY n < m, <1>0
  <2>2. PICK i \in 1..n : f[i] = g[m]
    BY <2>1, <1>0
  <2>3. i \in 1..m /\ i < m /\ g[i] = g[m] /\ g[i] < g[m]
    BY <2>1, <2>2, <1>2, <1>0
  <2> QED BY <2>1, <2>3
<1> QED BY <1>2, <1>3

\* What is picked in order from given places is one sequence.
LEMMA PicksUnique ==
  ASSUME NEW D, NEW q, NEW L \in SUBSET Int, NEW x \in Seq(D), NEW y \in Seq(D),
         Picks(x, q, L), Picks(y, q, L)
  PROVE  x = y
<1>1. PICK f : Ordering(x, q, L, f)
  BY DEF Picks
<1>2. PICK g : Ordering(y, q, L, g)
  BY DEF Picks
<1> DEFINE n == Len(x)
           m == Len(y)
<1>3. /\ n \in Nat /\ m \in Nat /\ Enumerates(f, n, L) /\ Enumerates(g, m, L)
      /\ \A i \in 1..n : x[i] = q[f[i]]
      /\ \A i \in 1..m : y[i] = q[g[i]]
  BY <1>1, <1>2 DEF Ordering
<1> HIDE DEF n, m
<1>4. n = m /\ \A i \in 1..n : f[i] = g[i]
  <2>1. CASE n <= m
    BY <2>1, <1>3, OrderingsAgree
  <2>2. CASE m <= n
    <3>1. m = n /\ \A i \in 1..m : g[i] = f[i]
      BY <2>2, <1>3, OrderingsAgree
    <3> QED BY <3>1
  <2> QED BY <2>1, <2>2, <1>3
<1>5. ASSUME NEW i \in 1..n PROVE x[i] = y[i]
  <2>1. x[i] = q[f[i]] /\ i \in 1..m
    BY <1>3, <1>4
  <2>2. y[i] = q[g[i]] /\ f[i] = g[i]
    BY <2>1, <1>3, <1>4
  <2> QED BY <2>1, <2>2
<1> QED BY <1>4, <1>5, SeqEqual DEF n, m

\* Induction up to n, over a set.
LEMMA UpTo ==
  ASSUME NEW n \in Nat, NEW S, 0 \in S, \A i \in 1..n : i - 1 \in S => i \in S
  PROVE  \A i \in 0..n : i \in S
<1> DEFINE Bad == {i \in 0..n : i \notin S}
<1> SUFFICES ASSUME Bad # {} PROVE FALSE
  OBVIOUS
<1>1. PICK i \in Bad : \A j \in Bad : i <= j
  <2>1. Bad \in SUBSET Nat
    OBVIOUS
  <2> QED BY <2>1, Least
<1>2. i \in 1..n /\ i - 1 \in 0..n /\ i - 1 \notin Bad
  BY <1>1
<1> QED BY <1>2

\* The ends of 0..n.
LEMMA Ends == ASSUME NEW n \in Nat PROVE 0 \in 0..n /\ n \in 0..n /\ \A i \in 0..0 : i = 0
OBVIOUS

\* The places at and below l, for the step from l - 1 to l.
LEMMA Below ==
  ASSUME NEW n \in Nat, NEW l \in 1..n
  PROVE  /\ l \in Nat /\ l # 0 /\ l \in 0..n /\ l - 1 \in 0..n /\ l \in 0..l /\ l - 1 \in 0..(l - 1)
         /\ \A i \in 0..(l - 1) : i \in 0..l /\ i # l
         /\ \A i \in 0..l : i # l => i \in 0..(l - 1) /\ (i # 0 => i - 1 \in 0..(l - 1))
OBVIOUS

\* The states of a loop of n steps.
IsFold(h, F, x, n) == h = [i \in 0..n |-> IF i = 0 THEN x ELSE F[i, h[i - 1]]]

\* A loop of n steps has its states, and what each step establishes from what
\* the one before did holds of them: G[i] is what is known after i steps.
LEMMA FoldExists ==
  ASSUME NEW X, NEW n \in Nat, NEW G \in [0..n -> SUBSET X], NEW x \in G[0], NEW F,
         \A i \in 1..n : \A y \in G[i - 1] : F[i, y] \in G[i]
  PROVE  \E h \in [0..n -> X] : IsFold(h, F, x, n) /\ \A i \in 0..n : h[i] \in G[i]
<1> DEFINE Done(l) == \E h \in [0..l -> X] : IsFold(h, F, x, l) /\ \A i \in 0..l : h[i] \in G[i]
           S == {l \in 0..n : Done(l)}
<1>0. \A i \in 0..n : G[i] \subseteq X
  OBVIOUS
<1>1. 0 \in S
  <2> DEFINE z == [i \in 0..0 |-> x]
  <2>1. 0 \in 0..n /\ \A i \in 0..0 : i = 0
    BY Ends
  <2>2. z \in [0..0 -> X]
    BY <2>1, <1>0
  <2>3. z = [i \in 0..0 |-> IF i = 0 THEN x ELSE F[i, z[i - 1]]] /\ \A i \in 0..0 : z[i] \in G[i]
    BY <2>1
  <2>4. Done(0)
    BY <2>2, <2>3 DEF IsFold
  <2> HIDE DEF Done
  <2> QED BY <2>1, <2>4
<1>2. ASSUME NEW l \in 1..n, l - 1 \in S PROVE l \in S
  <2>0. /\ l \in Nat /\ l # 0 /\ l \in 0..n /\ l \in 0..l /\ l - 1 \in 0..(l - 1)
        /\ \A i \in 0..(l - 1) : i \in 0..l /\ i # l
        /\ \A i \in 0..l : i # l => i \in 0..(l - 1) /\ (i # 0 => i - 1 \in 0..(l - 1))
    <3> HIDE DEF S
    <3> QED BY Below
  <2>1. PICK g \in [0..(l - 1) -> X] : IsFold(g, F, x, l - 1) /\ \A i \in 0..(l - 1) : g[i] \in G[i]
    BY <1>2
  <2>2. F[l, g[l - 1]] \in G[l] /\ F[l, g[l - 1]] \in X
    BY <2>0, <2>1, <1>0
  <2> DEFINE h == [i \in 0..l |-> IF i = l THEN F[l, g[l - 1]] ELSE g[i]]
  <2>3. \A i \in 0..l : i # l => i \in 0..(l - 1)
    BY <2>0
  <2>4. h \in [0..l -> X]
    BY <2>2, <2>3
  <2>5. h[l] = F[l, g[l - 1]] /\ \A i \in 0..(l - 1) : h[i] = g[i]
    <3>2. \A i \in 0..l : h[i] = IF i = l THEN F[l, g[l - 1]] ELSE g[i]
      OBVIOUS
    <3> HIDE DEF h
    <3> QED BY <2>0, <3>2
  <2> HIDE DEF h
  <2>6. \A i \in 0..l : h[i] = IF i = 0 THEN x ELSE F[i, h[i - 1]]
    <3> SUFFICES ASSUME NEW i \in 0..l
                 PROVE  h[i] = IF i = 0 THEN x ELSE F[i, h[i - 1]]
      OBVIOUS
    <3>1. CASE i = l
      BY <2>0, <3>1, <2>5
    <3>2. CASE i # l
      <4>1. i \in 0..(l - 1) /\ (i # 0 => i - 1 \in 0..(l - 1))
        BY <2>0, <3>2
      <4>2. h[i] = g[i] /\ (i # 0 => h[i - 1] = g[i - 1])
        BY <4>1, <2>5
      <4>3. g[i] = IF i = 0 THEN x ELSE F[i, g[i - 1]]
        BY <4>1, <2>1 DEF IsFold
      <4> QED BY <4>2, <4>3
    <3> QED BY <3>1, <3>2
  <2>7. IsFold(h, F, x, l)
    <3>1. h = [i \in 0..l |-> h[i]]
      BY <2>4
    <3> QED BY <3>1, <2>6 DEF IsFold
  <2>8. \A i \in 0..l : h[i] \in G[i]
    BY <2>1, <2>2, <2>3, <2>5
  <2> HIDE DEF S
  <2>9. Done(l)
    BY <2>4, <2>7, <2>8
  <2> HIDE DEF Done
  <2> QED BY <2>0, <2>9 DEF S
<1> HIDE DEF Done
<1>3. \A l \in 0..n : l \in S
  <2> HIDE DEF S
  <2> QED BY <1>1, <1>2, UpTo
<1>4. Done(n)
  <2>1. n \in 0..n
    BY Ends
  <2> QED BY <1>3, <2>1
<1> QED BY <1>4 DEF Done

States(D) == [out : Seq(D), pending : Seq(D), held : Seq(D)]

\* No fact visible so far goes on.
Over(q, n, asOf) ==
  \A i \in 1..n, j \in (n + 1)..Len(q) : Visible(q, i, asOf) => ~SameFact(q[i], q[j])
\* m is the newest visible datom so far.
Newest(q, n, m, asOf) ==
  m \in 1..n /\ Visible(q, m, asOf) /\ \A j \in (m + 1)..n : ~Visible(q, j, asOf)

\* The loop's invariant, in its three cases.
AtRest(s, q, n, asOf) ==
  s.pending = <<>> /\ s.held = <<>> /\ Over(q, n, asOf) /\ Picks(s.out, q, Live(q, n, asOf))
Pends(s, q, n, asOf) ==
  /\ s.held = <<>>
  /\ \E m \in 1..n : /\ Newest(q, n, m, asOf) /\ s.pending = <<q[m]>>
                     /\ Picks(s.out, q, Live(q, n, asOf) \ {m})
Ready(s, q, n, asOf) == AtRest(s, q, n, asOf) \/ Pends(s, q, n, asOf)
Holds(s, q, n, asOf) ==
  /\ s.pending = <<>>
  /\ \E h \in 1..n : /\ s.held = SubSeq(q, h, n)
                     /\ h..n \subseteq Live(q, n, asOf)
                     /\ Picks(s.out, q, Live(q, n, asOf) \ (h..n))

\* Being of one fact is an equivalence.
LEMMA SameFactIsEquivalence ==
  /\ \A x : SameFact(x, x)
  /\ \A x, y : SameFact(x, y) => SameFact(y, x)
  /\ \A x, y, z : SameFact(x, y) /\ SameFact(y, z) => SameFact(x, z)
BY DEF SameFact

\* A datom past asOf changes nothing.
LEMMA LiveSkips ==
  ASSUME NEW q, NEW n \in Nat, NEW asOf, ~Visible(q, n + 1, asOf)
  PROVE  Live(q, n + 1, asOf) = Live(q, n, asOf)
<1>1. ASSUME NEW i \in Live(q, n + 1, asOf) PROVE i \in Live(q, n, asOf)
  <2>1. i # n + 1
    BY <1>1 DEF Live
  <2> QED BY <1>1, <2>1 DEF Live
<1>2. ASSUME NEW i \in Live(q, n, asOf) PROVE i \in Live(q, n + 1, asOf)
  <2>1. \A j \in (i + 1)..(n + 1) : j # n + 1 => j \in (i + 1)..n
    BY DEF Live
  <2>2. i \in 1..(n + 1)
    BY DEF Live
  <2> QED BY <2>1, <2>2 DEF Live
<1> QED BY <1>1, <1>2

\* A visible datom ends what came before it of its fact, and counts if it asserts.
LEMMA LiveGains ==
  ASSUME NEW q, NEW n \in Nat, NEW asOf, Visible(q, n + 1, asOf)
  PROVE  /\ Live(q, n + 1, asOf) \ {n + 1} = {i \in Live(q, n, asOf) : ~SameFact(q[i], q[n + 1])}
         /\ n + 1 \in Live(q, n + 1, asOf) <=> q[n + 1].op
<1>1. ASSUME NEW i \in Live(q, n + 1, asOf), i # n + 1
      PROVE  i \in Live(q, n, asOf) /\ ~SameFact(q[i], q[n + 1])
  <2>1. i \in 1..n /\ n + 1 \in (i + 1)..(n + 1) /\ \A j \in (i + 1)..n : j \in (i + 1)..(n + 1)
    BY <1>1 DEF Live
  <2> QED BY <2>1 DEF Live
<1>2. ASSUME NEW i \in Live(q, n, asOf), ~SameFact(q[i], q[n + 1])
      PROVE  i \in Live(q, n + 1, asOf) /\ i # n + 1
  <2>1. \A j \in (i + 1)..(n + 1) : j # n + 1 => j \in (i + 1)..n
    BY DEF Live
  <2>2. i \in 1..(n + 1) /\ i # n + 1
    BY DEF Live
  <2> QED BY <1>2, <2>1, <2>2 DEF Live
<1>3. n + 1 \in Live(q, n + 1, asOf) <=> q[n + 1].op
  <2>1. n + 1 \in 1..(n + 1) /\ (n + 1 + 1)..(n + 1) = {}
    OBVIOUS
  <2> QED BY <2>1 DEF Live
<1> QED BY <1>1, <1>2, <1>3

\* The newest visible datom counts if it asserts; nothing else of its fact does.
LEMMA NewestLive ==
  ASSUME NEW D, NEW q, NEW n \in 0..Len(q), NEW asOf, NEW m, History(D, q), Newest(q, n, m, asOf)
  PROVE  /\ m \in Live(q, n, asOf) <=> q[m].op
         /\ \A i \in Live(q, n, asOf) : i # m => i < m /\ ~SameFact(q[i], q[m])
<1>1. n \in Nat /\ m \in 1..n
  BY DEF History, Newest
<1>2. m \in Live(q, n, asOf) <=> q[m].op
  BY <1>1 DEF Newest, Live
<1>3. ASSUME NEW i \in Live(q, n, asOf), i # m PROVE i < m /\ ~SameFact(q[i], q[m])
  <2>1. i \in 1..n /\ Visible(q, i, asOf)
    BY DEF Live
  <2>2. i < m
    BY <2>1, <1>1, <1>3 DEF Newest
  <2>3. m \in (i + 1)..n
    BY <2>1, <2>2, <1>1
  <2> QED BY <2>2, <2>3 DEF Live, Newest
<1> QED BY <1>2, <1>3

\* Once the next datom is of another fact, the newest one's fact is over, and
\* with it every fact before (facts lie together).
LEMMA NewestEnds ==
  ASSUME NEW D, NEW q, NEW n \in 0..Len(q), NEW asOf, NEW m, History(D, q), Newest(q, n, m, asOf),
         n < Len(q), ~SameFact(q[m], q[n + 1])
  PROVE  Over(q, n, asOf)
<1> SUFFICES ASSUME NEW i \in 1..n, NEW j \in (n + 1)..Len(q), Visible(q, i, asOf),
                    SameFact(q[i], q[j])
             PROVE  FALSE
  BY DEF Over
<1>1. n \in Nat /\ m \in 1..n /\ Len(q) \in Nat
  BY DEF History, Newest
<1>2. i <= m
  BY <1>1 DEF Newest
<1>3. SameFact(q[i], q[m])
  <2>1. CASE i = m
    BY <2>1, SameFactIsEquivalence
  <2>2. CASE i < m
    <3>1. i \in 1..Len(q) /\ m \in 1..Len(q) /\ j \in 1..Len(q) /\ m < j
      BY <1>1
    <3> QED BY <3>1, <2>2 DEF History, Grouped
  <2> QED BY <1>1, <1>2, <2>1, <2>2
<1>4. SameFact(q[i], q[n + 1])
  <2>1. CASE j = n + 1
    BY <2>1
  <2>2. CASE n + 1 < j
    <3>1. i \in 1..Len(q) /\ n + 1 \in 1..Len(q) /\ j \in 1..Len(q) /\ i < n + 1
      BY <1>1
    <3> QED BY <3>1, <2>2 DEF History, Grouped
  <2> QED BY <1>1, <2>1, <2>2
<1> QED BY <1>3, <1>4, SameFactIsEquivalence

\* What is flushed of a pending datom.
LEMMA AssertedOne == \A d : Asserted(<<d>>) = IF d.op THEN <<d>> ELSE <<>>
<1> SUFFICES ASSUME NEW d PROVE Asserted(<<d>>) = IF d.op THEN <<d>> ELSE <<>>
  OBVIOUS
<1>1. <<d>> # <<>> /\ Head(<<d>>) = d
  OBVIOUS
<1> QED BY <1>1 DEF Asserted

\* Without a pending datom nothing is flushed.
LEMMA AssertedNone == Asserted(<<>>) = <<>>
BY DEF Asserted

\* Flushing the pending datom completes what is out.
LEMMA PendingComesOut ==
  ASSUME NEW D, NEW q, NEW n \in 0..Len(q), NEW asOf, NEW m, History(D, q), Newest(q, n, m, asOf),
         NEW out \in Seq(D), Picks(out, q, Live(q, n, asOf) \ {m})
  PROVE  /\ Picks(out \o Asserted(<<q[m]>>), q, Live(q, n, asOf))
         /\ out \o Asserted(<<q[m]>>) \in Seq(D)
<1>1. q \in Seq(D) /\ m \in 1..Len(q) /\ Live(q, n, asOf) \ {m} \in SUBSET (1..(m - 1))
  <2>1. Live(q, n, asOf) \subseteq 1..n
    BY DEF Live
  <2>2. q \in Seq(D) /\ n \in Nat /\ m \in 1..n
    BY DEF History, Newest
  <2> QED BY <2>1, <2>2, NewestLive
<1>2. CASE q[m].op
  <2>1. (Live(q, n, asOf) \ {m}) \cup {m} = Live(q, n, asOf)
    BY <1>2, NewestLive
  <2>2. Asserted(<<q[m]>>) = <<q[m]>>
    BY <1>2, AssertedOne
  <2> DEFINE L == Live(q, n, asOf) \ {m}
  <2>3. L \in SUBSET (1..(m - 1)) /\ Picks(out, q, L)
    BY <1>1
  <2> HIDE DEF L
  <2>4. Picks(out \o <<q[m]>>, q, L \cup {m}) /\ out \o <<q[m]>> \in Seq(D)
    BY <2>3, <1>1, PicksOne
  <2> QED BY <2>1, <2>2, <2>4 DEF L
<1>3. CASE ~ q[m].op
  <2>1. Live(q, n, asOf) \ {m} = Live(q, n, asOf)
    BY <1>3, NewestLive
  <2>2. Asserted(<<q[m]>>) = <<>>
    BY <1>3, AssertedOne
  <2> QED BY <2>1, <2>2, ConcatEmptySeq
<1> QED BY <1>2, <1>3

\* One datom of the collapse loop keeps the loop's invariant.
LEMMA TakeDatomSteps ==
  ASSUME NEW D, NEW q, History(D, q), NEW asOf \in Int, NEW n \in Nat, n < Len(q),
         NEW s \in States(D), AtRest(s, q, n, asOf) \/ Pends(s, q, n, asOf)
  PROVE  LET z == TakeDatom(s, q[n + 1], asOf) IN
         z \in States(D) /\ (AtRest(z, q, n + 1, asOf) \/ Pends(z, q, n + 1, asOf))
<1> DEFINE d == q[n + 1]
           z == TakeDatom(s, d, asOf)
<1>1. /\ q \in Seq(D) /\ Len(q) \in Nat /\ n \in 0..Len(q) /\ n + 1 \in 1..Len(q)
      /\ d \in D /\ d.t \in Int /\ (Visible(q, n + 1, asOf) <=> ~(d.t > asOf))
  BY DEF History, Visible
<1>2. <<d>> \in Seq(D) /\ <<d>> # <<>>
  BY <1>1
<1>3. CASE ~Visible(q, n + 1, asOf)
  <2>1. z = s
    BY <1>1, <1>3 DEF TakeDatom
  <2>2. Live(q, n + 1, asOf) = Live(q, n, asOf)
    BY <1>3, LiveSkips
  <2>3. CASE AtRest(s, q, n, asOf)
    <3>1. Over(q, n + 1, asOf)
      <4>1. \A i \in 1..(n + 1) : i # n + 1 => i \in 1..n
        OBVIOUS
      <4>2. \A j \in (n + 1 + 1)..Len(q) : j \in (n + 1)..Len(q)
        BY <1>1
      <4> QED BY <4>1, <4>2, <2>3, <1>3 DEF AtRest, Over
    <3> QED BY <3>1, <2>1, <2>2, <2>3 DEF AtRest
  <2>4. CASE Pends(s, q, n, asOf)
    <3>1. PICK m \in 1..n : /\ Newest(q, n, m, asOf) /\ s.pending = <<q[m]>>
                            /\ Picks(s.out, q, Live(q, n, asOf) \ {m})
      BY <2>4 DEF Pends
    <3>2. Newest(q, n + 1, m, asOf)
      <4>1. \A j \in (m + 1)..(n + 1) : j # n + 1 => j \in (m + 1)..n
        OBVIOUS
      <4> QED BY <4>1, <3>1, <1>3 DEF Newest
    <3>3. m \in 1..(n + 1)
      BY <3>1
    <3> QED BY <3>1, <3>2, <3>3, <2>1, <2>2, <2>4 DEF Pends
  <2> QED BY <2>1, <2>3, <2>4
<1>4. CASE Visible(q, n + 1, asOf)
  <2>1. Newest(q, n + 1, n + 1, asOf) /\ n + 1 \in 1..(n + 1)
    <3>1. (n + 1 + 1)..(n + 1) = {} /\ n + 1 \in 1..(n + 1)
      OBVIOUS
    <3> QED BY <3>1, <1>4 DEF Newest
  <2> SUFFICES /\ z.held = <<>> /\ z.pending = <<d>> /\ z \in States(D)
               /\ Picks(z.out, q, Live(q, n + 1, asOf) \ {n + 1})
    BY <2>1 DEF Pends
  <2>2. Live(q, n + 1, asOf) \ {n + 1} = {i \in Live(q, n, asOf) : ~SameFact(q[i], d)}
    BY <1>4, LiveGains
  <2>3. CASE AtRest(s, q, n, asOf)
    <3>1. z = [s EXCEPT !.out = @ \o <<>>, !.pending = <<d>>]
      BY <2>3, <1>1, <1>4, AssertedNone DEF TakeDatom, AtRest
    <3>2. s.out \in Seq(D) /\ s.out \o <<>> = s.out /\ s.held \in Seq(D)
      BY ConcatEmptySeq DEF States
    <3>3. z = [out |-> s.out, pending |-> <<d>>, held |-> s.held]
      BY <3>1, <3>2 DEF States
    <3>4. Live(q, n + 1, asOf) \ {n + 1} = Live(q, n, asOf)
      <4>1. n + 1 \in (n + 1)..Len(q)
        BY <1>1
      <4>2. \A i \in Live(q, n, asOf) : i \in 1..n /\ Visible(q, i, asOf)
        BY DEF Live
      <4> QED BY <4>1, <4>2, <2>2, <2>3 DEF AtRest, Over
    <3> HIDE DEF z, d
    <3>5. z.held = <<>> /\ z.pending = <<d>> /\ z.out = s.out /\ z \in States(D)
      BY <3>2, <3>3, <1>2, <2>3 DEF AtRest, States
    <3> QED BY <3>4, <3>5, <2>3 DEF AtRest
  <2>4. CASE Pends(s, q, n, asOf)
    <3>1. PICK m \in 1..n : /\ Newest(q, n, m, asOf) /\ s.pending = <<q[m]>>
                            /\ Picks(s.out, q, Live(q, n, asOf) \ {m})
      BY <2>4 DEF Pends
    <3>2. s.pending # <<>> /\ Head(s.pending) = q[m]
      BY <3>1
    <3>3. \A i \in Live(q, n, asOf) : i # m => ~SameFact(q[i], q[m])
      BY <1>1, <3>1, NewestLive
    <3>4. CASE SameFact(q[m], d)
      <4>1. z = [s EXCEPT !.pending = <<d>>]
        BY <3>2, <3>4, <1>1, <1>4 DEF TakeDatom
      <4>2. z = [out |-> s.out, pending |-> <<d>>, held |-> s.held]
        BY <4>1 DEF States
      <4>3. Live(q, n + 1, asOf) \ {n + 1} = Live(q, n, asOf) \ {m}
        BY <2>2, <3>3, <3>4, SameFactIsEquivalence
      <4> HIDE DEF z, d
      <4>4. s.held = <<>> /\ s.out \in Seq(D) /\ s.held \in Seq(D)
        BY <2>4 DEF Pends, States
      <4>5. z.held = <<>> /\ z.pending = <<d>> /\ z.out = s.out /\ z \in States(D)
        BY <4>2, <4>4, <1>2 DEF States
      <4> QED BY <4>3, <4>5, <3>1
    <3>5. CASE ~SameFact(q[m], d)
      <4>1. z = [s EXCEPT !.out = @ \o Asserted(<<q[m]>>), !.pending = <<d>>]
        BY <3>1, <3>2, <3>5, <1>1, <1>4 DEF TakeDatom
      <4>2. z = [out |-> s.out \o Asserted(<<q[m]>>), pending |-> <<d>>, held |-> s.held]
        BY <4>1 DEF States
      <4>3. Over(q, n, asOf)
        BY <1>1, <3>1, <3>5, NewestEnds
      <4>4. Live(q, n + 1, asOf) \ {n + 1} = Live(q, n, asOf)
        <5>1. n + 1 \in (n + 1)..Len(q)
          BY <1>1
        <5>2. \A i \in Live(q, n, asOf) : i \in 1..n /\ Visible(q, i, asOf)
          BY DEF Live
        <5> QED BY <5>1, <5>2, <2>2, <4>3 DEF Over
      <4>5. /\ Picks(s.out \o Asserted(<<q[m]>>), q, Live(q, n, asOf))
            /\ s.out \o Asserted(<<q[m]>>) \in Seq(D)
        <5>1. s.out \in Seq(D)
          BY DEF States
        <5> QED BY <5>1, <1>1, <3>1, PendingComesOut
      <4> HIDE DEF z, d
      <4>6. s.held = <<>> /\ s.held \in Seq(D)
        BY <2>4 DEF Pends, States
      <4>7. /\ z.held = <<>> /\ z.pending = <<d>> /\ z.out = s.out \o Asserted(<<q[m]>>)
            /\ z \in States(D)
        BY <4>2, <4>5, <4>6, <1>2 DEF States
      <4> QED BY <4>4, <4>5, <4>7
    <3> QED BY <3>4, <3>5
  <2> QED BY <2>3, <2>4
<1> QED BY <1>3, <1>4

\* The collapse loop over a stretch of the history keeps its invariant.
LEMMA AbsorbSteps ==
  ASSUME NEW D, NEW q, History(D, q), NEW asOf \in Int,
         NEW n \in Nat, NEW m \in Nat, n <= m, m <= Len(q),
         NEW s \in States(D), Ready(s, q, n, asOf)
  PROVE  LET z == Absorb(s, SubSeq(q, n + 1, m), asOf) IN
         z \in States(D) /\ Ready(z, q, m, asOf)
<1> DEFINE ds == SubSeq(q, n + 1, m)
           k == Len(ds)
<1>1. q \in Seq(D) /\ Len(q) \in Nat
  BY DEF History
<1>2. /\ k = m - n /\ k \in Nat /\ \A i \in 1..k : ds[i] = q[n + i]
  <2>1. n + 1 \in 1..(Len(q) + 1) /\ m \in 0..Len(q) /\ n + 1 <= m + 1
    BY <1>1
  <2>2. k = m - (n + 1) + 1 /\ \A i \in 1..(m - (n + 1) + 1) : ds[i] = q[(n + 1) + i - 1]
    BY <2>1, <1>1, Run
  <2>3. \A i \in 1..(m - n) : (n + 1) + i - 1 = n + i
    OBVIOUS
  <2>4. k = m - n /\ m - (n + 1) + 1 = m - n /\ m - n \in Nat
    BY <2>2
  <2> HIDE DEF ds, k
  <2> QED BY <2>2, <2>3, <2>4
<1>3. Absorb(s, ds, asOf) =
        LET after[i \in 0..k] == IF i = 0 THEN s ELSE TakeDatom(after[i - 1], ds[i], asOf)
        IN  after[k]
  BY DEF Absorb
<1> HIDE DEF ds, k
<1> DEFINE At(i) == {y \in States(D) : Ready(y, q, n + i, asOf)}
           G == [i \in 0..k |-> At(i)]
           F == [p \in (1..k) \X States(D) |-> TakeDatom(p[2], ds[p[1]], asOf)]
           IsAfter(h) == h = [i \in 0..k |-> IF i = 0 THEN s ELSE TakeDatom(h[i - 1], ds[i], asOf)]
           a == CHOOSE h : IsAfter(h)
<1>4. ASSUME NEW i \in 1..k, NEW y \in At(i - 1) PROVE TakeDatom(y, ds[i], asOf) \in At(i)
  <2>1. n + (i - 1) \in Nat /\ n + (i - 1) < Len(q) /\ n + (i - 1) + 1 = n + i
    BY <1>1, <1>2
  <2>2. ds[i] = q[n + (i - 1) + 1]
    BY <2>1, <1>2
  <2> QED BY <2>1, <2>2, TakeDatomSteps DEF Ready
<1>5. s \in At(0)
  <2>1. n + 0 = n
    OBVIOUS
  <2> QED BY <2>1
<1>6. \A i \in 0..k : G[i] = At(i) /\ At(i) \subseteq States(D)
  OBVIOUS
<1>7. ASSUME NEW i \in 1..k, NEW y \in States(D) PROVE F[i, y] = TakeDatom(y, ds[i], asOf)
  <2>1. <<i, y>> \in (1..k) \X States(D)
    OBVIOUS
  <2> QED BY <2>1
<1>8. G \in [0..k -> SUBSET States(D)]
  BY <1>6
<1> HIDE DEF F, At, G
<1>9. \E h : IsAfter(h)
  <2>1. \A i \in 1..k : i \in 0..k /\ i - 1 \in 0..k
    BY <1>2
  <2>2. \A i \in 1..k : \A y \in G[i - 1] : F[i, y] \in G[i]
    <3> SUFFICES ASSUME NEW i \in 1..k, NEW y \in G[i - 1] PROVE F[i, y] \in G[i]
      OBVIOUS
    <3>1. i - 1 \in 0..k /\ i \in 0..k /\ y \in At(i - 1) /\ y \in States(D)
      BY <2>1, <1>6
    <3>2. F[i, y] = TakeDatom(y, ds[i], asOf) /\ TakeDatom(y, ds[i], asOf) \in At(i)
      BY <3>1, <1>4, <1>7
    <3> QED BY <3>1, <3>2, <1>6
  <2>3. s \in G[0]
    BY <1>2, <1>5, <1>6
  <2>4. PICK h \in [0..k -> States(D)] : IsFold(h, F, s, k) /\ \A i \in 0..k : h[i] \in G[i]
    BY <1>2, <1>8, <2>2, <2>3, FoldExists
  <2>5. \A i \in 0..k : i # 0 => F[i, h[i - 1]] = TakeDatom(h[i - 1], ds[i], asOf)
    <3>1. \A i \in 0..k : i # 0 => i \in 1..k /\ i - 1 \in 0..k
      BY <1>2
    <3> QED BY <3>1, <1>7
  <2>6. IsAfter(h)
    BY <2>4, <2>5 DEF IsFold
  <2> QED BY <2>6
<1>10. IsAfter(a)
  BY <1>9
<1>11. Absorb(s, ds, asOf) = a[k]
  BY <1>3
<1> HIDE DEF a
<1>12. a[k] \in At(k)
  <2> DEFINE S == {i \in 0..k : a[i] \in At(i)}
  <2>1. 0 \in S
    <3>1. 0 \in 0..k
      BY <1>2
    <3> QED BY <3>1, <1>5, <1>10
  <2>2. ASSUME NEW i \in 1..k, i - 1 \in S PROVE i \in S
    <3>1. i \in 0..k /\ i # 0 /\ a[i - 1] \in At(i - 1)
      BY <2>2, <1>2
    <3>2. a[i] = TakeDatom(a[i - 1], ds[i], asOf)
      BY <3>1, <1>10
    <3>3. a[i] \in At(i)
      BY <3>1, <3>2, <1>4
    <3> QED BY <3>1, <3>3
  <2>3. \A i \in 0..k : i \in S
    <3> HIDE DEF S
    <3> QED BY <2>1, <2>2, <1>2, UpTo
  <2> QED BY <2>3, <1>2
<1>13. n + k = m
  BY <1>2
<1> QED BY <1>11, <1>12, <1>13 DEF ds, At

\* All of a plain chunk counts (isPlainChunk), when what came before is over.
LEMMA PlainIsLive ==
  ASSUME NEW D, NEW q, History(D, q), NEW asOf \in Int,
         NEW n \in Nat, NEW m \in Nat, n < m, m <= Len(q),
         Over(q, n, asOf), IsPlain(SubSeq(q, n + 1, m), asOf)
  PROVE  /\ Live(q, m, asOf) = Live(q, n, asOf) \cup ((n + 1)..m)
         /\ Live(q, n, asOf) \subseteq 1..n
         /\ Newest(q, m, m, asOf) /\ q[m].op
<1> DEFINE ds == SubSeq(q, n + 1, m)
<1>1. q \in Seq(D) /\ Len(q) \in Nat
  BY DEF History
<1>2. /\ ds \in Seq(D) /\ DOMAIN ds = 1..(m - n)
      /\ \A i \in 1..(m - n) : ds[i] = q[n + i]
  <2>1. n + 1 \in 1..(Len(q) + 1) /\ m \in 0..Len(q) /\ n + 1 <= m + 1
    BY <1>1
  <2>2. /\ ds \in Seq(D) /\ Len(ds) = m - (n + 1) + 1
        /\ \A i \in 1..(m - (n + 1) + 1) : ds[i] = q[(n + 1) + i - 1]
    BY <2>1, <1>1, Run
  <2>3. m - (n + 1) + 1 = m - n /\ \A i \in 1..(m - n) : (n + 1) + i - 1 = n + i
    OBVIOUS
  <2>4. DOMAIN ds = 1..Len(ds)
    BY <2>2
  <2> HIDE DEF ds
  <2> QED BY <2>2, <2>3, <2>4
<1>3. /\ \A i \in 1..(m - n) : ds[i].op /\ ds[i].t <= asOf
      /\ \A i \in 1..(m - n) : i # 1 => ~SameFact(ds[i - 1], ds[i])
  BY <1>2 DEF IsPlain
<1> HIDE DEF ds
<1>4. \A i \in (n + 1)..m : q[i].op /\ Visible(q, i, asOf)
  <2> SUFFICES ASSUME NEW i \in (n + 1)..m PROVE q[i].op /\ Visible(q, i, asOf)
    OBVIOUS
  <2>1. i - n \in 1..(m - n) /\ n + (i - n) = i
    OBVIOUS
  <2> QED BY <2>1, <1>2, <1>3 DEF Visible
<1>5. \A i, j \in (n + 1)..m : i < j => ~SameFact(q[i], q[j])
  <2> SUFFICES ASSUME NEW i \in (n + 1)..m, NEW j \in (n + 1)..m, i < j, SameFact(q[i], q[j])
               PROVE  FALSE
    OBVIOUS
  <2>1. SameFact(q[i], q[i + 1])
    <3>1. CASE j = i + 1
      BY <3>1
    <3>2. CASE i + 1 < j
      <4>1. i \in 1..Len(q) /\ i + 1 \in 1..Len(q) /\ j \in 1..Len(q) /\ i < i + 1
        BY <1>1
      <4> QED BY <4>1, <3>2 DEF History, Grouped
    <3> QED BY <3>1, <3>2
  <2>2. i - n \in 1..(m - n) /\ i - n + 1 \in 1..(m - n) /\ i - n + 1 # 1
    OBVIOUS
  <2>3. (i - n + 1) - 1 = i - n /\ n + (i - n) = i /\ n + (i - n + 1) = i + 1
    OBVIOUS
  <2>4. ~SameFact(ds[i - n], ds[i - n + 1])
    BY <1>3, <2>2, <2>3
  <2> QED BY <2>1, <2>2, <2>3, <2>4, <1>2
<1>6. ASSUME NEW i \in Live(q, m, asOf), i \notin (n + 1)..m PROVE i \in Live(q, n, asOf)
  <2>1. i \in 1..n /\ \A j \in (i + 1)..n : j \in (i + 1)..m
    BY <1>6 DEF Live
  <2> QED BY <2>1 DEF Live
<1>7. ASSUME NEW i \in Live(q, n, asOf) PROVE i \in Live(q, m, asOf)
  <2>1. /\ i \in 1..n /\ Visible(q, i, asOf) /\ i \in 1..m
        /\ \A j \in (i + 1)..m : j \notin (i + 1)..n => j \in (n + 1)..Len(q)
    BY <1>1 DEF Live
  <2> QED BY <2>1 DEF Live, Over
<1>8. ASSUME NEW i \in (n + 1)..m PROVE i \in Live(q, m, asOf)
  <2>1. i \in 1..m /\ \A j \in (i + 1)..m : j \in (n + 1)..m /\ i < j
    OBVIOUS
  <2> QED BY <2>1, <1>4, <1>5 DEF Live
<1>9. Newest(q, m, m, asOf) /\ q[m].op
  <2>1. m \in (n + 1)..m /\ m \in 1..m /\ (m + 1)..m = {}
    OBVIOUS
  <2> QED BY <2>1, <1>4 DEF Newest
<1>10. Live(q, n, asOf) \subseteq 1..n
  BY DEF Live
<1> QED BY <1>6, <1>7, <1>8, <1>9, <1>10

\* The last and the other datoms of a stretch.
LEMMA HeldRun ==
  ASSUME NEW D, NEW q, History(D, q), NEW n \in Nat, n <= Len(q), NEW h \in 1..n
  PROVE  /\ SubSeq(q, h, n) # <<>> /\ SubSeq(q, h, n) \in Seq(D)
         /\ Last(SubSeq(q, h, n)) = q[n] /\ Front(SubSeq(q, h, n)) = SubSeq(q, h, n - 1)
<1> DEFINE r == SubSeq(q, h, n)
<1>1. q \in Seq(D) /\ Len(q) \in Nat /\ n \in 0..Len(q) /\ h \in 1..(Len(q) + 1) /\ h <= n + 1
  BY DEF History
<1>2. r \in Seq(D) /\ Len(r) = n - h + 1 /\ \A i \in 1..(n - h + 1) : r[i] = q[h + i - 1]
  BY <1>1, Run
<1>3. SubSeq(r, 1, n - h) = SubSeq(q, h, n - 1)
  <2> HIDE DEF r
  <2>1. n - h + 1 = Len(r) /\ 1 \in 1..(Len(r) + 1) /\ n - h \in 0..Len(r) /\ 1 <= n - h + 1
    BY <1>2
  <2>2. /\ SubSeq(r, 1, n - h) \in Seq(D) /\ Len(SubSeq(r, 1, n - h)) = n - h - 1 + 1
        /\ \A i \in 1..(n - h - 1 + 1) : SubSeq(r, 1, n - h)[i] = r[1 + i - 1]
    BY <2>1, <1>2, Run
  <2>3. n - 1 \in 0..Len(q) /\ h <= n - 1 + 1
    BY <1>1
  <2>4. /\ SubSeq(q, h, n - 1) \in Seq(D) /\ Len(SubSeq(q, h, n - 1)) = n - 1 - h + 1
        /\ \A i \in 1..(n - 1 - h + 1) : SubSeq(q, h, n - 1)[i] = q[h + i - 1]
    BY <2>3, <1>1, Run
  <2>5. \A i \in 1..(n - h) : SubSeq(r, 1, n - h)[i] = SubSeq(q, h, n - 1)[i]
    <3> SUFFICES ASSUME NEW i \in 1..(n - h)
                 PROVE  SubSeq(r, 1, n - h)[i] = SubSeq(q, h, n - 1)[i]
      OBVIOUS
    <3>1. /\ i \in 1..(n - h - 1 + 1) /\ i \in 1..(n - 1 - h + 1) /\ i \in 1..(n - h + 1)
          /\ 1 + i - 1 = i
      OBVIOUS
    <3> QED BY <3>1, <2>2, <2>4, <1>2
  <2>6. Len(SubSeq(r, 1, n - h)) = n - h /\ Len(SubSeq(q, h, n - 1)) = n - h
    BY <2>2, <2>4
  <2> QED BY ONLY <2>2, <2>4, <2>5, <2>6, SeqEqual
<1>4. n - h + 1 \in 1..(n - h + 1) /\ h + (n - h + 1) - 1 = n /\ (n - h + 1) - 1 = n - h
  OBVIOUS
<1> HIDE DEF r
<1>5. Last(r) = q[n]
  BY <1>2, <1>4 DEF Last
<1>6. Front(r) = SubSeq(q, h, n - 1)
  BY <1>2, <1>3, <1>4 DEF Front
<1>7. r # <<>>
  BY <1>2, <1>4
<1> QED BY <1>2, <1>5, <1>6, <1>7 DEF r

\* Opening a held chunk: its last datom stays pending if the next chunk goes on
\* with its fact, and all of it goes out if not.
LEMMA OpenHeldSteps ==
  ASSUME NEW D, NEW q, History(D, q), NEW asOf \in Int, NEW n \in Nat, n < Len(q),
         NEW s \in States(D), Ready(s, q, n, asOf) \/ Holds(s, q, n, asOf)
  PROVE  LET z == OpenHeld(s, q[n + 1]) IN z \in States(D) /\ Ready(z, q, n, asOf)
<1> DEFINE d == q[n + 1]
           z == OpenHeld(s, d)
<1>1. CASE Ready(s, q, n, asOf)
  <2>1. s.held = <<>>
    BY <1>1 DEF Ready, AtRest, Pends
  <2> QED BY <1>1, <2>1 DEF OpenHeld
<1>2. CASE Holds(s, q, n, asOf)
  <2>1. PICK h \in 1..n : /\ s.held = SubSeq(q, h, n)
                          /\ h..n \subseteq Live(q, n, asOf)
                          /\ Picks(s.out, q, Live(q, n, asOf) \ (h..n))
    BY <1>2 DEF Holds
  <2> DEFINE L == Live(q, n, asOf) \ (h..n)
  <2>2. /\ q \in Seq(D) /\ Len(q) \in Nat /\ n \in 0..Len(q) /\ h <= Len(q) /\ h \in 1..(Len(q) + 1)
        /\ h <= n + 1 /\ n - 1 \in 0..Len(q) /\ h <= (n - 1) + 1 /\ h \in Nat
    BY DEF History
  <2>3. s.held # <<>> /\ Last(s.held) = q[n] /\ Front(s.held) = SubSeq(q, h, n - 1)
    <3>1. n <= Len(q)
      BY <2>2
    <3>2. /\ SubSeq(q, h, n) # <<>> /\ Last(SubSeq(q, h, n)) = q[n]
          /\ Front(SubSeq(q, h, n)) = SubSeq(q, h, n - 1)
      BY <3>1, HeldRun
    <3> QED BY <3>2, <2>1
  <2>4. s.out \in Seq(D) /\ <<q[n]>> \in Seq(D) /\ <<>> \in Seq(D)
    BY <2>2 DEF States
  <2>5. L \in SUBSET (1..(h - 1)) /\ Picks(s.out, q, L)
    BY <2>1, <2>2 DEF Live
  <2>6. /\ Live(q, n, asOf) = L \cup (h..n)
        /\ Live(q, n, asOf) \ {n} = L \cup (h..(n - 1))
    <3>1. n \in h..n /\ h..(n - 1) \subseteq h..n /\ n \notin h..(n - 1)
          /\ \A i \in h..n : i # n => i \in h..(n - 1)
      BY <2>2
    <3> QED BY <3>1, <2>1
  <2> HIDE DEF L
  <2>7. Newest(q, n, n, asOf) /\ n \in 1..n
    <3>1. n \in Live(q, n, asOf) /\ (n + 1)..n = {}
      BY <2>1
    <3> QED BY <3>1 DEF Live, Newest
  <2>8. CASE SameFact(q[n], d)
    <3>1. z = [out |-> s.out \o SubSeq(q, h, n - 1), pending |-> <<q[n]>>, held |-> <<>>]
      BY <2>3, <2>8 DEF OpenHeld
    <3>2. /\ Picks(s.out \o SubSeq(q, h, n - 1), q, L \cup (h..(n - 1)))
          /\ s.out \o SubSeq(q, h, n - 1) \in Seq(D)
      BY <2>2, <2>4, <2>5, PicksRun
    <3> HIDE DEF z
    <3>3. /\ z.held = <<>> /\ z.pending = <<q[n]>> /\ z \in States(D)
          /\ Picks(z.out, q, Live(q, n, asOf) \ {n})
      BY <3>1, <3>2, <2>4, <2>6 DEF States
    <3>4. Pends(z, q, n, asOf)
      BY <3>3, <2>7 DEF Pends
    <3> QED BY <3>3, <3>4 DEF Ready, z
  <2>9. CASE ~SameFact(q[n], d)
    <3>1. z = [out |-> s.out \o SubSeq(q, h, n), pending |-> <<>>, held |-> <<>>]
      BY <2>1, <2>3, <2>9 DEF OpenHeld
    <3>2. /\ Picks(s.out \o SubSeq(q, h, n), q, L \cup (h..n))
          /\ s.out \o SubSeq(q, h, n) \in Seq(D)
      BY <2>2, <2>4, <2>5, PicksRun
    <3>3. Over(q, n, asOf)
      BY <2>2, <2>7, <2>9, NewestEnds
    <3> HIDE DEF z
    <3>4. /\ z.held = <<>> /\ z.pending = <<>> /\ z \in States(D)
          /\ Picks(z.out, q, Live(q, n, asOf))
      BY <3>1, <3>2, <2>4, <2>6 DEF States
    <3>5. AtRest(z, q, n, asOf)
      BY <3>3, <3>4 DEF AtRest
    <3> QED BY <3>4, <3>5 DEF Ready, z
  <2> QED BY <2>8, <2>9
<1> QED BY <1>1, <1>2

\* Ending the pending fact when the next chunk starts another.
LEMMA EndPendingSteps ==
  ASSUME NEW D, NEW q, History(D, q), NEW asOf \in Int, NEW n \in Nat, n < Len(q),
         NEW s \in States(D), Ready(s, q, n, asOf)
  PROVE  LET z == EndPending(s, q[n + 1]) IN z \in States(D) /\ Ready(z, q, n, asOf)
<1> DEFINE d == q[n + 1]
           z == EndPending(s, d)
<1>1. CASE s.pending = <<>> \/ SameFact(Head(s.pending), d)
  BY <1>1 DEF EndPending
<1>2. CASE ~ (s.pending = <<>> \/ SameFact(Head(s.pending), d))
  <2>1. Pends(s, q, n, asOf)
    BY <1>2 DEF Ready, AtRest
  <2>2. PICK m \in 1..n : /\ Newest(q, n, m, asOf) /\ s.pending = <<q[m]>>
                          /\ Picks(s.out, q, Live(q, n, asOf) \ {m})
    BY <2>1 DEF Pends
  <2>3. ~SameFact(q[m], d)
    BY <1>2, <2>2
  <2>4. z = [s EXCEPT !.out = @ \o Asserted(<<q[m]>>), !.pending = <<>>]
    BY <1>2, <2>2 DEF EndPending
  <2>5. z = [out |-> s.out \o Asserted(<<q[m]>>), pending |-> <<>>, held |-> s.held]
    BY <2>4 DEF States
  <2>6. n \in 0..Len(q) /\ s.out \in Seq(D) /\ <<>> \in Seq(D) /\ s.held = <<>>
    BY <2>1 DEF History, States, Pends
  <2>7. /\ Picks(s.out \o Asserted(<<q[m]>>), q, Live(q, n, asOf))
        /\ s.out \o Asserted(<<q[m]>>) \in Seq(D)
    BY <2>2, <2>6, PendingComesOut
  <2>8. Over(q, n, asOf)
    BY <2>2, <2>3, <2>6, NewestEnds
  <2> HIDE DEF z
  <2>9. /\ z.held = <<>> /\ z.pending = <<>> /\ z \in States(D)
        /\ Picks(z.out, q, Live(q, n, asOf))
    BY <2>5, <2>6, <2>7 DEF States
  <2>10. AtRest(z, q, n, asOf)
    BY <2>8, <2>9 DEF AtRest
  <2> QED BY <2>9, <2>10 DEF Ready, z
<1> QED BY <1>1, <1>2

\* Taking a chunk: passed through if plain, absorbed if not.
LEMMA TakeChunkSteps ==
  ASSUME NEW D, NEW q, History(D, q), NEW asOf \in Int,
         NEW n \in Nat, NEW m \in Nat, n < m, m <= Len(q),
         NEW s \in States(D), Ready(s, q, n, asOf),
         NEW c, c.datoms = SubSeq(q, n + 1, m)
  PROVE  LET z == TakeChunk(s, c, asOf) IN
         z \in States(D) /\ (Ready(z, q, m, asOf) \/ Holds(z, q, m, asOf))
<1> DEFINE ds == SubSeq(q, n + 1, m)
           z == TakeChunk(s, c, asOf)
<1>1. q \in Seq(D) /\ Len(q) \in Nat /\ n \in 0..Len(q) /\ m \in 0..Len(q)
  BY DEF History
<1>2. CASE ~ (s.pending = <<>> /\ IsPlain(ds, asOf))
  <2>1. z = Absorb(s, ds, asOf)
    BY <1>2 DEF TakeChunk
  <2> QED BY <2>1, AbsorbSteps
<1>3. CASE s.pending = <<>> /\ IsPlain(ds, asOf)
  <2>1. AtRest(s, q, n, asOf)
    <3>1. ASSUME NEW x PROVE <<x>> # <<>>
      OBVIOUS
    <3> QED BY <1>3, <3>1 DEF Ready, Pends
  <2> DEFINE L == Live(q, n, asOf)
  <2>2. /\ Live(q, m, asOf) = L \cup ((n + 1)..m) /\ L \subseteq 1..n
        /\ Newest(q, m, m, asOf)
    BY <1>3, <2>1, PlainIsLive DEF AtRest
  <2>3. s.held = <<>> /\ s.pending = <<>> /\ Picks(s.out, q, L)
    BY <2>1 DEF AtRest
  <2> HIDE DEF L
  <2>4. /\ s.out \in Seq(D) /\ s = [out |-> s.out, pending |-> <<>>, held |-> <<>>]
        /\ <<>> \in Seq(D)
    BY <2>3 DEF States
  <2>5. /\ ds # <<>> /\ Last(ds) = q[m] /\ Front(ds) = SubSeq(q, n + 1, m - 1) /\ ds \in Seq(D)
    <3>1. n + 1 \in 1..m
      OBVIOUS
    <3> QED BY <3>1, HeldRun
  <2>6. CASE c.whole
    <3>1. z = [s EXCEPT !.held = ds]
      BY <1>3, <2>6 DEF TakeChunk
    <3>2. z = [out |-> s.out, pending |-> <<>>, held |-> ds]
      <4> DEFINE o == s.out
      <4>1. s = [out |-> o, pending |-> <<>>, held |-> <<>>]
        BY <2>4
      <4> HIDE DEF o, z, ds
      <4>2. z = [out |-> o, pending |-> <<>>, held |-> ds]
        BY <4>1, <3>1
      <4> QED BY <4>2 DEF o
    <3>3. L = Live(q, m, asOf) \ ((n + 1)..m) /\ (n + 1)..m \subseteq Live(q, m, asOf)
      BY <2>2
    <3>4. n + 1 \in 1..m
      OBVIOUS
    <3> HIDE DEF z
    <3>5. z \in States(D) /\ z.pending = <<>> /\ z.held = SubSeq(q, n + 1, m) /\ z.out = s.out
      BY <3>2, <2>4, <2>5 DEF States
    <3>6. Holds(z, q, m, asOf)
      BY <3>3, <3>4, <3>5, <2>3 DEF Holds
    <3> QED BY <3>5, <3>6 DEF z
  <2>7. CASE ~ c.whole
    <3>1. z = [s EXCEPT !.out = @ \o SubSeq(q, n + 1, m - 1), !.pending = <<q[m]>>]
      BY <1>3, <2>7, <2>5 DEF TakeChunk
    <3>2. z = [out |-> s.out \o SubSeq(q, n + 1, m - 1), pending |-> <<q[m]>>, held |-> <<>>]
      <4> DEFINE o == s.out
      <4>1. s = [out |-> o, pending |-> <<>>, held |-> <<>>]
        BY <2>4
      <4>2. s.out = o
        OBVIOUS
      <4> HIDE DEF o, z
      <4> QED BY <4>1, <4>2, <3>1
    <3>3. L \cup ((n + 1)..(m - 1)) = Live(q, m, asOf) \ {m}
      <4>1. m \notin L /\ \A i \in (n + 1)..m : i # m => i \in (n + 1)..(m - 1)
        BY <2>2
      <4>2. m \notin (n + 1)..(m - 1) /\ (n + 1)..(m - 1) \subseteq (n + 1)..m /\ m \in (n + 1)..m
        OBVIOUS
      <4> QED BY <4>1, <4>2, <2>2
    <3>4. /\ Picks(s.out \o SubSeq(q, n + 1, m - 1), q, L \cup ((n + 1)..(m - 1)))
          /\ s.out \o SubSeq(q, n + 1, m - 1) \in Seq(D)
      <4>1. /\ n + 1 \in 1..(Len(q) + 1) /\ m - 1 \in 0..Len(q) /\ n + 1 <= (m - 1) + 1
            /\ L \in SUBSET (1..((n + 1) - 1))
        BY <1>1, <2>2
      <4> QED BY <4>1, <1>1, <2>3, <2>4, PicksRun
    <3>5. m \in 1..m /\ <<q[m]>> \in Seq(D)
      BY <1>1
    <3> HIDE DEF z
    <3>6. /\ z \in States(D) /\ z.pending = <<q[m]>> /\ z.held = <<>>
          /\ z.out = s.out \o SubSeq(q, n + 1, m - 1)
      BY <3>2, <3>4, <3>5, <2>4 DEF States
    <3>7. Pends(z, q, m, asOf)
      BY <3>3, <3>4, <3>5, <3>6, <2>2 DEF Pends
    <3> QED BY <3>6, <3>7 DEF Ready, z
  <2> QED BY <2>6, <2>7
<1> QED BY <1>2, <1>3

\* One chunk, from its first datom to its last.
LEMMA ViewStepSteps ==
  ASSUME NEW D, NEW q, History(D, q), NEW asOf \in Int,
         NEW n \in Nat, NEW m \in Nat, n < m, m <= Len(q),
         NEW s \in States(D), Ready(s, q, n, asOf) \/ Holds(s, q, n, asOf),
         NEW c, c.datoms = SubSeq(q, n + 1, m)
  PROVE  LET z == ViewStep(s, c, asOf) IN
         z \in States(D) /\ (Ready(z, q, m, asOf) \/ Holds(z, q, m, asOf))
<1>1. Head(c.datoms) = q[n + 1] /\ n < Len(q)
  <2>1. q \in Seq(D) /\ Len(q) \in Nat /\ n + 1 \in 1..Len(q) /\ m \in (n + 1)..Len(q)
    BY DEF History
  <2> QED BY <2>1, HeadTailOfSubSeq
<1> DEFINE x == OpenHeld(s, q[n + 1])
           y == EndPending(x, q[n + 1])
<1>2. x \in States(D) /\ Ready(x, q, n, asOf)
  BY <1>1, OpenHeldSteps
<1> HIDE DEF x
<1>3. y \in States(D) /\ Ready(y, q, n, asOf)
  BY <1>1, <1>2, EndPendingSteps
<1> HIDE DEF y
<1>4. /\ TakeChunk(y, c, asOf) \in States(D)
      /\ Ready(TakeChunk(y, c, asOf), q, m, asOf) \/ Holds(TakeChunk(y, c, asOf), q, m, asOf)
  BY <1>3, TakeChunkSteps
<1> QED BY <1>1, <1>4 DEF ViewStep, x, y

\* What is out after the last chunk is what counts of all of it.
LEMMA FlushedIsLive ==
  ASSUME NEW D, NEW q, History(D, q), NEW asOf \in Int, NEW n \in Nat, n <= Len(q),
         NEW s \in States(D), Ready(s, q, n, asOf) \/ Holds(s, q, n, asOf)
  PROVE  Flushed(s) \in Seq(D) /\ Picks(Flushed(s), q, Live(q, n, asOf))
<1>1. /\ s.out \in Seq(D) /\ s.out \o <<>> = s.out /\ q \in Seq(D) /\ Len(q) \in Nat
      /\ n \in 0..Len(q)
  BY ConcatEmptySeq DEF States, History
<1>2. CASE AtRest(s, q, n, asOf)
  BY <1>1, <1>2, AssertedNone DEF AtRest, Flushed
<1>3. CASE Pends(s, q, n, asOf)
  <2>1. PICK m \in 1..n : /\ Newest(q, n, m, asOf) /\ s.pending = <<q[m]>>
                          /\ Picks(s.out, q, Live(q, n, asOf) \ {m})
    BY <1>3 DEF Pends
  <2>2. Flushed(s) = s.out \o Asserted(<<q[m]>>)
    BY <1>1, <1>3, <2>1 DEF Pends, Flushed
  <2> QED BY <1>1, <2>1, <2>2, PendingComesOut
<1>4. CASE Holds(s, q, n, asOf)
  <2>1. PICK h \in 1..n : /\ s.held = SubSeq(q, h, n)
                          /\ h..n \subseteq Live(q, n, asOf)
                          /\ Picks(s.out, q, Live(q, n, asOf) \ (h..n))
    BY <1>4 DEF Holds
  <2> DEFINE L == Live(q, n, asOf) \ (h..n)
  <2>2. /\ h \in 1..(Len(q) + 1) /\ h <= n + 1 /\ L \in SUBSET (1..(h - 1)) /\ Picks(s.out, q, L)
        /\ L \cup (h..n) = Live(q, n, asOf)
    BY <1>1, <2>1 DEF Live
  <2> HIDE DEF L
  <2>3. /\ Picks(s.out \o SubSeq(q, h, n), q, L \cup (h..n))
        /\ s.out \o SubSeq(q, h, n) \in Seq(D)
    BY <1>1, <2>2, PicksRun
  <2>4. Flushed(s) = s.out \o SubSeq(q, h, n)
    <3>1. Flushed(s) = (s.out \o SubSeq(q, h, n)) \o <<>>
      BY <1>4, <2>1, AssertedNone DEF Holds, Flushed
    <3> QED BY <3>1, <2>3, ConcatEmptySeq
  <2> QED BY <2>2, <2>3, <2>4
<1> QED BY <1>2, <1>3, <1>4 DEF Ready

\* Before the first chunk.
LEMMA StartsAtRest ==
  ASSUME NEW D, NEW q, NEW asOf
  PROVE  NoView \in States(D) /\ AtRest(NoView, q, 0, asOf)
<1>1. NoView = [out |-> <<>>, pending |-> <<>>, held |-> <<>>] /\ <<>> \in Seq(D)
  BY DEF NoView
<1>2. Live(q, 0, asOf) = {} /\ Over(q, 0, asOf)
  BY DEF Live, Over
<1> QED BY <1>1, <1>2, PicksNone DEF States, AtRest

\* The chunks are q cut after each of the places in cut; none is empty.
Cuts(chunks, q, cut) ==
  /\ cut \in [0..Len(chunks) -> Nat] /\ cut[0] = 0 /\ cut[Len(chunks)] = Len(q)
  /\ \A k \in 1..Len(chunks) : /\ cut[k - 1] < cut[k] /\ cut[k] <= Len(q)
                               /\ chunks[k].datoms = SubSeq(q, cut[k - 1] + 1, cut[k])

\* What a reader streams (currentView): for every history in which the datoms of
\* a fact lie together, however the scan cut it into chunks and whichever of them
\* are whole leaves, the view as of any t is the datoms that are the last visible
\* of their fact and assert it, each once, in order.
THEOREM ViewIsWhatHolds ==
  ASSUME NEW D, NEW q, History(D, q), NEW asOf \in Int, NEW chunks, NEW cut,
         Len(chunks) \in Nat, Cuts(chunks, q, cut)
  PROVE  /\ CurrentView(chunks, asOf) \in Seq(D)
         /\ Picks(CurrentView(chunks, asOf), q, Live(q, Len(q), asOf))
<1> DEFINE k == Len(chunks)
           Step(y, i) == ViewStep(y, chunks[i], asOf)
           At(i) == {y \in States(D) : Ready(y, q, cut[i], asOf) \/ Holds(y, q, cut[i], asOf)}
           G == [i \in 0..k |-> At(i)]
           F == [p \in (1..k) \X States(D) |-> Step(p[2], p[1])]
           IsAfter(h) == h = [i \in 0..k |-> IF i = 0 THEN NoView ELSE Step(h[i - 1], i)]
           a == CHOOSE h : IsAfter(h)
<1>1. /\ q \in Seq(D) /\ Len(q) \in Nat /\ k \in Nat
      /\ cut \in [0..k -> Nat] /\ cut[0] = 0 /\ cut[k] = Len(q)
      /\ \A i \in 1..k : /\ cut[i - 1] < cut[i] /\ cut[i] <= Len(q)
                         /\ chunks[i].datoms = SubSeq(q, cut[i - 1] + 1, cut[i])
  BY DEF History, Cuts
<1>2. CurrentView(chunks, asOf) = Flushed(a[k])
  BY DEF CurrentView
<1> HIDE DEF k
<1>3. \A i \in 1..k : i \in 0..k /\ i # 0 /\ i - 1 \in 0..k
  BY <1>1
<1>4. ASSUME NEW i \in 1..k, NEW y \in At(i - 1) PROVE Step(y, i) \in At(i)
  <2>1. cut[i - 1] \in Nat /\ cut[i] \in Nat
    BY <1>1, <1>3
  <2>2. /\ cut[i - 1] < cut[i] /\ cut[i] <= Len(q)
        /\ chunks[i].datoms = SubSeq(q, cut[i - 1] + 1, cut[i])
    BY <1>1
  <2>3. y \in States(D) /\ (Ready(y, q, cut[i - 1], asOf) \/ Holds(y, q, cut[i - 1], asOf))
    OBVIOUS
  <2>4. /\ ViewStep(y, chunks[i], asOf) \in States(D)
        /\ \/ Ready(ViewStep(y, chunks[i], asOf), q, cut[i], asOf)
           \/ Holds(ViewStep(y, chunks[i], asOf), q, cut[i], asOf)
    <3> HIDE DEF At, Step, G, F
    <3> QED BY <2>1, <2>2, <2>3, ViewStepSteps
  <2> QED BY <2>4
<1>5. NoView \in At(0)
  BY <1>1, StartsAtRest DEF Ready
<1>6. \A i \in 0..k : G[i] = At(i) /\ At(i) \subseteq States(D)
  OBVIOUS
<1> HIDE DEF Step
<1>7. ASSUME NEW i \in 1..k, NEW y \in States(D) PROVE F[i, y] = Step(y, i)
  <2>1. <<i, y>> \in (1..k) \X States(D)
    OBVIOUS
  <2> QED BY <2>1
<1>8. G \in [0..k -> SUBSET States(D)]
  BY <1>6
<1> HIDE DEF F, At, G
<1>9. \E h : IsAfter(h)
  <2>1. \A i \in 1..k : \A y \in G[i - 1] : F[i, y] \in G[i]
    <3> SUFFICES ASSUME NEW i \in 1..k, NEW y \in G[i - 1] PROVE F[i, y] \in G[i]
      OBVIOUS
    <3>1. i - 1 \in 0..k /\ i \in 0..k /\ y \in At(i - 1) /\ y \in States(D)
      BY <1>3, <1>6
    <3>2. F[i, y] = Step(y, i) /\ Step(y, i) \in At(i)
      BY <3>1, <1>4, <1>7
    <3> QED BY <3>1, <3>2, <1>6
  <2>2. NoView \in G[0]
    BY <1>1, <1>5, <1>6
  <2>3. PICK h \in [0..k -> States(D)] : IsFold(h, F, NoView, k) /\ \A i \in 0..k : h[i] \in G[i]
    BY <1>1, <1>8, <2>1, <2>2, FoldExists
  <2>4. \A i \in 0..k : i # 0 => F[i, h[i - 1]] = Step(h[i - 1], i)
    <3>1. \A i \in 0..k : i # 0 => i \in 1..k
      BY <1>1
    <3> QED BY <3>1, <1>3, <1>7
  <2>5. IsAfter(h)
    BY <2>3, <2>4 DEF IsFold
  <2> QED BY <2>5
<1>10. IsAfter(a)
  BY <1>9
<1> HIDE DEF a
<1>11. a[k] \in At(k)
  <2> DEFINE S == {i \in 0..k : a[i] \in At(i)}
  <2>1. 0 \in S
    <3>1. 0 \in 0..k
      BY <1>1
    <3> QED BY <3>1, <1>5, <1>10
  <2>2. ASSUME NEW i \in 1..k, i - 1 \in S PROVE i \in S
    <3>1. a[i] = Step(a[i - 1], i)
      BY <1>3, <1>10
    <3>2. a[i] \in At(i)
      BY <3>1, <2>2, <1>4
    <3> QED BY <1>3, <3>2
  <2>3. \A i \in 0..k : i \in S
    <3> HIDE DEF S
    <3> QED BY <2>1, <2>2, <1>1, UpTo
  <2> QED BY <2>3, <1>1
<1>12. /\ a[k] \in States(D)
       /\ Ready(a[k], q, Len(q), asOf) \/ Holds(a[k], q, Len(q), asOf)
  BY <1>1, <1>11 DEF At
<1>13. Len(q) <= Len(q)
  BY <1>1
<1>14. Flushed(a[k]) \in Seq(D) /\ Picks(Flushed(a[k]), q, Live(q, Len(q), asOf))
  BY <1>1, <1>12, <1>13, FlushedIsLive
<1> QED BY <1>2, <1>14

\* What a batched seek collapses at once (collapseCurrent) is the same of the
\* sequence it is given.
THEOREM CollapseIsWhatHolds ==
  ASSUME NEW D, NEW q, History(D, q), NEW asOf \in Int
  PROVE  /\ CollapseCurrent(q, asOf) \in Seq(D)
         /\ Picks(CollapseCurrent(q, asOf), q, Live(q, Len(q), asOf))
<1> DEFINE n == Len(q)
<1>1. q \in Seq(D) /\ n \in Nat /\ SubSeq(q, 1, n) = q
  BY SubSeqFull DEF History
<1>0. 0 + 1 = 1
  OBVIOUS
<1>2. NoView \in States(D) /\ AtRest(NoView, q, 0, asOf) /\ Ready(NoView, q, 0, asOf)
  BY StartsAtRest DEF Ready
<1>3. CASE q = <<>>
  <2>1. CollapseCurrent(q, asOf) = q /\ Live(q, n, asOf) = {}
    BY <1>3 DEF CollapseCurrent, Live
  <2> QED BY <1>1, <1>3, <2>1, PicksNone
<1>4. CASE q # <<>> /\ IsPlain(q, asOf)
  <2>1. CollapseCurrent(q, asOf) = q
    BY <1>4 DEF CollapseCurrent
  <2>2. 0 < n
    BY <1>1, <1>4
  <2>3. /\ Live(q, n, asOf) = Live(q, 0, asOf) \cup ((0 + 1)..n) /\ Live(q, 0, asOf) \subseteq 1..0
    <3>1. IsPlain(SubSeq(q, 0 + 1, n), asOf)
      <4> HIDE DEF n
      <4> QED BY <1>0, <1>1, <1>4
    <3> QED BY <1>1, <1>2, <2>2, <3>1, PlainIsLive DEF AtRest
  <2>4. /\ Picks(<<>> \o SubSeq(q, 1, n), q, {} \cup (1..n))
        /\ <<>> \o SubSeq(q, 1, n) = q
    <3>1. /\ 1 \in 1..(Len(q) + 1) /\ n \in 0..Len(q) /\ 1 <= n + 1
          /\ {} \in SUBSET (1..(1 - 1)) /\ <<>> \in Seq(D)
      BY <1>1
    <3> HIDE DEF n
    <3> QED BY <1>1, <3>1, PicksNone, PicksRun, ConcatEmptySeq
  <2>5. Live(q, n, asOf) = {} \cup (1..n)
    BY <2>3
  <2> QED BY <1>1, <2>1, <2>4, <2>5
<1>5. CASE q # <<>> /\ ~IsPlain(q, asOf)
  <2> DEFINE z == Absorb(NoView, SubSeq(q, 0 + 1, n), asOf)
  <2>1. CollapseCurrent(q, asOf) = Flushed(z)
    <3>1. z = Absorb(NoView, q, asOf)
      <4> HIDE DEF n
      <4> QED BY <1>0, <1>1
    <3> HIDE DEF z
    <3> QED BY <1>5, <3>1 DEF CollapseCurrent
  <2>2. z \in States(D) /\ Ready(z, q, n, asOf)
    BY <1>1, <1>2, AbsorbSteps
  <2> HIDE DEF z
  <2> QED BY <1>1, <2>1, <2>2, FlushedIsLive
<1> QED BY <1>3, <1>4, <1>5

\* Streaming and collapsing at once give one answer: no cut into chunks, and
\* no chunk passed through whole, changes what is read.
THEOREM ViewsAgree ==
  ASSUME NEW D, NEW q, History(D, q), NEW asOf \in Int, NEW chunks, NEW cut,
         Len(chunks) \in Nat, Cuts(chunks, q, cut)
  PROVE  CurrentView(chunks, asOf) = CollapseCurrent(q, asOf)
<1>1. Live(q, Len(q), asOf) \in SUBSET Int
  BY DEF Live, History
<1> QED BY <1>1, ViewIsWhatHolds, CollapseIsWhatHolds, PicksUnique

-----------------------------------------------------------------------------
(***************************************************************************)
(* The orders of the indexes, sortedUnion, and novelty merged into a scan  *)
(* chunk by chunk: what is read of a tree and novelty of any size.         *)
(***************************************************************************)

\* A datom with numbers for its parts, and what sorts before what in an index.
Datom == [e : Int, a : Int, v : Int, t : Int, op : BOOLEAN]
Before(index, x, y) == Compare(index, x, y) < 0
OpKey(d) == IF d.op THEN 1 ELSE 0

\* The first that differs of five numbers decides.
LEMMA FiveKeys ==
  ASSUME NEW x, NEW y, DOMAIN y = 1..5, \A i \in 1..5 : x[i] \in Int /\ y[i] \in Int
  PROVE  /\ CompareKeys(x, y) \in Int
         /\ CompareKeys(x, y) = 0 <=> \A i \in 1..5 : x[i] = y[i]
         /\ CompareKeys(x, y) < 0 <=>
              \E i \in 1..5 : x[i] < y[i] /\ \A j \in 1..(i - 1) : x[j] = y[j]
         /\ CompareKeys(x, y) > 0 <=>
              \E i \in 1..5 : y[i] < x[i] /\ \A j \in 1..(i - 1) : x[j] = y[j]
<1> DEFINE differ == {i \in 1..5 : x[i] # y[i]}
           first == CHOOSE i \in differ : \A j \in differ : i <= j
<1>0. CompareKeys(x, y) = CompareWhere(x, y, differ)
  <2>1. {i \in DOMAIN y : x[i] # y[i]} = differ
    OBVIOUS
  <2> HIDE DEF differ
  <2> QED BY <2>1 DEF CompareKeys
<1>1. CASE differ = {}
  <2>1. CompareKeys(x, y) = 0
    <3> HIDE DEF differ, first
    <3> QED BY <1>0, <1>1 DEF CompareWhere
  <2>2. \A i \in 1..5 : x[i] = y[i]
    BY <1>1
  <2> QED BY <2>1, <2>2
<1>2. CASE differ # {}
  <2>1. CompareKeys(x, y) = x[first] - y[first]
    <3> HIDE DEF differ
    <3> QED BY <1>0, <1>2 DEF CompareWhere, CompareAt
  <2>2. first \in differ /\ \A j \in differ : first <= j
    <3>1. differ \in SUBSET Nat
      OBVIOUS
    <3>2. \E i \in differ : \A j \in differ : i <= j
      <4> HIDE DEF differ
      <4> QED BY <1>2, <3>1, Least
    <3> HIDE DEF differ
    <3> QED BY <3>2
  <2> HIDE DEF first
  <2>3. first \in 1..5 /\ x[first] # y[first] /\ \A j \in 1..(first - 1) : x[j] = y[j]
    BY <2>2
  <2>4. ASSUME NEW i \in 1..5, x[i] # y[i], \A j \in 1..(i - 1) : x[j] = y[j] PROVE i = first
    BY <2>2, <2>3, <2>4
  <2>5. x[first] \in Int /\ y[first] \in Int
    BY <2>3
  <2>6. x[first] - y[first] \in Int /\ x[first] - y[first] # 0
    BY <2>3, <2>5
  <2>7. CompareKeys(x, y) < 0 <=> x[first] < y[first]
    BY <2>1, <2>5
  <2>8. CompareKeys(x, y) > 0 <=> y[first] < x[first]
    BY <2>1, <2>5
  <2>9. \A i \in 1..5 : (x[i] < y[i] \/ y[i] < x[i]) => x[i] # y[i]
    OBVIOUS
  <2> QED BY <2>1, <2>3, <2>4, <2>6, <2>7, <2>8, <2>9
<1> QED BY <1>1, <1>2

\* One five-component key before another.
Lex(p, q, r, t, o, pp, qq, rr, tt, oo) ==
  \/ p < pp
  \/ p = pp /\ \/ q < qq
               \/ q = qq /\ \/ r < rr
                            \/ r = rr /\ \/ t < tt
                                         \/ t = tt /\ o < oo

\* Comparing keys of five numbers is comparing them in this order.
LEMMA LexOfKeys ==
  ASSUME NEW x, NEW y, DOMAIN y = 1..5, \A i \in 1..5 : x[i] \in Int /\ y[i] \in Int
  PROVE  /\ CompareKeys(x, y) \in Int
         /\ CompareKeys(x, y) = 0 <=> /\ x[1] = y[1] /\ x[2] = y[2] /\ x[3] = y[3] /\ x[4] = y[4]
                                      /\ x[5] = y[5]
         /\ CompareKeys(x, y) < 0 <=>
              Lex(x[1], x[2], x[3], x[4], x[5], y[1], y[2], y[3], y[4], y[5])
         /\ CompareKeys(x, y) > 0 <=>
              Lex(y[1], y[2], y[3], y[4], y[5], x[1], x[2], x[3], x[4], x[5])
<1>1. \A i \in 1..5 : i = 1 \/ i = 2 \/ i = 3 \/ i = 4 \/ i = 5
  OBVIOUS
<1>2. 1 \in 1..5 /\ 2 \in 1..5 /\ 3 \in 1..5 /\ 4 \in 1..5 /\ 5 \in 1..5
  OBVIOUS
<1>3. /\ 1..(1 - 1) = {} /\ 1..(2 - 1) = {1} /\ 1..(3 - 1) = {1, 2} /\ 1..(4 - 1) = {1, 2, 3}
      /\ 1..(5 - 1) = {1, 2, 3, 4}
  OBVIOUS
<1>4. CompareKeys(x, y) = 0 <=>
        x[1] = y[1] /\ x[2] = y[2] /\ x[3] = y[3] /\ x[4] = y[4] /\ x[5] = y[5]
  BY <1>1, <1>2, FiveKeys
<1> DEFINE A == \E i \in 1..5 : x[i] < y[i] /\ \A j \in 1..(i - 1) : x[j] = y[j]
           B == \E i \in 1..5 : y[i] < x[i] /\ \A j \in 1..(i - 1) : x[j] = y[j]
<1>5. A <=> Lex(x[1], x[2], x[3], x[4], x[5], y[1], y[2], y[3], y[4], y[5])
  BY <1>1, <1>2, <1>3 DEF Lex
<1>6. B <=> Lex(y[1], y[2], y[3], y[4], y[5], x[1], x[2], x[3], x[4], x[5])
  BY <1>1, <1>2, <1>3 DEF Lex
<1>7. CompareKeys(x, y) \in Int /\ (CompareKeys(x, y) < 0 <=> A) /\ (CompareKeys(x, y) > 0 <=> B)
  BY FiveKeys
<1> HIDE DEF A, B
<1> QED BY <1>4, <1>5, <1>6, <1>7

\* The key of a datom, component by component.
LEMMA OrderKeys ==
  ASSUME NEW p \in Int, NEW q \in Int, NEW r \in Int, NEW t \in Int, NEW o \in Int
  PROVE  LET k == <<p, q, r>> \o <<t, o>> IN
         /\ DOMAIN k = 1..5 /\ k[1] = p /\ k[2] = q /\ k[3] = r /\ k[4] = t /\ k[5] = o
         /\ \A i \in 1..5 : k[i] \in Int
<1>1. <<p, q, r>> \in Seq(Int) /\ Len(<<p, q, r>>) = 3 /\ <<t, o>> \in Seq(Int) /\ Len(<<t, o>>) = 2
  OBVIOUS
<1> DEFINE x == <<p, q, r>>
           y == <<t, o>>
<1>2. x[1] = p /\ x[2] = q /\ x[3] = r /\ y[1] = t /\ y[2] = o
  OBVIOUS
<1> HIDE DEF x, y
<1>3. /\ x \o y \in Seq(Int) /\ Len(x \o y) = 3 + 2
      /\ \A i \in 1..(3 + 2) : (x \o y)[i] = IF i <= 3 THEN x[i] ELSE y[i - 3]
  BY <1>1, ConcatProperties DEF x, y
<1> DEFINE k == x \o y
<1>4. k[1] = p /\ k[2] = q /\ k[3] = r /\ k[4] = t /\ k[5] = o
  <2> HIDE DEF k
  <2>1. \A i \in 1..5 : k[i] = IF i <= 3 THEN x[i] ELSE y[i - 3]
    <3>1. 3 + 2 = 5
      OBVIOUS
    <3> QED BY <1>3, <3>1 DEF k
  <2> QED BY <1>2, <2>1
<1>5. DOMAIN k = 1..5 /\ \A i \in 1..5 : k[i] \in Int
  <2>1. k \in Seq(Int) /\ Len(k) = 3 + 2
    BY <1>3
  <2> HIDE DEF k
  <2>2. 3 + 2 = 5
    OBVIOUS
  <2>3. k \in Seq(Int) /\ Len(k) = 5
    BY <2>1, <2>2
  <2>4. DOMAIN k = 1..Len(k)
    BY <2>3, LenProperties
  <2>5. \A i \in 1..Len(k) : k[i] \in Int
    BY <2>3, ElementOfSeq
  <2> QED BY <2>3, <2>4, <2>5
<1> QED BY <1>4, <1>5 DEF x, y

\* What sorts before what, in each of the four orders.
KeyLess(index, x, y) ==
  CASE index = "eavt" -> Lex(x.e, x.a, x.v, x.t, OpKey(x), y.e, y.a, y.v, y.t, OpKey(y))
    [] index = "aevt" -> Lex(x.a, x.e, x.v, x.t, OpKey(x), y.a, y.e, y.v, y.t, OpKey(y))
    [] index = "avet" -> Lex(x.a, x.v, x.e, x.t, OpKey(x), y.a, y.v, y.e, y.t, OpKey(y))
    [] index = "vaet" -> Lex(x.v, x.a, x.e, x.t, OpKey(x), y.v, y.a, y.e, y.t, OpKey(y))

\* Compare is that order: negative, zero or positive as x is before, is, or is after y.
LEMMA CompareIsLex ==
  ASSUME NEW index \in Indexes, NEW x \in Datom, NEW y \in Datom
  PROVE  /\ Compare(index, x, y) \in Int
         /\ Compare(index, x, y) = 0 <=> x = y
         /\ Compare(index, x, y) < 0 <=> KeyLess(index, x, y)
         /\ Compare(index, x, y) > 0 <=> KeyLess(index, y, x)
<1>1. /\ x.e \in Int /\ x.a \in Int /\ x.v \in Int /\ x.t \in Int /\ x.op \in BOOLEAN
      /\ y.e \in Int /\ y.a \in Int /\ y.v \in Int /\ y.t \in Int /\ y.op \in BOOLEAN
      /\ OpKey(x) \in Int /\ OpKey(y) \in Int
  BY DEF Datom, OpKey
<1>2. x = y <=> /\ x.e = y.e /\ x.a = y.a /\ x.v = y.v /\ x.t = y.t /\ OpKey(x) = OpKey(y)
  BY <1>1 DEF Datom, OpKey
<1>3. CASE index = "eavt"
  <2> DEFINE p == <<x.e, x.a, x.v>> \o <<x.t, OpKey(x)>>
             q == <<y.e, y.a, y.v>> \o <<y.t, OpKey(y)>>
  <2>1. Order(index, x) = p /\ Order(index, y) = q
    BY <1>3 DEF Order, OpKey
  <2>2. /\ \A i \in 1..5 : p[i] \in Int
        /\ p[1] = x.e /\ p[2] = x.a /\ p[3] = x.v /\ p[4] = x.t /\ p[5] = OpKey(x)
    BY <1>1, OrderKeys
  <2>3. /\ DOMAIN q = 1..5 /\ \A i \in 1..5 : q[i] \in Int
        /\ q[1] = y.e /\ q[2] = y.a /\ q[3] = y.v /\ q[4] = y.t /\ q[5] = OpKey(y)
    BY <1>1, OrderKeys
  <2> HIDE DEF p, q
  <2> QED BY <1>2, <1>3, <2>1, <2>2, <2>3, LexOfKeys DEF Compare, KeyLess
<1>4. CASE index = "aevt"
  <2> DEFINE p == <<x.a, x.e, x.v>> \o <<x.t, OpKey(x)>>
             q == <<y.a, y.e, y.v>> \o <<y.t, OpKey(y)>>
  <2>1. Order(index, x) = p /\ Order(index, y) = q
    BY <1>4 DEF Order, OpKey
  <2>2. /\ \A i \in 1..5 : p[i] \in Int
        /\ p[1] = x.a /\ p[2] = x.e /\ p[3] = x.v /\ p[4] = x.t /\ p[5] = OpKey(x)
    BY <1>1, OrderKeys
  <2>3. /\ DOMAIN q = 1..5 /\ \A i \in 1..5 : q[i] \in Int
        /\ q[1] = y.a /\ q[2] = y.e /\ q[3] = y.v /\ q[4] = y.t /\ q[5] = OpKey(y)
    BY <1>1, OrderKeys
  <2> HIDE DEF p, q
  <2> QED BY <1>2, <1>4, <2>1, <2>2, <2>3, LexOfKeys DEF Compare, KeyLess
<1>5. CASE index = "avet"
  <2> DEFINE p == <<x.a, x.v, x.e>> \o <<x.t, OpKey(x)>>
             q == <<y.a, y.v, y.e>> \o <<y.t, OpKey(y)>>
  <2>1. Order(index, x) = p /\ Order(index, y) = q
    BY <1>5 DEF Order, OpKey
  <2>2. /\ \A i \in 1..5 : p[i] \in Int
        /\ p[1] = x.a /\ p[2] = x.v /\ p[3] = x.e /\ p[4] = x.t /\ p[5] = OpKey(x)
    BY <1>1, OrderKeys
  <2>3. /\ DOMAIN q = 1..5 /\ \A i \in 1..5 : q[i] \in Int
        /\ q[1] = y.a /\ q[2] = y.v /\ q[3] = y.e /\ q[4] = y.t /\ q[5] = OpKey(y)
    BY <1>1, OrderKeys
  <2> HIDE DEF p, q
  <2> QED BY <1>2, <1>5, <2>1, <2>2, <2>3, LexOfKeys DEF Compare, KeyLess
<1>6. CASE index = "vaet"
  <2> DEFINE p == <<x.v, x.a, x.e>> \o <<x.t, OpKey(x)>>
             q == <<y.v, y.a, y.e>> \o <<y.t, OpKey(y)>>
  <2>1. Order(index, x) = p /\ Order(index, y) = q
    BY <1>6 DEF Order, OpKey
  <2>2. /\ \A i \in 1..5 : p[i] \in Int
        /\ p[1] = x.v /\ p[2] = x.a /\ p[3] = x.e /\ p[4] = x.t /\ p[5] = OpKey(x)
    BY <1>1, OrderKeys
  <2>3. /\ DOMAIN q = 1..5 /\ \A i \in 1..5 : q[i] \in Int
        /\ q[1] = y.v /\ q[2] = y.a /\ q[3] = y.e /\ q[4] = y.t /\ q[5] = OpKey(y)
    BY <1>1, OrderKeys
  <2> HIDE DEF p, q
  <2> QED BY <1>2, <1>6, <2>1, <2>2, <2>3, LexOfKeys DEF Compare, KeyLess
<1> QED BY <1>3, <1>4, <1>5, <1>6 DEF Indexes

\* It is transitive, and what lies between two keys of one fact is of that fact.
LEMMA LexIsOrder ==
  ASSUME NEW a1 \in Int, NEW a2 \in Int, NEW a3 \in Int, NEW a4 \in Int, NEW a5 \in Int,
         NEW b1 \in Int, NEW b2 \in Int, NEW b3 \in Int, NEW b4 \in Int, NEW b5 \in Int,
         NEW c1 \in Int, NEW c2 \in Int, NEW c3 \in Int, NEW c4 \in Int, NEW c5 \in Int,
         Lex(a1, a2, a3, a4, a5, b1, b2, b3, b4, b5), Lex(b1, b2, b3, b4, b5, c1, c2, c3, c4, c5)
  PROVE  /\ Lex(a1, a2, a3, a4, a5, c1, c2, c3, c4, c5)
         /\ a1 = c1 /\ a2 = c2 /\ a3 = c3 => a1 = b1 /\ a2 = b2 /\ a3 = b3
BY DEF Lex

\* So of an index's order, which keeps the datoms of a fact together.
LEMMA BeforeIsOrder ==
  ASSUME NEW index \in Indexes, NEW x \in Datom, NEW y \in Datom, NEW z \in Datom,
         Before(index, x, y), Before(index, y, z)
  PROVE  Before(index, x, z) /\ (SameFact(x, z) => SameFact(x, y))
<1>1. \A d \in Datom : /\ d.e \in Int /\ d.a \in Int /\ d.v \in Int /\ d.t \in Int
                       /\ OpKey(d) \in Int
  BY DEF Datom, OpKey
<1>2. KeyLess(index, x, y) /\ KeyLess(index, y, z)
  BY CompareIsLex DEF Before
<1>3. KeyLess(index, x, z) /\ (SameFact(x, z) => SameFact(x, y))
  <2>1. CASE index = "eavt"
    <3>1. /\ Lex(x.e, x.a, x.v, x.t, OpKey(x), y.e, y.a, y.v, y.t, OpKey(y))
          /\ Lex(y.e, y.a, y.v, y.t, OpKey(y), z.e, z.a, z.v, z.t, OpKey(z))
      BY <2>1, <1>2 DEF KeyLess
    <3>2. /\ Lex(x.e, x.a, x.v, x.t, OpKey(x), z.e, z.a, z.v, z.t, OpKey(z))
          /\ x.e = z.e /\ x.a = z.a /\ x.v = z.v => x.e = y.e /\ x.a = y.a /\ x.v = y.v
      BY <3>1, <1>1, LexIsOrder
    <3>3. KeyLess(index, x, z)
      BY <2>1, <3>2 DEF KeyLess
    <3> QED BY <3>2, <3>3 DEF SameFact
  <2>2. CASE index = "aevt"
    <3>1. /\ Lex(x.a, x.e, x.v, x.t, OpKey(x), y.a, y.e, y.v, y.t, OpKey(y))
          /\ Lex(y.a, y.e, y.v, y.t, OpKey(y), z.a, z.e, z.v, z.t, OpKey(z))
      BY <2>2, <1>2 DEF KeyLess
    <3>2. /\ Lex(x.a, x.e, x.v, x.t, OpKey(x), z.a, z.e, z.v, z.t, OpKey(z))
          /\ x.a = z.a /\ x.e = z.e /\ x.v = z.v => x.a = y.a /\ x.e = y.e /\ x.v = y.v
      BY <3>1, <1>1, LexIsOrder
    <3>3. KeyLess(index, x, z)
      BY <2>2, <3>2 DEF KeyLess
    <3> QED BY <3>2, <3>3 DEF SameFact
  <2>3. CASE index = "avet"
    <3>1. /\ Lex(x.a, x.v, x.e, x.t, OpKey(x), y.a, y.v, y.e, y.t, OpKey(y))
          /\ Lex(y.a, y.v, y.e, y.t, OpKey(y), z.a, z.v, z.e, z.t, OpKey(z))
      BY <2>3, <1>2 DEF KeyLess
    <3>2. /\ Lex(x.a, x.v, x.e, x.t, OpKey(x), z.a, z.v, z.e, z.t, OpKey(z))
          /\ x.a = z.a /\ x.v = z.v /\ x.e = z.e => x.a = y.a /\ x.v = y.v /\ x.e = y.e
      BY <3>1, <1>1, LexIsOrder
    <3>3. KeyLess(index, x, z)
      BY <2>3, <3>2 DEF KeyLess
    <3> QED BY <3>2, <3>3 DEF SameFact
  <2>4. CASE index = "vaet"
    <3>1. /\ Lex(x.v, x.a, x.e, x.t, OpKey(x), y.v, y.a, y.e, y.t, OpKey(y))
          /\ Lex(y.v, y.a, y.e, y.t, OpKey(y), z.v, z.a, z.e, z.t, OpKey(z))
      BY <2>4, <1>2 DEF KeyLess
    <3>2. /\ Lex(x.v, x.a, x.e, x.t, OpKey(x), z.v, z.a, z.e, z.t, OpKey(z))
          /\ x.v = z.v /\ x.a = z.a /\ x.e = z.e => x.v = y.v /\ x.a = y.a /\ x.e = y.e
      BY <3>1, <1>1, LexIsOrder
    <3>3. KeyLess(index, x, z)
      BY <2>4, <3>2 DEF KeyLess
    <3> QED BY <3>2, <3>3 DEF SameFact
  <2> QED BY <2>1, <2>2, <2>3, <2>4 DEF Indexes
<1> QED BY <1>3, CompareIsLex DEF Before

\* It is a strict total order.
LEMMA BeforeIsTotal ==
  ASSUME NEW index \in Indexes, NEW x \in Datom, NEW y \in Datom
  PROVE  /\ Compare(index, x, y) \in Int
         /\ Compare(index, x, y) = 0 <=> x = y
         /\ Compare(index, x, y) > 0 <=> Before(index, y, x)
         /\ Before(index, x, y) \/ x = y \/ Before(index, y, x)
         /\ ~Before(index, x, x)
         /\ Before(index, x, y) => ~Before(index, y, x)
<1>1. /\ Compare(index, x, y) \in Int /\ (Compare(index, x, y) = 0 <=> x = y)
      /\ (Compare(index, x, y) < 0 <=> KeyLess(index, x, y))
      /\ (Compare(index, x, y) > 0 <=> KeyLess(index, y, x))
  BY CompareIsLex
<1>2. Compare(index, y, x) < 0 <=> KeyLess(index, y, x)
  BY CompareIsLex
<1>3. Compare(index, x, x) = 0
  BY CompareIsLex
<1> QED BY <1>1, <1>2, <1>3 DEF Before

\* The datoms of a fact are ordered by t, and a retraction before an assertion.
LEMMA BeforeOfOneFact ==
  ASSUME NEW index \in Indexes, NEW x \in Datom, NEW y \in Datom, SameFact(x, y)
  PROVE  Before(index, x, y) <=> x.t < y.t \/ (x.t = y.t /\ ~x.op /\ y.op)
<1>1. /\ x.e \in Int /\ x.a \in Int /\ x.v \in Int /\ x.t \in Int /\ x.op \in BOOLEAN
      /\ y.t \in Int /\ y.op \in BOOLEAN /\ x.e = y.e /\ x.a = y.a /\ x.v = y.v
  BY DEF Datom, SameFact
<1>2. Before(index, x, y) <=> KeyLess(index, x, y)
  BY CompareIsLex DEF Before
<1>3. KeyLess(index, x, y) <=> x.t < y.t \/ (x.t = y.t /\ OpKey(x) < OpKey(y))
  <2>1. OpKey(x) \in Int /\ OpKey(y) \in Int
    BY DEF OpKey
  <2>2. CASE index = "eavt"
    <3>1. KeyLess(index, x, y) <=> Lex(x.e, x.a, x.v, x.t, OpKey(x), y.e, y.a, y.v, y.t, OpKey(y))
      BY <2>2 DEF KeyLess
    <3> QED BY <3>1, <2>1, <1>1 DEF Lex
  <2>3. CASE index = "aevt"
    <3>1. KeyLess(index, x, y) <=> Lex(x.a, x.e, x.v, x.t, OpKey(x), y.a, y.e, y.v, y.t, OpKey(y))
      BY <2>3 DEF KeyLess
    <3> QED BY <3>1, <2>1, <1>1 DEF Lex
  <2>4. CASE index = "avet"
    <3>1. KeyLess(index, x, y) <=> Lex(x.a, x.v, x.e, x.t, OpKey(x), y.a, y.v, y.e, y.t, OpKey(y))
      BY <2>4 DEF KeyLess
    <3> QED BY <3>1, <2>1, <1>1 DEF Lex
  <2>5. CASE index = "vaet"
    <3>1. KeyLess(index, x, y) <=> Lex(x.v, x.a, x.e, x.t, OpKey(x), y.v, y.a, y.e, y.t, OpKey(y))
      BY <2>5 DEF KeyLess
    <3> QED BY <3>1, <2>1, <1>1 DEF Lex
  <2> QED BY <2>2, <2>3, <2>4, <2>5 DEF Indexes
<1>4. OpKey(x) < OpKey(y) <=> ~x.op /\ y.op
  BY <1>1 DEF OpKey
<1> QED BY <1>2, <1>3, <1>4

\* A sequence in the order of an index, none twice.
Sorted(index, z) == \A i, j \in DOMAIN z : i < j => Before(index, z[i], z[j])

\* A sequence appended to one that sorts before it.
LEMMA AppendSorted ==
  ASSUME NEW index \in Indexes, NEW x \in Seq(Datom), NEW y \in Seq(Datom),
         Sorted(index, x), Sorted(index, y),
         \A i \in 1..Len(x), j \in 1..Len(y) : Before(index, x[i], y[j])
  PROVE  /\ x \o y \in Seq(Datom) /\ Sorted(index, x \o y)
         /\ Range(x \o y) = Range(x) \cup Range(y)
<1> DEFINE z == x \o y
           m == Len(x)
           n == Len(y)
<1>1. /\ z \in Seq(Datom) /\ Len(z) = m + n /\ m \in Nat /\ n \in Nat
      /\ \A i \in 1..(m + n) : z[i] = IF i <= m THEN x[i] ELSE y[i - m]
      /\ DOMAIN z = 1..(m + n) /\ DOMAIN x = 1..m /\ DOMAIN y = 1..n
  <2>1. /\ z \in Seq(Datom) /\ Len(z) = m + n /\ m \in Nat /\ n \in Nat
        /\ \A i \in 1..(m + n) : z[i] = IF i <= m THEN x[i] ELSE y[i - m]
    BY ConcatProperties
  <2>2. DOMAIN x = 1..m /\ DOMAIN y = 1..n
    OBVIOUS
  <2> HIDE DEF z, m, n
  <2> QED BY <2>1, <2>2
<1>2. \A i \in 1..m, j \in 1..n : Before(index, x[i], y[j])
  OBVIOUS
<1> HIDE DEF z, m, n
<1>3. Sorted(index, z)
  <2> SUFFICES ASSUME NEW i \in 1..(m + n), NEW j \in 1..(m + n), i < j
               PROVE  Before(index, z[i], z[j])
    BY <1>1 DEF Sorted
  <2>1. CASE j <= m
    <3>1. i \in 1..m /\ j \in 1..m /\ i <= m
      BY ONLY <2>1, <1>1, i \in 1..(m + n), j \in 1..(m + n), i < j
    <3>2. z[i] = x[i] /\ z[j] = x[j]
      BY ONLY <1>1, <2>1, <3>1, i \in 1..(m + n), j \in 1..(m + n)
    <3>3. Before(index, x[i], x[j])
      BY <3>1, <1>1 DEF Sorted
    <3> QED BY ONLY <3>2, <3>3
  <2>2. CASE i <= m /\ ~ j <= m
    <3>1. i \in 1..m /\ j - m \in 1..n
      BY <2>2, <1>1
    <3> QED BY <3>1, <2>2, <1>1, <1>2
  <2>3. CASE ~ i <= m
    <3>1. i - m \in 1..n /\ j - m \in 1..n /\ i - m < j - m /\ ~ j <= m
      BY <2>3, <1>1
    <3> QED BY <3>1, <2>3, <1>1 DEF Sorted
  <2> QED BY <2>1, <2>2, <2>3
<1>4. ASSUME NEW d \in Range(z) PROVE d \in Range(x) \cup Range(y)
  <2>1. PICK i \in 1..(m + n) : d = z[i]
    BY <1>1, <1>4 DEF Range
  <2>2. CASE i <= m
    <3>1. i \in DOMAIN x /\ d = x[i]
      BY <2>1, <2>2, <1>1
    <3> QED BY <3>1 DEF Range
  <2>3. CASE ~ i <= m
    <3>1. i - m \in DOMAIN y /\ d = y[i - m]
      BY <2>1, <2>3, <1>1
    <3> QED BY <3>1 DEF Range
  <2> QED BY <2>2, <2>3
<1>5. ASSUME NEW d \in Range(x) PROVE d \in Range(z)
  <2>1. PICK i \in 1..m : d = x[i]
    BY <1>1, <1>5 DEF Range
  <2>2. i \in DOMAIN z /\ z[i] = d
    BY <2>1, <1>1
  <2> QED BY <2>2 DEF Range
<1>6. ASSUME NEW d \in Range(y) PROVE d \in Range(z)
  <2>1. PICK i \in 1..n : d = y[i]
    BY <1>1, <1>6 DEF Range
  <2>2. i + m \in DOMAIN z /\ z[i + m] = d
    <3>1. i + m \in 1..(m + n) /\ ~ (i + m <= m) /\ (i + m) - m = i
      BY <1>1
    <3> QED BY <3>1, <2>1, <1>1
  <2> QED BY <2>2 DEF Range
<1> QED BY <1>1, <1>3, <1>4, <1>5, <1>6 DEF z

\* A stretch of a sorted sequence is sorted, and holds what lies in it.
LEMMA RunSorted ==
  ASSUME NEW index \in Indexes, NEW q \in Seq(Datom), Sorted(index, q),
         NEW a \in 1..(Len(q) + 1), NEW b \in 0..Len(q), a <= b + 1
  PROVE  /\ SubSeq(q, a, b) \in Seq(Datom) /\ Sorted(index, SubSeq(q, a, b))
         /\ Len(SubSeq(q, a, b)) = b - a + 1
         /\ Range(SubSeq(q, a, b)) = {q[i] : i \in a..b}
         /\ \A i \in 1..(b - a + 1) : SubSeq(q, a, b)[i] = q[a + i - 1] /\ a + i - 1 \in a..b
<1> DEFINE r == SubSeq(q, a, b)
           n == b - a + 1
<1>1. r \in Seq(Datom) /\ Len(r) = n /\ \A i \in 1..n : r[i] = q[a + i - 1]
  BY Run
<1>2. n \in Nat /\ \A i \in 1..n : a + i - 1 \in a..b /\ a + i - 1 \in 1..Len(q)
  OBVIOUS
<1>3. \A i \in a..b : i - a + 1 \in 1..n /\ a + (i - a + 1) - 1 = i
  OBVIOUS
<1>4. DOMAIN q = 1..Len(q)
  OBVIOUS
<1> HIDE DEF r, n
<1>5. DOMAIN r = 1..n
  BY <1>1
<1>6. Sorted(index, r)
  <2> SUFFICES ASSUME NEW i \in 1..n, NEW j \in 1..n, i < j PROVE Before(index, r[i], r[j])
    BY <1>5 DEF Sorted
  <2>1. a + i - 1 < a + j - 1
    BY <1>2
  <2> QED BY <2>1, <1>1, <1>2, <1>4 DEF Sorted
<1>7. Range(r) = {q[i] : i \in a..b}
  <2>1. ASSUME NEW d \in Range(r) PROVE d \in {q[i] : i \in a..b}
    <3>1. PICK i \in 1..n : d = r[i]
      BY <2>1, <1>5 DEF Range
    <3> QED BY <3>1, <1>1, <1>2
  <2>2. ASSUME NEW i \in a..b PROVE q[i] \in Range(r)
    <3>1. i - a + 1 \in 1..n /\ r[i - a + 1] = q[i]
      BY <1>1, <1>3
    <3> QED BY <3>1, <1>5 DEF Range
  <2> QED BY <2>1, <2>2
<1> QED BY <1>1, <1>2, <1>6, <1>7 DEF r, n

\* In an index the datoms of a fact lie together.
LEMMA SortedIsHistory ==
  ASSUME NEW index \in Indexes, NEW q \in Seq(Datom), Sorted(index, q)
  PROVE  History(Datom, q)
<1>1. \A d \in Datom : d.t \in Int /\ d.op \in BOOLEAN
  BY DEF Datom
<1>2. Grouped(q)
  <2> SUFFICES ASSUME NEW i \in 1..Len(q), NEW j \in 1..Len(q), NEW k \in 1..Len(q),
                      i < j, j < k, SameFact(q[i], q[k])
               PROVE  SameFact(q[i], q[j])
    BY DEF Grouped
  <2>1. q[i] \in Datom /\ q[j] \in Datom /\ q[k] \in Datom
    OBVIOUS
  <2>2. Before(index, q[i], q[j]) /\ Before(index, q[j], q[k])
    BY DEF Sorted
  <2> QED BY <2>1, <2>2, BeforeIsOrder
<1> QED BY <1>1, <1>2 DEF History

\* Sorted sequences of the same datoms are equal.
LEMMA SortedUnique ==
  ASSUME NEW index \in Indexes, NEW x \in Seq(Datom), NEW y \in Seq(Datom),
         Sorted(index, x), Sorted(index, y), Range(x) = Range(y)
  PROVE  x = y
<1> DEFINE m == Len(x)
           n == Len(y)
<1>1. /\ m \in Nat /\ n \in Nat /\ DOMAIN x = 1..m /\ DOMAIN y = 1..n
      /\ \A i \in 1..m : x[i] \in Datom
      /\ \A i \in 1..n : y[i] \in Datom
  OBVIOUS
<1> HIDE DEF m, n
<1>2. /\ \A i \in 1..m : \E j \in 1..n : y[j] = x[i]
      /\ \A i \in 1..n : \E j \in 1..m : x[j] = y[i]
  BY <1>1 DEF Range
<1> DEFINE S == {i \in Nat : \A j \in 1..i : j \in 1..m /\ j \in 1..n => x[j] = y[j]}
<1>3. ASSUME NEW i \in Nat, i \in 1..m, i \in 1..n,
             \A j \in 1..(i - 1) : j \in 1..m /\ j \in 1..n => x[j] = y[j]
      PROVE  x[i] = y[i]
  <2>1. \A j \in 1..(i - 1) : j \in 1..m /\ j \in 1..n /\ x[j] = y[j]
    BY <1>3, <1>1
  <2>2. CASE Before(index, x[i], y[i])
    <3>1. PICK j \in 1..n : y[j] = x[i]
      BY <1>2, <1>3
    <3>2. CASE j < i
      <4>1. j \in 1..(i - 1)
        BY <3>2
      <4>2. Before(index, x[j], x[i]) /\ x[j] = x[i]
        BY <4>1, <2>1, <3>1, <3>2, <1>1, <1>3 DEF Sorted
      <4> QED BY <4>2, <1>1, <1>3, BeforeIsTotal
    <3>3. CASE j = i
      BY <3>1, <3>3, <2>2, <1>1, <1>3, BeforeIsTotal
    <3>4. CASE i < j
      <4>1. Before(index, y[i], y[j])
        BY <3>4, <1>1, <1>3 DEF Sorted
      <4> QED BY <4>1, <3>1, <2>2, <1>1, <1>3, BeforeIsTotal
    <3> QED BY <3>2, <3>3, <3>4
  <2>3. CASE Before(index, y[i], x[i])
    <3>1. PICK j \in 1..m : x[j] = y[i]
      BY <1>2, <1>3
    <3>2. CASE j < i
      <4>1. j \in 1..(i - 1)
        BY <3>2
      <4>2. Before(index, y[j], y[i]) /\ y[j] = y[i]
        BY <4>1, <2>1, <3>1, <3>2, <1>1, <1>3 DEF Sorted
      <4> QED BY <4>2, <1>1, <1>3, BeforeIsTotal
    <3>3. CASE j = i
      BY <3>1, <3>3, <2>3, <1>1, <1>3, BeforeIsTotal
    <3>4. CASE i < j
      <4>1. Before(index, x[i], x[j])
        BY <3>4, <1>1, <1>3 DEF Sorted
      <4> QED BY <4>1, <3>1, <2>3, <1>1, <1>3, BeforeIsTotal
    <3> QED BY <3>2, <3>3, <3>4
  <2> QED BY <2>2, <2>3, <1>1, <1>3, BeforeIsTotal
<1>4. ASSUME NEW k \in Nat PROVE \A i \in 0..k : i \in S
  <2>1. 0 \in S
    OBVIOUS
  <2>2. ASSUME NEW i \in 1..k, i - 1 \in S PROVE i \in S
    <3> SUFFICES ASSUME NEW j \in 1..i, j \in 1..m, j \in 1..n PROVE x[j] = y[j]
      OBVIOUS
    <3>1. CASE j = i
      BY <3>1, <2>2, <1>3
    <3>2. CASE j # i
      <4>1. j \in 1..(i - 1)
        BY <3>2
      <4> QED BY <4>1, <2>2
    <3> QED BY <3>1, <3>2
  <2> HIDE DEF S
  <2> QED BY <2>1, <2>2, UpTo
<1>5. \A i \in 1..m : i \in 1..n => x[i] = y[i]
  <2> SUFFICES ASSUME NEW i \in 1..m, i \in 1..n PROVE x[i] = y[i]
    OBVIOUS
  <2>1. i \in Nat /\ i \in 0..i /\ i \in 1..i
    BY <1>1
  <2>2. i \in S
    <3> HIDE DEF S
    <3> QED BY <2>1, <1>4
  <2> QED BY <2>1, <2>2
<1>6. ~ m < n
  <2> SUFFICES ASSUME m < n PROVE FALSE
    OBVIOUS
  <2>1. n \in 1..n /\ n \notin 1..m
    BY <1>1
  <2>2. PICK j \in 1..m : x[j] = y[n]
    BY <2>1, <1>2
  <2>3. j \in 1..n /\ j < n /\ x[j] = y[j]
    BY <2>1, <1>1, <1>5
  <2>4. Before(index, y[j], y[n])
    BY <2>1, <2>3, <1>1 DEF Sorted
  <2> QED BY <2>1, <2>2, <2>3, <2>4, <1>1, BeforeIsTotal
<1>7. ~ n < m
  <2> SUFFICES ASSUME n < m PROVE FALSE
    OBVIOUS
  <2>1. m \in 1..m /\ m \notin 1..n
    BY <1>1
  <2>2. PICK j \in 1..n : y[j] = x[m]
    BY <2>1, <1>2
  <2>3. j \in 1..m /\ j < m /\ x[j] = y[j]
    BY <2>1, <1>1, <1>5
  <2>4. Before(index, x[j], x[m])
    BY <2>1, <2>3, <1>1 DEF Sorted
  <2> QED BY <2>1, <2>2, <2>3, <2>4, <1>1, BeforeIsTotal
<1>8. m = n
  BY <1>1, <1>6, <1>7
<1> QED BY <1>5, <1>8, SeqEqual DEF m, n

\* What comes before place i of a sequence, and that all of R sorts before the rest.
Firsts(q, i) == {q[a] : a \in 1..(i - 1)}
Ahead(index, R, q, i) == \A d \in R : \A a \in i..Len(q) : Before(index, d, q[a])

\* A stretch appended to what sorts before it.
LEMMA AppendRun ==
  ASSUME NEW index \in Indexes, NEW out \in Seq(Datom), Sorted(index, out),
         NEW q \in Seq(Datom), Sorted(index, q),
         NEW i \in 1..(Len(q) + 1), NEW b \in 0..Len(q), i <= b + 1, Ahead(index, Range(out), q, i)
  PROVE  /\ out \o SubSeq(q, i, b) \in Seq(Datom) /\ Sorted(index, out \o SubSeq(q, i, b))
         /\ Range(out \o SubSeq(q, i, b)) = Range(out) \cup {q[a] : a \in i..b}
<1> DEFINE r == SubSeq(q, i, b)
           n == b - i + 1
<1>1. /\ r \in Seq(Datom) /\ Sorted(index, r) /\ Len(r) = n /\ Range(r) = {q[a] : a \in i..b}
      /\ \A k \in 1..n : r[k] = q[i + k - 1] /\ i + k - 1 \in i..b
  BY RunSorted
<1>2. \A k \in i..b : k \in i..Len(q)
  OBVIOUS
<1> HIDE DEF r, n
<1>3. \A k \in 1..Len(out), l \in 1..Len(r) : Before(index, out[k], r[l])
  <2> SUFFICES ASSUME NEW k \in 1..Len(out), NEW l \in 1..n PROVE Before(index, out[k], r[l])
    BY <1>1
  <2>1. out[k] \in Range(out)
    BY DEF Range
  <2> QED BY <2>1, <1>1, <1>2 DEF Ahead
<1>4. /\ out \o r \in Seq(Datom) /\ Sorted(index, out \o r)
      /\ Range(out \o r) = Range(out) \cup Range(r)
  BY <1>1, <1>3, AppendSorted
<1>5. Range(r) = {q[a] : a \in i..b}
  BY <1>1
<1> QED BY <1>4, <1>5 DEF r

\* One more datom after what sorts before it.
LEMMA PushSorted ==
  ASSUME NEW index \in Indexes, NEW out \in Seq(Datom), Sorted(index, out),
         NEW d \in Datom, \A x \in Range(out) : Before(index, x, d)
  PROVE  /\ Append(out, d) \in Seq(Datom) /\ Sorted(index, Append(out, d))
         /\ Range(Append(out, d)) = Range(out) \cup {d}
<1> DEFINE o == <<d>>
<1>1. /\ o \in Seq(Datom) /\ Len(o) = 1 /\ o[1] = d /\ DOMAIN o = 1..1
      /\ Append(out, d) = out \o o
  BY AppendIsConcat
<1> HIDE DEF o
<1>2. Sorted(index, o) /\ Range(o) = {d}
  <2>1. \A i, j \in 1..1 : ~ i < j
    OBVIOUS
  <2> QED BY <1>1, <2>1 DEF Sorted, Range
<1>3. \A i \in 1..Len(out), j \in 1..Len(o) : Before(index, out[i], o[j])
  <2> SUFFICES ASSUME NEW i \in 1..Len(out) PROVE Before(index, out[i], d)
    BY <1>1
  <2>1. out[i] \in Range(out)
    BY DEF Range
  <2> QED BY <2>1
<1> QED BY <1>1, <1>2, <1>3, AppendSorted

\* One step more of q.
LEMMA FirstsGrow ==
  ASSUME NEW q, NEW i \in Nat \ {0} PROVE Firsts(q, i + 1) = Firsts(q, i) \cup {q[i]}
<1>1. 1..((i + 1) - 1) = (1..(i - 1)) \cup {i}
  OBVIOUS
<1> QED BY <1>1 DEF Firsts

\* What is before the datom at i is before all that follow it; it is before what follows.
LEMMA AheadStep ==
  ASSUME NEW index \in Indexes, NEW q \in Seq(Datom), Sorted(index, q), NEW i \in 1..Len(q)
  PROVE  /\ \A R : Ahead(index, R, q, i) => Ahead(index, R, q, i + 1)
         /\ Ahead(index, {q[i]}, q, i + 1)
         /\ \A d \in Datom : Before(index, d, q[i]) => Ahead(index, {d}, q, i)
<1>1. DOMAIN q = 1..Len(q) /\ Len(q) \in Nat /\ \A a \in 1..Len(q) : q[a] \in Datom
  OBVIOUS
<1> DEFINE n == Len(q)
<1>2. /\ \A a \in (i + 1)..n : a \in i..n /\ a \in 1..n /\ i < a
      /\ \A a \in i..n : a \in 1..n /\ (a = i \/ i < a)
  BY <1>1
<1>3. \A a \in (i + 1)..n : Before(index, q[i], q[a])
  BY <1>1, <1>2 DEF Sorted
<1>4. ASSUME NEW d \in Datom, Before(index, d, q[i]), NEW a \in i..n PROVE Before(index, d, q[a])
  <2>1. CASE a = i
    BY <2>1, <1>4
  <2>2. CASE i < a
    <3>1. Before(index, q[i], q[a]) /\ q[a] \in Datom /\ q[i] \in Datom
      BY <2>2, <1>1, <1>2 DEF Sorted
    <3> QED BY <3>1, <1>4, BeforeIsOrder
  <2> QED BY <2>1, <2>2, <1>2
<1> QED BY <1>2, <1>3, <1>4 DEF Ahead

\* How far a sorted union has come: what is out is sorted, and before what is left.
Unions(x, y) == [i : 1..(Len(x) + 1), j : 1..(Len(y) + 1), out : Seq(Datom)]
UnionAt(index, x, y, s) ==
  /\ s \in Unions(x, y) /\ Sorted(index, s.out)
  /\ Range(s.out) = Firsts(x, s.i) \cup Firsts(y, s.j)
  /\ Ahead(index, Range(s.out), x, s.i) /\ Ahead(index, Range(s.out), y, s.j)
Exhausted(x, y, s) == s.i > Len(x) \/ s.j > Len(y)

\* One step of the loop, which takes a datom while both have more.
LEMMA UnionSteps ==
  ASSUME NEW index \in Indexes, NEW x \in Seq(Datom), NEW y \in Seq(Datom),
         Sorted(index, x), Sorted(index, y), NEW s, UnionAt(index, x, y, s)
  PROVE  LET z == UnionStep(index, x, y, s) IN
         /\ UnionAt(index, x, y, z)
         /\ IF Exhausted(x, y, s) THEN z = s ELSE z.i + z.j > s.i + s.j
<1> DEFINE z == UnionStep(index, x, y, s)
           i == s.i
           j == s.j
           R == Range(s.out)
           c == Compare(index, x[i], y[j])
<1>1. /\ i \in 1..(Len(x) + 1) /\ j \in 1..(Len(y) + 1) /\ s.out \in Seq(Datom)
      /\ Sorted(index, s.out) /\ R = Firsts(x, i) \cup Firsts(y, j)
      /\ Ahead(index, R, x, i) /\ Ahead(index, R, y, j)
      /\ i \in Nat \ {0} /\ j \in Nat \ {0} /\ Len(x) \in Nat /\ Len(y) \in Nat
  BY DEF UnionAt, Unions
<1>2. CASE Exhausted(x, y, s)
  <2>1. z = s
    BY <1>2 DEF UnionStep, Exhausted
  <2> HIDE DEF z
  <2> QED BY <1>2, <2>1 DEF z
<1>3. CASE ~Exhausted(x, y, s)
  <2>1. /\ i \in 1..Len(x) /\ j \in 1..Len(y) /\ i + 1 \in 1..(Len(x) + 1)
        /\ j + 1 \in 1..(Len(y) + 1)
    BY <1>1, <1>3 DEF Exhausted
  <2>2. x[i] \in Datom /\ y[j] \in Datom
    BY <2>1
  <2>3. /\ i \in i..Len(x) /\ j \in j..Len(y)
    BY <2>1
  <2>4. /\ \A d \in R : Before(index, d, x[i]) /\ Before(index, d, y[j])
    BY <2>3, <1>1 DEF Ahead
  <2>5. z = [i   |-> IF c <= 0 THEN i + 1 ELSE i,
             j   |-> IF c >= 0 THEN j + 1 ELSE j,
             out |-> Append(s.out, IF c <= 0 THEN x[i] ELSE y[j])]
    BY <1>3 DEF UnionStep, UnionTake, Exhausted
  <2>6. /\ c \in Int /\ (c = 0 <=> x[i] = y[j]) /\ (c > 0 <=> Before(index, y[j], x[i]))
        /\ (c < 0 <=> Before(index, x[i], y[j]))
    <3>1. /\ c \in Int /\ (c = 0 <=> x[i] = y[j]) /\ (c > 0 <=> Before(index, y[j], x[i]))
      <4> HIDE DEF z, i, j, R
      <4> QED BY <2>2, BeforeIsTotal
    <3>2. c < 0 <=> Before(index, x[i], y[j])
      BY DEF Before
    <3> QED BY <3>1, <3>2
  <2>7. /\ Firsts(x, i + 1) = Firsts(x, i) \cup {x[i]}
        /\ Firsts(y, j + 1) = Firsts(y, j) \cup {y[j]}
        /\ Ahead(index, R, x, i + 1) /\ Ahead(index, {x[i]}, x, i + 1)
        /\ Ahead(index, R, y, j + 1) /\ Ahead(index, {y[j]}, y, j + 1)
        /\ Before(index, x[i], y[j]) => Ahead(index, {x[i]}, y, j)
        /\ Before(index, y[j], x[i]) => Ahead(index, {y[j]}, x, i)
    BY <1>1, <2>1, <2>2, FirstsGrow, AheadStep
  <2>8. /\ \A d \in {x[i], y[j]} : /\ Append(s.out, d) \in Seq(Datom)
                                   /\ Sorted(index, Append(s.out, d))
                                   /\ Range(Append(s.out, d)) = R \cup {d}
    BY <1>1, <2>2, <2>4, PushSorted
  <2>9. \A d : \A q : \A a : Ahead(index, R, q, a) /\ Ahead(index, {d}, q, a)
                              => Ahead(index, R \cup {d}, q, a)
    BY DEF Ahead
  <2> HIDE DEF c, R, i, j
  <2>10. CASE c < 0
    <3>1. z = [i |-> i + 1, j |-> j, out |-> Append(s.out, x[i])]
      <4>1. c <= 0 /\ ~ c >= 0
        BY <2>6, <2>10
      <4> HIDE DEF z
      <4> QED BY <4>1, <2>5
    <3>2. Before(index, x[i], y[j])
      BY <2>6, <2>10
    <3> HIDE DEF z
    <3>3. z.i = i + 1 /\ z.j = j /\ z.out = Append(s.out, x[i])
      BY <3>1
    <3>4. z \in Unions(x, y)
      BY <3>1, <2>1, <1>1, <2>8 DEF Unions
    <3>5. /\ Range(z.out) = R \cup {x[i]} /\ Sorted(index, z.out)
          /\ R \cup {x[i]} = Firsts(x, i + 1) \cup Firsts(y, j)
      BY <3>3, <2>8, <2>7, <1>1
    <3>6. Ahead(index, R \cup {x[i]}, x, i + 1) /\ Ahead(index, R \cup {x[i]}, y, j)
      BY <3>2, <2>7, <2>9, <1>1
    <3>7. UnionAt(index, x, y, z)
      BY <3>3, <3>4, <3>5, <3>6 DEF UnionAt
    <3>8. z.i + z.j > i + j
      BY <3>3, <1>1
    <3> QED BY <1>3, <3>7, <3>8 DEF z, i, j
  <2>11. CASE c = 0
    <3>1. z = [i |-> i + 1, j |-> j + 1, out |-> Append(s.out, x[i])]
      BY <2>5, <2>6, <2>11
    <3>2. x[i] = y[j]
      BY <2>6, <2>11
    <3> HIDE DEF z
    <3>3. z.i = i + 1 /\ z.j = j + 1 /\ z.out = Append(s.out, x[i])
      BY <3>1
    <3>4. z \in Unions(x, y)
      BY <3>1, <2>1, <1>1, <2>8 DEF Unions
    <3>5. /\ Range(z.out) = R \cup {x[i]} /\ Sorted(index, z.out)
          /\ R \cup {x[i]} = Firsts(x, i + 1) \cup Firsts(y, j + 1)
      BY <3>2, <3>3, <2>8, <2>7, <1>1
    <3>6. Ahead(index, R \cup {x[i]}, x, i + 1) /\ Ahead(index, R \cup {x[i]}, y, j + 1)
      BY <3>2, <2>7, <2>9, <1>1
    <3>7. UnionAt(index, x, y, z)
      BY <3>3, <3>4, <3>5, <3>6 DEF UnionAt
    <3>8. z.i + z.j > i + j
      BY <3>3, <1>1
    <3> QED BY <1>3, <3>7, <3>8 DEF z, i, j
  <2>12. CASE c > 0
    <3>1. z = [i |-> i, j |-> j + 1, out |-> Append(s.out, y[j])]
      <4>1. ~ c <= 0 /\ c >= 0
        BY <2>6, <2>12
      <4> HIDE DEF z
      <4> QED BY <4>1, <2>5
    <3>2. Before(index, y[j], x[i])
      BY <2>6, <2>12
    <3> HIDE DEF z
    <3>3. z.i = i /\ z.j = j + 1 /\ z.out = Append(s.out, y[j])
      BY <3>1
    <3>4. z \in Unions(x, y)
      BY <3>1, <2>1, <1>1, <2>8 DEF Unions
    <3>5. /\ Range(z.out) = R \cup {y[j]} /\ Sorted(index, z.out)
          /\ R \cup {y[j]} = Firsts(x, i) \cup Firsts(y, j + 1)
      BY <3>3, <2>8, <2>7, <1>1
    <3>6. Ahead(index, R \cup {y[j]}, x, i) /\ Ahead(index, R \cup {y[j]}, y, j + 1)
      BY <3>2, <2>7, <2>9, <1>1
    <3>7. UnionAt(index, x, y, z)
      BY <3>3, <3>4, <3>5, <3>6 DEF UnionAt
    <3>8. z.i + z.j > i + j
      BY <3>3, <1>1
    <3> QED BY <1>3, <3>7, <3>8 DEF z, i, j
  <2> QED BY <2>6, <2>10, <2>11, <2>12
<1> QED BY <1>2, <1>3

\* sortedUnion: of two sorted sequences it is the sorted sequence of the datoms of
\* both, each once.
THEOREM UnionIsSorted ==
  ASSUME NEW index \in Indexes, NEW x \in Seq(Datom), NEW y \in Seq(Datom),
         Sorted(index, x), Sorted(index, y)
  PROVE  /\ SortedUnion(index, x, y) \in Seq(Datom)
         /\ Sorted(index, SortedUnion(index, x, y))
         /\ Range(SortedUnion(index, x, y)) = Range(x) \cup Range(y)
<1> DEFINE k == Len(x) + Len(y)
           X == Unions(x, y)
           start == [i |-> 1, j |-> 1, out |-> <<>>]
           Step(s) == UnionStep(index, x, y, s)
           At(n) == {s \in X : /\ UnionAt(index, x, y, s)
                               /\ (Exhausted(x, y, s) \/ n + 2 <= s.i + s.j)}
           G == [n \in 0..k |-> At(n)]
           F == [p \in (1..k) \X X |-> Step(p[2])]
           IsAfter(h) == h = [n \in 0..k |-> IF n = 0 THEN start ELSE Step(h[n - 1])]
           a == CHOOSE h : IsAfter(h)
           end == a[k]
<1>1. k \in Nat /\ Len(x) \in Nat /\ Len(y) \in Nat /\ x \in Seq(Datom) /\ y \in Seq(Datom)
  OBVIOUS
<1>2. SortedUnion(index, x, y) =
        end.out \o SubSeq(x, end.i, Len(x)) \o SubSeq(y, end.j, Len(y))
  BY DEF SortedUnion, UnionRest
<1>12. k = Len(x) + Len(y)
  OBVIOUS
<1> HIDE DEF k
<1>3. \A n \in 1..k : n \in 0..k /\ n # 0 /\ n - 1 \in 0..k /\ n \in Nat
  BY <1>1
<1>4. ASSUME NEW n \in 1..k, NEW s \in At(n - 1) PROVE Step(s) \in At(n)
  <2> DEFINE z == UnionStep(index, x, y, s)
  <2>1. UnionAt(index, x, y, s) /\ (Exhausted(x, y, s) \/ (n - 1) + 2 <= s.i + s.j)
    OBVIOUS
  <2>2. /\ UnionAt(index, x, y, z)
        /\ IF Exhausted(x, y, s) THEN z = s ELSE z.i + z.j > s.i + s.j
    <3> HIDE DEF At, G, F
    <3> QED BY <2>1, UnionSteps
  <2>3. z \in X /\ s \in X
    BY <2>2, <2>1 DEF UnionAt
  <2> HIDE DEF z
  <2>4. z.i \in Nat /\ z.j \in Nat /\ s.i \in Nat /\ s.j \in Nat /\ n \in Nat
    <3> HIDE DEF At, G, F
    <3> QED BY <2>3, <1>1, <1>3 DEF Unions
  <2>5. Exhausted(x, y, z) \/ n + 2 <= z.i + z.j
    <3>1. CASE Exhausted(x, y, s)
      BY <3>1, <2>2
    <3>2. CASE ~Exhausted(x, y, s)
      <4>1. (n - 1) + 2 <= s.i + s.j /\ z.i + z.j > s.i + s.j
        BY <3>2, <2>1, <2>2
      <4> HIDE DEF At, G, F
      <4> QED BY <4>1, <2>4
    <3> QED BY <3>1, <3>2
  <2>6. z \in At(n)
    BY <2>2, <2>3, <2>5
  <2> QED BY <2>6 DEF z
<1>5. start \in At(0)
  <2>1. /\ start.i = 1 /\ start.j = 1 /\ start.out = <<>> /\ start \in X /\ Range(start.out) = {}
        /\ Sorted(index, start.out)
    BY <1>1 DEF Unions, Range, Sorted
  <2>2. Firsts(x, 1) = {} /\ Firsts(y, 1) = {}
    BY DEF Firsts
  <2>3. UnionAt(index, x, y, start)
    <3> HIDE DEF start
    <3> QED BY <2>1, <2>2 DEF UnionAt, Ahead
  <2>4. 0 + 2 <= 1 + 1
    OBVIOUS
  <2> HIDE DEF start
  <2> QED BY <2>1, <2>3, <2>4
<1>6. \A n \in 0..k : G[n] = At(n) /\ At(n) \subseteq X
  OBVIOUS
<1> HIDE DEF Step, X, start
<1>7. ASSUME NEW n \in 1..k, NEW s \in X PROVE F[n, s] = Step(s)
  <2>1. <<n, s>> \in (1..k) \X X
    OBVIOUS
  <2> QED BY <2>1
<1>8. G \in [0..k -> SUBSET X]
  BY <1>6
<1> HIDE DEF F, At, G
<1>9. \E h : IsAfter(h)
  <2>1. \A n \in 1..k : \A s \in G[n - 1] : F[n, s] \in G[n]
    <3> SUFFICES ASSUME NEW n \in 1..k, NEW s \in G[n - 1] PROVE F[n, s] \in G[n]
      OBVIOUS
    <3>1. n - 1 \in 0..k /\ n \in 0..k /\ s \in At(n - 1) /\ s \in X
      BY <1>3, <1>6
    <3>2. F[n, s] = Step(s) /\ Step(s) \in At(n)
      BY <3>1, <1>4, <1>7
    <3> QED BY <3>1, <3>2, <1>6
  <2>2. start \in G[0]
    BY <1>1, <1>5, <1>6
  <2>3. PICK h \in [0..k -> X] : IsFold(h, F, start, k) /\ \A n \in 0..k : h[n] \in G[n]
    BY <1>1, <1>8, <2>1, <2>2, FoldExists
  <2>4. \A n \in 0..k : n # 0 => F[n, h[n - 1]] = Step(h[n - 1])
    <3>1. \A n \in 0..k : n # 0 => n \in 1..k
      BY <1>1
    <3> QED BY <3>1, <1>3, <1>7
  <2>5. IsAfter(h)
    BY <2>3, <2>4 DEF IsFold
  <2> QED BY <2>5
<1>10. IsAfter(a)
  BY <1>9
<1> HIDE DEF a
<1>11. end \in At(k)
  <2> DEFINE S == {n \in 0..k : a[n] \in At(n)}
  <2>1. 0 \in S
    <3>1. 0 \in 0..k
      BY <1>1
    <3> QED BY <3>1, <1>5, <1>10
  <2>2. ASSUME NEW n \in 1..k, n - 1 \in S PROVE n \in S
    <3>1. a[n] = Step(a[n - 1])
      BY <1>3, <1>10
    <3>2. a[n] \in At(n)
      BY <3>1, <2>2, <1>4
    <3> QED BY <1>3, <3>2
  <2>3. \A n \in 0..k : n \in S
    <3> HIDE DEF S
    <3> QED BY <2>1, <2>2, <1>1, UpTo
  <2> QED BY <2>3, <1>1
<1>13. UnionAt(index, x, y, end) /\ (Exhausted(x, y, end) \/ k + 2 <= end.i + end.j)
  BY <1>11 DEF At
<1> HIDE DEF end, IsAfter
<1>14. /\ end.i \in 1..(Len(x) + 1) /\ end.j \in 1..(Len(y) + 1) /\ end.out \in Seq(Datom)
       /\ Sorted(index, end.out) /\ Range(end.out) = Firsts(x, end.i) \cup Firsts(y, end.j)
       /\ Ahead(index, Range(end.out), x, end.i) /\ Ahead(index, Range(end.out), y, end.j)
  BY <1>13 DEF UnionAt, Unions
<1>15. end.i > Len(x) \/ end.j > Len(y)
  <2>1. CASE k + 2 <= end.i + end.j
    BY <2>1, <1>12, <1>14, <1>1
  <2>2. CASE Exhausted(x, y, end)
    BY <2>2 DEF Exhausted
  <2> QED BY <2>1, <2>2, <1>13
<1> DEFINE w == end.out \o SubSeq(x, end.i, Len(x))
           v == w \o SubSeq(y, end.j, Len(y))
<1>16. /\ w \in Seq(Datom) /\ Sorted(index, w)
       /\ Range(w) = Range(end.out) \cup {x[b] : b \in end.i..Len(x)}
  <2> DEFINE o == end.out
             i == end.i
             m == Len(x)
  <2>1. /\ m \in 0..Len(x) /\ i <= m + 1 /\ i \in 1..(Len(x) + 1) /\ o \in Seq(Datom)
        /\ Sorted(index, o) /\ Ahead(index, Range(o), x, i)
    BY <1>14, <1>1
  <2> HIDE DEF o, i, m
  <2>2. /\ o \o SubSeq(x, i, m) \in Seq(Datom) /\ Sorted(index, o \o SubSeq(x, i, m))
        /\ Range(o \o SubSeq(x, i, m)) = Range(o) \cup {x[b] : b \in i..m}
    BY <2>1, <1>1, AppendRun
  <2> QED BY <2>2 DEF o, i, m
<1> HIDE DEF w
<1>17. Ahead(index, Range(w), y, end.j)
  <2>1. CASE end.i > Len(x)
    <3>1. end.i..Len(x) = {}
      BY <2>1, <1>14, <1>1
    <3>2. Range(w) = Range(end.out)
      BY <3>1, <1>16
    <3> QED BY <3>2, <1>14
  <2>2. CASE end.j > Len(y)
    <3>1. end.j..Len(y) = {}
      BY <2>2, <1>14, <1>1
    <3> QED BY <3>1 DEF Ahead
  <2> QED BY <2>1, <2>2, <1>15
<1>18. /\ v \in Seq(Datom) /\ Sorted(index, v)
       /\ Range(v) = Range(w) \cup {y[b] : b \in end.j..Len(y)}
  <2> DEFINE j == end.j
             n == Len(y)
  <2>1. /\ n \in 0..Len(y) /\ j <= n + 1 /\ j \in 1..(Len(y) + 1) /\ Ahead(index, Range(w), y, j)
        /\ w \in Seq(Datom) /\ Sorted(index, w)
    BY <1>14, <1>16, <1>17, <1>1
  <2> HIDE DEF j, n, v
  <2>2. /\ w \o SubSeq(y, j, n) \in Seq(Datom) /\ Sorted(index, w \o SubSeq(y, j, n))
        /\ Range(w \o SubSeq(y, j, n)) = Range(w) \cup {y[b] : b \in j..n}
    BY <2>1, <1>1, AppendRun
  <2> QED BY <2>2 DEF j, n, v
<1>19. ASSUME NEW q \in Seq(Datom), NEW i \in 1..(Len(q) + 1)
       PROVE  Firsts(q, i) \cup {q[b] : b \in i..Len(q)} = Range(q)
  <2>1. /\ DOMAIN q = 1..Len(q) /\ Len(q) \in Nat
        /\ 1..Len(q) = (1..(i - 1)) \cup (i..Len(q))
    OBVIOUS
  <2> QED BY <2>1 DEF Firsts, Range
<1>20. Range(v) = Range(x) \cup Range(y)
  BY <1>14, <1>16, <1>18, <1>19
<1> QED BY <1>2, <1>18, <1>20 DEF v, w

\* A chunk of a scan, with any datoms.
Chunk == [datoms : Seq(Datom), whole : BOOLEAN]

\* Of sorted novelty, Through counts what is not after a datom: what follows is.
LEMMA ThroughSplits ==
  ASSUME NEW index \in Indexes, NEW q \in Seq(Datom), Sorted(index, q), NEW d \in Datom
  PROVE  LET n == Through(index, q, d) IN
         /\ n \in 0..Len(q)
         /\ \A i \in 1..n : q[i] = d \/ Before(index, q[i], d)
         /\ \A i \in (n + 1)..Len(q) : Before(index, d, q[i])
<1> DEFINE m == Len(q)
           Fits(k) == /\ \A i \in 1..k : Compare(index, q[i], d) <= 0
                      /\ k < m => Compare(index, q[k + 1], d) > 0
           Counts(k) == \A i \in 1..m : i <= k + 1 => (i <= k <=> Compare(index, q[i], d) <= 0)
           n == Through(index, q, d)
           Beyond == {i \in 1..m : Compare(index, q[i], d) > 0}
<1>1. m \in Nat /\ DOMAIN q = 1..m /\ \A i \in 1..m : q[i] \in Datom
  OBVIOUS
<1>2. n = CHOOSE k \in 0..m : Counts(k)
  BY DEF Through
<1>3. ASSUME NEW i \in 1..m
      PROVE  /\ Compare(index, q[i], d) \in Int
             /\ (Compare(index, q[i], d) > 0 <=> Before(index, d, q[i]))
             /\ (Compare(index, q[i], d) <= 0 => q[i] = d \/ Before(index, q[i], d))
  <2>1. q[i] \in Datom
    BY <1>1
  <2> HIDE DEF n, m
  <2>2. /\ Compare(index, q[i], d) \in Int /\ (Compare(index, q[i], d) = 0 <=> q[i] = d)
        /\ (Compare(index, q[i], d) > 0 <=> Before(index, d, q[i]))
    BY <2>1, BeforeIsTotal
  <2>3. Compare(index, q[i], d) < 0 <=> Before(index, q[i], d)
    BY DEF Before
  <2> QED BY <2>2, <2>3
<1> HIDE DEF m, n
<1>4. \E k \in 0..m : Fits(k)
  <2>1. CASE Beyond = {}
    <3>1. \A i \in 1..m : Compare(index, q[i], d) <= 0
      BY <2>1, <1>3
    <3>2. m \in 0..m /\ ~ m < m
      BY <1>1
    <3> QED BY <3>1, <3>2
  <2>2. CASE Beyond # {}
    <3>1. PICK b \in Beyond : \A i \in Beyond : b <= i
      <4>1. Beyond \in SUBSET Nat
        OBVIOUS
      <4> HIDE DEF Beyond
      <4> QED BY <2>2, <4>1, Least
    <3>2. b \in 1..m /\ Compare(index, q[b], d) > 0
      BY <3>1
    <3>3. \A i \in 1..(b - 1) : i \in 1..m /\ i \notin Beyond
      BY <3>1, <3>2, <1>1
    <3>4. \A i \in 1..(b - 1) : Compare(index, q[i], d) <= 0
      BY <3>3, <1>3
    <3>5. b - 1 \in 0..m /\ (b - 1) + 1 = b
      BY <3>2, <1>1
    <3> QED BY <3>2, <3>4, <3>5
  <2> QED BY <2>1, <2>2
<1>4a. ASSUME NEW k \in 0..m PROVE Fits(k) <=> Counts(k)
  <2>1. /\ k \in Nat /\ (k < m => k + 1 \in 1..m /\ ~ k + 1 <= k)
        /\ \A i \in 1..k : i \in 1..m /\ i <= k + 1 /\ i <= k
        /\ \A i \in 1..m : i <= k + 1 => i \in 1..k \/ (k < m /\ i = k + 1 /\ ~ i <= k)
    BY <1>1
  <2>2. \A i \in 1..m : Compare(index, q[i], d) > 0 <=> ~ Compare(index, q[i], d) <= 0
    BY <1>3
  <2>3. ASSUME Counts(k) PROVE Fits(k)
    <3>1. \A i \in 1..k : Compare(index, q[i], d) <= 0
      BY <2>1, <2>3
    <3>2. ASSUME k < m PROVE Compare(index, q[k + 1], d) > 0
      <4>1. ~ Compare(index, q[k + 1], d) <= 0
        BY <2>1, <2>3, <3>2
      <4> QED BY <4>1, <2>1, <2>2, <3>2
    <3> QED BY <3>1, <3>2
  <2>4. ASSUME Fits(k) PROVE Counts(k)
    <3> SUFFICES ASSUME NEW i \in 1..m, i <= k + 1
                 PROVE  i <= k <=> Compare(index, q[i], d) <= 0
      OBVIOUS
    <3>1. CASE i \in 1..k
      BY <3>1, <2>1, <2>4
    <3>2. CASE k < m /\ i = k + 1 /\ ~ i <= k
      BY <3>2, <2>2, <2>4
    <3> QED BY <2>1, <3>1, <3>2
  <2> QED BY <2>3, <2>4
<1>5. n \in 0..m /\ Fits(n)
  <2>1. \E k \in 0..m : Counts(k)
    BY <1>4, <1>4a
  <2>2. n \in 0..m /\ Counts(n)
    <3> HIDE DEF Counts
    <3> QED BY <1>2, <2>1
  <2> QED BY <2>2, <1>4a
<1>6. ASSUME NEW i \in 1..n PROVE q[i] = d \/ Before(index, q[i], d)
  <2>1. i \in 1..m
    BY <1>1, <1>5
  <2> QED BY <2>1, <1>3, <1>5
<1>7. ASSUME NEW i \in (n + 1)..m PROVE Before(index, d, q[i])
  <2>1. n + 1 \in 1..m /\ n < m /\ i \in 1..m /\ (i = n + 1 \/ n + 1 < i)
    BY <1>1, <1>5
  <2>2. Before(index, d, q[n + 1])
    BY <2>1, <1>3, <1>5
  <2>3. CASE n + 1 < i
    <3>1. Before(index, q[n + 1], q[i]) /\ q[n + 1] \in Datom /\ q[i] \in Datom
      BY <2>1, <2>3, <1>1 DEF Sorted
    <3> QED BY <3>1, <2>2, BeforeIsOrder
  <2> QED BY <2>1, <2>2, <2>3
<1> QED BY <1>5, <1>6, <1>7 DEF n, m

\* A chunk more, of datoms appended.
LEMMA CutsAppend ==
  ASSUME NEW out \in Seq(Chunk), NEW z \in Seq(Datom), NEW cut, Cuts(out, z, cut),
         NEW c \in Chunk, c.datoms # <<>>
  PROVE  \E cut2 : Cuts(Append(out, c), z \o c.datoms, cut2)
<1> DEFINE y == c.datoms
           k == Len(out)
           m == Len(z)
           n == Len(y)
           o == Append(out, c)
           w == z \o y
           cut2 == [i \in 0..(k + 1) |-> IF i = k + 1 THEN m + n ELSE cut[i]]
<1>1. y \in Seq(Datom) /\ k \in Nat /\ m \in Nat /\ n \in Nat /\ n > 0
  <2>1. y \in Seq(Datom) /\ y # <<>>
    BY DEF Chunk
  <2> HIDE DEF y
  <2> QED BY <2>1, EmptySeq, LenProperties
<1>2. /\ o \in Seq(Chunk) /\ Len(o) = k + 1 /\ o[k + 1] = c
      /\ \A i \in 1..k : o[i] = out[i]
  BY AppendProperties
<1>3. /\ cut \in [0..k -> Nat] /\ cut[0] = 0 /\ cut[k] = m
      /\ \A i \in 1..k : /\ cut[i - 1] < cut[i] /\ cut[i] <= m
                         /\ out[i].datoms = SubSeq(z, cut[i - 1] + 1, cut[i])
  BY DEF Cuts
<1> HIDE DEF y, k, o, m, n
<1>4. Len(w) = m + n
  BY <1>1, ConcatProperties DEF m, n
<1>5. /\ cut2[k + 1] = m + n
      /\ \A i \in 0..(k + 1) : i # k + 1 => cut2[i] = cut[i]
  BY <1>1
<1>6. cut2 \in [0..(k + 1) -> Nat]
  <2>1. \A i \in 0..(k + 1) : i # k + 1 => i \in 0..k
    BY <1>1
  <2>2. m + n \in Nat
    BY <1>1
  <2> QED BY <2>1, <2>2, <1>3
<1> HIDE DEF w
<1>7. /\ 0 \in 0..(k + 1) /\ 0 # k + 1 /\ k \in 0..(k + 1) /\ k # k + 1 /\ (k + 1) - 1 = k
      /\ \A i \in 1..(k + 1) : i # k + 1 => /\ i \in 1..k /\ i \in 0..(k + 1) /\ i - 1 # k + 1
                                            /\ i - 1 \in 0..(k + 1) /\ i \in 0..k /\ i - 1 \in 0..k
  BY <1>1
<1> HIDE DEF cut2
<1>8. ASSUME NEW i \in 1..(k + 1)
      PROVE  /\ cut2[i - 1] < cut2[i] /\ cut2[i] <= m + n
             /\ o[i].datoms = SubSeq(w, cut2[i - 1] + 1, cut2[i])
  <2>1. CASE i = k + 1
    <3>1. cut2[i - 1] = m /\ cut2[i] = m + n /\ o[i].datoms = y
      BY <2>1, <1>2, <1>3, <1>5, <1>7 DEF y
    <3>2. SubSeq(w, m + 1, m + n) = SubSeq(y, 1, n)
      <4>1. /\ m + 1 \in (m + 1)..(m + n) /\ m + n \in (m + 1)..(m + n)
            /\ (m + 1) - m = 1 /\ (m + n) - m = n
        BY <1>1
      <4> QED BY <4>1, <1>1, SubSeqOfConcat2 DEF w, m, n
    <3>3. SubSeq(y, 1, n) = y
      BY <1>1, SubSeqFull DEF n
    <3>4. m < m + n /\ m + n <= m + n
      BY <1>1
    <3> QED BY <3>1, <3>2, <3>3, <3>4
  <2>2. CASE i # k + 1
    <3>1. cut2[i - 1] = cut[i - 1] /\ cut2[i] = cut[i] /\ o[i] = out[i]
      BY <2>2, <1>2, <1>5, <1>7
    <3>2. /\ cut[i - 1] < cut[i] /\ cut[i] <= m /\ cut[i - 1] \in Nat /\ cut[i] \in Nat
          /\ out[i].datoms = SubSeq(z, cut[i - 1] + 1, cut[i])
      BY <2>2, <1>3, <1>7
    <3>3. SubSeq(w, cut[i - 1] + 1, cut[i]) = SubSeq(z, cut[i - 1] + 1, cut[i])
      <4>1. cut[i - 1] + 1 \in 1..m /\ cut[i] \in 1..m
        <5> DEFINE low == cut[i - 1]
                   high == cut[i]
        <5>1. low \in Nat /\ high \in Nat /\ m \in Nat /\ low < high /\ high <= m
          BY ONLY <3>2, <1>1
        <5> HIDE DEF low, high
        <5>2. low + 1 \in 1..m /\ high \in 1..m
          BY ONLY <5>1
        <5> QED BY ONLY <5>2 DEF low, high
      <4> QED BY <4>1, <1>1, SubSeqOfConcat1 DEF w, m
    <3>4. cut[i] <= m + n
      BY <3>2, <1>1
    <3> QED BY <3>1, <3>2, <3>3, <3>4
  <2> QED BY <2>1, <2>2
<1>9. cut2[0] = 0
  BY <1>3, <1>5, <1>7
<1>10. Cuts(o, w, cut2)
  BY <1>2, <1>4, <1>5, <1>6, <1>8, <1>9 DEF Cuts
<1> QED BY <1>10 DEF o, w, y

\* How far the merge of the novelty N into the scan T has come: the first l of T
\* and p of N are out, in a sequence z cut into chunks.
Merges == [nov : Seq(Datom), out : Seq(Chunk)]
MergedTo(index, T, N, l, p, z) ==
  /\ z \in Seq(Datom) /\ Sorted(index, z) /\ Range(z) = Firsts(T, l + 1) \cup Firsts(N, p + 1)
  /\ Ahead(index, Range(z), T, l + 1) /\ Ahead(index, Range(z), N, p + 1)
MergeAt(index, T, N, l, s) ==
  \E p \in 0..Len(N) : \E z, cut : /\ s.nov = SubSeq(N, p + 1, Len(N))
                                   /\ Cuts(s.out, z, cut) /\ MergedTo(index, T, N, l, p, z)

\* A stretch more of both, up to a datom of the scan.
LEMMA MergedFurther ==
  ASSUME NEW index \in Indexes, NEW T \in Seq(Datom), NEW N \in Seq(Datom),
         Sorted(index, T), Sorted(index, N),
         NEW l \in Nat, NEW m \in 1..Len(T), l < m,
         NEW p \in 0..Len(N), NEW r \in 0..Len(N), p <= r,
         NEW z, MergedTo(index, T, N, l, p, z),
         NEW y \in Seq(Datom), Sorted(index, y),
         Range(y) = {T[a] : a \in (l + 1)..m} \cup {N[b] : b \in (p + 1)..r},
         \A b \in (p + 1)..r : N[b] = T[m] \/ Before(index, N[b], T[m]),
         \A b \in (r + 1)..Len(N) : Before(index, T[m], N[b])
  PROVE  MergedTo(index, T, N, m, r, z \o y)
<1> DEFINE w == z \o y
           t == Len(T)
           n == Len(N)
           A == {T[a] : a \in (l + 1)..m}
           B == {N[b] : b \in (p + 1)..r}
<1>1. /\ t \in Nat /\ n \in Nat /\ DOMAIN T = 1..t /\ DOMAIN N = 1..n
      /\ \A a \in 1..t : T[a] \in Datom
      /\ \A b \in 1..n : N[b] \in Datom
      /\ m \in 1..t /\ p \in 0..n /\ r \in 0..n /\ T[m] \in Datom
  OBVIOUS
<1>2. /\ z \in Seq(Datom) /\ Sorted(index, z) /\ Range(z) = Firsts(T, l + 1) \cup Firsts(N, p + 1)
      /\ \A d \in Range(z) : \A a \in (l + 1)..t : Before(index, d, T[a])
      /\ \A d \in Range(z) : \A b \in (p + 1)..n : Before(index, d, N[b])
  BY DEF MergedTo, Ahead
<1>3. /\ \A b \in (p + 1)..r : N[b] = T[m] \/ Before(index, N[b], T[m])
      /\ \A b \in (r + 1)..n : Before(index, T[m], N[b])
  OBVIOUS
<1>4. Range(y) = A \cup B
  OBVIOUS
<1> HIDE DEF t, n
<1>5. /\ \A a \in (l + 1)..m : a \in 1..t /\ a \in (l + 1)..t /\ (a = m \/ a < m)
      /\ \A b \in (p + 1)..r : b \in 1..n /\ b \in (p + 1)..n
      /\ \A a \in (m + 1)..t : a \in 1..t /\ a \in (l + 1)..t /\ m < a
      /\ \A b \in (r + 1)..n : b \in 1..n /\ b \in (p + 1)..n
      /\ \A b \in (p + 1)..r : \A e \in (r + 1)..n : b < e
  BY <1>1
<1>6. \A d \in Range(z) : \A x \in Range(y) : Before(index, d, x)
  <2> SUFFICES ASSUME NEW d \in Range(z), NEW x \in Range(y) PROVE Before(index, d, x)
    OBVIOUS
  <2>1. CASE x \in A
    <3>1. PICK a \in (l + 1)..m : x = T[a]
      BY <2>1
    <3> QED BY <3>1, <1>2, <1>5
  <2>2. CASE x \in B
    <3>1. PICK b \in (p + 1)..r : x = N[b]
      BY <2>2
    <3> QED BY <3>1, <1>2, <1>5
  <2> HIDE DEF A, B
  <2> QED BY <2>1, <2>2, <1>4
<1>7. /\ w \in Seq(Datom) /\ Sorted(index, w) /\ Range(w) = Range(z) \cup Range(y)
  <2>1. \A i \in 1..Len(z), j \in 1..Len(y) : Before(index, z[i], y[j])
    <3> SUFFICES ASSUME NEW i \in 1..Len(z), NEW j \in 1..Len(y) PROVE Before(index, z[i], y[j])
      OBVIOUS
    <3>1. z[i] \in Range(z) /\ y[j] \in Range(y)
      BY <1>2 DEF Range
    <3> QED BY <3>1, <1>6
  <2> HIDE DEF w, A, B
  <2> QED BY <2>1, <1>2, AppendSorted DEF w
<1>8. Range(w) = Firsts(T, m + 1) \cup Firsts(N, r + 1)
  <2>1. /\ 1..((m + 1) - 1) = (1..((l + 1) - 1)) \cup ((l + 1)..m)
        /\ 1..((r + 1) - 1) = (1..((p + 1) - 1)) \cup ((p + 1)..r)
    BY <1>1
  <2>2. Firsts(T, m + 1) = Firsts(T, l + 1) \cup A /\ Firsts(N, r + 1) = Firsts(N, p + 1) \cup B
    BY <2>1 DEF Firsts
  <2> HIDE DEF w, A, B
  <2> QED BY <2>2, <1>2, <1>4, <1>7
\* What is out is not after T[m].
<1>9. \A x \in Range(w) : x \in Datom /\ (x = T[m] \/ Before(index, x, T[m]))
  <2> SUFFICES ASSUME NEW x \in Range(w) PROVE x = T[m] \/ Before(index, x, T[m])
    <3> HIDE DEF w
    <3> QED BY <1>7, RangeOfSeq
  <2>1. CASE x \in Range(z)
    <3>1. m \in (l + 1)..t
      BY <1>1
    <3> QED BY <2>1, <3>1, <1>2
  <2>2. CASE x \in A
    <3>1. PICK a \in (l + 1)..m : x = T[a]
      BY <2>2
    <3>2. a \in 1..t /\ (a = m \/ a < m)
      BY <1>5
    <3> QED BY <3>1, <3>2, <1>1 DEF Sorted
  <2>3. CASE x \in B
    BY <2>3, <1>3
  <2> HIDE DEF w, A, B
  <2> QED BY <2>1, <2>2, <2>3, <1>4, <1>7
<1> HIDE DEF w, A, B
<1>10. Ahead(index, Range(w), T, m + 1)
  <2> SUFFICES ASSUME NEW x \in Range(w), NEW a \in (m + 1)..t PROVE Before(index, x, T[a])
    BY DEF Ahead, t
  <2>1. Before(index, T[m], T[a]) /\ T[a] \in Datom /\ T[m] \in Datom
    BY <1>1, <1>5 DEF Sorted
  <2> QED BY <2>1, <1>9, BeforeIsOrder
<1>11. Ahead(index, Range(w), N, r + 1)
  <2> SUFFICES ASSUME NEW x \in Range(w), NEW b \in (r + 1)..n PROVE Before(index, x, N[b])
    BY DEF Ahead, n
  <2>1. Before(index, T[m], N[b]) /\ N[b] \in Datom /\ T[m] \in Datom
    BY <1>1, <1>3, <1>5
  <2> QED BY <2>1, <1>9, BeforeIsOrder
<1> QED BY <1>7, <1>8, <1>10, <1>11 DEF MergedTo, w

\* A sequence read on after its first n.
LEMMA RestOfRest ==
  ASSUME NEW N \in Seq(Datom), NEW p \in 0..Len(N), NEW n \in 0..(Len(N) - p)
  PROVE  LET r == SubSeq(N, p + 1, Len(N)) IN
         /\ r \in Seq(Datom) /\ Len(r) = Len(N) - p
         /\ \A i \in 1..Len(r) : r[i] = N[p + i]
         /\ SubSeq(r, n + 1, Len(r)) = SubSeq(N, (p + n) + 1, Len(N))
<1> DEFINE k == Len(N)
           r == SubSeq(N, p + 1, k)
<1>1. k \in Nat /\ p + 1 \in 1..(k + 1) /\ k \in 0..k /\ p + 1 <= k + 1 /\ p \in Nat /\ n \in Nat
  OBVIOUS
<1>2. /\ r \in Seq(Datom) /\ Len(r) = k - (p + 1) + 1
      /\ \A i \in 1..(k - (p + 1) + 1) : r[i] = N[(p + 1) + i - 1]
  <2> HIDE DEF k
  <2> QED BY <1>1, Run DEF k
<1> HIDE DEF r
<1>3. Len(r) = k - p /\ \A i \in 1..(k - p) : r[i] = N[p + i]
  <2>1. k - (p + 1) + 1 = k - p /\ \A i \in 1..(k - p) : (p + 1) + i - 1 = p + i
    BY <1>1
  <2> QED BY <2>1, <1>2
<1> DEFINE u == SubSeq(r, n + 1, Len(r))
           v == SubSeq(N, (p + n) + 1, k)
<1>4. /\ u \in Seq(Datom) /\ Len(u) = Len(r) - (n + 1) + 1
      /\ \A i \in 1..(Len(r) - (n + 1) + 1) : u[i] = r[(n + 1) + i - 1]
  <2>1. n + 1 \in 1..(Len(r) + 1) /\ Len(r) \in 0..Len(r) /\ n + 1 <= Len(r) + 1
    BY <1>1, <1>3
  <2> QED BY <2>1, <1>2, Run
<1>5. /\ v \in Seq(Datom) /\ Len(v) = k - ((p + n) + 1) + 1
      /\ \A i \in 1..(k - ((p + n) + 1) + 1) : v[i] = N[((p + n) + 1) + i - 1]
  <2>1. (p + n) + 1 \in 1..(k + 1) /\ k \in 0..k /\ (p + n) + 1 <= k + 1
    BY <1>1
  <2> HIDE DEF k
  <2> QED BY <2>1, Run DEF k
<1> HIDE DEF u, v, k
<1>6. Len(u) = k - p - n /\ Len(v) = k - p - n
  BY <1>1, <1>3, <1>4, <1>5
<1>7. ASSUME NEW i \in 1..(k - p - n) PROVE u[i] = v[i]
  <2>1. /\ i \in 1..(Len(r) - (n + 1) + 1) /\ i \in 1..(k - ((p + n) + 1) + 1)
        /\ (n + 1) + i - 1 = n + i /\ ((p + n) + 1) + i - 1 = p + (n + i) /\ n + i \in 1..(k - p)
    BY <1>1, <1>3
  <2> QED BY <2>1, <1>3, <1>4, <1>5
<1>8. u = v
  BY <1>4, <1>5, <1>6, <1>7, SeqEqual
<1> QED BY <1>2, <1>3, <1>8 DEF u, v, r, k

\* The datoms a chunk goes out with.
Taken(index, s, c, n) ==
  IF n = 0 THEN c.datoms ELSE SortedUnion(index, c.datoms, SubSeq(s.nov, 1, n))

\* A chunk of the scan, with the novelty that belongs to it.
LEMMA MergeSteps ==
  ASSUME NEW index \in Indexes, NEW T \in Seq(Datom), NEW N \in Seq(Datom),
         Sorted(index, T), Sorted(index, N),
         NEW l \in Nat, NEW m \in 1..Len(T), l < m,
         NEW c \in Chunk, c.datoms = SubSeq(T, l + 1, m),
         NEW s \in Merges, MergeAt(index, T, N, l, s)
  PROVE  MergeStep(index, s, c) \in Merges /\ MergeAt(index, T, N, m, MergeStep(index, s, c))
<1> DEFINE v == MergeStep(index, s, c)
           d == T[m]
           x == c.datoms
<1>0. /\ Len(T) \in Nat /\ Len(N) \in Nat /\ d \in Datom /\ m \in 1..Len(T)
      /\ l + 1 \in 1..(Len(T) + 1) /\ m \in 0..Len(T) /\ l + 1 <= m + 1 /\ m \in l + 1..m
  OBVIOUS
<1>1. PICK p \in 0..Len(N) : \E z, cut : /\ s.nov = SubSeq(N, p + 1, Len(N))
                                         /\ Cuts(s.out, z, cut) /\ MergedTo(index, T, N, l, p, z)
  BY DEF MergeAt
<1>2. PICK z, cut : /\ s.nov = SubSeq(N, p + 1, Len(N))
                    /\ Cuts(s.out, z, cut) /\ MergedTo(index, T, N, l, p, z)
  BY <1>1
<1>3. s = [nov |-> s.nov, out |-> s.out] /\ s.nov \in Seq(Datom) /\ s.out \in Seq(Chunk)
  BY DEF Merges
<1>4. /\ x \in Seq(Datom) /\ Sorted(index, x) /\ Len(x) = m - (l + 1) + 1
      /\ Range(x) = {T[a] : a \in (l + 1)..m}
      /\ x[m - (l + 1) + 1] = T[(l + 1) + (m - (l + 1) + 1) - 1]
  <2> DEFINE a == l + 1
             k == m - a + 1
  <2>1. /\ a \in 1..(Len(T) + 1) /\ m \in 0..Len(T) /\ a <= m + 1 /\ x = SubSeq(T, a, m)
        /\ k \in 1..k
    BY <1>0
  <2> HIDE DEF a, v, d, x
  <2>2. /\ SubSeq(T, a, m) \in Seq(Datom) /\ Sorted(index, SubSeq(T, a, m))
        /\ Len(SubSeq(T, a, m)) = m - a + 1
        /\ Range(SubSeq(T, a, m)) = {T[i] : i \in a..m}
        /\ \A i \in 1..(m - a + 1) : SubSeq(T, a, m)[i] = T[a + i - 1]
    BY <2>1, RunSorted
  <2>3. SubSeq(T, a, m)[k] = T[a + k - 1]
    BY <2>1, <2>2
  <2> QED BY <2>1, <2>2, <2>3 DEF a
<1>5. Last(x) = d
  <2>1. (l + 1) + (m - (l + 1) + 1) - 1 = m
    BY <1>0
  <2> QED BY <1>4, <2>1 DEF Last
<1> DEFINE q == s.nov
           n == Through(index, q, d)
<1>6. /\ q \in Seq(Datom) /\ Len(q) = Len(N) - p /\ p \in Nat
      /\ \A i \in 1..Len(q) : q[i] = N[p + i]
  <2>1. 0 \in 0..(Len(N) - p)
    BY <1>0
  <2> QED BY <1>2, <2>1, RestOfRest
<1>7. Sorted(index, q)
  <2>1. p + 1 \in 1..(Len(N) + 1) /\ Len(N) \in 0..Len(N) /\ p + 1 <= Len(N) + 1
    BY <1>0
  <2> QED BY <1>2, <2>1, RunSorted
<1> HIDE DEF q, d, x
<1>8. /\ n \in 0..Len(q)
      /\ \A i \in 1..n : q[i] = d \/ Before(index, q[i], d)
      /\ \A i \in (n + 1)..Len(q) : Before(index, d, q[i])
  BY <1>0, <1>6, <1>7, ThroughSplits
<1>9. v = IF n = 0 THEN [s EXCEPT !.out = Append(@, c)]
          ELSE [nov |-> SubSeq(q, n + 1, Len(q)),
                out |-> Append(s.out, [datoms |-> SortedUnion(index, x, SubSeq(q, 1, n)),
                                       whole |-> TRUE])]
  BY <1>5 DEF MergeStep, MergeTake, q, x
<1> HIDE DEF n, v
<1> DEFINE r == p + n
           y == Taken(index, s, c, n)
           e == [datoms |-> y, whole |-> IF n = 0 THEN c.whole ELSE TRUE]
<1>10. /\ r \in 0..Len(N) /\ p <= r /\ n \in Nat /\ n \in 0..(Len(N) - p)
       /\ \A b \in (p + 1)..r : b - p \in 1..n /\ b - p \in 1..Len(q) /\ p + (b - p) = b
       /\ \A b \in (r + 1)..Len(N) : /\ b - p \in (n + 1)..Len(q) /\ b - p \in 1..Len(q)
                                     /\ p + (b - p) = b
       /\ \A i \in 1..n : p + i \in (p + 1)..r /\ i \in 1..Len(q)
  BY <1>0, <1>6, <1>8
<1>11. /\ \A b \in (p + 1)..r : N[b] = T[m] \/ Before(index, N[b], T[m])
       /\ \A b \in (r + 1)..Len(N) : Before(index, T[m], N[b])
  <2>1. ASSUME NEW b \in (p + 1)..r PROVE N[b] = d \/ Before(index, N[b], d)
    <3>1. q[b - p] = N[b] /\ b - p \in 1..n
      BY <1>6, <1>10
    <3> QED BY <3>1, <1>8
  <2>2. ASSUME NEW b \in (r + 1)..Len(N) PROVE Before(index, d, N[b])
    <3>1. q[b - p] = N[b] /\ b - p \in (n + 1)..Len(q)
      BY <1>6, <1>10
    <3> QED BY <3>1, <1>8
  <2> QED BY <2>1, <2>2 DEF d
<1>12. /\ y \in Seq(Datom) /\ Sorted(index, y)
       /\ Range(y) = {T[a] : a \in (l + 1)..m} \cup {N[b] : b \in (p + 1)..r}
  <2>1. CASE n = 0
    <3>1. (p + 1)..r = {} /\ y = x
      BY <2>1, <1>6 DEF Taken, x
    <3> HIDE DEF y, r
    <3> QED BY <3>1, <1>4
  <2>2. CASE n # 0
    <3> DEFINE u == SubSeq(q, 1, n)
    <3>1. /\ u \in Seq(Datom) /\ Sorted(index, u) /\ Range(u) = {q[i] : i \in 1..n}
      <4> DEFINE b == 1
      <4>1. b \in 1..(Len(q) + 1) /\ n \in 0..Len(q) /\ b <= n + 1 /\ q \in Seq(Datom)
        BY <1>6, <1>8, <1>10
      <4> HIDE DEF b, r, y, e, v, u
      <4>2. /\ SubSeq(q, b, n) \in Seq(Datom) /\ Sorted(index, SubSeq(q, b, n))
            /\ Range(SubSeq(q, b, n)) = {q[i] : i \in b..n}
        BY ONLY index \in Indexes, <4>1, <1>7, RunSorted, SMTT(60)
      <4> QED BY <4>2 DEF b, u
    <3>2. y = SortedUnion(index, x, u)
      BY <2>2 DEF Taken, x, q
    <3> HIDE DEF u, y
    <3>3. y \in Seq(Datom) /\ Sorted(index, y) /\ Range(y) = Range(x) \cup Range(u)
      BY <3>1, <3>2, <1>4, UnionIsSorted
    <3>4. Range(u) = {N[b] : b \in (p + 1)..r}
      <4>1. ASSUME NEW i \in 1..n PROVE q[i] \in {N[b] : b \in (p + 1)..r}
        <5>1. q[i] = N[p + i] /\ p + i \in (p + 1)..r
          BY <1>6, <1>10
        <5> QED BY <5>1
      <4>2. ASSUME NEW b \in (p + 1)..r PROVE N[b] \in {q[i] : i \in 1..n}
        <5>1. N[b] = q[b - p] /\ b - p \in 1..n
          BY <1>6, <1>10
        <5> QED BY <5>1
      <4> QED BY <4>1, <4>2, <3>1
    <3> QED BY <3>3, <3>4, <1>4
  <2> QED BY <2>1, <2>2
<1>13. y # <<>>
  <2>1. T[m] \in Range(y)
    BY <1>0, <1>12
  <2>2. Range(<<>>) = {}
    BY DEF Range
  <2> QED BY <2>1, <2>2
<1>14. /\ e \in Chunk /\ e.datoms = y /\ c \in Chunk
       /\ c.whole \in BOOLEAN /\ c = [datoms |-> x, whole |-> c.whole]
  <2>1. c \in Chunk /\ c.whole \in BOOLEAN /\ c = [datoms |-> x, whole |-> c.whole]
    BY DEF Chunk, x
  <2> HIDE DEF y
  <2> QED BY <2>1, <1>12 DEF Chunk
<1>15. v = [nov |-> SubSeq(N, r + 1, Len(N)), out |-> Append(s.out, e)]
  <2>1. SubSeq(q, n + 1, Len(q)) = SubSeq(N, r + 1, Len(N))
    BY <1>2, <1>10, RestOfRest DEF q
  <2>2. CASE n = 0
    <3>1. e = c
      <4>1. y = x
        BY <2>2 DEF Taken, x
      <4> HIDE DEF y
      <4> QED BY <4>1, <2>2, <1>14
    <3>2. q = SubSeq(N, r + 1, Len(N))
      <4>1. SubSeq(q, 1, Len(q)) = q /\ n + 1 = 1
        BY <2>2, <1>6, SubSeqFull
      <4> QED BY <4>1, <2>1
    <3>3. v = [s EXCEPT !.out = Append(@, c)]
      BY <2>2, <1>9
    <3>4. v = [nov |-> s.nov, out |-> Append(s.out, c)]
      <4> DEFINE o == s.out
                 f == s.nov
      <4>1. s = [nov |-> f, out |-> o]
        BY <1>3
      <4>2. s.out = o
        OBVIOUS
      <4> HIDE DEF o, f
      <4>3. v = [nov |-> f, out |-> Append(o, c)]
        BY <4>1, <4>2, <3>3
      <4> QED BY <4>3 DEF o, f
    <3> HIDE DEF e
    <3> QED BY <3>1, <3>2, <3>4 DEF q
  <2>3. CASE n # 0
    <3>1. e = [datoms |-> SortedUnion(index, x, SubSeq(q, 1, n)), whole |-> TRUE]
      BY <2>3 DEF Taken, x, q
    <3> HIDE DEF e
    <3> QED BY <2>1, <2>3, <3>1, <1>9
  <2> QED BY <2>2, <2>3
<1> HIDE DEF e, y
<1>16. MergedTo(index, T, N, m, r, z \o y)
  <2> HIDE DEF r
  <2> QED BY <1>0, <1>2, <1>10, <1>11, <1>12, MergedFurther
<1> HIDE DEF r
<1>17. PICK cut2 : Cuts(Append(s.out, e), z \o y, cut2)
  <2>1. z \in Seq(Datom) /\ Cuts(s.out, z, cut) /\ e.datoms # <<>>
    BY <1>2, <1>13, <1>14 DEF MergedTo
  <2>2. \E cut2 : Cuts(Append(s.out, e), z \o e.datoms, cut2)
    BY <2>1, <1>3, <1>14, CutsAppend
  <2> QED BY <2>2, <1>14
<1>18. v.nov = SubSeq(N, r + 1, Len(N)) /\ v.out = Append(s.out, e)
  BY <1>15
<1>19. v \in Merges
  <2>1. SubSeq(N, r + 1, Len(N)) \in Seq(Datom)
    <3>1. r + 1 \in 1..(Len(N) + 1) /\ Len(N) \in 0..Len(N) /\ r + 1 <= Len(N) + 1
      BY <1>0, <1>10
    <3> QED BY <3>1, Run
  <2>2. Append(s.out, e) \in Seq(Chunk)
    BY <1>3, <1>14, AppendProperties
  <2> QED BY <2>1, <2>2, <1>15 DEF Merges
<1>20. MergeAt(index, T, N, m, v)
  BY <1>10, <1>16, <1>17, <1>18 DEF MergeAt
<1> QED BY <1>19, <1>20 DEF v

\* mergeChunks: the chunks of a scan with the novelty merged into them, chunk by
\* chunk, are the sorted union of the two, cut up.
THEOREM MergeIsUnion ==
  ASSUME NEW index \in Indexes, NEW T \in Seq(Datom), Sorted(index, T),
         NEW tree \in Seq(Chunk), NEW tcut, Cuts(tree, T, tcut),
         NEW nov \in Chunk, Sorted(index, nov.datoms)
  PROVE  /\ MergeChunks(index, tree, nov) \in Seq(Chunk)
         /\ \E cut : Cuts(MergeChunks(index, tree, nov), SortedUnion(index, T, nov.datoms), cut)
<1> DEFINE k == Len(tree)
           N == nov.datoms
           start == [nov |-> N, out |-> <<>>]
           Step(s, i) == MergeStep(index, s, tree[i])
           At(i) == {s \in Merges : MergeAt(index, T, N, tcut[i], s)}
           G == [i \in 0..k |-> At(i)]
           F == [p \in (1..k) \X Merges |-> Step(p[2], p[1])]
           IsAfter(h) == h = [i \in 0..k |-> IF i = 0 THEN start ELSE Step(h[i - 1], i)]
           a == CHOOSE h : IsAfter(h)
           end == a[k]
           last == [datoms |-> end.nov, whole |-> nov.whole /\ end.nov = N]
<1>1. /\ N \in Seq(Datom) /\ Len(N) \in Nat /\ Len(T) \in Nat /\ k \in Nat /\ nov.whole \in BOOLEAN
      /\ tcut \in [0..k -> Nat] /\ tcut[0] = 0 /\ tcut[k] = Len(T)
      /\ \A i \in 1..k : /\ tcut[i - 1] < tcut[i] /\ tcut[i] <= Len(T)
                         /\ tree[i].datoms = SubSeq(T, tcut[i - 1] + 1, tcut[i])
                         /\ tree[i] \in Chunk
  <2>1. N \in Seq(Datom) /\ nov.whole \in BOOLEAN
    BY DEF Chunk
  <2>2. k \in Nat /\ Len(T) \in Nat /\ \A i \in 1..k : tree[i] \in Chunk
    OBVIOUS
  <2>3. /\ tcut \in [0..k -> Nat] /\ tcut[0] = 0 /\ tcut[k] = Len(T)
        /\ \A i \in 1..k : /\ tcut[i - 1] < tcut[i] /\ tcut[i] <= Len(T)
                           /\ tree[i].datoms = SubSeq(T, tcut[i - 1] + 1, tcut[i])
    BY DEF Cuts
  <2>4. Len(N) \in Nat
    BY <2>1, LenProperties
  <2> HIDE DEF N, k
  <2> QED BY <2>1, <2>2, <2>3, <2>4
<1>2. MergeChunks(index, tree, nov) = IF end.nov = <<>> THEN end.out ELSE Append(end.out, last)
  BY DEF MergeChunks, MergeRest
<1>2a. Sorted(index, N)
  OBVIOUS
<1>2b. N = nov.datoms
  OBVIOUS
<1> HIDE DEF k, N
<1>3. \A i \in 1..k : i \in 0..k /\ i # 0 /\ i - 1 \in 0..k
  BY <1>1
<1>4. ASSUME NEW i \in 1..k, NEW s \in At(i - 1) PROVE Step(s, i) \in At(i)
  <2>1. tcut[i - 1] \in Nat /\ tcut[i] \in Nat
    BY <1>1, <1>3
  <2>2. /\ tcut[i - 1] < tcut[i] /\ tcut[i] \in 1..Len(T)
        /\ tree[i].datoms = SubSeq(T, tcut[i - 1] + 1, tcut[i]) /\ tree[i] \in Chunk
    <3>1. /\ tcut[i - 1] < tcut[i] /\ tcut[i] <= Len(T) /\ tree[i] \in Chunk
          /\ tree[i].datoms = SubSeq(T, tcut[i - 1] + 1, tcut[i])
      BY <1>1
    <3>2. tcut[i] \in 1..Len(T)
      <4>1. Len(T) \in Nat
        BY ONLY <1>1
      <4> DEFINE low == tcut[i - 1]
                 high == tcut[i]
                 size == Len(T)
      <4>2. low \in Nat /\ high \in Nat /\ size \in Nat /\ low < high /\ high <= size
        BY ONLY <4>1, <2>1, <3>1
      <4> HIDE DEF low, high, size
      <4>3. high \in 1..size
        BY ONLY <4>2
      <4> QED BY ONLY <4>3 DEF high, size
    <3> QED BY ONLY <3>1, <3>2
  <2>3. s \in Merges /\ MergeAt(index, T, N, tcut[i - 1], s)
    OBVIOUS
  <2> DEFINE l == tcut[i - 1]
             m == tcut[i]
             c == tree[i]
  <2>4. l \in Nat /\ m \in 1..Len(T) /\ l < m /\ c \in Chunk /\ c.datoms = SubSeq(T, l + 1, m)
    BY <2>1, <2>2
  <2>5. s \in Merges /\ MergeAt(index, T, N, l, s)
    BY <2>3
  <2> HIDE DEF At, G, F, Step, l, m, c, last, end, a, IsAfter, start
  <2>6. MergeStep(index, s, c) \in Merges /\ MergeAt(index, T, N, m, MergeStep(index, s, c))
    BY <2>4, <2>5, <1>1, <1>2a, MergeSteps
  <2> QED BY <2>6 DEF At, Step, m, c
<1>5. start \in At(0)
  <2>1. start.nov = N /\ start.out = <<>> /\ <<>> \in Seq(Chunk) /\ start \in Merges
    BY <1>1 DEF Merges
  <2>2. SubSeq(N, 0 + 1, Len(N)) = N
    <3>1. SubSeq(N, 1, Len(N)) = N /\ 0 + 1 = 1
      BY <1>1, SubSeqFull
    <3> QED BY <3>1
  <2>3. Firsts(T, 0 + 1) = {} /\ Firsts(N, 0 + 1) = {}
    <3>1. 1..((0 + 1) - 1) = {}
      OBVIOUS
    <3> QED BY <3>1 DEF Firsts
  <2>4. /\ <<>> \in Seq(Datom) /\ Range(<<>>) = {} /\ Sorted(index, <<>>) /\ Len(<<>>) = 0
    BY DEF Range, Sorted
  <2>5. MergedTo(index, T, N, 0, 0, <<>>)
    BY <2>3, <2>4 DEF MergedTo, Ahead
  <2>6. Cuts(<<>>, <<>>, [i \in 0..0 |-> 0])
    <3>1. 0 \in 0..0 /\ 1..0 = {}
      OBVIOUS
    <3> QED BY <3>1, <2>4 DEF Cuts
  <2>7. 0 \in 0..Len(N)
    BY <1>1
  <2> HIDE DEF start
  <2>8. MergeAt(index, T, N, 0, start)
    BY <2>1, <2>2, <2>5, <2>6, <2>7 DEF MergeAt
  <2> QED BY <2>1, <2>8, <1>1
<1>6. \A i \in 0..k : G[i] = At(i) /\ At(i) \subseteq Merges
  OBVIOUS
<1> HIDE DEF Step, start
<1>7. ASSUME NEW i \in 1..k, NEW s \in Merges PROVE F[i, s] = Step(s, i)
  <2>1. <<i, s>> \in (1..k) \X Merges
    OBVIOUS
  <2> QED BY <2>1
<1>8. G \in [0..k -> SUBSET Merges]
  BY <1>6
<1> HIDE DEF F, At, G
<1>9. \E h : IsAfter(h)
  <2>1. \A i \in 1..k : \A s \in G[i - 1] : F[i, s] \in G[i]
    <3> SUFFICES ASSUME NEW i \in 1..k, NEW s \in G[i - 1] PROVE F[i, s] \in G[i]
      OBVIOUS
    <3>1. i - 1 \in 0..k /\ i \in 0..k /\ s \in At(i - 1) /\ s \in Merges
      BY <1>3, <1>6
    <3>2. F[i, s] = Step(s, i) /\ Step(s, i) \in At(i)
      BY <3>1, <1>4, <1>7
    <3> QED BY <3>1, <3>2, <1>6
  <2>2. start \in G[0]
    BY <1>1, <1>5, <1>6
  <2>3. PICK h \in [0..k -> Merges] : IsFold(h, F, start, k) /\ \A i \in 0..k : h[i] \in G[i]
    BY <1>1, <1>8, <2>1, <2>2, FoldExists
  <2>4. \A i \in 0..k : i # 0 => F[i, h[i - 1]] = Step(h[i - 1], i)
    <3>1. \A i \in 0..k : i # 0 => i \in 1..k
      BY <1>1
    <3> QED BY <3>1, <1>3, <1>7
  <2>5. IsAfter(h)
    BY <2>3, <2>4 DEF IsFold
  <2> QED BY <2>5
<1>10. IsAfter(a)
  BY <1>9
<1> HIDE DEF a
<1>11. end \in At(k)
  <2> DEFINE S == {i \in 0..k : a[i] \in At(i)}
  <2>1. 0 \in S
    <3>1. 0 \in 0..k
      BY <1>1
    <3> QED BY <3>1, <1>5, <1>10
  <2>2. ASSUME NEW i \in 1..k, i - 1 \in S PROVE i \in S
    <3>1. a[i] = Step(a[i - 1], i)
      BY <1>3, <1>10
    <3>2. a[i] \in At(i)
      BY <3>1, <2>2, <1>4
    <3> QED BY <1>3, <3>2
  <2>3. \A i \in 0..k : i \in S
    <3> HIDE DEF S
    <3> QED BY <2>1, <2>2, <1>1, UpTo
  <2> QED BY <2>3, <1>1
<1>12. end \in Merges /\ MergeAt(index, T, N, Len(T), end)
  BY <1>1, <1>11 DEF At
<1> HIDE DEF end, IsAfter
<1> DEFINE u == SortedUnion(index, T, N)
<1>13. u \in Seq(Datom) /\ Sorted(index, u) /\ Range(u) = Range(T) \cup Range(N)
  BY <1>1, <1>2a, UnionIsSorted
<1> HIDE DEF u
<1>14. PICK p \in 0..Len(N) : \E z, cut : /\ end.nov = SubSeq(N, p + 1, Len(N))
                                          /\ Cuts(end.out, z, cut)
                                          /\ MergedTo(index, T, N, Len(T), p, z)
  BY <1>12 DEF MergeAt
<1>15. PICK z, cut : /\ end.nov = SubSeq(N, p + 1, Len(N))
                     /\ Cuts(end.out, z, cut) /\ MergedTo(index, T, N, Len(T), p, z)
  BY <1>14
<1>16. ASSUME NEW q \in Seq(Datom) PROVE Firsts(q, Len(q) + 1) = Range(q)
  <2>1. DOMAIN q = 1..Len(q) /\ (Len(q) + 1) - 1 = Len(q)
    OBVIOUS
  <2> QED BY <2>1 DEF Firsts, Range
<1>17. /\ z \in Seq(Datom) /\ Sorted(index, z) /\ Range(z) = Range(T) \cup Firsts(N, p + 1)
       /\ Ahead(index, Range(z), N, p + 1)
  BY <1>15, <1>16 DEF MergedTo
<1> DEFINE r == SubSeq(N, p + 1, Len(N))
           w == z \o r
<1>18. r \in Seq(Datom) /\ Len(r) = Len(N) - p
  <2>1. 0 \in 0..(Len(N) - p)
    BY <1>1
  <2> QED BY <2>1, <1>1, RestOfRest
<1>19. w = u
  <2>1. /\ w \in Seq(Datom) /\ Sorted(index, w)
        /\ Range(w) = Range(z) \cup {N[b] : b \in (p + 1)..Len(N)}
    <3> DEFINE i == p + 1
               b == Len(N)
    <3>1. i \in 1..(Len(N) + 1) /\ b \in 0..Len(N) /\ i <= b + 1
      BY <1>1
    <3>2. Ahead(index, Range(z), N, i) /\ z \in Seq(Datom) /\ Sorted(index, z)
      BY <1>17
    <3>4. N \in Seq(Datom)
      BY <1>1
    <3> HIDE DEF i, b
    <3>3. /\ z \o SubSeq(N, i, b) \in Seq(Datom) /\ Sorted(index, z \o SubSeq(N, i, b))
          /\ Range(z \o SubSeq(N, i, b)) = Range(z) \cup {N[e] : e \in i..b}
      BY ONLY index \in Indexes, <3>1, <3>2, <3>4, <1>2a, AppendRun
    <3> QED BY <3>3 DEF i, b
  <2>2. Firsts(N, p + 1) \cup {N[b] : b \in (p + 1)..Len(N)} = Range(N)
    <3>1. DOMAIN N = 1..Len(N) /\ 1..Len(N) = (1..((p + 1) - 1)) \cup ((p + 1)..Len(N))
      BY <1>1
    <3> QED BY <3>1 DEF Firsts, Range
  <2>3. Range(w) = Range(u)
    BY <2>1, <2>2, <1>13, <1>17
  <2> HIDE DEF w
  <2> QED BY <2>1, <2>3, <1>13, SortedUnique
<1>20. CASE end.nov = <<>>
  <2>1. w = z
    BY <1>15, <1>17, <1>20, ConcatEmptySeq
  <2>2. MergeChunks(index, tree, nov) = end.out /\ end.out \in Seq(Chunk)
    BY <1>2, <1>12, <1>20 DEF Merges
  <2>3. Cuts(end.out, u, cut)
    BY <2>1, <1>15, <1>19
  <2> QED BY <2>2, <2>3, <1>2b DEF u
<1>21. CASE end.nov # <<>>
  <2>1. last \in Chunk /\ last.datoms = r /\ last.datoms # <<>>
    BY <1>15, <1>18, <1>21 DEF Chunk
  <2> HIDE DEF last
  <2>2. MergeChunks(index, tree, nov) = Append(end.out, last) /\ end.out \in Seq(Chunk)
    BY <1>2, <1>12, <1>21 DEF Merges
  <2>3. \E cut2 : Cuts(Append(end.out, last), z \o last.datoms, cut2)
    BY <2>1, <2>2, <1>15, <1>17, CutsAppend
  <2>4. Append(end.out, last) \in Seq(Chunk)
    BY <2>1, <2>2, AppendProperties
  <2> QED BY <2>1, <2>2, <2>3, <2>4, <1>19, <1>2b DEF u
<1> QED BY <1>20, <1>21

\* What holds as of a t among the datoms all: assertions that no later datom of
\* their fact follows by then.
Holding(all, asOf) ==
  {d \in all : /\ d.op /\ d.t <= asOf
               /\ \A x \in all : SameFact(d, x) /\ x.t <= asOf => x.t <= d.t}

\* In a sorted sequence that is what is live of it.
LEMMA LiveIsHolding ==
  ASSUME NEW index \in Indexes, NEW z \in Seq(Datom), Sorted(index, z), NEW asOf \in Int
  PROVE  {z[i] : i \in Live(z, Len(z), asOf)} = Holding(Range(z), asOf)
<1> DEFINE n == Len(z)
<1>1. /\ n \in Nat /\ DOMAIN z = 1..n
      /\ \A i \in 1..n : z[i] \in Datom /\ z[i].t \in Int /\ z[i].op \in BOOLEAN
  <2>1. n \in Nat /\ DOMAIN z = 1..n /\ \A i \in 1..n : z[i] \in Datom
    OBVIOUS
  <2>2. \A d \in Datom : d.t \in Int /\ d.op \in BOOLEAN
    BY DEF Datom
  <2> HIDE DEF n
  <2> QED BY <2>1, <2>2
<1> HIDE DEF n
<1>2. ASSUME NEW i \in Live(z, n, asOf) PROVE z[i] \in Holding(Range(z), asOf)
  <2>1. /\ i \in 1..n /\ z[i].op /\ z[i].t <= asOf
        /\ \A j \in (i + 1)..n : z[j].t <= asOf => ~SameFact(z[i], z[j])
    BY DEF Live, Visible
  <2>2. ASSUME NEW x \in Range(z), SameFact(z[i], x), x.t <= asOf PROVE x.t <= z[i].t
    <3>1. PICK j \in 1..n : x = z[j]
      BY <1>1 DEF Range
    <3>2. CASE i < j
      <4>1. j \in (i + 1)..n
        BY <3>2, <1>1, <2>1
      <4> QED BY <4>1, <2>1, <2>2, <3>1
    <3>3. CASE i = j
      BY <3>1, <3>3, <1>1
    <3>4. CASE j < i
      <4>1. Before(index, z[j], z[i])
        BY <3>4, <1>1, <2>1 DEF Sorted
      <4>2. SameFact(z[j], z[i])
        BY <2>2, <3>1 DEF SameFact
      <4>3. z[j] \in Datom /\ z[i] \in Datom /\ z[j].t \in Int /\ z[i].t \in Int
        BY <1>1, <2>1
      <4>4. z[j].t < z[i].t \/ z[j].t = z[i].t
        BY <4>1, <4>2, <4>3, BeforeOfOneFact
      <4> QED BY <4>3, <4>4, <3>1
    <3> QED BY <3>2, <3>3, <3>4, <1>1, <2>1
  <2>3. z[i] \in Range(z)
    BY <1>1, <2>1 DEF Range
  <2> QED BY <2>1, <2>2, <2>3 DEF Holding
<1>3. ASSUME NEW d \in Holding(Range(z), asOf) PROVE \E i \in Live(z, n, asOf) : d = z[i]
  <2>1. /\ d \in Range(z) /\ d.op /\ d.t <= asOf
        /\ \A x \in Range(z) : SameFact(d, x) /\ x.t <= asOf => x.t <= d.t
    BY DEF Holding
  <2>2. PICK i \in 1..n : d = z[i]
    BY <2>1, <1>1 DEF Range
  <2>3. ASSUME NEW j \in (i + 1)..n, z[j].t <= asOf, SameFact(z[i], z[j]) PROVE FALSE
    <3>1. j \in 1..n /\ i < j
      BY <1>1, <2>2
    <3>2. Before(index, z[i], z[j]) /\ z[j] \in Range(z)
      BY <3>1, <1>1, <2>2 DEF Sorted, Range
    <3>3. z[j].t <= z[i].t /\ z[i].op
      BY <3>2, <2>1, <2>2, <2>3
    <3>4. /\ z[i] \in Datom /\ z[j] \in Datom /\ z[i].t \in Int /\ z[j].t \in Int
      BY <3>1, <1>1, <2>2
    <3>5. z[i].t < z[j].t \/ (z[i].t = z[j].t /\ ~z[i].op /\ z[j].op)
      BY <3>2, <3>4, <2>3, BeforeOfOneFact
    <3> QED BY <3>3, <3>4, <3>5
  <2>4. i \in Live(z, n, asOf)
    BY <2>1, <2>2, <2>3 DEF Live, Visible
  <2> QED BY <2>2, <2>4
<1> QED BY <1>2, <1>3 DEF n

\* What is picked in order from a sorted sequence is sorted.
LEMMA PicksSorted ==
  ASSUME NEW index \in Indexes, NEW z \in Seq(Datom), Sorted(index, z),
         NEW L \in SUBSET (1..Len(z)), NEW out \in Seq(Datom), Picks(out, z, L)
  PROVE  Sorted(index, out) /\ Range(out) = {z[i] : i \in L}
<1>1. PICK f : Ordering(out, z, L, f)
  BY DEF Picks
<1> DEFINE n == Len(out)
           m == Len(z)
<1>2. /\ n \in Nat /\ m \in Nat /\ DOMAIN out = 1..n /\ DOMAIN z = 1..m
      /\ L \in SUBSET (1..m)
  OBVIOUS
<1>3. /\ \A i \in 1..n : f[i] \in L /\ out[i] = z[f[i]]
      /\ \A i, j \in 1..n : i < j => f[i] < f[j]
      /\ \A x \in L : \E i \in 1..n : f[i] = x
  BY <1>1 DEF Ordering, Enumerates
<1> HIDE DEF n, m
<1>4. Sorted(index, out)
  <2> SUFFICES ASSUME NEW i \in 1..n, NEW j \in 1..n, i < j PROVE Before(index, out[i], out[j])
    BY <1>2 DEF Sorted
  <2>1. f[i] < f[j] /\ f[i] \in 1..m /\ f[j] \in 1..m /\ out[i] = z[f[i]] /\ out[j] = z[f[j]]
    BY <1>2, <1>3
  <2> QED BY <2>1, <1>2 DEF Sorted
<1>5. Range(out) = {z[i] : i \in L}
  <2>1. ASSUME NEW d \in Range(out) PROVE d \in {z[i] : i \in L}
    <3>1. PICK i \in 1..n : d = out[i]
      BY <2>1, <1>2 DEF Range
    <3>2. d = z[f[i]] /\ f[i] \in L
      BY <3>1, <1>3
    <3> QED BY <3>2
  <2>2. ASSUME NEW x \in L PROVE z[x] \in Range(out)
    <3>1. PICK i \in 1..n : f[i] = x
      BY <1>3
    <3>2. i \in DOMAIN out /\ out[i] = z[x]
      BY <3>1, <1>2, <1>3
    <3> QED BY <3>2 DEF Range
  <2> QED BY <2>1, <2>2
<1> QED BY <1>4, <1>5

\* A read of an index: whatever the tree holds and novelty adds, the view as of
\* any t is, in the index's order and each once, the assertions no later datom of
\* their fact follows by then.
THEOREM ReadsAreNewest ==
  ASSUME NEW index \in Indexes, NEW T \in Seq(Datom), Sorted(index, T),
         NEW tree \in Seq(Chunk), NEW tcut, Cuts(tree, T, tcut),
         NEW nov \in Chunk, Sorted(index, nov.datoms), NEW asOf \in Int
  PROVE  LET view == CurrentView(MergeChunks(index, tree, nov), asOf) IN
         /\ view \in Seq(Datom) /\ Sorted(index, view)
         /\ Range(view) = Holding(Range(T) \cup Range(nov.datoms), asOf)
<1> DEFINE z == SortedUnion(index, T, nov.datoms)
           chunks == MergeChunks(index, tree, nov)
           view == CurrentView(chunks, asOf)
           L == Live(z, Len(z), asOf)
<1>1. nov.datoms \in Seq(Datom)
  BY DEF Chunk
<1>2. z \in Seq(Datom) /\ Sorted(index, z) /\ Range(z) = Range(T) \cup Range(nov.datoms)
  BY <1>1, UnionIsSorted
<1>3. chunks \in Seq(Chunk) /\ \E cut : Cuts(chunks, z, cut)
  BY MergeIsUnion
<1> HIDE DEF z, chunks
<1>4. PICK cut : Cuts(chunks, z, cut)
  BY <1>3
<1>5. Len(chunks) \in Nat
  BY <1>3, LenProperties
<1>6. History(Datom, z)
  BY <1>2, SortedIsHistory
<1>7. view \in Seq(Datom) /\ Picks(view, z, L)
  BY <1>4, <1>5, <1>6, ViewIsWhatHolds
<1>8. L \in SUBSET (1..Len(z))
  BY DEF Live
<1> HIDE DEF view
<1>9. Sorted(index, view) /\ Range(view) = {z[i] : i \in L}
  <2> HIDE DEF L
  <2> QED BY <1>2, <1>7, <1>8, PicksSorted
<1>10. {z[i] : i \in L} = Holding(Range(z), asOf)
  BY <1>2, LiveIsHolding
<1> QED BY <1>2, <1>7, <1>9, <1>10 DEF view, chunks

\* A batched seek unites a leaf's datoms with novelty at once and collapses them;
\* a stream merges and collapses chunk by chunk: they read the same.
THEOREM BatchIsRead ==
  ASSUME NEW index \in Indexes, NEW T \in Seq(Datom), Sorted(index, T),
         NEW tree \in Seq(Chunk), NEW tcut, Cuts(tree, T, tcut),
         NEW nov \in Chunk, Sorted(index, nov.datoms), NEW asOf \in Int
  PROVE  CollapseCurrent(SortedUnion(index, T, nov.datoms), asOf)
           = CurrentView(MergeChunks(index, tree, nov), asOf)
<1> DEFINE z == SortedUnion(index, T, nov.datoms)
           chunks == MergeChunks(index, tree, nov)
<1>1. nov.datoms \in Seq(Datom)
  BY DEF Chunk
<1>2. z \in Seq(Datom) /\ Sorted(index, z)
  BY <1>1, UnionIsSorted
<1>3. chunks \in Seq(Chunk) /\ \E cut : Cuts(chunks, z, cut)
  BY MergeIsUnion
<1> HIDE DEF z, chunks
<1>4. PICK cut : Cuts(chunks, z, cut)
  BY <1>3
<1>5. Len(chunks) \in Nat
  BY <1>3, LenProperties
<1>6. History(Datom, z)
  BY <1>2, SortedIsHistory
<1>7. CurrentView(chunks, asOf) = CollapseCurrent(z, asOf)
  BY <1>4, <1>5, <1>6, ViewsAgree
<1> QED BY <1>7 DEF z, chunks
=============================================================================
