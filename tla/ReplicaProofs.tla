---------------------------- MODULE ReplicaProofs ----------------------------
(***************************************************************************)
(* What Replica.tla's replica serves, for every size of it: its root and   *)
(* its entries are one run of the writer's log, and the copy they make is  *)
(* a prefix that never shrinks.                                            *)
(***************************************************************************)
EXTENDS Replica, FiniteSetTheorems, WellFoundedInduction, TLAPS

\* A set of naturals that is not empty has a least element.
LEMMA Least ==
  ASSUME NEW T \in SUBSET Nat, T # {}
  PROVE  \E x \in T : \A y \in T : x <= y
<1> DEFINE R == {p \in Nat \X Nat : p[1] < p[2]}
<1>1. R = OpToRel(<, Nat)
  BY Zenon DEF OpToRel
<1>2. IsWellFoundedOn(R, Nat)
  BY <1>1, NatLessThanWellFounded
<1>3. PICK x \in T : \A y \in T : ~ (<<y, x>> \in R)
  <2> HIDE DEF R
  <2> QED BY <1>2, WFMin
<1>4. ASSUME NEW y \in T PROVE x <= y
  <2>1. x \in Nat /\ y \in Nat
    OBVIOUS
  <2>2. ~ (<<y, x>> \in R)
    BY <1>3
  <2>3. <<y, x>> \in R <=> y < x
    BY <2>1
  <2> QED BY <2>1, <2>2, <2>3
<1> QED BY <1>4

\* What grows with every step of 1..n stays at or above the diagonal.
LEMMA Climbs ==
  ASSUME NEW n \in Nat, NEW lo \in Nat, NEW q \in [1..n -> Nat],
         \A i, j \in 1..n : i < j => q[i] < q[j], \A i \in 1..n : lo <= q[i]
  PROVE  \A i \in 1..n : lo + i - 1 <= q[i]
<1> DEFINE Bad == {i \in 1..n : q[i] < lo + i - 1}
<1>0. Bad \in SUBSET Nat
  OBVIOUS
<1>1. CASE Bad # {}
  <2>1. PICK i \in Bad : \A j \in Bad : i <= j
    <3> HIDE DEF Bad
    <3> QED BY <1>0, <1>1, Least
  <2>2. CASE i = 1
    BY <2>2
  <2>3. CASE i # 1
    <3>1. i - 1 \in 1..n /\ i - 1 \notin Bad /\ i \in 1..n
      BY <2>1, <2>3
    <3>2. q[i - 1] >= lo + i - 2 /\ q[i - 1] < q[i] /\ q[i] \in Nat /\ q[i - 1] \in Nat
      BY <3>1
    <3> QED BY <3>2, <3>1, <2>1
  <2> QED BY <2>2, <2>3
<1>2. ASSUME Bad = {}, NEW i \in 1..n PROVE lo + i - 1 <= q[i]
  <2>1. q[i] \in Nat /\ i \notin Bad
    BY <1>2
  <2> QED BY <2>1
<1> QED BY <1>1, <1>2

Size(a, b) == IF a <= b THEN b - a + 1 ELSE 0

\* An interval in order is its numbers one after the other.
LEMMA AscendingInterval ==
  ASSUME NEW a \in Nat, NEW b \in Int
  PROVE  Ascending(a..b) = [i \in 1..Size(a, b) |-> a + i - 1]
<1> DEFINE n == Size(a, b)
           f == [i \in 1..n |-> a + i - 1]
           Rises(q) == \A i, j \in DOMAIN q : i < j => q[i] < q[j]
<1>1. n \in Nat /\ (a <= b => n = b - a + 1) /\ (~ a <= b => n = 0)
  BY DEF Size
<1>2. Cardinality(a..b) = n
  BY FS_Interval DEF Size
<1>3. f \in [1..n -> a..b] /\ Rises(f)
  BY <1>1
<1>4. Ascending(a..b) = CHOOSE q \in [1..n -> a..b] : Rises(q)
  BY <1>2 DEF Ascending
<1> HIDE DEF n
<1>5. ASSUME NEW q \in [1..n -> a..b], Rises(q) PROVE q = f
  <2>1. \A i \in 1..n : a + i - 1 <= q[i]
    <3>1. q \in [1..n -> Nat] /\ \A i \in 1..n : a <= q[i]
      OBVIOUS
    <3> QED BY <3>1, <1>1, <1>5, Climbs
  <2> DEFINE r == [i \in 1..n |-> b - q[n + 1 - i]]
  <2>2. \A i \in 1..n : n + 1 - i \in 1..n /\ q[n + 1 - i] \in a..b
    BY <1>1
  <2>3. r \in [1..n -> Nat] /\ \A i \in 1..n : 0 <= r[i]
    <3>1. \A i \in 1..n : b - q[n + 1 - i] \in Nat
      <4>1. ASSUME NEW x \in a..b PROVE b - x \in Nat
        BY ONLY a \in Nat, b \in Int, x \in a..b
      <4> QED BY ONLY <2>2, <4>1
    <3> QED BY <3>1
  <2>4. \A i, j \in 1..n : i < j => r[i] < r[j]
    <3> SUFFICES ASSUME NEW i \in 1..n, NEW j \in 1..n, i < j PROVE r[i] < r[j]
      OBVIOUS
    <3>1. n + 1 - j < n + 1 - i
      BY <1>1
    <3>2. q[n + 1 - j] < q[n + 1 - i]
      BY <3>1, <2>2, <1>5
    <3> QED BY <3>2, <2>2
  <2>5. \A i \in 1..n : i - 1 <= r[i]
    <3> HIDE DEF r
    <3>1. \A i \in 1..n : 0 + i - 1 <= r[i]
      BY <2>3, <2>4, <1>1, Climbs
    <3> QED BY <3>1
  <2>6. ASSUME NEW i \in 1..n PROVE q[i] = a + i - 1
    <3>1. n + 1 - i \in 1..n /\ n + 1 - (n + 1 - i) = i
      BY <1>1
    <3>2. r[n + 1 - i] = b - q[i]
      BY <3>1
    <3>3. n + 1 - i - 1 <= r[n + 1 - i]
      <4>1. PICK k \in 1..n : k = n + 1 - i
        BY <3>1
      <4> HIDE DEF r
      <4>2. k - 1 <= r[k]
        BY <2>5
      <4> QED BY <4>1, <4>2, <1>1
    <3>4. q[i] \in a..b /\ a <= b /\ a + i - 1 <= q[i]
      BY <2>1
    <3>5. n = b - a + 1
      BY <3>4, <1>1
    <3>6. n + 1 - i - 1 <= b - q[i]
      BY <3>2, <3>3
    <3> HIDE DEF r
    <3> QED BY <3>6, <3>5, <3>4, <1>1
  <2> QED BY <2>6
<1>6. (CHOOSE q \in [1..n -> a..b] : Rises(q)) = f
  <2> HIDE DEF Rises, f
  <2> QED BY <1>3, <1>5
<1> QED BY <1>4, <1>6 DEF n

\* The larger of at most two numbers and zero.
LEMMA MaxOfOne ==
  ASSUME NEW x \in Int
  PROVE  Max0({x}) = IF x >= 0 THEN x ELSE 0
<1> DEFINE T == {x} \cup {0}
           m == IF x >= 0 THEN x ELSE 0
<1>1. m \in T /\ \A y \in T : m >= y
  OBVIOUS
<1>2. \A k \in T : (\A y \in T : k >= y) => k = m
  OBVIOUS
<1>3. Max(T) = m
  <2> HIDE DEF T, m
  <2> QED BY <1>1, <1>2 DEF Max
<1> QED BY <1>3 DEF Max0

\* The larger of two numbers is one of them, or zero.
LEMMA MaxOfTwo ==
  ASSUME NEW x \in Int, NEW z \in Int
  PROVE  /\ Max0({x, z}) \in Nat /\ Max0({x, z}) >= x /\ Max0({x, z}) >= z
         /\ Max0({x, z}) \in {x, z, 0}
<1> DEFINE T == {x, z} \cup {0}
           m == IF x >= 0 /\ x >= z THEN x ELSE IF z >= 0 THEN z ELSE 0
<1>1. m \in T /\ \A y \in T : m >= y
  OBVIOUS
<1>2. \A k \in T : (\A y \in T : k >= y) => k = m
  OBVIOUS
<1>3. Max(T) = m
  <2> HIDE DEF T, m
  <2> QED BY <1>1, <1>2 DEF Max
<1> QED BY <1>3, <1>1 DEF Max0

(***************************************************************************)
(* The invariant.                                                          *)
(***************************************************************************)
Kinds == {"public", "private", "grant", "revoke"}
Frames == [kind : {"hello", "root", "gap", "tx"}, t : Nat]
Handling == [at : {"idle", "log", "bucket", "apply", "next", "last"}, from : Nat, to : Nat,
             list : Seq(Nat), frame : Nat, walk : Nat, wait : SUBSET Sessions,
             on : SUBSET Sessions]

\* The writer is at most a batch ahead of its log, and what the bucket has is in it.
LogInv ==
  /\ log \in Seq(Kinds) /\ assigned \in Nat /\ assigned <= MaxT
  /\ Len(log) <= assigned /\ assigned <= Len(log) + 1
  /\ earliest \in Nat \ {0}
  /\ {chunked, rootRecord, run.to} \subseteq 0..Len(log)
  /\ current \in {NoRoot} \cup 0..Len(log)
  /\ run \in [at : {"idle", "publish", "adopt"}, to : Nat]

\* The entries follow the root one by one up to a t of the log, and SQL holds them,
\* and maybe more that follow: the rows a boot without a root did not read.
Base == IF root = NoRoot THEN 0 ELSE root
CopyInv ==
  /\ root \in {NoRoot} \cup 0..Len(log) /\ sqlRoot = root
  /\ entries \in Seq(Nat)
  /\ Base + Len(entries) <= Len(log)
  /\ \A i \in 1..Len(entries) : entries[i] = Base + i
  /\ \E n \in Nat : /\ Len(entries) <= n /\ Base + n <= Len(log)
                   /\ sqlNovelty = Base + 1 .. Base + n

\* What is on its way to the replica, or read by it, is in the log.
FramesInv ==
  /\ chain \in [Sockets -> Seq(Frames)]
  /\ \A c \in Sockets : \A i \in 1..Len(chain[c]) :
       chain[c][i].kind # "gap" => chain[c][i].t <= Len(log)
HandlersInv ==
  /\ handler \in [Handlers -> Handling]
  /\ \A h \in Handlers : /\ handler[h].frame <= Len(log)
                         /\ handler[h].walk <= Len(log)
                         /\ \A i \in 1..Len(handler[h].list) : handler[h].list[i] <= Len(log)
SyncingInv == syncing \in [at : {"no", "connect", "bucket"}, from : Nat] /\ ws \in Nat /\ opened \in Nat

ReplicaInv == LogInv /\ CopyInv /\ FramesInv /\ HandlersInv /\ SyncingInv

(***************************************************************************)
(* The copy is the t's up to the basis.                                    *)
(***************************************************************************)
\* The base is the root, or nothing.
LEMMA BaseIs ==
  ASSUME CopyInv, LogInv
  PROVE  Base \in Nat /\ Max0({root}) = Base /\ Len(log) \in Nat /\ Len(entries) \in Nat
<1>1. Len(log) \in Nat /\ Len(entries) \in Nat
  BY DEF LogInv, CopyInv
<1>2. root \in Int
  BY <1>1 DEF CopyInv, NoRoot
<1>3. Max0({root}) = IF root >= 0 THEN root ELSE 0
  BY <1>2, MaxOfOne
<1> QED BY <1>1, <1>2, <1>3 DEF Base, CopyInv, NoRoot

BasisFacts ==
  /\ BasisT = Base + Len(entries) /\ BasisT \in 0..Len(log) /\ Len(log) \in Nat
  /\ Copy = (IF root = NoRoot THEN {} ELSE 1..BasisT)
  /\ Range(entries) = Base + 1 .. BasisT

\* The basis ends the run of entries, and the copy that is served is all up to it.
LEMMA BasisIs == CopyInv /\ LogInv => BasisFacts
<1> SUFFICES ASSUME CopyInv, LogInv PROVE BasisFacts
  OBVIOUS
<1>1. Base \in Nat /\ Max0({root}) = Base /\ Len(log) \in Nat /\ Len(entries) \in Nat
  BY BaseIs
<1>2. BasisT = Base + Len(entries)
  <2>1. CASE entries = <<>>
    BY <2>1, <1>1 DEF BasisT
  <2>2. CASE entries # <<>>
    <3>1. Len(entries) \in 1..Len(entries)
      BY <2>2, <1>1 DEF CopyInv
    <3> QED BY <2>2, <3>1 DEF BasisT, Last, CopyInv
  <2> QED BY <2>1, <2>2
<1>3. BasisT \in 0..Len(log)
  BY <1>1, <1>2 DEF CopyInv
<1>4. Range(entries) = Base + 1 .. BasisT
  <2>0. \A i \in 1..Len(entries) : entries[i] = Base + i
    BY DEF CopyInv
  <2>1. DOMAIN entries = 1..Len(entries)
    BY DEF CopyInv
  <2>2. ASSUME NEW t \in Base + 1 .. BasisT PROVE t \in Range(entries)
    <3>1. t - Base \in 1..Len(entries) /\ Base + (t - Base) = t
      BY ONLY <1>1, <1>2, <1>3, t \in Base + 1 .. BasisT
    <3>2. entries[t - Base] = Base + (t - Base)
      BY ONLY <3>1, <2>0
    <3> QED BY ONLY <3>1, <3>2, <2>1 DEF Range
  <2>3. ASSUME NEW i \in 1..Len(entries) PROVE entries[i] \in Base + 1 .. BasisT
    <3>1. entries[i] = Base + i
      BY ONLY <2>0, i \in 1..Len(entries)
    <3>2. Base + i \in Base + 1 .. BasisT
      BY ONLY <1>1, <1>2, i \in 1..Len(entries)
    <3> QED BY ONLY <3>1, <3>2
  <2> QED BY <2>1, <2>2, <2>3 DEF Range
<1>5. Copy = IF root = NoRoot THEN {} ELSE 1..BasisT
  <2>0. SUFFICES ASSUME root # NoRoot PROVE Copy = 1..BasisT
    BY DEF Copy
  <2>1. Base <= BasisT /\ BasisT <= MaxT /\ MaxT \in Nat /\ BasisT \in Nat
    <3>1. MaxT \in Nat
      BY ONLY ReplicaAssumption
    <3>2. Len(log) \in Nat /\ assigned \in Nat /\ Len(log) <= assigned /\ assigned <= MaxT
      BY DEF LogInv
    <3>3. Base \in Nat /\ Len(entries) \in Nat
      BY <1>1 DEF CopyInv
    <3> QED BY ONLY <1>2, <1>3, <3>1, <3>2, <3>3
  <2>2. {t \in 1..MaxT : t <= root} = 1..Base
    BY <2>0, <2>1, <1>1 DEF Base, CopyInv, NoRoot
  <2> QED BY <2>0, <2>1, <2>2, <1>1, <1>4 DEF Copy
<1> QED BY <1>1, <1>2, <1>3, <1>4, <1>5 DEF BasisFacts

\* The same, after a step.
LEMMA BasisIsNext == CopyInv' /\ LogInv' => BasisFacts'
BY BasisIs, PTL

\* What the lemmas on the steps of the copy say: the copy stays one, and grows.
CopyGrows == CopyInv' /\ BasisT <= BasisT' /\ (root # NoRoot => root' # NoRoot)

\* The next entry makes the copy longer by one.
LEMMA Appends ==
  ASSUME LogInv, LogInv', CopyInv, log' = log, NEW t \in Nat, t = BasisT + 1, t <= Len(log),
         ApplyDatoms(t), UNCHANGED <<root, sqlRoot>>
  PROVE  CopyGrows /\ BasisT' = t
<1>1. Base \in Nat /\ Len(log) \in Nat /\ Len(entries) \in Nat /\ Max0({root}) = Base
  BY BaseIs
<1>2. BasisT = Base + Len(entries) /\ BasisT \in 0..Len(log)
  BY BasisIs DEF BasisFacts
<1>3. entries' \in Seq(Nat) /\ Len(entries') = Len(entries) + 1
      /\ \A i \in 1..Len(entries') :
           entries'[i] = IF i = Len(entries) + 1 THEN t ELSE entries[i]
  BY DEF ApplyDatoms, CopyInv
<1>4. Base' = Base
  BY DEF Base
<1>5. ASSUME NEW i \in 1..Len(entries') PROVE entries'[i] = Base + i
  <2>1. CASE i = Len(entries) + 1
    BY <2>1, <1>1, <1>2, <1>3
  <2>2. CASE i # Len(entries) + 1
    <3>1. i \in 1..Len(entries)
      BY <2>2, <1>1, <1>3
    <3> QED BY <2>2, <3>1, <1>3 DEF CopyInv
  <2> QED BY <2>1, <2>2
<1>6. \E n \in Nat : /\ Len(entries') <= n /\ Base + n <= Len(log)
                     /\ sqlNovelty' = Base + 1 .. Base + n
  <2>1. PICK n \in Nat : /\ Len(entries) <= n /\ Base + n <= Len(log)
                         /\ sqlNovelty = Base + 1 .. Base + n
    BY DEF CopyInv
  <2>2. sqlNovelty' = sqlNovelty \cup {t} /\ t = Base + Len(entries) + 1
    BY <1>1, <1>2 DEF ApplyDatoms
  <2>3. CASE n = Len(entries)
    <3>1. sqlNovelty' = Base + 1 .. Base + (n + 1)
      BY <2>1, <2>2, <2>3, <1>1
    <3>2. Base + (n + 1) <= Len(log) /\ Len(entries') <= n + 1 /\ n + 1 \in Nat
      BY <2>1, <2>2, <2>3, <1>1, <1>3
    <3> QED BY <3>1, <3>2
  <2>4. CASE n # Len(entries)
    <3>1. sqlNovelty' = Base + 1 .. Base + n /\ Len(entries') <= n
      BY <2>1, <2>2, <2>4, <1>1, <1>3
    <3> QED BY <3>1, <2>1
  <2> QED BY <2>3, <2>4
<1>7. CopyInv'
  BY <1>1, <1>2, <1>3, <1>4, <1>5, <1>6 DEF CopyInv
<1>8. BasisT' = Base' + Len(entries')
  BY <1>7, BasisIsNext DEF BasisFacts
<1> QED BY <1>1, <1>2, <1>3, <1>4, <1>7, <1>8 DEF CopyGrows

\* A root that is adopted takes over what it covers.
LEMMA Adopts ==
  ASSUME LogInv, LogInv', CopyInv, log' = log, NEW t \in 0..Len(log), AdoptRoot(t)
  PROVE  CopyGrows /\ root' # NoRoot
<1>1. Base \in Nat /\ Len(log) \in Nat /\ Len(entries) \in Nat /\ Max0({root}) = Base
  BY BaseIs
<1>2. BasisT = Base + Len(entries) /\ BasisT \in 0..Len(log)
      /\ Range(entries) = Base + 1 .. BasisT
  BY BasisIs DEF BasisFacts
<1>3. CASE t <= root
  <2>1. UNCHANGED <<root, sqlRoot, entries, sqlNovelty>>
    BY <1>3 DEF AdoptRoot
  <2>2. CopyInv'
    BY <2>1 DEF CopyInv, Base
  <2>3. BasisT' = BasisT
    BY <2>1 DEF BasisT
  <2>4. root # NoRoot
    BY <1>3, <1>1 DEF NoRoot
  <2> QED BY <2>1, <2>2, <2>3, <2>4, <1>2 DEF CopyGrows
<1>4. CASE ~ (t <= root)
  <2>1. root' = t /\ sqlRoot' = t /\ entries' = Above(entries, t)
        /\ sqlNovelty' = {u \in sqlNovelty : u > t}
    BY <1>4 DEF AdoptRoot
  <2>2. t > Base \/ (t = 0 /\ Base = 0)
    BY <1>4, <1>1 DEF Base, CopyInv, NoRoot
  <2>3. {u \in Range(entries) : u > t} = t + 1 .. BasisT
    BY <1>1, <1>2, <2>2
  <2>4. entries' = [i \in 1..Size(t + 1, BasisT) |-> t + 1 + i - 1]
    <3>1. t + 1 \in Nat /\ BasisT \in Int
      BY <1>1, <1>2
    <3>2. Ascending(t + 1 .. BasisT) = [i \in 1..Size(t + 1, BasisT) |-> t + 1 + i - 1]
      BY <3>1, AscendingInterval
    <3> QED BY <2>1, <2>3, <3>2 DEF Above
  <2>5. PICK m \in Nat : /\ Len(entries) <= m /\ Base + m <= Len(log)
                         /\ sqlNovelty' = t + 1 .. Base + m
    <3>1. PICK m \in Nat : /\ Len(entries) <= m /\ Base + m <= Len(log)
                           /\ sqlNovelty = Base + 1 .. Base + m
      BY DEF CopyInv
    <3>2. sqlNovelty' = t + 1 .. Base + m
      BY <3>1, <2>1, <2>2, <1>1
    <3> QED BY <3>1, <3>2
  <2>6. root' # NoRoot /\ Base' = t
    BY <2>1, <1>1 DEF Base, NoRoot
  <2> DEFINE n == Size(t + 1, BasisT)
  <2>7. n \in Nat /\ (t < BasisT => t + n = BasisT) /\ (t >= BasisT => n = 0)
    BY <1>1, <1>2 DEF Size
  <2> HIDE DEF n
  <2>8. entries' \in Seq(Nat) /\ Len(entries') = n /\ \A i \in 1..n : entries'[i] = t + i
    BY <2>4, <2>7, <1>1 DEF n
  <2>9. \E k \in Nat : n <= k /\ t + k <= Len(log) /\ sqlNovelty' = t + 1 .. t + k
    <3>1. CASE t < Base + m
      <4>1. Base + m - t \in Nat /\ n <= Base + m - t /\ t + (Base + m - t) = Base + m
        BY <3>1, <2>5, <2>7, <1>1, <1>2
      <4> QED BY <4>1, <2>5, <1>1
    <3>2. CASE ~ (t < Base + m)
      <4>1. n = 0 /\ sqlNovelty' = t + 1 .. t + 0
        BY <3>2, <2>5, <2>7, <1>1, <1>2
      <4>2. 0 \in Nat /\ n <= 0 /\ t + 0 <= Len(log)
        BY <4>1, <1>1
      <4> QED BY ONLY <4>1, <4>2
    <3> QED BY ONLY <3>1, <3>2
  <2>10. CopyInv'
    <3>1. root' \in {NoRoot} \cup 0..Len(log') /\ sqlRoot' = root'
      BY <2>1, <1>1
    <3>2. Len(entries') = n /\ Base' = t /\ log' = log
      BY <2>6, <2>8
    <3>3. \E k \in Nat : /\ Len(entries') <= k /\ Base' + k <= Len(log')
                         /\ sqlNovelty' = Base' + 1 .. Base' + k
      BY <2>9, <3>2
    <3>4. Base' + Len(entries') <= Len(log')
      BY <3>2, <2>7, <1>1, <1>2
    <3>5. \A i \in 1..Len(entries') : entries'[i] = Base' + i
      BY <2>8, <3>2
    <3> QED BY ONLY <3>1, <3>3, <3>4, <3>5, <2>8 DEF CopyInv
  <2>11. BasisT' = Base' + Len(entries')
    BY <2>10, BasisIsNext DEF BasisFacts
  <2> QED BY <2>6, <2>7, <2>8, <2>10, <2>11, <1>1, <1>2 DEF CopyGrows
<1> QED BY <1>3, <1>4

\* A step that leaves the copy alone.
LEMMA CopyRests ==
  ASSUME CopyInv, LogInv, LogInv', UNCHANGED <<root, entries, sqlRoot, sqlNovelty>>,
         Len(log) <= Len(log')
  PROVE  CopyGrows /\ UNCHANGED Copy /\ UNCHANGED BasisT
<1>1. Base \in Nat /\ Len(log) \in Nat /\ Len(entries) \in Nat
  BY BaseIs
<1>2. Len(log') \in Nat
  BY DEF LogInv
<1>3. UNCHANGED <<Base, BasisT, Copy>>
  BY DEF Base, BasisT, Copy
<1>4. CopyInv'
  <2>1. \E n \in Nat : /\ Len(entries) <= n /\ Base + n <= Len(log')
                       /\ sqlNovelty = Base + 1 .. Base + n
    BY <1>1, <1>2 DEF CopyInv
  <2> QED BY <2>1, <1>1, <1>2, <1>3 DEF CopyInv
<1>5. BasisT \in 0..Len(log)
  BY BasisIs DEF BasisFacts
<1> QED BY <1>1, <1>3, <1>4, <1>5 DEF CopyGrows

\* A replica that has no root adopts the published one, if there is one.
LEMMA FirstRoot ==
  ASSUME LogInv, LogInv', CopyInv, log' = log, root = NoRoot, AdoptRoot(current)
  PROVE  CopyGrows
<1>1. CASE current = NoRoot
  <2>1. UNCHANGED <<root, sqlRoot, entries, sqlNovelty>> /\ Len(log) \in Nat
    BY <1>1 DEF AdoptRoot, NoRoot, LogInv
  <2> QED BY <2>1, CopyRests
<1>2. CASE current # NoRoot
  <2>1. current \in 0..Len(log)
    BY <1>2 DEF LogInv
  <2> QED BY <2>1, Adopts
<1> QED BY <1>1, <1>2

\* A replica that boots without a root holds nothing.
Forgotten == root = NoRoot /\ root' = NoRoot /\ CopyInv' /\ BasisT' = 0

\* What SQL holds is what memory held, or more; without a root it is not read.
LEMMA Boots ==
  ASSUME LogInv, LogInv', CopyInv, log' = log, Boot
  PROVE  root' = root /\ (root # NoRoot => CopyGrows) /\ (root = NoRoot => Forgotten)
<1>1. Base \in Nat /\ Len(log) \in Nat /\ Len(entries) \in Nat /\ Max0({root}) = Base
  BY BaseIs
<1>2. root' = root /\ UNCHANGED <<sqlRoot, sqlNovelty>> /\ sqlRoot = root
  BY DEF Boot, CopyInv, durable
<1>3. BasisT = Base + Len(entries) /\ BasisT \in 0..Len(log)
  BY BasisIs DEF BasisFacts
<1>4. PICK n \in Nat : /\ Len(entries) <= n /\ Base + n <= Len(log)
                       /\ sqlNovelty = Base + 1 .. Base + n
  BY DEF CopyInv
<1>5. CASE root = NoRoot
  <2>1. entries' = <<>> /\ Len(entries') = 0 /\ Base' = Base /\ Base = 0
    BY <1>5, <1>2 DEF Boot, Base
  <2>2. CopyInv'
    BY <2>1, <1>1, <1>2, <1>4 DEF CopyInv
  <2>3. BasisT' = 0
    BY <2>1, <2>2, BasisIsNext DEF BasisFacts
  <2> QED BY <2>2, <2>3, <1>2, <1>5 DEF Forgotten
<1>6. CASE root # NoRoot
  <2>1. root = Base /\ Base' = Base
    BY <1>2, <1>6 DEF Base
  <2>2. {t \in sqlNovelty : t > sqlRoot} = Base + 1 .. Base + n
    BY <2>1, <1>1, <1>2, <1>4
  <2>3. entries' = Ascending(Base + 1 .. Base + n)
    BY <2>2, <1>2, <1>6 DEF Boot
  <2>4. Size(Base + 1, Base + n) = n
    BY <1>1 DEF Size
  <2>5. entries' = [i \in 1..n |-> Base + 1 + i - 1]
    <3>1. Base + 1 \in Nat /\ Base + n \in Int
      BY <1>1
    <3> QED BY <3>1, <2>3, <2>4, AscendingInterval
  <2>6. entries' \in Seq(Nat) /\ Len(entries') = n /\ \A i \in 1..n : entries'[i] = Base + i
    BY <2>5, <1>1
  <2>7. CopyInv'
    <3>1. root' \in {NoRoot} \cup 0..Len(log') /\ sqlRoot' = root'
      BY <1>2 DEF CopyInv
    <3>2. Len(entries') = n /\ Base' = Base /\ log' = log /\ sqlNovelty' = sqlNovelty
      BY <2>1, <2>6, <1>2
    <3>3. \E k \in Nat : /\ Len(entries') <= k /\ Base' + k <= Len(log')
                         /\ sqlNovelty' = Base' + 1 .. Base' + k
      BY <1>4, <3>2
    <3>4. Base' + Len(entries') <= Len(log')
      BY <3>2, <1>1, <1>4
    <3>5. \A i \in 1..Len(entries') : entries'[i] = Base' + i
      BY <2>6, <3>2
    <3> QED BY ONLY <3>1, <3>3, <3>4, <3>5, <2>6 DEF CopyInv
  <2>8. BasisT' = Base + n
    BY <2>1, <2>6, <2>7, BasisIsNext DEF BasisFacts
  <2> QED BY <2>7, <2>8, <1>1, <1>2, <1>3, <1>4, <1>6 DEF CopyGrows
<1> QED BY <1>2, <1>5, <1>6

(***************************************************************************)
(* The writer's steps.                                                     *)
(***************************************************************************)
\* An interval in order is of its numbers.
LEMMA AscendingIsWithin ==
  ASSUME NEW a \in Nat, NEW b \in Int
  PROVE  /\ Ascending(a..b) \in Seq(Nat)
         /\ \A i \in 1..Len(Ascending(a..b)) : Ascending(a..b)[i] \in a..b
<1> DEFINE n == Size(a, b)
<1>1. n \in Nat /\ (a <= b => n = b - a + 1) /\ (~ a <= b => n = 0)
  BY DEF Size
<1>2. Ascending(a..b) = [i \in 1..n |-> a + i - 1]
  BY AscendingInterval
<1> HIDE DEF n
<1> QED BY <1>1, <1>2

\* Rows of the log are of its t's.
LEMMA ReadsLog ==
  ASSUME LogInv, NEW from \in Nat, NEW to \in Nat
  PROVE  /\ ReadLog(from, to) \in Seq(Nat)
         /\ \A i \in 1..Len(ReadLog(from, to)) : ReadLog(from, to)[i] <= Len(log)
<1> DEFINE a == IF earliest <= from THEN from + 1 ELSE earliest
           b == IF to <= Len(log) THEN to ELSE Len(log)
<1>1. Len(log) \in Nat /\ earliest \in Nat
  BY DEF LogInv
<1>2. a \in Nat /\ b \in Nat /\ b \in Int /\ b <= Len(log)
  BY <1>1
<1>3. {t \in earliest..Len(log) : from < t /\ t <= to} = a..b
  BY <1>1
<1>4. ReadLog(from, to) = Ascending(a..b)
  BY <1>3 DEF ReadLog
<1> HIDE DEF a, b
<1>5. /\ Ascending(a..b) \in Seq(Nat)
      /\ \A i \in 1..Len(Ascending(a..b)) : Ascending(a..b)[i] \in a..b
  BY <1>2, AscendingIsWithin
<1>6. \A i \in 1..Len(Ascending(a..b)) : Ascending(a..b)[i] <= Len(log)
  BY <1>5, <1>2, <1>1
<1> QED BY <1>4, <1>5, <1>6

\* The log after a commit.
LogGrown ==
  /\ log' \in Seq(Kinds) /\ Len(log') = Len(log) + 1 /\ Len(log') = assigned
  /\ SubSeq(log', 1, Len(log)) = log
  /\ \A t \in 1..Len(log) : log'[t] = log[t]

\* A commit appends one entry and keeps the ones before.
LEMMA CommitGrows ==
  ASSUME LogInv, Commit
  PROVE  LogGrown
<1>1. PICK h \in Histories : IsPrefix(log, h) /\ log' = SubSeq(h, 1, assigned)
  BY DEF Commit
<1>2. h \in Seq(Kinds) /\ Len(h) = MaxT /\ MaxT \in Nat
  BY <1>1, ReplicaAssumption DEF Kinds
<1>3. log \in Seq(Kinds) /\ Len(log) \in Nat /\ assigned \in Nat /\ assigned = Len(log) + 1
      /\ assigned <= MaxT
  BY DEF LogInv, Commit
<1>4. log' \in Seq(Kinds) /\ Len(log') = assigned
      /\ \A t \in 1..assigned : log'[t] = h[t]
  BY <1>1, <1>2, <1>3
<1>5. SubSeq(log, 1, Len(log)) = SubSeq(h, 1, Len(log))
  BY <1>1 DEF IsPrefix
<1>6. \A t \in 1..Len(log) : log[t] = h[t]
  <2> SUFFICES ASSUME NEW t \in 1..Len(log) PROVE log[t] = h[t]
    OBVIOUS
  <2>1. SubSeq(log, 1, Len(log))[t] = log[t] /\ SubSeq(h, 1, Len(log))[t] = h[t]
    BY <1>2, <1>3
  <2> QED BY <2>1, <1>5
<1>7. \A t \in 1..Len(log) : log'[t] = log[t]
  BY <1>3, <1>4, <1>6
<1>8. SubSeq(log', 1, Len(log)) = log
  <2>1. SubSeq(log', 1, Len(log)) \in Seq(Kinds) /\ Len(SubSeq(log', 1, Len(log))) = Len(log)
        /\ \A t \in 1..Len(log) : SubSeq(log', 1, Len(log))[t] = log'[t]
    BY <1>3, <1>4
  <2> QED BY <2>1, <1>3, <1>7
<1> QED BY <1>3, <1>4, <1>7, <1>8 DEF LogGrown

\* What a step does to the log and the copy.
Follows ==
  /\ CopyGrows \/ (Crash /\ Forgotten)
  /\ \/ log' = log
     \/ LogGrown /\ UNCHANGED Copy

\* The frames, when the log has grown or stayed.
LEMMA FramesRest ==
  ASSUME LogInv, LogInv', FramesInv, UNCHANGED chain, Len(log) <= Len(log')
  PROVE  FramesInv'
<1>1. Len(log) \in Nat /\ Len(log') \in Nat
  BY DEF LogInv
<1>2. ASSUME NEW c \in Sockets, NEW i \in 1..Len(chain[c]), chain[c][i].kind # "gap"
      PROVE  chain[c][i].t <= Len(log')
  <2>1. chain[c] \in Seq(Frames) /\ chain[c][i] \in Frames
    BY DEF FramesInv
  <2>2. chain[c][i].t \in Nat /\ chain[c][i].t <= Len(log)
    BY <2>1, <1>2 DEF FramesInv, Frames
  <2> QED BY <2>2, <1>1
<1> QED BY <1>2 DEF FramesInv

\* What a list of t's has.
LEMMA ListOfNats ==
  ASSUME NEW list \in Seq(Nat)
  PROVE  \A i \in 1..Len(list) : list[i] \in Nat
OBVIOUS

\* The handlers, when the log has grown or stayed.
LEMMA HandlersRest ==
  ASSUME LogInv, LogInv', HandlersInv, UNCHANGED handler, Len(log) <= Len(log')
  PROVE  HandlersInv'
<1>1. Len(log) \in Nat /\ Len(log') \in Nat
  BY DEF LogInv
<1>2. ASSUME NEW h \in Handlers
      PROVE  /\ handler[h].frame <= Len(log') /\ handler[h].walk <= Len(log')
             /\ \A i \in 1..Len(handler[h].list) : handler[h].list[i] <= Len(log')
  <2>1. handler[h] \in Handling
    BY DEF HandlersInv
  <2>2. handler[h].frame \in Nat /\ handler[h].walk \in Nat /\ handler[h].list \in Seq(Nat)
    BY <2>1 DEF Handling
  <2>3. handler[h].frame <= Len(log) /\ handler[h].walk <= Len(log)
        /\ \A i \in 1..Len(handler[h].list) : handler[h].list[i] <= Len(log)
    BY DEF HandlersInv
  <2>4. \A i \in 1..Len(handler[h].list) : handler[h].list[i] \in Nat
    BY ONLY <2>2, ListOfNats
  <2> QED BY <2>2, <2>3, <2>4, <1>1
<1> QED BY <1>2 DEF HandlersInv

\* A frame that is broadcast is of the log.
LEMMA Broadcasts ==
  ASSUME LogInv, LogInv', FramesInv, Len(log) <= Len(log'), NEW f \in Frames, f.t <= Len(log'),
         chain' = Broadcast(f)
  PROVE  FramesInv'
<1>1. Len(log) \in Nat /\ Len(log') \in Nat
  BY DEF LogInv
<1>2. ASSUME NEW c \in Sockets
      PROVE  /\ chain'[c] \in Seq(Frames)
             /\ \A i \in 1..Len(chain'[c]) : chain'[c][i].kind # "gap" => chain'[c][i].t <= Len(log')
  <2>1. chain[c] \in Seq(Frames)
    BY DEF FramesInv
  <2>2. \A i \in 1..Len(chain[c]) :
          chain[c][i].kind # "gap" => chain[c][i].t <= Len(log')
    <3> SUFFICES ASSUME NEW i \in 1..Len(chain[c]), chain[c][i].kind # "gap"
                 PROVE  chain[c][i].t <= Len(log')
      OBVIOUS
    <3>1. chain[c][i] \in Frames
      BY <2>1
    <3>2. chain[c][i].t \in Nat /\ chain[c][i].t <= Len(log)
      BY <3>1 DEF FramesInv, Frames
    <3> QED BY <3>2, <1>1
  <2>3. CASE c # ws
    BY <2>1, <2>2, <2>3 DEF Broadcast
  <2>4. CASE c = ws
    <3>1. chain'[c] = Append(chain[c], f)
      BY <2>4 DEF Broadcast
    <3>2. \A i \in 1..Len(chain'[c]) :
            chain'[c][i] = IF i = Len(chain[c]) + 1 THEN f ELSE chain[c][i]
      BY <3>1, <2>1
    <3>3. chain'[c] \in Seq(Frames) /\ Len(chain'[c]) = Len(chain[c]) + 1
      BY <3>1, <2>1
    <3>4. Len(chain[c]) \in Nat
      BY <2>1
    <3> QED BY <3>2, <3>3, <3>4, <2>2
  <2> QED BY <2>3, <2>4
<1>3. DOMAIN chain' = Sockets /\ chain' = [c \in Sockets |-> chain'[c]]
  BY DEF Broadcast
<1> QED BY <1>2, <1>3 DEF FramesInv

\* What is sent on a socket that goes arrives up to some frame.
LEMMA DropsKeep ==
  ASSUME ReplicaInv, log' = log, DropWs,
         UNCHANGED <<root, entries, handler, syncing, opened, fails>>
  PROVE  FramesInv' /\ SyncingInv'
<1> USE DEF ReplicaInv
<1>1. CASE ws = 0
  BY <1>1 DEF DropWs, FramesInv, SyncingInv
<1>2. CASE ws # 0
  <2>1. ws' = 0 /\ Lose(ws)
    BY <1>2 DEF DropWs
  <2>2. PICK n \in 0..Len(chain[ws]) : chain' = [chain EXCEPT ![ws] = SubSeq(@, 1, n)]
    BY <2>1 DEF Lose
  <2>3. ASSUME NEW c \in Sockets
        PROVE  /\ chain'[c] \in Seq(Frames)
               /\ \A i \in 1..Len(chain'[c]) : chain'[c][i].kind # "gap" => chain'[c][i].t <= Len(log)
    <3>1. chain[c] \in Seq(Frames)
          /\ \A i \in 1..Len(chain[c]) : chain[c][i].kind # "gap" => chain[c][i].t <= Len(log)
      BY DEF FramesInv
    <3>2. CASE c # ws
      BY <3>1, <3>2, <2>2 DEF FramesInv
    <3>3. CASE c = ws
      <4>1. chain'[c] = SubSeq(chain[c], 1, n) /\ n \in 0..Len(chain[c])
        BY <3>3, <2>2 DEF FramesInv
      <4>2. chain'[c] \in Seq(Frames) /\ Len(chain'[c]) = n
            /\ \A i \in 1..n : chain'[c][i] = chain[c][i]
        BY <4>1, <3>1
      <4>3. \A i \in 1..n : i \in 1..Len(chain[c])
        BY <4>1, <3>1
      <4> QED BY <4>2, <4>3, <3>1
    <3> QED BY <3>2, <3>3
  <2>4. DOMAIN chain' = Sockets /\ chain' = [c \in Sockets |-> chain'[c]]
    BY <2>2 DEF FramesInv
  <2>5. FramesInv'
    BY <2>3, <2>4 DEF FramesInv
  <2> QED BY <1>2, <2>1, <2>5 DEF SyncingInv
<1> QED BY <1>1, <1>2

\* Every step of the writer keeps the invariant.
LEMMA WriterKeeps ==
  ASSUME ReplicaInv, Writer
  PROVE  ReplicaInv' /\ Follows
<1> USE DEF ReplicaInv
<1>0. Len(log) \in Nat /\ assigned \in Nat /\ run.to \in Nat /\ {chunked, rootRecord} \subseteq Nat /\ current \in Int
  BY DEF LogInv, NoRoot
<1>1. CASE Assign
  <2>1. UNCHANGED <<log, root, entries, sqlRoot, sqlNovelty, chain, handler, syncing, ws, opened, fails>>
    BY <1>1 DEF Assign, replica, durable, memory, upstream, counters
  <2>2. LogInv'
    BY <1>1, <2>1, <1>0, ReplicaAssumption DEF Assign, LogInv
  <2>3. FramesInv' /\ HandlersInv'
    BY <2>1, <2>2, <1>0, FramesRest, HandlersRest
  <2>4. CopyGrows
    BY <2>1, <2>2, <1>0, CopyRests
  <2>5. SyncingInv'
    BY <2>1 DEF SyncingInv
  <2> QED BY <2>1, <2>2, <2>3, <2>4, <2>5 DEF Follows, CopyGrows
<1>2. CASE Commit
  <2>1. LogGrown
    BY <1>2, CommitGrows
  <2>2. UNCHANGED <<root, entries, sqlRoot, sqlNovelty, handler, syncing, ws, opened, fails>>
        /\ chain' = Broadcast(TxFrame(assigned))
        /\ UNCHANGED <<assigned, earliest, chunked, current, rootRecord, run>>
    BY <1>2 DEF Commit, durable, memory, counters
  <2>3. LogInv'
    BY <2>1, <2>2, <1>0 DEF LogGrown, LogInv
  <2>4. Len(log) <= Len(log')
    BY <2>1, <1>0 DEF LogGrown
  <2>5. TxFrame(assigned) \in Frames /\ TxFrame(assigned).t <= Len(log')
    BY <2>1, <1>0 DEF TxFrame, Frames, LogGrown
  <2>6. FramesInv'
    BY <2>2, <2>3, <2>4, <2>5, Broadcasts
  <2>7. HandlersInv'
    BY <2>2, <2>3, <2>4, HandlersRest
  <2>8. CopyGrows /\ UNCHANGED Copy
    BY <2>2, <2>3, <2>4, CopyRests
  <2>9. SyncingInv'
    BY <2>2 DEF SyncingInv
  <2> QED BY <2>1, <2>3, <2>6, <2>7, <2>8, <2>9 DEF Follows, CopyGrows
<1>3. CASE WriterDies
  <2>1. UNCHANGED <<log, root, entries, sqlRoot, sqlNovelty, handler, syncing, opened, fails>>
        /\ UNCHANGED <<earliest, chunked, current, rootRecord>>
        /\ assigned' = Len(log) /\ run' = NotRunning /\ DropWs
    BY <1>3 DEF WriterDies, durable, memory, counters
  <2>2. LogInv'
    <3>1. run' \in [at : {"idle", "publish", "adopt"}, to : Nat] /\ run'.to = 0
      BY <2>1 DEF NotRunning
    <3>2. log' = log /\ assigned' = Len(log)
      BY <2>1
    <3>3. Len(log) <= MaxT
      BY <1>0, ReplicaAssumption DEF LogInv
    <3> QED BY <2>1, <3>1, <3>2, <3>3, <1>0 DEF LogInv
  <2>3. HandlersInv'
    BY <2>1, <2>2, <1>0, HandlersRest
  <2>4. CopyGrows
    BY <2>1, <2>2, <1>0, CopyRests
  <2>5. FramesInv' /\ SyncingInv'
    BY <2>1, DropsKeep
  <2> QED BY <2>1, <2>2, <2>3, <2>4, <2>5 DEF Follows, CopyGrows
<1>4. CASE PutChunk \/ PublishRoot
  <2>1. UNCHANGED <<log, root, entries, sqlRoot, sqlNovelty, chain, handler, syncing, ws, opened, fails>>
        /\ UNCHANGED <<assigned, earliest, rootRecord>>
    BY <1>4 DEF PutChunk, PublishRoot, replica, durable, memory, upstream, counters
  <2>2. LogInv'
    <3>1. CASE PutChunk
      <4>1. PICK t \in rootRecord + 1 .. Len(log) :
              run' = [at |-> "publish", to |-> t] /\ chunked' = Max0({chunked, t})
        BY <3>1 DEF PutChunk
      <4>2. t \in Int /\ t \in 0..Len(log) /\ chunked \in Int
        BY <1>0
      <4>3. Max0({chunked, t}) \in {chunked, t, 0}
        BY <4>2, MaxOfTwo
      <4>4. current' = current
        BY <3>1 DEF PutChunk
      <4> QED BY <2>1, <4>1, <4>2, <4>3, <4>4, <1>0 DEF LogInv
    <3>2. CASE PublishRoot
      BY <2>1, <3>2, <1>0 DEF PublishRoot, LogInv
    <3> QED BY <1>4, <3>1, <3>2
  <2>3. FramesInv' /\ HandlersInv'
    BY <2>1, <2>2, <1>0, FramesRest, HandlersRest
  <2>4. CopyGrows
    BY <2>1, <2>2, <1>0, CopyRests
  <2>5. SyncingInv'
    BY <2>1 DEF SyncingInv
  <2> QED BY <2>1, <2>2, <2>3, <2>4, <2>5 DEF Follows, CopyGrows
<1>5. CASE IndexerAdopts
  <2>1. UNCHANGED <<log, root, entries, sqlRoot, sqlNovelty, handler, syncing, ws, opened, fails>>
        /\ UNCHANGED <<assigned, chunked, current>>
        /\ run' = NotRunning /\ rootRecord' = run.to
        /\ earliest' = Max0({earliest, run.to - LogKeepTxs + 1})
        /\ chain' = Broadcast(RootFrame(run.to))
    BY <1>5 DEF IndexerAdopts, durable, memory, counters
  <2>2. LogInv'
    <3>1. earliest \in Nat \ {0} /\ LogKeepTxs \in Nat
      BY ReplicaAssumption DEF LogInv
    <3>2. earliest' \in Nat /\ earliest' >= earliest
      <4>1. PICK x \in Int : x = run.to - LogKeepTxs + 1
        BY <3>1, <1>0
      <4>2. Max0({earliest, x}) \in Nat /\ Max0({earliest, x}) >= earliest
        BY <3>1, MaxOfTwo
      <4> QED BY <2>1, <4>1, <4>2
    <3> QED BY <2>1, <3>1, <3>2, <1>0 DEF LogInv, NotRunning
  <2>3. RootFrame(run.to) \in Frames /\ RootFrame(run.to).t <= Len(log')
    BY <2>1, <1>0 DEF RootFrame, Frames, LogInv
  <2>4. FramesInv'
    BY <2>1, <2>2, <2>3, <1>0, Broadcasts
  <2>5. HandlersInv'
    BY <2>1, <2>2, <1>0, HandlersRest
  <2>6. CopyGrows
    BY <2>1, <2>2, <1>0, CopyRests
  <2>7. SyncingInv'
    BY <2>1 DEF SyncingInv
  <2> QED BY <2>1, <2>2, <2>4, <2>5, <2>6, <2>7 DEF Follows, CopyGrows
<1> QED BY <1>1, <1>2, <1>3, <1>4, <1>5 DEF Writer

(***************************************************************************)
(* The replica's steps.                                                    *)
(***************************************************************************)
\* A handler goes somewhere else.
LEMMA Goes ==
  ASSUME HandlersInv, log' = log, NEW h \in Handlers, NEW hd \in Handling,
         hd.frame <= Len(log), hd.walk <= Len(log),
         \A i \in 1..Len(hd.list) : hd.list[i] <= Len(log), Goto(h, hd)
  PROVE  HandlersInv'
<1>1. handler' = [handler EXCEPT ![h] = hd]
  BY DEF Goto
<1> QED BY <1>1 DEF HandlersInv

\* Where a handler starts from, and where it goes on from.
LEMMA IdleIs ==
  Idle \in Handling /\ Idle.frame = 0 /\ Idle.walk = 0 /\ Idle.list = <<>> /\ Idle.at = "idle"
  /\ Idle.wait = {} /\ Idle.on = {}
BY DEF Idle, Handling

\* A handler that is sent to the bucket has nothing in hand.
LEMMA BucketIs ==
  ASSUME NEW from \in Nat
  PROVE  LET hd == [Idle EXCEPT !.at = "bucket", !.from = from, !.to = MaxT]
         IN  hd \in Handling /\ hd.frame = 0 /\ hd.walk = 0 /\ hd.list = <<>>
<1> DEFINE hd == [Idle EXCEPT !.at = "bucket", !.from = from, !.to = MaxT]
<1>1. MaxT \in Nat /\ Idle \in Handling /\ Idle.frame = 0 /\ Idle.walk = 0 /\ Idle.list = <<>>
  BY ReplicaAssumption, IdleIs
<1>2. hd.frame = 0 /\ hd.walk = 0 /\ hd.list = <<>>
  BY <1>1 DEF Handling
<1>3. hd \in Handling
  BY <1>1 DEF Handling
<1> QED BY <1>2, <1>3

\* A handler that is sent walking keeps what it has read.
LEMMA WalkIs ==
  ASSUME NEW hd \in Handling, NEW at \in {"next", "last"}, NEW t \in Nat
  PROVE  LET w == Walking(hd, at, t)
         IN  w \in Handling /\ w.frame = hd.frame /\ w.walk = t /\ w.list = hd.list
BY DEF Walking, Handling, Attached

\* The frame a socket brings.
LEMMA Takes ==
  ASSUME LogInv, FramesInv, log' = log, NEW c \in Sockets, chain[c] # <<>>, Take(c)
  PROVE  /\ FramesInv' /\ Frame(c) \in Frames
         /\ Frame(c).kind # "gap" => Frame(c).t <= Len(log)
<1>1. chain[c] \in Seq(Frames)
      /\ \A i \in 1..Len(chain[c]) : chain[c][i].kind # "gap" => chain[c][i].t <= Len(log)
  BY DEF FramesInv
<1>2. Frame(c) \in Frames /\ (Frame(c).kind # "gap" => Frame(c).t <= Len(log))
  <2>1. Frame(c) = chain[c][1] /\ 1 \in 1..Len(chain[c])
    BY <1>1 DEF Frame
  <2> QED BY <1>1, <2>1
<1>3. Tail(chain[c]) \in Seq(Frames)
      /\ \A i \in 1..Len(Tail(chain[c])) :
           Tail(chain[c])[i].kind # "gap" => Tail(chain[c])[i].t <= Len(log)
  <2>1. Tail(chain[c]) \in Seq(Frames) /\ Len(Tail(chain[c])) = Len(chain[c]) - 1
        /\ Len(chain[c]) \in Nat
        /\ \A i \in 1..Len(Tail(chain[c])) : Tail(chain[c])[i] = chain[c][i + 1]
    BY <1>1
  <2>2. \A i \in 1..Len(Tail(chain[c])) : i + 1 \in 1..Len(chain[c])
    BY <2>1
  <2> QED BY <2>1, <2>2, <1>1
<1>4. chain' = [chain EXCEPT ![c] = Tail(chain[c])]
  BY DEF Take
<1>5. FramesInv'
  BY <1>3, <1>4 DEF FramesInv
<1> QED BY <1>2, <1>5

\* What the writer sends to a socket that connects is of its log.
LEMMA CatchUpIsLog ==
  ASSUME LogInv, NEW from \in Nat
  PROVE  /\ <<Hello>> \o SendCatchUp(from) \in Seq(Frames)
         /\ \A i \in 1..Len(<<Hello>> \o SendCatchUp(from)) :
              LET f == (<<Hello>> \o SendCatchUp(from))[i]
              IN  f.kind # "gap" => f.t <= Len(log)
<1> DEFINE OfLog(q) == q \in Seq(Frames) /\ \A i \in 1..Len(q) : q[i].kind # "gap" => q[i].t <= Len(log)
<1>0. Len(log) \in Nat /\ assigned \in Nat /\ rootRecord \in 0..Len(log) /\ earliest \in Nat
  BY DEF LogInv
<1>1. ASSUME NEW p, NEW q, OfLog(p), OfLog(q) PROVE OfLog(p \o q)
  <2>1. p \in Seq(Frames) /\ q \in Seq(Frames) /\ Len(p) \in Nat /\ Len(q) \in Nat
    BY <1>1
  <2>2. p \o q \in Seq(Frames) /\ Len(p \o q) = Len(p) + Len(q)
        /\ \A i \in 1..Len(p \o q) : (p \o q)[i] = IF i <= Len(p) THEN p[i] ELSE q[i - Len(p)]
    BY <2>1
  <2>3. ASSUME NEW i \in 1..Len(p \o q), (p \o q)[i].kind # "gap" PROVE (p \o q)[i].t <= Len(log)
    <3>1. CASE i <= Len(p)
      BY <3>1, <2>1, <2>2, <2>3, <1>1
    <3>2. CASE ~ (i <= Len(p))
      <4>1. i - Len(p) \in 1..Len(q) /\ (p \o q)[i] = q[i - Len(p)]
        BY <3>2, <2>1, <2>2
      <4> QED BY <4>1, <2>3, <1>1
    <3> QED BY <3>1, <3>2
  <2> QED BY <2>2, <2>3
<1>2. OfLog(<<Hello>>)
  <2>1. Hello \in Frames /\ Hello.t <= Len(log)
    BY <1>0 DEF Hello, Frames
  <2> HIDE DEF Frames
  <2> QED BY <2>1
<1>3. ASSUME NEW start \in Nat PROVE OfLog(<<GapFrame(start)>>)
  <2>1. GapFrame(start) \in Frames /\ GapFrame(start).kind = "gap"
    BY DEF GapFrame, Frames
  <2> QED BY <2>1
<1>4. ASSUME NEW start \in Nat
      PROVE  OfLog([i \in DOMAIN ReadLog(start, assigned) |-> TxFrame(ReadLog(start, assigned)[i])])
  <2>1. PICK r : r = ReadLog(start, assigned)
    OBVIOUS
  <2>2. r \in Seq(Nat) /\ \A i \in 1..Len(r) : r[i] <= Len(log)
    BY <2>1, <1>0, ReadsLog
  <2>3. DOMAIN r = 1..Len(r) /\ Len(r) \in Nat
    BY <2>2
  <2>4. \A i \in 1..Len(r) : TxFrame(r[i]) \in Frames /\ TxFrame(r[i]).t <= Len(log)
    BY <2>2 DEF TxFrame, Frames
  <2>5. [i \in 1..Len(r) |-> TxFrame(r[i])] \in Seq(Frames)
        /\ Len([i \in 1..Len(r) |-> TxFrame(r[i])]) = Len(r)
    BY <2>3, <2>4
  <2>6. OfLog([i \in 1..Len(r) |-> TxFrame(r[i])])
    BY <2>4, <2>5
  <2> QED BY <2>1, <2>3, <2>6
<1>5. OfLog(<<>>)
  OBVIOUS
<1>6. OfLog(SendCatchUp(from))
  <2>1. EarliestLogT \in Nat
    BY <1>0 DEF EarliestLogT
  <2>2. PICK gap \in BOOLEAN :
          gap = (from < assigned /\ (EarliestLogT = 0 \/ EarliestLogT > from + 1))
    OBVIOUS
  <2>3. PICK start \in Nat : start = IF gap THEN Max0({from, EarliestLogT - 1}) ELSE from
    <3>1. PICK x \in Int : x = EarliestLogT - 1
      BY <2>1
    <3>2. from \in Int
      OBVIOUS
    <3>3. Max0({from, x}) \in Nat
      BY <3>2, MaxOfTwo
    <3> QED BY <3>1, <3>3
  <2>4. SendCatchUp(from) =
          (IF gap THEN <<GapFrame(start)>> ELSE <<>>)
          \o [i \in DOMAIN ReadLog(start, assigned) |-> TxFrame(ReadLog(start, assigned)[i])]
    BY <2>2, <2>3 DEF SendCatchUp
  <2> HIDE DEF OfLog
  <2>5. OfLog(IF gap THEN <<GapFrame(start)>> ELSE <<>>)
    BY <1>3, <1>5
  <2> QED BY <2>4, <2>5, <1>1, <1>4
<1> HIDE DEF OfLog
<1>7. OfLog(<<Hello>> \o SendCatchUp(from))
  BY <1>1, <1>2, <1>6
<1> QED BY <1>7 DEF OfLog

\* Connecting keeps the invariant.
LEMMA ConnectingKeeps ==
  ASSUME ReplicaInv, Connecting \/ UpstreamDrops
  PROVE  ReplicaInv' /\ Follows
<1> USE DEF ReplicaInv
<1>0. Len(log) \in Nat /\ log' = log /\ LogInv' /\ chunked \in 0..Len(log) /\ current \in {NoRoot} \cup 0..Len(log)
      /\ BasisT \in 0..Len(log)
  <2>1. UNCHANGED writer
    BY DEF Connecting, SyncStart, Connect, ConnectFails, SyncDone, UpstreamDrops
  <2> QED BY <2>1, BasisIs DEF writer, LogInv, BasisFacts
<1>1. CASE SyncStart
  <2>1. UNCHANGED <<ws, chain, handler, opened>> /\ syncing.at = "no"
    BY <1>1 DEF SyncStart
  <2>2. FramesInv' /\ HandlersInv'
    BY <2>1, <1>0, FramesRest, HandlersRest
  <2>3. CopyGrows
    <3>1. CASE root = NoRoot
      <4>1. AdoptRoot(current)
        BY <1>1, <3>1 DEF SyncStart
      <4> QED BY <4>1, <3>1, <1>0, FirstRoot
    <3>2. CASE root # NoRoot
      <4>1. UNCHANGED <<root, entries, sqlRoot, sqlNovelty>>
        BY <1>1, <3>2 DEF SyncStart, durable, memory
      <4> QED BY <4>1, <3>2, <1>0, CopyRests
    <3> QED BY <3>1, <3>2
  <2>4. SyncingInv'
    <3>1. current \in Int /\ BasisT \in Int /\ BasisT \in Nat
      BY <1>0 DEF NoRoot
    <3>2. Max0({current, BasisT}) \in Nat
      BY <3>1, MaxOfTwo
    <3> QED BY <1>1, <2>1, <3>1, <3>2 DEF SyncStart, SyncingInv
  <2> QED BY <1>0, <2>2, <2>3, <2>4 DEF Follows, CopyGrows
<1>2. CASE Connect
  <2>1. UNCHANGED <<root, entries, sqlRoot, sqlNovelty, handler>>
        /\ syncing' = NotSyncing /\ opened' = opened + 1 /\ ws' = opened'
        /\ chain' = [chain EXCEPT ![opened'] = <<Hello>> \o SendCatchUp(syncing.from)]
    BY <1>2 DEF Connect, durable, memory
  <2>2. HandlersInv'
    BY <2>1, <1>0, HandlersRest
  <2>3. CopyGrows
    BY <2>1, <1>0, CopyRests
  <2>4. SyncingInv'
    BY <2>1 DEF SyncingInv, NotSyncing
  <2>5. FramesInv'
    <3>1. syncing.from \in Nat
      BY DEF SyncingInv
    <3>2. PICK q : q = <<Hello>> \o SendCatchUp(syncing.from)
      OBVIOUS
    <3>3. q \in Seq(Frames) /\ \A i \in 1..Len(q) : q[i].kind # "gap" => q[i].t <= Len(log)
      BY <3>1, <3>2, CatchUpIsLog
    <3>4. chain' = [chain EXCEPT ![opened'] = q]
      BY <2>1, <3>2
    <3> QED BY <3>3, <3>4, <1>0 DEF FramesInv
  <2> QED BY <1>0, <2>1, <2>2, <2>3, <2>4, <2>5 DEF Follows, CopyGrows
<1>3. CASE ConnectFails
  <2> DEFINE hd == [Idle EXCEPT !.at = "bucket", !.from = BasisT, !.to = MaxT]
  <2>1. UNCHANGED <<root, entries, sqlRoot, sqlNovelty, chain, ws, opened>>
        /\ syncing' = [syncing EXCEPT !.at = "bucket"] /\ Goto(0, hd)
    BY <1>3 DEF ConnectFails, durable, memory, Goto
  <2>2. hd \in Handling /\ hd.frame = 0 /\ hd.walk = 0 /\ hd.list = <<>>
    <3>1. BasisT \in Nat
      BY <1>0
    <3> QED BY <3>1, BucketIs
  <2>3. HandlersInv'
    <3>1. 0 \in Handlers
      BY ReplicaAssumption DEF Handlers
    <3> HIDE DEF hd
    <3> QED BY <2>1, <2>2, <3>1, <1>0, Goes
  <2>4. CopyGrows
    BY <2>1, <1>0, CopyRests
  <2>5. FramesInv'
    BY <2>1, <1>0, FramesRest
  <2>6. SyncingInv'
    BY <2>1 DEF SyncingInv
  <2> QED BY <1>0, <2>1, <2>3, <2>4, <2>5, <2>6 DEF Follows, CopyGrows
<1>4. CASE SyncDone
  <2>1. UNCHANGED <<root, entries, sqlRoot, sqlNovelty, chain, ws, opened, handler>>
        /\ syncing' = NotSyncing
    BY <1>4 DEF SyncDone, durable, memory
  <2>2. CopyGrows
    BY <2>1, <1>0, CopyRests
  <2>3. FramesInv' /\ HandlersInv'
    BY <2>1, <1>0, FramesRest, HandlersRest
  <2>4. SyncingInv'
    BY <2>1 DEF SyncingInv, NotSyncing
  <2> QED BY <1>0, <2>1, <2>2, <2>3, <2>4 DEF Follows, CopyGrows
<1>5. CASE UpstreamDrops
  <2>1. UNCHANGED <<root, entries, sqlRoot, sqlNovelty, opened, handler, syncing, fails>> /\ DropWs
    BY <1>5 DEF UpstreamDrops, durable, memory, counters, DropWs
  <2>2. CopyGrows
    BY <2>1, <1>0, CopyRests
  <2>3. HandlersInv'
    BY <2>1, <1>0, HandlersRest
  <2>4. FramesInv' /\ SyncingInv'
    BY <2>1, <1>0, DropsKeep
  <2> QED BY <1>0, <2>1, <2>2, <2>3, <2>4 DEF Follows, CopyGrows
<1> QED BY <1>1, <1>2, <1>3, <1>4, <1>5 DEF Connecting

\* Handling a frame keeps the invariant.
LEMMA HandleKeeps ==
  ASSUME ReplicaInv, NEW h \in Handlers,
         HandleRoot(h) \/ HandleGap(h) \/ HandleTx(h) \/ ReadWriterLog(h), h # 0
  PROVE  ReplicaInv' /\ Follows
<1> USE DEF ReplicaInv
<1>0. Len(log) \in Nat /\ log' = log /\ LogInv' /\ chunked \in 0..Len(log) /\ current \in {NoRoot} \cup 0..Len(log)
      /\ BasisT \in 0..Len(log) /\ h \in Sockets /\ MaxT \in Nat
  <2>1. UNCHANGED writer
    BY DEF HandleRoot, HandleGap, HandleTx, ReadWriterLog
  <2> QED BY <2>1, BasisIs, ReplicaAssumption DEF writer, LogInv, BasisFacts, Handlers, Sockets
<1>2. handler[h] \in Handling /\ handler[h].frame <= Len(log) /\ handler[h].walk <= Len(log)
  BY DEF HandlersInv
<1>3. CASE HandleRoot(h)
  <2>1. UNCHANGED <<ws, syncing, handler, opened>> /\ Take(h) /\ AdoptRoot(Frame(h).t)
        /\ chain[h] # <<>> /\ Frame(h).kind # "gap"
    BY <1>3 DEF HandleRoot, Ready
  <2>2. FramesInv' /\ Frame(h) \in Frames /\ Frame(h).t <= Len(log)
    BY <2>1, <1>0, Takes
  <2>3. Frame(h).t \in 0..Len(log)
    BY <2>2, <1>0 DEF Frames
  <2>4. CopyGrows
    BY <2>1, <2>3, <1>0, Adopts
  <2>5. HandlersInv'
    BY <2>1, <1>0, HandlersRest
  <2>6. SyncingInv'
    BY <2>1 DEF SyncingInv
  <2> QED BY <1>0, <2>2, <2>4, <2>5, <2>6 DEF Follows, CopyGrows
<1>4. CASE HandleGap(h)
  <2>1. UNCHANGED <<root, entries, sqlRoot, sqlNovelty, ws, syncing, opened>> /\ Take(h)
        /\ chain[h] # <<>>
        /\ Goto(h, [Idle EXCEPT !.at = "bucket", !.from = Frame(h).t, !.to = MaxT])
    BY <1>4 DEF HandleGap, Ready, durable, memory
  <2>2. FramesInv' /\ Frame(h) \in Frames
    BY <2>1, <1>0, Takes
  <2>3. PICK from \in Nat : from = Frame(h).t
    BY <2>2 DEF Frames
  <2> DEFINE hd == [Idle EXCEPT !.at = "bucket", !.from = from, !.to = MaxT]
  <2>4. hd \in Handling /\ hd.frame = 0 /\ hd.walk = 0 /\ hd.list = <<>>
    BY BucketIs
  <2>5. HandlersInv'
    <3>1. Goto(h, hd)
      BY <2>1, <2>3
    <3> HIDE DEF hd
    <3> QED BY <2>4, <3>1, <1>0, Goes
  <2>6. CopyGrows
    BY <2>1, <1>0, CopyRests
  <2>7. SyncingInv'
    BY <2>1 DEF SyncingInv
  <2> QED BY <1>0, <2>2, <2>5, <2>6, <2>7 DEF Follows, CopyGrows
<1>5. CASE HandleTx(h)
  <2>1. UNCHANGED <<root, sqlRoot, ws, syncing, opened>> /\ Take(h)
        /\ chain[h] # <<>> /\ Frame(h).kind = "tx"
    BY <1>5 DEF HandleTx, Ready
  <2>2. FramesInv' /\ Frame(h) \in Frames /\ Frame(h).t <= Len(log)
    BY <2>1, <1>0, Takes
  <2>3. PICK t \in Nat : t = Frame(h).t /\ t <= Len(log)
    BY <2>2 DEF Frames
  <2>4. CASE UNCHANGED <<entries, sqlNovelty, handler>>
    <3>1. CopyGrows
      BY <2>1, <2>4, <1>0, CopyRests
    <3>2. HandlersInv'
      BY <2>4, <1>0, HandlersRest
    <3>3. SyncingInv'
      BY <2>1 DEF SyncingInv
    <3> QED BY <1>0, <2>2, <3>1, <3>2, <3>3 DEF Follows, CopyGrows
  <2>5. CASE t = BasisT + 1 /\ ApplyDatoms(t) /\ Goto(h, Walking(Idle, "last", t))
    <3>1. CopyGrows
      BY <2>1, <2>3, <2>5, <1>0, Appends
    <3>2. HandlersInv'
      <4> DEFINE w == Walking(Idle, "last", t)
      <4>1. w \in Handling /\ w.frame = 0 /\ w.walk = t /\ w.list = <<>>
        BY IdleIs, WalkIs
      <4>2. Goto(h, w)
        BY <2>5
      <4> HIDE DEF w
      <4> QED BY <4>1, <4>2, <2>3, <1>0, Goes
    <3>3. SyncingInv'
      BY <2>1 DEF SyncingInv
    <3> QED BY <1>0, <2>2, <3>1, <3>2, <3>3 DEF Follows, CopyGrows
  <2>6. CASE /\ t > BasisT + 1 /\ UNCHANGED <<entries, sqlNovelty>>
             /\ Goto(h, [Idle EXCEPT !.at = "log", !.from = BasisT, !.to = t - 1, !.frame = t])
    <3>1. CopyGrows
      BY <2>1, <2>6, <1>0, CopyRests
    <3>2. HandlersInv'
      <4> DEFINE w == [Idle EXCEPT !.at = "log", !.from = BasisT, !.to = t - 1, !.frame = t]
      <4>1. BasisT \in Nat /\ t - 1 \in Nat
        BY <2>6, <1>0
      <4>2. w \in Handling /\ w.frame = t /\ w.walk = 0 /\ w.list = <<>>
        BY <4>1, IdleIs DEF Handling
      <4>3. Goto(h, w)
        BY <2>6
      <4> HIDE DEF w
      <4> QED BY <4>2, <4>3, <2>3, <1>0, Goes
    <3>3. SyncingInv'
      BY <2>1 DEF SyncingInv
    <3> QED BY <1>0, <2>2, <3>1, <3>2, <3>3 DEF Follows, CopyGrows
  <2> QED BY <1>5, <2>3, <2>4, <2>5, <2>6 DEF HandleTx
<1>6. CASE ReadWriterLog(h)
  <2>1. UNCHANGED <<root, entries, sqlRoot, sqlNovelty, ws, syncing, opened, chain>>
    BY <1>6 DEF ReadWriterLog, durable, memory
  <2>2. PICK list \in Seq(Nat) : list = ReadLog(handler[h].from, handler[h].to)
           /\ \A i \in 1..Len(list) : list[i] <= Len(log)
    BY <1>2, ReadsLog DEF Handling
  <2>3. PICK k \in Handling : k = handler[h]
    BY <1>2
  <2> DEFINE w == [k EXCEPT !.at = "apply", !.list = list]
             b == [k EXCEPT !.at = "bucket"]
  <2>4. Goto(h, w) \/ Goto(h, b)
    BY <1>6, <2>2, <2>3 DEF ReadWriterLog
  <2>5. w \in Handling /\ w.frame = k.frame /\ w.walk = k.walk /\ w.list = list
    BY DEF Handling
  <2>6. b \in Handling /\ b.frame = k.frame /\ b.walk = k.walk /\ b.list = k.list
    BY DEF Handling
  <2>7. \A i \in 1..Len(k.list) : k.list[i] <= Len(log)
    BY <2>3 DEF HandlersInv
  <2>8. HandlersInv'
    <3> HIDE DEF w, b
    <3>1. CASE Goto(h, w)
      BY <3>1, <2>2, <2>3, <2>5, <1>0, <1>2, Goes
    <3>2. CASE Goto(h, b)
      BY <3>2, <2>3, <2>6, <2>7, <1>0, <1>2, Goes
    <3> QED BY <2>4, <3>1, <3>2
  <2>9. CopyGrows
    BY <2>1, <1>0, CopyRests
  <2>10. FramesInv'
    BY <2>1, <1>0, FramesRest
  <2>11. SyncingInv'
    BY <2>1 DEF SyncingInv
  <2> QED BY <1>0, <2>8, <2>9, <2>10, <2>11 DEF Follows, CopyGrows
<1> QED BY <1>3, <1>4, <1>5, <1>6

\* So does what goes on after a read.
LEMMA ReadsKeep ==
  ASSUME ReplicaInv, NEW h \in Handlers,
         ReadBucket(h) \/ ReadFails(h) \/ ApplyRead(h) \/ ApplyFrame(h) \/ Notify(h)
  PROVE  ReplicaInv' /\ Follows
<1> USE DEF ReplicaInv
<1>0. Len(log) \in Nat /\ log' = log /\ LogInv' /\ chunked \in 0..Len(log) /\ current \in {NoRoot} \cup 0..Len(log)
      /\ BasisT \in 0..Len(log) /\ MaxT \in Nat
  <2>1. UNCHANGED writer
    BY DEF ReadBucket, ReadFails, ApplyRead, ApplyFrame, Notify
  <2> QED BY <2>1, BasisIs, ReplicaAssumption DEF writer, LogInv, BasisFacts
<1>2. UNCHANGED <<ws, syncing, opened, chain>>
  BY DEF ReadBucket, ReadFails, ApplyRead, ApplyFrame, Notify
<1>3. FramesInv' /\ SyncingInv'
  <2>1. FramesInv'
    BY <1>0, <1>2, FramesRest
  <2> QED BY <2>1, <1>2 DEF SyncingInv
<1>4. PICK k \in Handling : k = handler[h]
  BY DEF HandlersInv
<1>5. k.frame \in Nat /\ k.walk \in Nat /\ k.list \in Seq(Nat) /\ k.frame <= Len(log)
      /\ k.walk <= Len(log) /\ \A i \in 1..Len(k.list) : k.list[i] <= Len(log)
  BY <1>4 DEF HandlersInv, Handling
<1> SUFFICES HandlersInv' /\ CopyGrows
  BY <1>0, <1>3 DEF Follows, CopyGrows
<1>6. CASE ReadBucket(h)
  <2>2. CopyGrows
    <3>1. CASE root = NoRoot
      <4>1. AdoptRoot(current)
        BY <1>6, <3>1 DEF ReadBucket
      <4> QED BY <4>1, <3>1, <1>0, FirstRoot
    <3>2. CASE root # NoRoot
      <4>1. UNCHANGED <<root, entries, sqlRoot, sqlNovelty>>
        BY <1>6, <3>2 DEF ReadBucket, durable, memory
      <4> QED BY <4>1, <1>0, CopyRests
    <3> QED BY <3>1, <3>2
  <2>0. PICK basis \in Nat : basis = IF root = NoRoot THEN Max0({current, BasisT}) ELSE BasisT
    <3>1. current \in Int /\ BasisT \in Int /\ BasisT \in Nat
      BY <1>0 DEF NoRoot
    <3>2. Max0({current, BasisT}) \in Nat
      BY <3>1, MaxOfTwo
    <3> QED BY <3>1, <3>2
  <2>3. PICK from \in Nat : from = Max0({k.from, basis})
    <3>1. k.from \in Int /\ basis \in Int
      BY DEF Handling
    <3>2. Max0({k.from, basis}) \in Nat
      BY <3>1, MaxOfTwo
    <3> QED BY <3>2
  <2> DEFINE b == IF k.to <= chunked THEN k.to ELSE chunked
  <2>4. from + 1 \in Nat /\ b \in Int /\ b <= Len(log)
    BY <1>0 DEF Handling
  <2>5. {t \in from + 1 .. chunked : t <= k.to} = from + 1 .. b
    BY <1>0 DEF Handling
  <2> HIDE DEF b
  <2>6. PICK list \in Seq(Nat) : list = Ascending(from + 1 .. b)
          /\ \A i \in 1..Len(list) : list[i] \in from + 1 .. b
    BY <2>4, AscendingIsWithin
  <2>7. \A i \in 1..Len(list) : list[i] <= Len(log)
    BY <2>6, <2>4, <1>0
  <2> DEFINE w == [k EXCEPT !.at = "apply", !.list = list]
  <2>8. Goto(h, w)
    BY <1>6, <1>4, <2>0, <2>3, <2>5, <2>6 DEF ReadBucket
  <2>9. w \in Handling /\ w.frame = k.frame /\ w.walk = k.walk /\ w.list = list
    BY DEF Handling
  <2>10. HandlersInv'
    <3> HIDE DEF w
    <3> QED BY <2>7, <2>8, <2>9, <1>0, <1>5, Goes
  <2> QED BY <2>2, <2>10
<1>7. CASE ReadFails(h)
  <2>1. UNCHANGED <<root, entries, sqlRoot, sqlNovelty>>
    BY <1>7 DEF ReadFails, durable, memory
  <2>2. CopyGrows
    BY <2>1, <1>0, CopyRests
  <2> DEFINE b == [k EXCEPT !.at = "bucket"]
  <2>3. Goto(h, Idle) \/ Goto(h, b)
    BY <1>7, <1>4 DEF ReadFails
  <2>4. b \in Handling /\ b.frame = k.frame /\ b.walk = k.walk /\ b.list = k.list
    BY DEF Handling
  <2>5. CASE Goto(h, Idle)
    <3>1. Idle \in Handling /\ Idle.frame = 0 /\ Idle.walk = 0 /\ Idle.list = <<>>
      BY IdleIs
    <3>2. HandlersInv'
      BY <3>1, <2>5, <1>0, Goes
    <3> QED BY <2>2, <3>2
  <2>6. CASE Goto(h, b)
    <3> HIDE DEF b
    <3>1. HandlersInv'
      BY <2>4, <2>6, <1>0, <1>5, Goes
    <3> QED BY <2>2, <3>1
  <2> QED BY <2>3, <2>5, <2>6
<1>8. CASE ApplyRead(h)
  <2>1. UNCHANGED <<root, sqlRoot>> /\ k.list # <<>>
    BY <1>8, <1>4 DEF ApplyRead
  <2>2. PICK t \in Nat : t = Head(k.list) /\ t <= Len(log)
    <3>1. 1 \in 1..Len(k.list) /\ Head(k.list) = k.list[1]
      BY <2>1, <1>5
    <3> QED BY <3>1, <1>5
  <2>3. PICK tail \in Seq(Nat) : tail = Tail(k.list) /\ \A i \in 1..Len(tail) : tail[i] <= Len(log)
    <3>1. Tail(k.list) \in Seq(Nat) /\ Len(Tail(k.list)) = Len(k.list) - 1
          /\ Len(k.list) \in Nat
          /\ \A i \in 1..Len(Tail(k.list)) : Tail(k.list)[i] = k.list[i + 1]
      BY <2>1, <1>5
    <3>2. \A i \in 1..Len(Tail(k.list)) : i + 1 \in 1..Len(k.list)
      BY <3>1
    <3> QED BY <3>1, <3>2, <1>5
  <2>4. PICK r \in Handling : /\ r = [k EXCEPT !.list = tail]
                              /\ r.frame = k.frame /\ r.walk = k.walk /\ r.list = tail
    <3> DEFINE r == [k EXCEPT !.list = tail]
    <3>1. r \in Handling /\ r.frame = k.frame /\ r.walk = k.walk /\ r.list = tail
      BY DEF Handling
    <3> HIDE DEF r
    <3> QED BY <3>1 DEF r
  <2>5. CASE t = BasisT + 1
    <3> DEFINE w == Walking(r, "next", t)
    <3>1. ApplyDatoms(t) /\ Goto(h, w)
      BY <1>8, <1>4, <2>2, <2>3, <2>4, <2>5 DEF ApplyRead
    <3>2. CopyGrows
      BY <3>1, <2>1, <2>2, <2>5, <1>0, Appends
    <3>3. w \in Handling /\ w.frame = r.frame /\ w.walk = t /\ w.list = r.list
      BY WalkIs
    <3>4. HandlersInv'
      <4> HIDE DEF w
      <4> QED BY <3>1, <3>3, <2>2, <2>3, <2>4, <1>0, <1>5, Goes
    <3> QED BY <3>2, <3>4
  <2>6. CASE t # BasisT + 1
    <3>1. Goto(h, r) /\ UNCHANGED <<entries, sqlNovelty>>
      BY <1>8, <1>4, <2>2, <2>3, <2>4, <2>6 DEF ApplyRead
    <3>2. CopyGrows
      BY <3>1, <2>1, <1>0, CopyRests
    <3>3. HandlersInv'
      BY <3>1, <2>3, <2>4, <1>0, <1>5, Goes
    <3> QED BY <3>2, <3>3
  <2> QED BY <2>5, <2>6
<1>9. CASE ApplyFrame(h)
  <2>1. UNCHANGED <<root, sqlRoot>>
    BY <1>9 DEF ApplyFrame
  <2>2. PICK t \in Nat : t = k.frame /\ t <= Len(log)
    BY <1>5
  <2>3. Idle \in Handling /\ Idle.frame = 0 /\ Idle.walk = 0 /\ Idle.list = <<>>
    BY IdleIs
  <2>4. CASE t = BasisT + 1
    <3> DEFINE w == Walking(Idle, "last", t)
    <3>1. ApplyDatoms(t) /\ Goto(h, w)
      BY <1>9, <1>4, <2>2, <2>4 DEF ApplyFrame
    <3>2. CopyGrows
      BY <3>1, <2>1, <2>2, <2>4, <1>0, Appends
    <3>3. w \in Handling /\ w.frame = 0 /\ w.walk = t /\ w.list = <<>>
      BY <2>3, WalkIs
    <3>4. HandlersInv'
      <4> HIDE DEF w
      <4> QED BY <3>1, <3>3, <2>2, <1>0, Goes
    <3> QED BY <3>2, <3>4
  <2>5. CASE t # BasisT + 1
    <3>1. Goto(h, Idle) /\ UNCHANGED <<entries, sqlNovelty>>
      BY <1>9, <1>4, <2>2, <2>5 DEF ApplyFrame
    <3>2. CopyGrows
      BY <3>1, <2>1, <1>0, CopyRests
    <3>3. HandlersInv'
      BY <3>1, <2>3, <1>0, Goes
    <3> QED BY <3>2, <3>3
  <2> QED BY <2>4, <2>5
<1>10. CASE Notify(h)
  <2>1. UNCHANGED <<root, entries, sqlRoot, sqlNovelty>>
    BY <1>10 DEF Notify, durable, memory
  <2>2. CopyGrows
    BY <2>1, <1>0, CopyRests
  <2>3. PICK hd \in Handling : Goto(h, hd) /\ hd.frame <= Len(log) /\ hd.walk <= Len(log)
          /\ \A i \in 1..Len(hd.list) : hd.list[i] <= Len(log)
    <3>1. CASE k.wait = {}
      <4> DEFINE w == [k EXCEPT !.at = "apply", !.walk = 0]
      <4>1. Goto(h, Idle) \/ Goto(h, w)
        BY <1>10, <1>4, <3>1 DEF Notify
      <4>2. w \in Handling /\ w.frame = k.frame /\ w.walk = 0 /\ w.list = k.list
        BY DEF Handling
      <4>3. Idle \in Handling /\ Idle.frame = 0 /\ Idle.walk = 0 /\ Idle.list = <<>>
        BY IdleIs
      <4> HIDE DEF w
      <4> QED BY <4>1, <4>2, <4>3, <1>0, <1>5
    <3>2. CASE k.wait # {}
      <4>1. PICK s \in k.wait : Goto(h, [k EXCEPT !.wait = @ \ {s}, !.on = {s}])
        BY <1>10, <1>4, <3>2 DEF Notify
      <4> DEFINE w == [k EXCEPT !.wait = @ \ {s}, !.on = {s}]
      <4>3. k.wait \subseteq Sessions
        BY DEF Handling
      <4>4. w \in Handling /\ w.frame = k.frame /\ w.walk = k.walk /\ w.list = k.list
        BY <4>3 DEF Handling
      <4>5. Goto(h, w)
        BY <4>1
      <4> HIDE DEF w
      <4> QED BY <4>4, <4>5, <1>5
    <3> QED BY <3>1, <3>2
  <2>4. HandlersInv'
    BY <2>3, <1>0, Goes
  <2> QED BY <2>2, <2>4
<1> QED BY <1>6, <1>7, <1>8, <1>9, <1>10

\* A restart of the replica keeps the invariant.
LEMMA RestartKeeps ==
  ASSUME ReplicaInv, Hibernate \/ Crash
  PROVE  ReplicaInv' /\ Follows
<1> USE DEF ReplicaInv
<1>1. Boot
  BY DEF Hibernate, Crash
<1>2. log' = log /\ LogInv' /\ Len(log) \in Nat
  BY <1>1 DEF Boot, writer, LogInv
<1>3. CopyGrows \/ (Crash /\ Forgotten)
  <2>1. (root # NoRoot => CopyGrows) /\ (root = NoRoot => Forgotten)
    BY <1>1, <1>2, Boots
  <2>2. root = NoRoot => Crash
    BY DEF Hibernate
  <2> QED BY <2>1, <2>2
<1>4. ws' = 0 /\ syncing' = NotSyncing /\ UNCHANGED <<opened, fails>>
      /\ chain' = [c \in Sockets |-> <<>>] /\ handler' = [x \in Handlers |-> Idle]
  BY <1>1 DEF Boot
<1>5. FramesInv'
  BY <1>4 DEF FramesInv
<1>6. HandlersInv'
  BY <1>2, <1>4, IdleIs DEF HandlersInv
<1>7. SyncingInv'
  BY <1>4 DEF SyncingInv, NotSyncing
<1> QED BY <1>2, <1>3, <1>5, <1>6, <1>7 DEF Follows, CopyGrows, Forgotten

\* The sessions let the handlers that await them go on, and touch nothing else.
LEMMA SessionKeeps ==
  ASSUME ReplicaInv, NEW s \in Sessions, Session(s)
  PROVE  ReplicaInv' /\ Follows
<1> USE DEF ReplicaInv
<1>1. UNCHANGED <<log, root, entries, sqlRoot, sqlNovelty, chain, ws, syncing, opened, fails>>
      /\ UNCHANGED <<assigned, earliest, chunked, current, rootRecord, run>>
  <2>1. CASE AcceptSocket(s) \/ OpenSession(s) \/ AskSync(s) \/ TakeSync(s)
    BY <2>1 DEF AcceptSocket, OpenSession, AskSync, TakeSync, writer, durable, memory, upstream,
       counters
  <2>2. CASE Walk(s)
    BY <2>2 DEF Walk, RunJob, Consider, Considered, PushResync, Finish, writer, durable, memory,
       upstream, counters
  <2>3. CASE EarlyWalk(s)
    BY <2>3 DEF EarlyWalk, EarlyConsider, EarlyDump, EarlyDone, writer, durable, memory, upstream,
       counters
  <2>4. CASE CloseSession(s) \/ Deliver(s)
    BY <2>4 DEF CloseSession, Deliver, writer, durable, memory, upstream, counters
  <2> QED BY <2>1, <2>2, <2>3, <2>4 DEF Session
<1>2. PICK on, wait :
        /\ on \in [Handlers -> SUBSET Sessions] /\ wait \in [Handlers -> SUBSET Sessions]
        /\ handler' = [x \in Handlers |-> [handler[x] EXCEPT !.on = on[x], !.wait = wait[x]]]
  <2>0. \A x \in Handlers : /\ handler[x] \in Handling /\ handler[x].on \subseteq Sessions
                            /\ handler[x].wait \subseteq Sessions
    BY DEF HandlersInv, Handling
  <2> DEFINE waits == [x \in Handlers |-> handler[x].wait]
  <2>10. waits \in [Handlers -> SUBSET Sessions] /\ \A x \in Handlers : waits[x] = handler[x].wait
    BY <2>0
  <2> HIDE DEF waits
  <2>1. CASE UNCHANGED handler
    <3> DEFINE on == [x \in Handlers |-> handler[x].on]
    <3>1. \A x \in Handlers :
            [handler[x] EXCEPT !.on = on[x], !.wait = waits[x]] = handler[x]
      BY <2>0, <2>10 DEF Handling
    <3>2. handler' = [x \in Handlers |-> [handler[x] EXCEPT !.on = on[x], !.wait = waits[x]]]
      BY <3>1, <2>1 DEF HandlersInv
    <3>3. on \in [Handlers -> SUBSET Sessions]
      BY <2>0
    <3> HIDE DEF on
    <3> QED BY <3>2, <3>3, <2>10
  <2>2. ASSUME NEW by, handler' = [x \in Handlers |-> IF x = by THEN [handler[x] EXCEPT !.on = {}]
                                                     ELSE handler[x]]
        PROVE  \E on, wait :
                 /\ on \in [Handlers -> SUBSET Sessions] /\ wait \in [Handlers -> SUBSET Sessions]
                 /\ handler' = [x \in Handlers |->
                                 [handler[x] EXCEPT !.on = on[x], !.wait = wait[x]]]
    <3> DEFINE on == [x \in Handlers |-> IF x = by THEN {} ELSE handler[x].on]
    <3>2. \A x \in Handlers : [handler[x] EXCEPT !.on = on[x], !.wait = waits[x]]
                                = IF x = by THEN [handler[x] EXCEPT !.on = {}] ELSE handler[x]
      BY <2>0, <2>10 DEF Handling
    <3>3. handler' = [x \in Handlers |-> [handler[x] EXCEPT !.on = on[x], !.wait = waits[x]]]
      BY <2>2, <3>2
    <3>4. on \in [Handlers -> SUBSET Sessions]
      BY <2>0
    <3> HIDE DEF on
    <3> QED BY <3>3, <3>4, <2>10
  <2>3. CASE CloseSession(s)
    <3> DEFINE on == [x \in Handlers |-> handler[x].on \ {s}]
               left == [x \in Handlers |-> handler[x].wait \ {s}]
    <3>1. handler' = [x \in Handlers |-> [handler[x] EXCEPT !.on = on[x], !.wait = left[x]]]
      BY <2>3 DEF CloseSession
    <3>2. on \in [Handlers -> SUBSET Sessions] /\ left \in [Handlers -> SUBSET Sessions]
      BY <2>0
    <3> HIDE DEF on, left
    <3> QED BY <3>1, <3>2
  <2>4. CASE Considered(s) \/ PushResync(s)
    <3>1. UNCHANGED handler \/ (\E v, frames : Finish(s, v, frames))
      BY <2>4 DEF Considered, PushResync, upstream
    <3>2. ASSUME NEW v, NEW frames, Finish(s, v, frames)
          PROVE  \E by : handler' = [x \in Handlers |-> IF x = by THEN [handler[x] EXCEPT !.on = {}]
                                                        ELSE handler[x]]
      BY <3>2 DEF Finish
    <3> QED BY <3>1, <3>2, <2>1, <2>2
  <2>5. CASE EarlyWalk(s)
    <3>1. UNCHANGED handler \/ (\E v, frames : EarlyDone(s, v, frames))
      BY <2>5 DEF EarlyWalk, EarlyConsider, EarlyDump, upstream
    <3>2. ASSUME NEW v, NEW frames, EarlyDone(s, v, frames)
          PROVE  \E by : handler' = [x \in Handlers |-> IF x = by THEN [handler[x] EXCEPT !.on = {}]
                                                        ELSE handler[x]]
      BY <3>2 DEF EarlyDone
    <3> QED BY <3>1, <3>2, <2>1, <2>2
  <2>6. CASE \/ AcceptSocket(s) \/ OpenSession(s) \/ AskSync(s) \/ TakeSync(s) \/ RunJob(s)
             \/ Consider(s) \/ Deliver(s)
    <3>1. UNCHANGED handler
      BY <2>6 DEF AcceptSocket, OpenSession, AskSync, TakeSync, RunJob, Consider, Deliver, upstream
    <3> QED BY <3>1, <2>1
  <2> QED BY <2>3, <2>4, <2>5, <2>6 DEF Session, Walk
<1>3. LogInv' /\ Len(log) \in Nat
  BY <1>1 DEF LogInv
<1>4. FramesInv'
  BY <1>1, <1>3, FramesRest
<1>5. \A x \in Handlers :
         /\ handler'[x] \in Handling /\ handler'[x].frame = handler[x].frame
         /\ handler'[x].walk = handler[x].walk /\ handler'[x].list = handler[x].list
         /\ handler'[x].at = handler[x].at
  <2> SUFFICES ASSUME NEW x \in Handlers
               PROVE  /\ handler'[x] \in Handling /\ handler'[x].frame = handler[x].frame
                      /\ handler'[x].walk = handler[x].walk /\ handler'[x].list = handler[x].list
                      /\ handler'[x].at = handler[x].at
    OBVIOUS
  <2>1. PICK k \in Handling : k = handler[x]
    BY DEF HandlersInv
  <2>2. PICK o \in SUBSET Sessions, w \in SUBSET Sessions :
          handler'[x] = [k EXCEPT !.on = o, !.wait = w]
    BY <1>2, <2>1
  <2> QED BY <2>1, <2>2 DEF Handling
<1>6. HandlersInv'
  <2>1. handler' \in [Handlers -> Handling]
    BY <1>2, <1>5
  <2> QED BY <2>1, <1>1, <1>5 DEF HandlersInv
<1>7. SyncingInv'
  BY <1>1 DEF SyncingInv
<1>9. CopyGrows
  BY <1>1, <1>3, CopyRests
<1> QED BY <1>1, <1>3, <1>4, <1>6, <1>7, <1>9 DEF Follows, CopyGrows

(***************************************************************************)
(* The theorems.                                                           *)
(***************************************************************************)
\* The replica starts in the invariant.
LEMMA ReplicaStarts == Init => ReplicaInv
<1> SUFFICES ASSUME Init PROVE ReplicaInv
  OBVIOUS
<1>1. MaxT \in Nat
  BY ReplicaAssumption
<1>2. LogInv
  BY <1>1 DEF Init, LogInv, NotRunning
<1>3. CopyInv
  BY DEF Init, CopyInv, Base, NoRoot
<1>4. FramesInv
  BY DEF Init, FramesInv
<1>5. HandlersInv
  BY IdleIs DEF Init, HandlersInv
<1>6. SyncingInv
  BY DEF Init, SyncingInv, NotSyncing
<1> QED BY <1>2, <1>3, <1>4, <1>5, <1>6 DEF ReplicaInv

\* Every step keeps it, and follows the log.
LEMMA ReplicaStep == ReplicaInv /\ [Next]_vars => ReplicaInv' /\ Follows
<1> SUFFICES ASSUME ReplicaInv, [Next]_vars PROVE ReplicaInv' /\ Follows
  OBVIOUS
<1>1. CASE Writer
  BY <1>1, WriterKeeps
<1>2. CASE Connecting \/ UpstreamDrops
  BY <1>2, ConnectingKeeps
<1>3. CASE Hibernate \/ Crash
  BY <1>3, RestartKeeps
<1>4. CASE \E h \in Handlers : Handle(h) \/ ReadFails(h)
  BY <1>4, HandleKeeps, ReadsKeep DEF Handle
<1>5. CASE \E s \in Sessions : Session(s)
  BY <1>5, SessionKeeps
<1>6. CASE UNCHANGED vars
  <2>1. UNCHANGED <<log, root, entries, sqlRoot, sqlNovelty, chain, ws, syncing, opened, fails,
                    handler, assigned, earliest, chunked, current, rootRecord, run>>
    BY <1>6 DEF vars, writer, durable, memory, upstream, counters
  <2>2. LogInv' /\ SyncingInv' /\ Len(log) \in Nat
    BY <2>1 DEF ReplicaInv, LogInv, SyncingInv
  <2>3. FramesInv' /\ HandlersInv'
    BY <2>1 DEF ReplicaInv, FramesInv, HandlersInv
  <2>4. CopyGrows
    BY <2>1, <2>2, CopyRests DEF ReplicaInv
  <2> QED BY <2>1, <2>2, <2>3, <2>4 DEF ReplicaInv, Follows, CopyGrows
<1> QED BY <1>1, <1>2, <1>3, <1>4, <1>5, <1>6 DEF Next

\* The root and the entries of a replica are one run of the log, in memory and in SQL.
THEOREM ReplicaInvariance == Spec => []ReplicaInv
BY ReplicaStarts, ReplicaStep, PTL DEF Spec

\* The same, after a step, of what a step does to the copy.
LEMMA StepFollows == ReplicaInv /\ ReplicaInv' /\ Follows => [FollowerView!Next]_<<log, Copy>>
<1> SUFFICES ASSUME ReplicaInv, ReplicaInv', Follows PROVE [FollowerView!Next]_<<log, Copy>>
  OBVIOUS
<1>1. BasisFacts /\ BasisFacts'
  BY BasisIs, BasisIsNext DEF ReplicaInv
<1>2. CASE log' = log
  <2>1. Copy' = (IF root' = NoRoot THEN {} ELSE 1..BasisT') /\ BasisT' \in 0..Len(log)
        /\ Copy = (IF root = NoRoot THEN {} ELSE 1..BasisT) /\ BasisT \in Nat
    BY <1>1, <1>2 DEF BasisFacts
  <2>2. Copy' \in FollowerView!Prefixes
    <3>1. Copy' = 1..BasisT' \/ Copy' = 1..0
      BY <2>1
    <3>2. 0 \in 0..Len(log)
      BY <1>1 DEF BasisFacts
    <3> QED BY <3>1, <3>2, <2>1 DEF FollowerView!Prefixes
  <2>3. Copy \subseteq Copy'
    <3>1. root # NoRoot => root' # NoRoot /\ BasisT <= BasisT'
      BY DEF Follows, CopyGrows, Forgotten
    <3> QED BY <3>1, <2>1
  <2> QED BY <1>2, <2>2, <2>3 DEF FollowerView!Next, FollowerView!CatchUp
<1>3. CASE LogGrown /\ UNCHANGED Copy
  BY <1>3 DEF LogGrown, FollowerView!Next, FollowerView!Write
<1> QED BY <1>2, <1>3 DEF Follows

\* Over lost sockets, gaps, chunks, adopted roots, restarts and failed calls, what the
\* replica serves is a prefix of the committed log that never shrinks.
THEOREM ReplicaFollows == Spec => ImplementsFollower
<1>1. Init => FollowerView!Init
  BY ReplicaStarts, BasisIs DEF Init, FollowerView!Init, ReplicaInv, Copy, NoRoot, Range
<1>2. ReplicaInv /\ ReplicaInv' /\ [Next]_vars => [FollowerView!Next]_<<log, Copy>>
  BY ReplicaStep, StepFollows
<1> QED BY <1>1, <1>2, ReplicaInvariance, PTL DEF Spec, ImplementsFollower, FollowerView!Spec
=============================================================================
