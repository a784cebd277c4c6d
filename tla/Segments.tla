------------------------------ MODULE Segments ------------------------------
(***************************************************************************)
(* The immutable segment trees (internal/core/tree.ts).                    *)
(*                                                                         *)
(* A node that is a file named by its hash in the code is the tree it      *)
(* stands for: equal trees have equal hashes.                              *)
(***************************************************************************)
EXTENDS Views, FiniteSets

CONSTANTS
  LeafSize,   \* BuildOptions.leafSize
  Fanout      \* BuildOptions.fanout

ASSUME SegmentsAssumption == LeafSize \in Nat \ {0} /\ Fanout \in Nat \ {0, 1}

RECURSIVE Distinct(_)
Distinct(ds) ==
  IF Len(ds) < 2 THEN ds
  ELSE IF ds[1] = ds[2] THEN Distinct(Tail(ds)) ELSE <<ds[1]>> \o Distinct(Tail(ds))
\* sortForIndex: in order, equal datoms once.
SortForIndex(index, ds) == Distinct(SortSeq(ds, LAMBDA x, y : Compare(index, x, y) < 0))

\* lowerBound and upperBound, as the numbers of datoms before and up to.
LowerBound(index, ds, p) == Len(SelectSeq(ds, LAMBDA d : ComparePrefix(index, d, p) < 0))
UpperBound(index, ds, p) == Len(SelectSeq(ds, LAMBDA d : ComparePrefix(index, d, p) <= 0))

(***************************************************************************)
(* Trees.                                                                  *)
(***************************************************************************)
Leaf(ds) == [leaf |-> TRUE, datoms |-> ds]
\* A directory keeps the first datom of each child, as it was when written.
Dir(entries) ==
  [leaf |-> FALSE, keys |-> [i \in DOMAIN entries |-> entries[i].key],
   refs |-> [i \in DOMAIN entries |-> entries[i].ref]]
Entry(key, ref) == [key |-> key, ref |-> ref]

RECURSIVE Datoms(_), CountOf(_)
Datoms(node) ==
  IF node.leaf THEN node.datoms ELSE FlattenSeq([i \in DOMAIN node.refs |-> Datoms(node.refs[i])])
\* The count a reference carries.
CountOf(node) ==
  IF node.leaf THEN Len(node.datoms)
  ELSE FoldLeft(LAMBDA n, ref : n + CountOf(ref), 0, node.refs)

Ceil(n, d) == (n + d - 1) \div d
\* s cut into the fewest parts of at most size, of equal length but the last.
Parts(s, size) ==
  LET per == Ceil(Len(s), Ceil(Len(s), size))
  IN  [g \in 1..Ceil(Len(s), per) |-> SubSeq(s, (g - 1) * per + 1, IF g * per < Len(s) THEN g * per ELSE Len(s))]

Leaves(ds) == LET parts == Parts(ds, LeafSize) IN [i \in DOMAIN parts |-> Entry(Head(parts[i]), Leaf(parts[i]))]
\* Mutant: one directory, however many there are.
DirsWhole(entries) == <<Entry(Head(entries).key, Dir(entries))>>
Dirs(entries) ==
  LET parts == Parts(entries, Fanout) IN [i \in DOMAIN parts |-> Entry(Head(parts[i]).key, Dir(parts[i]))]

RECURSIVE BuildLevels(_)
BuildLevels(entries) == IF Len(entries) = 1 THEN Head(entries).ref ELSE BuildLevels(Dirs(entries))

BuildTree(sorted) == IF sorted = <<>> THEN Leaf(<<>>) ELSE BuildLevels(Leaves(sorted))

\* The part of novelty that belongs under child i: from its key (the first
\* child takes everything before the second) up to the next child's.
Under(index, node, i, novelty) ==
  SelectSeq(novelty, LAMBDA d :
    /\ i > 1 => Compare(index, d, node.keys[i]) >= 0
    /\ i < Len(node.keys) => Compare(index, d, node.keys[i + 1]) < 0)

\* mergeNode: what replaces a node, sharing every subtree that gains nothing.
RECURSIVE MergeNode(_, _, _, _)
MergeNode(index, node, key, novelty) ==
  LET same == <<Entry(key, node)>> IN
  IF novelty = <<>> THEN same
  ELSE IF node.leaf THEN
    LET merged == SortedUnion(index, node.datoms, novelty) IN
    IF Len(merged) = Len(node.datoms) THEN same
    ELSE IF 2 * Len(merged) <= 3 * LeafSize THEN <<Entry(Head(merged), Leaf(merged))>>
    ELSE Leaves(merged)
  ELSE
    LET sub == [i \in DOMAIN node.refs |->
                  MergeNode(index, node.refs[i], node.keys[i], Under(index, node, i, novelty))]
    IN  IF \A i \in DOMAIN sub : Len(sub[i]) = 1 /\ Head(sub[i]).ref = node.refs[i] THEN same
        ELSE Dirs(FlattenSeq(sub))

MergeTree(index, root, novelty) ==
  IF novelty = <<>> THEN root
  ELSE BuildLevels(MergeNode(index, root, Head(novelty), novelty))

AtLeast1(n) == IF n = 0 THEN 1 ELSE n
\* childForPrefix: the last child that starts before the prefix, or the first.
ChildForPrefix(index, dir, p) ==
  AtLeast1(LowerBound(index, dir.keys, p))
LastChild(index, dir, p) == AtLeast1(UpperBound(index, dir.keys, p))

\* scan: a chunk per leaf that has datoms of the prefix, and whether the chunk
\* is all of the leaf.
Chunk(ds, from, upTo) ==
  IF from < upTo THEN <<[datoms |-> SubSeq(ds, from + 1, upTo), whole |-> from = 0 /\ upTo = Len(ds)]>> ELSE <<>>
RECURSIVE Scan(_, _, _)
Scan(index, node, p) ==
  IF node.leaf THEN Chunk(node.datoms, LowerBound(index, node.datoms, p), UpperBound(index, node.datoms, p))
  ELSE LET under == SubSeq(node.refs, ChildForPrefix(index, node, p), LastChild(index, node, p))
       IN  FlattenSeq([i \in DOMAIN under |-> Scan(index, under[i], p)])

\* estimateCount: the boundary leaves counted, what lies between taken from the
\* counts in the references.
RECURSIVE EstimateCount(_, _, _), EstimateUnder(_, _, _)
EstimateCount(index, node, p) ==
  IF node.leaf THEN UpperBound(index, node.datoms, p) - LowerBound(index, node.datoms, p)
  ELSE EstimateUnder(index, SubSeq(node.refs, ChildForPrefix(index, node, p), LastChild(index, node, p)), p)
EstimateUnder(index, refs, p) ==
  FoldLeft(LAMBDA n, i : n + IF i \in {1, Len(refs)} THEN EstimateCount(index, refs[i], p) ELSE CountOf(refs[i]),
           0, [i \in DOMAIN refs |-> i])

\* The leaves in order, each under the key its walk is bounded by.
RECURSIVE LeafRun(_), LeafFor(_, _, _)
LeafRun(node) ==
  IF node.leaf THEN <<[key |-> <<>>, datoms |-> node.datoms]>>
  ELSE FlattenSeq([i \in DOMAIN node.refs |-> [LeafRun(node.refs[i]) EXCEPT ![1].key = node.keys[i]]])
\* The leaf, by its place in LeafRun, a descent to p ends at.
LeafFor(index, node, p) ==
  IF node.leaf THEN 1
  ELSE LET i == ChildForPrefix(index, node, p)
       IN  FoldLeft(LAMBDA n, ref : n + Len(LeafRun(ref)), 0, SubSeq(node.refs, 1, i - 1))
           + LeafFor(index, node.refs[i], p)

\* Where a search in a leaf starts: where the last one ended, if it is the same.
Left(s, leaf) == IF leaf = s.at THEN s.end ELSE 0

\* scanMany's cursor walks on from a leaf while leaves end within p.
Walk(index, run, s, p, first) ==
  LET UpTo(i) == UpperBound(index, run[i].datoms, p)
      OnTo(last) == \A i \in (first + 1)..last :
                      UpTo(i - 1) = Len(run[i - 1].datoms) /\ ComparePrefix(index, run[i].key, p) <= 0
      last == CHOOSE i \in first..Len(run) : OnTo(i) /\ (i = Len(run) \/ ~OnTo(i + 1))
      From(i) == IF i > first THEN 0
                 ELSE LET bound == LowerBound(index, run[i].datoms, p) IN IF Left(s, first) > bound THEN Left(s, first) ELSE bound
  IN  [at |-> last, end |-> UpTo(last),
       out |-> s.out @@ (p :> FlattenSeq([k \in 1..(last - first + 1) |->
                                LET i == first + k - 1 IN SubSeq(run[i].datoms, From(i) + 1, UpTo(i))]))]

\* One step of the cursor: it stays in its leaf unless that ends before p.
Seek(index, root, run, s, p) ==
  LET stays == s.at # 0 /\ run[s.at].datoms # <<>> /\ ComparePrefix(index, Last(run[s.at].datoms), p) >= 0 IN
  Walk(index, run, s, p, IF stays THEN s.at ELSE LeafFor(index, root, p))

\* scanMany: the datoms of each of the prefixes, which bind the same components.
ScanMany(index, root, prefixes) ==
  LET ordered == MapThenFoldSet(LAMBDA p, rest : <<p>> \o rest, <<>>, LAMBDA p : p,
                   LAMBDA T : CHOOSE p \in T : \A x \in T : CompareKeys(p, x) <= 0, prefixes)
  IN  FoldLeft(LAMBDA s, p : Seek(index, root, LeafRun(root), s, p), [at |-> 0, end |-> 0, out |-> <<>>], ordered).out
=============================================================================
