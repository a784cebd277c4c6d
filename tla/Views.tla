-------------------------------- MODULE Views --------------------------------
(***************************************************************************)
(* What a reader makes of a scan: novelty merged into it, and the history, *)
(* ordered so that the datoms of a fact are beside one another, collapsed  *)
(* into the facts that hold as of a t (internal/core/novelty.ts).          *)
(*                                                                         *)
(* A chunk is [datoms, whole]: datoms of a leaf that match a prefix, and   *)
(* whether they are all of it.  None is empty.                             *)
(***************************************************************************)
EXTENDS Orders

\* How many of the novelty sort up to a datom.
Through(index, nov, last) ==
  CHOOSE n \in 0..Len(nov) :
    \A i \in 1..Len(nov) : i <= n + 1 => (i <= n <=> Compare(index, nov[i], last) <= 0)
\* A chunk takes in the novelty that sorts up to its end; without any it goes
\* through as it is.
MergeTake(index, s, c, n) ==
  IF n = 0 THEN [s EXCEPT !.out = Append(@, c)]
  ELSE [nov |-> SubSeq(s.nov, n + 1, Len(s.nov)),
        out |-> Append(s.out, [datoms |-> SortedUnion(index, c.datoms, SubSeq(s.nov, 1, n)),
                               whole |-> TRUE])]
MergeStep(index, s, c) == MergeTake(index, s, c, Through(index, s.nov, Last(c.datoms)))
\* What is left of the novelty is the last chunk.
MergeRest(s, nov) ==
  IF s.nov = <<>> THEN s.out
  ELSE Append(s.out, [datoms |-> s.nov, whole |-> nov.whole /\ s.nov = nov.datoms])
\* mergeChunks, chunk by chunk.
MergeChunks(index, tree, nov) ==
  LET after[k \in 0..Len(tree)] ==
        IF k = 0 THEN [nov |-> nov.datoms, out |-> <<>>] ELSE MergeStep(index, after[k - 1], tree[k])
  IN  MergeRest(after[Len(tree)], nov)

SameFact(x, y) == x.e = y.e /\ x.a = y.a /\ x.v = y.v

\* isPlainChunk: visible assertions of different facts.
IsPlain(ds, asOf) ==
  /\ \A i \in DOMAIN ds : ds[i].op /\ ds[i].t <= asOf
  /\ \A i \in DOMAIN ds \ {1} : ~SameFact(ds[i - 1], ds[i])

\* What is out, the last datom of a fact whose history may go on, if any, and
\* a chunk held until the next one tells whether its last fact goes on.
NoView == [out |-> <<>>, pending |-> <<>>, held |-> <<>>]
Asserted(pending) == IF pending # <<>> /\ Head(pending).op THEN pending ELSE <<>>

\* The loop both collapses share: of one fact's history the last entry counts.
TakeDatom(s, d, asOf) ==
  IF d.t > asOf THEN s
  ELSE IF s.pending # <<>> /\ SameFact(Head(s.pending), d) THEN [s EXCEPT !.pending = <<d>>]
  ELSE [s EXCEPT !.out = @ \o Asserted(s.pending), !.pending = <<d>>]
Absorb(s, ds, asOf) ==
  LET after[i \in 0..Len(ds)] == IF i = 0 THEN s ELSE TakeDatom(after[i - 1], ds[i], asOf)
  IN  after[Len(ds)]

\* What is out when the input ends.
Flushed(s) == s.out \o s.held \o Asserted(s.pending)

\* The first datom of a chunk tells what becomes of a held chunk,
OpenHeld(s, first) ==
  IF s.held = <<>> THEN s
  ELSE IF SameFact(Last(s.held), first)
       THEN [out |-> s.out \o Front(s.held), pending |-> <<Last(s.held)>>, held |-> <<>>]
       ELSE [out |-> s.out \o s.held, pending |-> <<>>, held |-> <<>>]
\* and whether the history of the pending fact is over.
EndPending(s, first) ==
  IF s.pending = <<>> \/ SameFact(Head(s.pending), first) THEN s
  ELSE [s EXCEPT !.out = @ \o Asserted(s.pending), !.pending = <<>>]
TakeChunk(s, c, asOf) ==
  IF s.pending = <<>> /\ IsPlain(c.datoms, asOf)
  THEN IF c.whole THEN [s EXCEPT !.held = c.datoms]
       ELSE [s EXCEPT !.out = @ \o Front(c.datoms), !.pending = <<Last(c.datoms)>>]
  ELSE Absorb(s, c.datoms, asOf)
\* Mutant: a chunk is passed through whole, though the next one continues its
\* last fact.
ViewStepUnheld(s, c, asOf) ==
  IF IsPlain(c.datoms, asOf) /\ c.whole
  THEN [s EXCEPT !.out = @ \o Asserted(s.pending) \o c.datoms, !.pending = <<>>]
  ELSE Absorb(s, c.datoms, asOf)
ViewStep(s, c, asOf) ==
  LET first == Head(c.datoms) IN TakeChunk(EndPending(OpenHeld(s, first), first), c, asOf)

\* currentView, chunk by chunk.
CurrentView(chunks, asOf) ==
  LET after[k \in 0..Len(chunks)] == IF k = 0 THEN NoView ELSE ViewStep(after[k - 1], chunks[k], asOf)
  IN  Flushed(after[Len(chunks)])

\* collapseCurrent: the same of one ordered sequence.
CollapseCurrent(ds, asOf) == IF ds = <<>> \/ IsPlain(ds, asOf) THEN ds ELSE Flushed(Absorb(NoView, ds, asOf))
=============================================================================
