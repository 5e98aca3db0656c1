----------------------------- MODULE VectorSpec -----------------------------
(***************************************************************************)
(* What sph::Vector_T (src/sphinxstd.h) promises its callers, as the       *)
(* method comments state it: the vector is a sequence of elements, and     *)
(* each mutator changes that sequence in one step.  Storage, the limit and *)
(* the moves between buffers are invisible here.  Entries the vector       *)
(* exposes without writing them (AddN, Resize growing) may hold any value. *)
(* DiscardAndReserve either keeps the elements (and answers iDiscard) or   *)
(* drops the first iDiscard of them (and answers 0).                       *)
(***************************************************************************)
EXTENDS Integers, Sequences, TLC

CONSTANTS Values, MaxCount

VARIABLES seq, ret

SE == INSTANCE SequencesExt

\* 0-based index i, as the code's.
Prefix(s, n) == SubSeq(s, 1, n)
Drop(s, n) == IF n >= Len(s) THEN << >> ELSE SubSeq(s, n + 1, Len(s))
Cut(s, i, n) == Prefix(s, i) \o Drop(s, i + n)

Keep == UNCHANGED ret

\* Add, Append, AddUnique, Insert: the value(s) given are placed.
AddValues(t) == seq' = seq \o t /\ Keep
AddUnique(v) ==
  /\ seq' = IF seq # << >> /\ seq[Len(seq)] = v THEN seq ELSE Append(seq, v)
  /\ Keep
Insert(i, v) == seq' = SE!InsertAt(seq, i + 1, v) /\ Keep

\* AddN and Resize (growing): new entries of unspecified value.
Grow(n) == \E t \in [1..n -> Values] : seq' = seq \o t /\ Keep

\* Remove, RemoveValue, RemoveValueFromSorted, Pop, Shrink, Reset.
RemoveAt(i, n) == seq' = Cut(seq, i, n) /\ Keep
Truncate(n) == seq' = Prefix(seq, n) /\ Keep

\* RemoveFast: the last element takes the removed one's place.
RemoveFast(i) ==
  /\ seq' = Prefix([seq EXCEPT ![i + 1] = seq[Len(seq)]], Len(seq) - 1)
  /\ Keep

DiscardAndReserve(d) ==
  /\ ret' \in {0, d}
  /\ seq' = IF ret' = d THEN seq ELSE Drop(seq, d)

\* Sort ( iStart, iEnd ): the slice [iStart, iEnd] ascending.
SortSlice(s, e) ==
  /\ seq' = Prefix(seq, s) \o SortSeq(SubSeq(seq, s + 1, e + 1), <)
           \o Drop(seq, e + 1)
  /\ Keep

\* Uniq: sorted, each value once.
Uniq == seq' = SE!SetToSortSeq(SE!ToSet(seq), <) /\ Keep

\* MergeSorted ( dA, dB ) of sorted vectors (of up to two elements, the
\* bound of the model, from 0 and 1): the elements of both, ascending.
SortedInputs == {t \in UNION {[1..n -> {0, 1}] : n \in 0..2} : SE!IsSorted(t, <=)}

MergeSorted(a, b) == seq' = SortSeq(a \o b, <) /\ Keep

\* ZeroVec: every element 0.
Zero == seq' = [k \in DOMAIN seq |-> 0] /\ Keep

Init == seq = << >> /\ ret = 0

Next ==
  \/ \E n \in 0..MaxCount : \E t \in [1..n -> Values] : AddValues(t)
  \/ \E v \in Values : AddUnique(v)
  \/ \E i \in 0..Len(seq), v \in Values : Insert(i, v)
  \/ \E n \in 0..MaxCount : Grow(n)
  \/ \E i \in 0..Len(seq), n \in 0..MaxCount : RemoveAt(i, n)
  \/ \E n \in 0..Len(seq) : Truncate(n)
  \/ \E i \in 0..(Len(seq) - 1) : RemoveFast(i)
  \/ \E d \in 0..MaxCount : DiscardAndReserve(d)
  \/ \E s, e \in 0..(Len(seq) - 1) : SortSlice(s, e)
  \/ Uniq
  \/ Zero
  \/ \E a, b \in SortedInputs : MergeSorted(a, b)

Spec == Init /\ [][Next]_<<seq, ret>>
=============================================================================
