------------------------------- MODULE Vector -------------------------------
(***************************************************************************)
(* sph::Vector_T of src/sphinxstd.h (CSphVector: DefaultCopy_T,           *)
(* DefaultRelimit, DefaultStorage_T) over a trivially copyable T, with the *)
(* VecTraits_T searches and sort it inherits and the sphinxstd.h helpers  *)
(* it calls: sphBinarySearch, both sphBinarySearchFirst and sphUniq.       *)
(*                                                                         *)
(* The storage m_pData[0..m_iLimit-1] is a function; m_iCount of it are   *)
(* the elements.  new T[] of a trivially constructible T leaves the new    *)
(* cells uninitialised: they get any value, so Reserve has a set of      *)
(* outcomes.  Each public method is one step; the Reserve it calls      *)
(* first is an operator on a record [data, count, limit, ret].             *)
(***************************************************************************)
EXTENDS Integers, Sequences, TLC

CONSTANTS
  Values,        \* the element values (an integer type)
  MaxCount,      \* bound on m_iCount
  InitialLimit,  \* DefaultRelimit::MAGIC_INITIAL_LIMIT (8 in the code)
  AliasAny       \* may Insert be handed any element of the vector itself?

VARIABLES
  data,    \* m_pData[0..m_iLimit-1]
  count,   \* m_iCount
  limit,   \* m_iLimit
  ret      \* what the last DiscardAndReserve returned

vars == <<data, count, limit, ret>>

SE == INSTANCE SequencesExt

Contents == [k \in 1..count |-> data[k - 1]]

\* DefaultRelimit::Relimit: start from MAGIC_INITIAL_LIMIT, double until
\* the request fits.
RECURSIVE Double(_, _)
Double(l, n) == IF l < n THEN Double(2 * l, n) ELSE l
Relimit(l, n) == Double(IF l = 0 THEN InitialLimit ELSE l, n)

\* What the cells [from, to) of a buffer from STORE::Allocate hold before
\* they are written.
Garbage(from, to) == [from..(to - 1) -> Values]

Cur == [data |-> data, count |-> count, limit |-> limit, ret |-> ret]

Store(v) == data' = v.data /\ count' = v.count /\ limit' = v.limit /\ ret' = v.ret

\* Write the sequence t into the storage from index p on.
Put(v, p, t) ==
  [v EXCEPT !.data = [k \in DOMAIN v.data |->
                        IF k >= p /\ k < p + Len(t) THEN t[k - p + 1] ELSE v.data[k]]]

\* POLICY::Move ( m_pData, m_pData+d, c ): memmove of c elements down by d.
MoveDown(a, d, c) == [k \in DOMAIN a |-> IF k < c THEN a[k + d] ELSE a[k]]

\* Mutant: the aligned branch forgets to move the kept elements back.
DiscardAndReserveNoMoveBack(v, d, n) ==
  IF n <= v.limit THEN {[v EXCEPT !.ret = d]}
  ELSE
    LET n2 == n - d
        c2 == IF d > 0 THEN (IF d < v.count THEN v.count - d ELSE 0) ELSE v.count
    IN IF d > 0 /\ n2 <= v.limit
       THEN {[v EXCEPT !.count = c2, !.ret = 0]}
       ELSE LET l2 == Relimit(v.limit, n2)
            IN {[data |-> [k \in 0..(l2 - 1) |-> IF k < c2 THEN v.data[k + d] ELSE g[k]],
                 count |-> c2, limit |-> l2, ret |-> 0] : g \in Garbage(c2, l2)}

\* DiscardAndReserve ( iDiscard, iNewLimit ): nothing when the limit
\* suffices (answer iDiscard); otherwise drop the first iDiscard elements,
\* and if the rest fits move it down in place, else reallocate to
\* Relimit's size and move it into the new buffer (answer 0).
DiscardAndReserveOp(v, d, n) ==
  IF n <= v.limit THEN {[v EXCEPT !.ret = d]}
  ELSE
    LET n2 == n - d
        c2 == IF d > 0 THEN (IF d < v.count THEN v.count - d ELSE 0) ELSE v.count
    IN IF d > 0 /\ n2 <= v.limit
       THEN {[v EXCEPT !.data = MoveDown(v.data, d, c2), !.count = c2, !.ret = 0]}
       ELSE LET l2 == Relimit(v.limit, n2)
            IN {[data |-> [k \in 0..(l2 - 1) |-> IF k < c2 THEN v.data[k + d] ELSE g[k]],
                 count |-> c2, limit |-> l2, ret |-> 0] : g \in Garbage(c2, l2)}

\* Reserve ( iNewLimit ) == DiscardAndReserve ( 0, iNewLimit ); its answer
\* is ignored.
Reserve(v, n) == {[r EXCEPT !.ret = v.ret] : r \in DiscardAndReserveOp(v, 0, n)}

\* if ( m_iCount>=m_iLimit ) Reserve ( 1+m_iCount ): the guard every
\* single-element insertion starts with.
ReserveOne == IF count >= limit THEN Reserve(Cur, count + 1) ELSE {Cur}

-----------------------------------------------------------------------------
(* The sphinxstd.h algorithms, on the storage a with inclusive bounds.     *)

\* The bisection loop of sphBinarySearch: stop when the range is two
\* elements or the value lies outside it.
RECURSIVE BSearchLoop(_, _, _, _)
BSearchLoop(a, lo, hi, ref) ==
  IF hi - lo <= 1 \/ ref < a[lo] \/ a[hi] < ref THEN -1
  ELSE LET mid == lo + (hi - lo) \div 2
       IN CASE ref = a[mid] -> mid
            [] ref < a[mid] -> BSearchLoop(a, lo, mid, ref)
            [] OTHER        -> BSearchLoop(a, mid, hi, ref)

\* Mutant: the last element is not tested before the loop.
sphBinarySearchNoEnd(a, lo, hi, ref) ==
  CASE hi < lo       -> -1
    [] a[lo] = ref   -> lo
    [] OTHER         -> BSearchLoop(a, lo, hi, ref)

\* sphBinarySearch ( pStart, pEnd, tPred, tRef ): an index holding ref,
\* or -1 (NULL); an empty range (pEnd<pStart) finds nothing.
sphBinarySearch(a, lo, hi, ref) ==
  CASE hi < lo       -> -1
    [] a[lo] = ref   -> lo
    [] a[hi] = ref   -> hi
    [] OTHER         -> BSearchLoop(a, lo, hi, ref)

\* sphBinarySearchFirst ( pValues, iStart, iEnd, tPred, tRef ), the int one.
RECURSIVE sphBinarySearchFirst(_, _, _, _)
sphBinarySearchFirst(a, lo, hi, ref) ==
  IF hi - lo <= 1 THEN hi
  ELSE IF ref < a[lo] \/ ref > a[hi] THEN -1
  ELSE LET mid == lo + (hi - lo) \div 2
       IN IF a[mid] >= ref THEN sphBinarySearchFirst(a, lo, mid, ref)
                           ELSE sphBinarySearchFirst(a, mid, hi, ref)

\* sphBinarySearchFirst ( pStart, pEnd, tPred, tRef ), the pointer one:
\* bisect [pStart, pEnd) down to one position.
RECURSIVE sphBinarySearchFirstPtr(_, _, _, _)
sphBinarySearchFirstPtr(a, lo, hi, ref) ==
  IF lo = hi THEN lo
  ELSE LET mid == lo + (hi - lo) \div 2
       IN IF ref > a[mid] THEN sphBinarySearchFirstPtr(a, mid + 1, hi, ref)
                          ELSE sphBinarySearchFirstPtr(a, lo, mid, ref)

\* The while ( iSrc<iCount ) loop of sphUniq: copy each element that
\* differs from the last one kept.
RECURSIVE UniqLoop(_, _, _, _)
UniqLoop(a, src, dst, n) ==
  IF src >= n THEN [data |-> a, n |-> dst]
  ELSE IF a[dst - 1] = a[src] THEN UniqLoop(a, src + 1, dst, n)
  ELSE UniqLoop([a EXCEPT ![dst] = a[src]], src + 1, dst + 1, n)

sphUniq(a, n) == IF n = 0 THEN [data |-> a, n |-> 0] ELSE UniqLoop(a, 1, 1, n)

\* sphSort on [s, e]; the Sort module checks that it sorts, so here the
\* slice is replaced by its sorted permutation.
SortRange(v, s, e) ==
  Put(v, s, SortSeq([k \in 1..(e - s + 1) |-> v.data[s + k - 1]], <))

-----------------------------------------------------------------------------
(* The methods                                                             *)

\* the sorted vectors MergeSorted is given: up to two elements of 0 and 1,
\* enough for ties, interleaving and the rest of either side
SortedInputs == {t \in UNION {[1..n -> {0, 1}] : n \in 0..2} : SE!IsSorted(t, <=)}

Init ==
  /\ data = [k \in {} |-> CHOOSE x \in Values : TRUE]
  /\ count = 0
  /\ limit = 0
  /\ ret = 0

\* Add ( T tValue ).
Add(x) ==
  /\ count < MaxCount
  /\ \E r \in ReserveOne :
       Store([Put(r, count, <<x>>) EXCEPT !.count = count + 1])

\* Mutant: AddN reserves iCount instead of m_iCount+iCount.
AddNReserveGap(n) ==
  /\ count + n <= MaxCount
  /\ \E r \in IF count + n > limit THEN Reserve(Cur, n) ELSE {Cur} :
       Store([r EXCEPT !.count = count + n])

\* AddN ( iCount ): reserve, then count the new entries in; they keep
\* whatever the storage held (construct_at does nothing for this STORE).
AddN(n) ==
  /\ count + n <= MaxCount
  /\ \E r \in IF count + n > limit THEN Reserve(Cur, count + n) ELSE {Cur} :
       Store([r EXCEPT !.count = count + n])

\* Append ( pData, iN ) / Append ( rhs ): AddN, then POLICY::Copy.
AppendVec(t) ==
  /\ count + Len(t) <= MaxCount
  /\ \E r \in IF count + Len(t) > limit THEN Reserve(Cur, count + Len(t)) ELSE {Cur} :
       Store([Put(r, count, t) EXCEPT !.count = count + Len(t)])

\* AddUnique ( tValue ): reserve first, add unless equal to the last one.
AddUnique(x) ==
  /\ count < MaxCount
  /\ \E r \in ReserveOne :
       Store(IF count = 0 \/ data[count - 1] # x
                  THEN [Put(r, count, <<x>>) EXCEPT !.count = count + 1]
                  ELSE r)

\* Insert ( iIndex, tValue ): reserve, shift [iIndex, m_iCount) up by one
\* from the top, then copy tValue in.
ShiftUp(v, i) ==
  [v EXCEPT !.data = [k \in DOMAIN v.data |->
                        IF k > i /\ k <= v.count THEN v.data[k - 1] ELSE v.data[k]]]

Insert(i, x) ==
  /\ count < MaxCount
  /\ i <= count
  /\ \E r \in ReserveOne :
       Store([Put(ShiftUp(r, i), i, <<x>>) EXCEPT !.count = count + 1])

\* Insert ( iIndex, dVec[p] ): tValue is a reference into m_pData, read
\* only after the shift (and after a reallocation freed the old buffer,
\* where it reads any value).
InsertOwn(i, p) ==
  /\ count < MaxCount
  /\ i <= count /\ p < count
  /\ AliasAny \/ (p < i /\ count < limit)
  /\ \E r \in ReserveOne :
       LET s == ShiftUp(r, i)
       IN \E x \in IF count >= limit THEN Values ELSE {s.data[p]} :
            Store([Put(s, i, <<x>>) EXCEPT !.count = count + 1])

\* Remove ( iIndex, iCount ): move the tail down over the removed ones.
RemoveOp(v, i, n) ==
  [v EXCEPT !.count = v.count - n,
            !.data = [k \in DOMAIN v.data |->
                        IF k >= i /\ k < v.count - n THEN v.data[k + n] ELSE v.data[k]]]

Remove(i, n) ==
  /\ i + n <= count
  /\ Store(RemoveOp(Cur, i, n))

\* RemoveFast ( iIndex ): the last element is swapped into its place.
RemoveFast(i) ==
  /\ data' = IF i # count - 1
               THEN [data EXCEPT ![i] = data[count - 1], ![count - 1] = data[i]]
               ELSE data
  /\ count' = count - 1
  /\ UNCHANGED <<limit, ret>>

\* RemoveValue ( tValue ): linear search, Remove the first match.
RemoveValue(x) ==
  LET hits == {k \in 0..(count - 1) : data[k] = x}
  IN Store(IF hits = {} THEN Cur
           ELSE RemoveOp(Cur, CHOOSE k \in hits : \A m \in hits : k <= m, 1))

\* RemoveValueFromSorted ( tValue ): BinarySearch over [0, m_iCount-1],
\* Remove what it found; the caller promises a sorted vector.
RemoveValueFromSorted(x) ==
  LET p == sphBinarySearch(data, 0, count - 1, x)
  IN /\ SE!IsSorted(Contents, <=)
     /\ Store(IF p = -1 THEN Cur ELSE RemoveOp(Cur, p, 1))

\* Pop ()
Pop ==
  /\ count > 0
  /\ count' = count - 1
  /\ UNCHANGED <<data, limit, ret>>

\* DiscardAndReserve ( iDiscard, iNewLimit ), called directly.
DiscardAndReserve(d, n) ==
  \E r \in DiscardAndReserveOp(Cur, d, n) : Store(r)

\* Resize ( iNewLength ): reserve when growing; the new entries keep
\* whatever the storage held.
Resize(n) ==
  \E r \in IF n > count THEN Reserve(Cur, n) ELSE {Cur} :
    Store([r EXCEPT !.count = n])

\* Shrink ( iNewLength )
Shrink(n) ==
  /\ count' = n
  /\ UNCHANGED <<data, limit, ret>>

\* Reset (): Shrink ( 0 ), free the storage.
Reset ==
  /\ data' = [k \in {} |-> CHOOSE x \in Values : TRUE]
  /\ count' = 0
  /\ limit' = 0
  /\ UNCHANGED ret

\* ZeroVec (): POLICY::Zero over the whole limit.
ZeroVec ==
  /\ data' = [k \in DOMAIN data |-> 0]
  /\ UNCHANGED <<count, limit, ret>>

\* ZeroTail (): zero [m_iCount, m_iLimit) if there is storage.
ZeroTail ==
  /\ limit > 0
  /\ data' = [k \in DOMAIN data |-> IF k >= count THEN 0 ELSE data[k]]
  /\ UNCHANGED <<count, limit, ret>>

\* The merge loops of MergeSorted with the last one (the rest of dB)
\* left out.
RECURSIVE MergeNoTailB(_, _)
MergeNoTailB(a, b) ==
  IF a = << >> THEN << >>
  ELSE IF b = << >> THEN a
  ELSE IF a[1] < b[1] THEN <<a[1]>> \o MergeNoTailB(Tail(a), b)
  ELSE <<b[1]>> \o MergeNoTailB(a, Tail(b))

\* The three loops of MergeSorted: take the lesser head (dB's on a tie)
\* while both have elements, then the rest of dA, then the rest of dB.
RECURSIVE Merge(_, _)
Merge(a, b) ==
  IF a = << >> THEN b
  ELSE IF b = << >> THEN a
  ELSE IF a[1] < b[1] THEN <<a[1]>> \o Merge(Tail(a), b)
  ELSE <<b[1]>> \o Merge(a, Tail(b))

\* MergeSorted ( dA, dB ) of two other sorted vectors: Resize to the sum
\* of their lengths, then write the merge from m_pData on.
MergeSorted(a, b) ==
  LET n == Len(a) + Len(b) IN
  \E r \in IF n > count THEN Reserve(Cur, n) ELSE {Cur} :
    Store(Put([r EXCEPT !.count = n], 0, Merge(a, b)))

\* VecTraits_T::Sort ( iStart, iEnd ): negative bounds count from the end.
Sort(s0, e0) ==
  LET s == IF s0 < 0 THEN s0 + count ELSE s0
      e == IF e0 < 0 THEN e0 + count ELSE e0
  IN /\ count >= 2
     /\ s <= e
     /\ Store(SortRange(Cur, s, e))

\* Uniq (): Sort, sphUniq, Shrink to what sphUniq kept.
Uniq ==
  LET u == sphUniq(SortRange(Cur, 0, count - 1).data, count)
  IN /\ count > 0
     /\ data' = u.data
     /\ count' = u.n
     /\ UNCHANGED <<limit, ret>>

Next ==
  \/ \E x \in Values : Add(x) \/ AddUnique(x) \/ RemoveValue(x)
                       \/ RemoveValueFromSorted(x)
  \/ \E n \in 0..MaxCount : AddN(n) \/ Resize(n)
  \/ \E t \in UNION {[1..n -> Values] : n \in 1..2} : AppendVec(t)
  \/ \E i \in 0..count, x \in Values : Insert(i, x)
  \/ \E i \in 0..count, p \in 0..(count - 1) : InsertOwn(i, p)
  \/ \E i \in 0..(count - 1), n \in 1..count : Remove(i, n)
  \/ \E i \in 0..(count - 1) : RemoveFast(i)
  \/ Pop
  \/ \E d \in 0..count, n \in 0..MaxCount : DiscardAndReserve(d, n)
  \/ \E n \in 0..count : Shrink(n)
  \/ Reset \/ ZeroVec \/ ZeroTail
  \/ \E s \in 0..(count - 1), e \in -1..(count - 1) : Sort(s, e)
  \/ Uniq
  \/ \E a, b \in SortedInputs : Len(a) + Len(b) <= MaxCount /\ MergeSorted(a, b)

Spec == Init /\ [][Next]_vars

-----------------------------------------------------------------------------
(* Properties                                                              *)

LeastOf(S) == CHOOSE k \in S : \A m \in S : k <= m

\* The storage always holds the elements: after any sequence of adds,
\* removals, discards and resets m_iCount never exceeds m_iLimit, and the
\* limit is one DefaultRelimit produces (0 or the initial limit doubled).
CountWithinLimit ==
  /\ count <= limit
  /\ limit \in {0} \cup {InitialLimit * 2^k : k \in 0..MaxCount}

\* On a sorted vector, BinarySearch ( tRef ) (sphBinarySearch over
\* m_pData..m_pData+m_iCount-1) finds an element equal to tRef exactly when
\* there is one.
BinarySearchFinds ==
  SE!IsSorted(Contents, <=) =>
    \A x \in Values :
      LET r == sphBinarySearch(data, 0, count - 1, x)
      IN IF \E k \in 0..(count - 1) : data[k] = x
           THEN r \in 0..(count - 1) /\ data[r] = x
           ELSE r = -1

\* The comment on the int sphBinarySearchFirst: on a sorted range it
\* "returns first (leftmost) occurrence of the value, returns -1 if not
\* found".
SearchFirstLeftmost ==
  SE!IsSorted(Contents, <=) =>
    \A lo, hi \in 0..(count - 1), x \in Values :
      LET hits == {k \in lo..hi : data[k] = x}
      IN lo <= hi =>
           sphBinarySearchFirst(data, lo, hi, x) = IF hits = {} THEN -1 ELSE LeastOf(hits)

\* Whatever the reallocations, moves and in-place compactions, the
\* elements m_pData[0..m_iCount-1] change exactly as each method's comment
\* says (VectorSpec), and DiscardAndReserve's answer is the new index of
\* element iDiscard.
Abs == INSTANCE VectorSpec WITH seq <- Contents, ret <- ret

VectorRefinement == Abs!Spec

=============================================================================
