-------------------------------- MODULE Sort --------------------------------
(***************************************************************************)
(* sphSort of src/sphinxstd.h (lines 710-853): an introsort without        *)
(* recursion.  Segments [a, b] wait on an explicit stack (st0/st1, k);    *)
(* a popped segment of at most SMALL_THRESH+1 elements is insertion       *)
(* sorted, a longer one is partitioned Hoare-style around the median      *)
(* element x = a[iLen/2], and both parts are pushed, the smaller on top.  *)
(* Every time the stack runs empty the depth limit (2.5 * sphLog2(n)) is  *)
(* decremented; when it reaches zero the remaining segment is heap sorted *)
(* by sphHeapSort / sphSiftDown and the sort returns.                     *)
(*                                                                         *)
(* The array is a function 0..n-1 -> Values (pData); positions a, b, i, j *)
(* are indices, as the code's pointers are.  COMP is SphLess_T: "<".      *)
(* Each iteration of the code's loops is one step; the insertion sort and *)
(* the heap sort are RECURSIVE operators applied in one step.             *)
(***************************************************************************)
EXTENDS Integers, Sequences, FiniteSets

CONSTANTS
  MaxLen,       \* longest input array
  Values,       \* the keys an element can have (duplicates occur)
  SmallThresh   \* SMALL_THRESH; 32 in the code

VARIABLES
  input,   \* the array sphSort was called with (history)
  arr,     \* pData[0..iCount-1]
  stack,   \* st0[0..k-1], st1[0..k-1] as a sequence of <<lo, hi>>
  a, b,    \* the bounds of the segment being worked on
  i, j,    \* the partition cursors
  x,       \* the median key (MEDIAN_TYPE x)
  depth,   \* iDepthLimit
  pc       \* "pop", "outer", "inner", "done"

vars == <<input, arr, stack, a, b, i, j, x, depth, pc>>

N == DOMAIN arr
Count(s) == Cardinality(DOMAIN s)

Swap(s, p, q) == [s EXCEPT ![p] = s[q], ![q] = s[p]]

\* sphLog2 (sphinxstd.h 443-464): how many bits the value needs.
RECURSIVE sphLog2(_)
sphLog2(v) == IF v = 0 THEN 0 ELSE 1 + sphLog2(v \div 2)

-----------------------------------------------------------------------------
(* sphSiftDown and sphHeapSort on the count elements from base on.         *)

\* Mutant: the right child is only looked at when it is not the last.
RECURSIVE SiftDownNoLastChild(_, _, _, _)
SiftDownNoLastChild(s, base, start, end) ==
  LET c  == start * 2 + 1
      c1 == IF c + 1 < end /\ s[base + c] < s[base + c + 1] THEN c + 1 ELSE c
  IN  IF c > end \/ s[base + c1] < s[base + start] THEN s
      ELSE SiftDownNoLastChild(Swap(s, base + c1, base + start), base, c1, end)

RECURSIVE SiftDown(_, _, _, _)
SiftDown(s, base, start, end) ==
  LET c  == start * 2 + 1
      c1 == IF c + 1 <= end /\ s[base + c] < s[base + c + 1] THEN c + 1 ELSE c
  IN  IF c > end \/ s[base + c1] < s[base + start] THEN s
      ELSE SiftDown(Swap(s, base + c1, base + start), base, c1, end)

RECURSIVE BuildHeap(_, _, _, _)
BuildHeap(s, base, start, last) ==
  IF start < 0 THEN s
  ELSE BuildHeap(SiftDown(s, base, start, last), base, start - 1, last)

RECURSIVE PopHeap(_, _, _)
PopHeap(s, base, end) ==
  IF end <= 0 THEN s
  ELSE PopHeap(SiftDown(Swap(s, base, base + end), base, 0, end - 1),
               base, end - 1)

sphHeapSort(s, base, count) ==
  IF count <= 1 THEN s
  ELSE PopHeap(BuildHeap(s, base, (count - 2) \div 2, count - 1),
               base, count - 1)

-----------------------------------------------------------------------------
(* The insertion-sort branch (lines 790-805) on [lo, hi].                  *)

RECURSIVE SinkDown(_, _, _)
SinkDown(s, lo, p) ==
  IF p <= lo \/ s[p - 1] < s[p] THEN s ELSE SinkDown(Swap(s, p, p - 1), lo, p - 1)

\* Mutant: the outer loop stops one element early (i<b for i<=b).
RECURSIVE InsertionSortShort(_, _, _, _)
InsertionSortShort(s, lo, p, hi) ==
  IF p >= hi THEN s ELSE InsertionSortShort(SinkDown(s, lo, p), lo, p + 1, hi)

RECURSIVE InsertionSort(_, _, _, _)
InsertionSort(s, lo, p, hi) ==
  IF p > hi THEN s ELSE InsertionSort(SinkDown(s, lo, p), lo, p + 1, hi)

-----------------------------------------------------------------------------

Arrays == UNION { [0..(n - 1) -> Values] : n \in 0..MaxLen }

\* Entry: if ( iCount<2 ) return; otherwise the whole array is the only
\* segment on the stack and iDepthLimit = (5 * sphLog2(iCount)) >> 1.
Init ==
  /\ input \in Arrays
  /\ arr = input
  /\ stack = IF Count(input) < 2 THEN << >> ELSE << <<0, Count(input) - 1>> >>
  /\ depth = (5 * sphLog2(Count(input))) \div 2
  /\ a = 0 /\ b = 0 /\ i = 0 /\ j = 0
  /\ x = CHOOSE v \in Values : TRUE
  /\ pc = IF Count(input) < 2 THEN "done" ELSE "pop"

\* Mutant: segments are taken from the bottom of the stack (st0[0]).
PopFromBottom ==
  LET seg == stack[1]
      lo  == seg[1]
      hi  == seg[2]
      d   == IF Len(stack) = 1 THEN depth - 1 ELSE depth
  IN
  /\ pc = "pop"
  /\ stack # << >>
  /\ stack' = Tail(stack)
  /\ depth' = d
  /\ a' = lo /\ b' = hi /\ i' = lo /\ j' = hi
  /\ CASE Len(stack) = 1 /\ d = 0 ->
            /\ arr' = sphHeapSort(arr, lo, hi - lo + 1)
            /\ pc' = "done" /\ UNCHANGED x
       [] hi - lo <= SmallThresh ->
            /\ arr' = InsertionSort(arr, lo, lo + 1, hi)
            /\ pc' = "pop" /\ UNCHANGED x
       [] OTHER ->
            /\ x' = arr[lo + (hi - lo) \div 2]
            /\ pc' = "outer" /\ UNCHANGED arr
  /\ UNCHANGED input

\* while ( k ) { k--; i = a = st0[k]; j = b = st1[k]; ... }: pop a segment;
\* when that empties the stack, spend one unit of depth and fall back to
\* heap sort when it is used up; a short segment is insertion sorted; a
\* long one gets its median key.
Pop ==
  LET seg == stack[Len(stack)]
      lo  == seg[1]
      hi  == seg[2]
      d   == IF Len(stack) = 1 THEN depth - 1 ELSE depth
  IN
  /\ pc = "pop"
  /\ stack # << >>
  /\ stack' = SubSeq(stack, 1, Len(stack) - 1)
  /\ depth' = d
  /\ a' = lo /\ b' = hi /\ i' = lo /\ j' = hi
  /\ CASE Len(stack) = 1 /\ d = 0 ->
            /\ arr' = sphHeapSort(arr, lo, hi - lo + 1)
            /\ pc' = "done" /\ UNCHANGED x
       [] hi - lo <= SmallThresh ->
            /\ arr' = InsertionSort(arr, lo, lo + 1, hi)
            /\ pc' = "pop" /\ UNCHANGED x
       [] OTHER ->
            /\ x' = arr[lo + (hi - lo) \div 2]
            /\ pc' = "outer" /\ UNCHANGED arr
  /\ UNCHANGED input

\* The stack ran empty: sphSort returns.
Finish ==
  /\ pc = "pop"
  /\ stack = << >>
  /\ pc' = "done"
  /\ UNCHANGED <<input, arr, stack, a, b, i, j, x, depth>>

\* while ( a<b ): test of the partition loop.
Outer ==
  /\ pc = "outer"
  /\ pc' = IF a < b THEN "inner" ELSE "pop"
  /\ UNCHANGED <<input, arr, stack, a, b, i, j, x, depth>>

RECURSIVE ScanUp(_, _)
ScanUp(s, p) == IF s[p] < x THEN ScanUp(s, p + 1) ELSE p

RECURSIVE ScanDown(_, _)
ScanDown(s, p) == IF x < s[p] THEN ScanDown(s, p - 1) ELSE p

\* Mutant: after a swap the cursors are not moved past the pair.
PartitionStepNoAdvance ==
  LET ni == ScanUp(arr, i)
      nj == ScanDown(arr, j)
  IN
  /\ pc = "inner"
  /\ i <= j
  /\ IF ni <= nj
       THEN arr' = Swap(arr, ni, nj) /\ i' = ni /\ j' = nj
       ELSE UNCHANGED arr /\ i' = ni /\ j' = nj
  /\ UNCHANGED <<input, stack, a, b, x, depth, pc>>

\* One iteration of while ( i<=j ): advance i past keys < x, retreat j past
\* keys > x, and swap the pair if they have not crossed.
PartitionStep ==
  LET ni == ScanUp(arr, i)
      nj == ScanDown(arr, j)
  IN
  /\ pc = "inner"
  /\ i <= j
  /\ IF ni <= nj
       THEN arr' = Swap(arr, ni, nj) /\ i' = ni + 1 /\ j' = nj - 1
       ELSE UNCHANGED arr /\ i' = ni /\ j' = nj
  /\ UNCHANGED <<input, stack, a, b, x, depth, pc>>

\* The cursors crossed: push the part on one side and continue with the
\* other (lines 823-832); the next while ( a<b ) test pushes that one too.
Split ==
  /\ pc = "inner"
  /\ i > j
  /\ IF j - a >= b - i
       THEN /\ stack' = IF a < j THEN Append(stack, <<a, j>>) ELSE stack
            /\ a' = i /\ UNCHANGED b
       ELSE /\ stack' = IF i < b THEN Append(stack, <<i, b>>) ELSE stack
            /\ b' = j /\ UNCHANGED a
  /\ pc' = "outer"
  /\ UNCHANGED <<input, arr, i, j, x, depth>>

Next == Pop \/ Finish \/ Outer \/ PartitionStep \/ Split

Spec == Init /\ [][Next]_vars /\ WF_vars(Next)

-----------------------------------------------------------------------------
(* Properties                                                              *)

\* Reference: the k-th element of the sorted array is the key v with fewer
\* than k+1 elements below it and at least k+1 elements at or below it.
Sorted(s) ==
  [k \in DOMAIN s |->
     CHOOSE v \in Values :
       /\ Cardinality({p \in DOMAIN s : s[p] < v}) <= k
       /\ k < Cardinality({p \in DOMAIN s : s[p] <= v})]

\* When sphSort returns, whichever of its three algorithms finished the
\* job, the array holds the input's elements in ascending order.
SortsInput ==
  pc = "done" => arr = Sorted(input)

\* The explicit stack st0[32] / st1[32] is never indexed past its end:
\* because the smaller part is always pushed last and so worked on first,
\* at most floor(log2(iCount)) segments wait, below 32 for any int count.
StackBounded ==
  Count(input) >= 2 => Len(stack) < sphLog2(Count(input))

\* The depth limit is not used up on inputs TLC can enumerate, so
\* sphHeapSort is checked on its own: on every input it sorts.
HeapSortSorts ==
  sphHeapSort(input, 0, Count(input)) = Sorted(input)

\* Every call returns: no partition loop spins for ever.
Terminates ==
  <>(pc = "done")
=============================================================================
