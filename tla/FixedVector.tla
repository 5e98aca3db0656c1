---------------------------- MODULE FixedVector -----------------------------
(***************************************************************************)
(* CSphFixedVector<int> of src/sphinxstd.h with DefaultCopy_T and         *)
(* DefaultStorage_T: a pointer and a count over arrays of new int[n] at   *)
(* model addresses.  new int[n] leaves its cells undefined (Unset).       *)
(* Besides the vectors, the caller may hold arrays it took with LeakData   *)
(* (fraw), which it later frees or hands to another vector with Set.      *)
(*                                                                         *)
(* Callers keep two contracts nothing in the class checks: CopyFrom is not *)
(* given a slice of the vector itself of another length (Reset would free  *)
(* the source first), and Set is called on an empty vector (it does not    *)
(* free the array it replaces).                                            *)
(***************************************************************************)
EXTENDS Naturals, Sequences, FiniteSets

CONSTANTS Vecs, Addrs, Null, Values, Unset, MaxSize

VARIABLES
  fptr,    \* m_pData of each vector
  fcount,  \* m_iCount of each vector
  flive,   \* the addresses new[] returned and delete[] has not freed
  fheap,   \* the cells of each live array (<< >> once freed)
  fraw,    \* the arrays the caller holds after LeakData
  fassigned  \* history: the last call assigned a newly built vector

fvars == <<fptr, fcount, flive, fheap, fraw, fassigned>>

Undefined(n) == [i \in 1..n |-> Unset]

\* STORE::Deallocate: delete[] of the pointer (nothing for nullptr)
Freed(live, p) == IF p = Null THEN live ELSE live \ {p}
Dropped(heap, p) == IF p = Null THEN heap ELSE [heap EXCEPT ![p] = << >>]

\* The first k cells at p; cells of a freed array read as garbage (Unset).
ReadCells(heap, p, k) == IF k <= Len(heap[p]) THEN SubSeq(heap[p], 1, k) ELSE Undefined(k)

\* Mutant: Reset without its early return for an unchanged size, so the
\* array is freed and a fresh one allocated even then.
ResetResultsAlwaysNew(v, n) ==
  LET live1 == Freed(flive, fptr[v])
      heap1 == Dropped(fheap, fptr[v]) IN
  IF n > 0
  THEN {[ptr |-> a, live |-> live1 \cup {a},
         heap |-> [heap1 EXCEPT ![a] = Undefined(n)]] : a \in Addrs \ live1}
  ELSE {[ptr |-> Null, live |-> live1, heap |-> heap1]}

\* Reset ( iSize ): nothing if the size is the same; otherwise free the
\* array, then allocate one of the new size (nullptr for 0).  The states
\* new[] may lead to, as records of m_pData and the heap.
ResetResults(v, n) ==
  IF n = fcount[v]
  THEN {[ptr |-> fptr[v], live |-> flive, heap |-> fheap]}
  ELSE LET live1 == Freed(flive, fptr[v])
           heap1 == Dropped(fheap, fptr[v]) IN
       IF n > 0
       THEN {[ptr |-> a, live |-> live1 \cup {a},
              heap |-> [heap1 EXCEPT ![a] = Undefined(n)]] : a \in Addrs \ live1}
       ELSE {[ptr |-> Null, live |-> live1, heap |-> heap1]}

Reset(v, n) ==
  \E r \in ResetResults(v, n) :
    /\ fptr' = [fptr EXCEPT ![v] = r.ptr] /\ fcount' = [fcount EXCEPT ![v] = n]
    /\ flive' = r.live /\ fheap' = r.heap
    /\ UNCHANGED fraw

\* CopyFrom ( dOrigin ) with dOrigin the first k elements of vector w:
\* Reset ( k ), then memmove from the origin's data (nothing for k = 0).
CopyFrom(v, w, k) ==
  LET src == fptr[w] IN
  /\ v # w \/ k = fcount[w]
  /\ \E r \in ResetResults(v, k) :
       /\ fptr' = [fptr EXCEPT ![v] = r.ptr] /\ fcount' = [fcount EXCEPT ![v] = k]
       /\ flive' = r.live
       /\ fheap' = IF k = 0 THEN r.heap
                   ELSE [r.heap EXCEPT ![r.ptr] = ReadCells(r.heap, src, k)]
       /\ UNCHANGED fraw

\* LeakData that calls Reset ( 0 ) before clearing m_pData.
LeakDataNoNull(v) ==
  /\ fcount[v] # 0
  /\ fptr' = [fptr EXCEPT ![v] = Null] /\ fcount' = [fcount EXCEPT ![v] = 0]
  /\ flive' = Freed(flive, fptr[v]) /\ fheap' = Dropped(fheap, fptr[v])
  /\ fraw' = fraw \cup {fptr[v]}

\* LeakData: m_pData = nullptr, then Reset ( 0 ) (which frees nullptr);
\* the caller now holds the array.
LeakData(v) ==
  /\ fptr[v] # Null
  /\ fptr' = [fptr EXCEPT ![v] = Null] /\ fcount' = [fcount EXCEPT ![v] = 0]
  /\ fraw' = fraw \cup {fptr[v]}
  /\ UNCHANGED <<flive, fheap>>

\* the caller delete[]s an array it took with LeakData
FreeRaw(a) ==
  /\ a \in fraw
  /\ fraw' = fraw \ {a} /\ flive' = flive \ {a}
  /\ fheap' = [fheap EXCEPT ![a] = << >>]
  /\ UNCHANGED <<fptr, fcount>>

\* Set ( pData, iSize ): the vector takes an array the caller holds.
SetData(v, a) ==
  /\ a \in fraw /\ fptr[v] = Null
  /\ fptr' = [fptr EXCEPT ![v] = a] /\ fcount' = [fcount EXCEPT ![v] = Len(fheap[a])]
  /\ fraw' = fraw \ {a}
  /\ UNCHANGED <<flive, fheap>>

\* SwapData: the pointers and the counts change places.
SwapData(v, w) ==
  /\ v # w
  /\ fptr' = [fptr EXCEPT ![v] = fptr[w], ![w] = fptr[v]]
  /\ fcount' = [fcount EXCEPT ![v] = fcount[w], ![w] = fcount[v]]
  /\ UNCHANGED <<flive, fheap, fraw>>

\* v = std::move ( w ): operator= takes its argument by value, built by
\* the move constructor (w swapped with an empty vector), swaps it with v,
\* and destroys it with v's old array.  Moving v into itself keeps it.
MoveAssign(v, w) ==
  /\ v # w
  /\ fptr' = [fptr EXCEPT ![v] = fptr[w], ![w] = Null]
  /\ fcount' = [fcount EXCEPT ![v] = fcount[w], ![w] = 0]
  /\ flive' = Freed(flive, fptr[v]) /\ fheap' = Dropped(fheap, fptr[v])
  /\ UNCHANGED fraw

\* v = CSphFixedVector<int> ( n ): the temporary allocates (nullptr for 0)
\* while v's old array is still live, then operator= swaps and frees the old one.
AssignNew(v, n) ==
  /\ \E a \in IF n = 0 THEN {Null} ELSE Addrs \ flive :
       /\ fptr' = [fptr EXCEPT ![v] = a] /\ fcount' = [fcount EXCEPT ![v] = n]
       /\ flive' = Freed(flive \cup ({a} \ {Null}), fptr[v])
       /\ fheap' = Dropped(IF a = Null THEN fheap ELSE [fheap EXCEPT ![a] = Undefined(n)],
                          fptr[v])
  /\ UNCHANGED fraw

\* ZeroVec: memset of the m_iCount cells.
ZeroVec(v) ==
  /\ fcount[v] > 0
  /\ fheap' = [fheap EXCEPT ![fptr[v]] = [i \in DOMAIN @ |-> 0]]
  /\ UNCHANGED <<fptr, fcount, flive, fraw>>

\* operator[] of VecTraits_T, written through
Write(v, i, x) ==
  /\ i \in 1..fcount[v]
  /\ fheap' = [fheap EXCEPT ![fptr[v]][i] = x]
  /\ UNCHANGED <<fptr, fcount, flive, fraw>>

\* each vector built by CSphFixedVector ( n ), on distinct arrays
Init ==
  /\ fcount \in [Vecs -> 0..MaxSize]
  /\ fptr \in [Vecs -> Addrs \cup {Null}]
  /\ \A v \in Vecs : (fptr[v] = Null) = (fcount[v] = 0)
  /\ \A v, w \in Vecs : v # w /\ fptr[v] # Null => fptr[v] # fptr[w]
  /\ flive = {fptr[v] : v \in Vecs} \ {Null}
  /\ fheap = [a \in Addrs |-> IF a \in flive
                              THEN Undefined(fcount[CHOOSE v \in Vecs : fptr[v] = a])
                              ELSE << >>]
  /\ fraw = {}
  /\ fassigned = FALSE

Next ==
  \/ \E v \in Vecs :
       \/ \E n \in 0..MaxSize : AssignNew(v, n) /\ fassigned' = TRUE
       \/ /\ \/ \E n \in 0..MaxSize : Reset(v, n)
             \/ \E w \in Vecs : \/ \E k \in 0..fcount[w] : CopyFrom(v, w, k)
                                \/ SwapData(v, w) \/ MoveAssign(v, w)
             \/ LeakData(v) \/ ZeroVec(v)
             \/ \E a \in Addrs : SetData(v, a)
             \/ \E i \in 1..MaxSize, x \in Values : Write(v, i, x)
          /\ fassigned' = FALSE
  \/ \E a \in Addrs : FreeRaw(a) /\ UNCHANGED fassigned

Spec == Init /\ [][Next]_fvars

-----------------------------------------------------------------------------
\* Every live array has exactly one owner, a vector or the caller after
\* LeakData, and every array a vector or the caller points to is live and
\* as long as the vector's count: no Reset, move, LeakData or Set leaks an
\* array, frees one still in use, or leaves two owners of one.
ArraysOwned ==
  /\ \A a \in flive :
       Cardinality({v \in Vecs : fptr[v] = a}) + (IF a \in fraw THEN 1 ELSE 0) = 1
  /\ fraw \subseteq flive
  /\ \A v \in Vecs : IF fcount[v] = 0 THEN fptr[v] = Null
                     ELSE fptr[v] \in flive /\ Len(fheap[fptr[v]]) = fcount[v]

\* CSphFixedVector implements FixedVectorSpec: the contents of every vector
\* read through m_pData and m_iCount.
Contents == [v \in Vecs |-> IF fptr[v] = Null THEN << >> ELSE ReadCells(fheap, fptr[v], fcount[v])]
Abs == INSTANCE FixedVectorSpec WITH fv <- Contents, assigned <- fassigned
FixedVectorRefinement == Abs!Spec
=============================================================================
