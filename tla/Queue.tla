-------------------------------- MODULE Queue --------------------------------
(***************************************************************************)
(* CSphQueue<int, SphLess_T> of src/sphinxstd.h (lines 5033-5135): a      *)
(* binary min-heap in m_pData[0..m_iUsed-1] of capacity m_iSize.  COMP is  *)
(* "<".  Cells of new T[iSize] are uninitialised: they may hold any value. *)
(* An access outside m_pData[0..m_iSize-1] (through a null pointer when    *)
(* m_iSize is 0) is undefined behaviour; the model records it in fault.   *)
(* Reset may be called on a non-empty queue only when ResetAny holds;     *)
(* with ResetAny TRUE, fault is reached in three steps.                    *)
(***************************************************************************)
EXTENDS Integers, FiniteSets

CONSTANTS
  Values,     \* the entries (integers)
  Sizes,      \* the iSize the constructor and Reset may be given
  Unset,      \* what out holds before the first Root
  ResetAny    \* whether Reset is also called with entries in the queue

VARIABLES
  data,    \* m_pData[0..m_iSize-1]
  used,    \* m_iUsed
  size,    \* m_iSize
  out,     \* the entry the last Root returned
  fault    \* an access outside m_pData happened

vars == <<data, used, size, out, fault>>

\* new T[iSize]: any contents.
Fresh(n) == [0..(n - 1) -> Values]

Swap(a, p, q) == [a EXCEPT ![p] = a[q], ![q] = a[p]]

\* The shift-up loop of Push from iEntry.
RECURSIVE SiftUp(_, _)
SiftUp(a, i) ==
  LET parent == (i - 1) \div 2
  IN  IF i = 0 \/ ~(a[i] < a[parent]) THEN a ELSE SiftUp(Swap(a, i, parent), parent)

\* Mutant: the larger of the two children is selected.
RECURSIVE SiftDownLargerChild(_, _, _)
SiftDownLargerChild(a, i, n) ==
  LET c0 == 2 * i + 1
      c  == IF c0 + 1 < n /\ a[c0] < a[c0 + 1] THEN c0 + 1 ELSE c0
  IN  IF c0 >= n \/ ~(a[c] < a[i]) THEN a ELSE SiftDownLargerChild(Swap(a, c, i), c, n)

\* The shift-down loop of Pop over the first n entries.
RECURSIVE SiftDown(_, _, _)
SiftDown(a, i, n) ==
  LET c0 == 2 * i + 1
      c  == IF c0 + 1 < n /\ a[c0 + 1] < a[c0] THEN c0 + 1 ELSE c0
  IN  IF c0 >= n \/ ~(a[c] < a[i]) THEN a ELSE SiftDown(Swap(a, c, i), c, n)

\* Pop () as a function of the heap: --m_iUsed, and unless that emptied
\* the queue, the last entry becomes the root and is shifted down.  It
\* reads m_pData[m_iUsed], outside the array when m_iUsed exceeds m_iSize.
PopOp(a, n) ==
  CASE n - 1 = 0     -> [data |-> a, used |-> 0, fault |-> FALSE]
    [] n - 1 >= size -> [data |-> a, used |-> n - 1, fault |-> TRUE]
    [] OTHER         -> [data |-> SiftDown([a EXCEPT ![0] = a[n - 1]], 0, n - 1),
                         used |-> n - 1, fault |-> FALSE]

\* CSphQueue ( iSize ) { Reset ( iSize ); }
Init ==
  /\ size \in Sizes
  /\ data \in Fresh(size)
  /\ used = 0
  /\ out = Unset
  /\ fault = FALSE

\* Mutant: the full test reads m_iUsed>m_iSize, so a full queue stores
\* past the end instead of rejecting or popping first.
PushFullPastEnd(e) ==
  /\ ~fault
  /\ size > 0
  /\ IF used > size /\ e < data[0]
       THEN UNCHANGED vars
       ELSE LET p == IF used > size THEN PopOp(data, used)
                     ELSE [data |-> data, used |-> used, fault |-> FALSE]
            IN  IF p.fault \/ p.used >= size
                  THEN fault' = TRUE /\ UNCHANGED <<data, used, size, out>>
                  ELSE /\ data' = SiftUp([p.data EXCEPT ![p.used] = e], p.used)
                       /\ used' = p.used + 1
                       /\ UNCHANGED <<size, out, fault>>

\* Push ( tEntry ): on a full queue reject an entry less than the root,
\* or pop the root first; store at m_pData[m_iUsed] and shift it up.
Push(e) ==
  /\ ~fault
  /\ size > 0                               \* assert ( m_pData )
  /\ IF used = size /\ e < data[0]
       THEN UNCHANGED vars
       ELSE LET p == IF used = size THEN PopOp(data, used)
                     ELSE [data |-> data, used |-> used, fault |-> FALSE]
            IN  IF p.fault \/ p.used >= size
                  THEN fault' = TRUE /\ UNCHANGED <<data, used, size, out>>
                  ELSE /\ data' = SiftUp([p.data EXCEPT ![p.used] = e], p.used)
                       /\ used' = p.used + 1
                       /\ UNCHANGED <<size, out, fault>>

Pop ==
  /\ ~fault
  /\ used > 0                               \* assert ( m_iUsed )
  /\ LET p == PopOp(data, used)
     IN  /\ data' = p.data
         /\ used' = p.used
         /\ fault' = p.fault
  /\ UNCHANGED <<size, out>>

\* Root (): m_pData[0], through a null pointer when m_iSize is 0.
Root ==
  /\ ~fault
  /\ used > 0
  /\ IF size = 0 THEN fault' = TRUE /\ UNCHANGED out
                 ELSE out' = data[0] /\ UNCHANGED fault
  /\ UNCHANGED <<data, used, size>>

Clear ==
  /\ ~fault
  /\ used' = 0
  /\ UNCHANGED <<data, size, out, fault>>

\* Reset ( iSize ): a new array of iSize cells; m_iUsed is left as it is.
Reset(n) ==
  /\ ~fault
  /\ ResetAny \/ used = 0
  /\ size' = n
  /\ data' \in Fresh(n)
  /\ UNCHANGED <<used, out, fault>>

Next ==
  \/ \E e \in Values : Push(e)
  \/ Pop
  \/ Root
  \/ Clear
  \/ \E n \in Sizes : Reset(n)

Spec == Init /\ [][Next]_vars

-----------------------------------------------------------------------------
(* Properties                                                              *)

\* The heap behaves as the bag QueueSpec describes: after any sequence of
\* pushes (rejected or replacing the root when full), pops, clears and
\* resets, Root returns the least entry kept, and a full queue keeps the
\* m_iSize greatest entries pushed since it was last emptied.
Entries == {data[k] : k \in 0..(used - 1)}

Kept == [v \in Entries |-> Cardinality({k \in 0..(used - 1) : data[k] = v})]

\* Push, Pop and Root only touch m_pData[0..m_iSize-1]: a full queue
\* rejects or pops before it stores, so m_pData[m_iSize] is never
\* written, and Pop reads m_pData[m_iUsed] only inside the array; this
\* must hold across any mix of pushes, pops, clears and resets of an
\* empty queue to another capacity.
NoQueueOverflow == ~fault

Abs == INSTANCE QueueSpec WITH bag <- Kept

QueueRefinement == Abs!Spec
=============================================================================
