---------------------------- MODULE CircularBuffer ----------------------------
(***************************************************************************)
(* CircularBuffer_T of src/sphinxstd.h (lines 5136-5253): a ring of       *)
(* m_iUsed values from m_iHead on in a CSphFixedVector, grown by Resize    *)
(* to int(m_iUsed * m_fGrowFactor) when a Push finds it full.              *)
(*                                                                         *)
(* The grow factor is the fraction GrowNum / GrowDen (1.5f = 3/2; int()   *)
(* of a positive float truncates like \div).  Cells no Push wrote hold     *)
(* Unset: new T[] leaves them uninitialised and nothing reads them.  An    *)
(* access outside the vector (through a null m_pData when it is empty),   *)
(* or a remainder by a zero length, is undefined behaviour: the model     *)
(* records it in fault and stops.                                          *)
(***************************************************************************)
EXTENDS Integers, FiniteSets

CONSTANTS
  Values,         \* what the caller stores
  Unset,          \* content of a cell no Push wrote
  InitialSizes,   \* the iInitialSize the constructor may be given
  GrowNum,        \* m_fGrowFactor = GrowNum / GrowDen
  GrowDen,
  MaxUsed         \* bound on m_iUsed

VARIABLES
  buf,     \* m_dValues
  head,    \* m_iHead
  tail,    \* m_iTail
  used,    \* m_iUsed
  out,     \* the value the last Pop / Last / [] returned
  fault    \* an out-of-bounds access or % 0 happened

vars == <<buf, head, tail, used, out, fault>>

\* m_dValues.GetLength()
Length == Cardinality(DOMAIN buf)

\* CircularBuffer_T ( iInitialSize, fGrowFactor ): CSphFixedVector of
\* iInitialSize cells (null data for 0), head = tail = used = 0.
Init ==
  /\ \E n \in InitialSizes : buf = [k \in 0..(n - 1) |-> Unset]
  /\ head = 0 /\ tail = 0 /\ used = 0
  /\ out = Unset
  /\ fault = FALSE

\* Mutant: Resize is passed m_iUsed, without the grow factor.
NewLengthNoGrowth == used

\* Resize ( int(m_iUsed*m_fGrowFactor) )
NewLength == (used * GrowNum) \div GrowDen

\* Mutant: Resize copies the cells in storage order, ignoring m_iHead.
ResizedFromZero(n) == [k \in 0..(n - 1) |-> IF k < used THEN buf[k] ELSE Unset]

\* Resize ( iNewLength ): a new vector, the values copied over in ring
\* order from m_iHead; then head = 0 and tail = m_iUsed.
Resized(n) ==
  [k \in 0..(n - 1) |-> IF k < used THEN buf[(k + head) % Length] ELSE Unset]

\* Push ( tValue ) and T & Push () (whose caller writes the returned cell):
\* grow when full, store at m_iTail, advance it modulo the length.
Push(v) ==
  /\ ~fault
  /\ used < MaxUsed
  /\ LET grow == used = Length
         b1   == IF grow THEN Resized(NewLength) ELSE buf
         t1   == IF grow THEN used ELSE tail
         n1   == Cardinality(DOMAIN b1)
     IN IF t1 < n1
          THEN /\ buf' = [b1 EXCEPT ![t1] = v]
               /\ head' = IF grow THEN 0 ELSE head
               /\ tail' = (t1 + 1) % n1
               /\ used' = used + 1
               /\ UNCHANGED <<out, fault>>
          ELSE /\ fault' = TRUE
               /\ UNCHANGED <<buf, head, tail, used, out>>

\* Pop (): hand out m_dValues[m_iHead] and advance the head.
Pop ==
  /\ ~fault
  /\ used > 0
  /\ out' = buf[head]
  /\ head' = (head + 1) % Length
  /\ used' = used - 1
  /\ UNCHANGED <<buf, tail, fault>>

\* Last ()
Last ==
  /\ ~fault
  /\ used > 0
  /\ out' = buf[(used - 1 + head) % Length]
  /\ UNCHANGED <<buf, head, tail, used, fault>>

\* operator [] ( iIndex )
At(i) ==
  /\ ~fault
  /\ i < used
  /\ out' = buf[(i + head) % Length]
  /\ UNCHANGED <<buf, head, tail, used, fault>>

Next ==
  \/ \E v \in Values : Push(v)
  \/ Pop
  \/ Last
  \/ \E i \in 0..(MaxUsed - 1) : At(i)

Spec == Init /\ [][Next]_vars

-----------------------------------------------------------------------------
(* Properties                                                              *)

\* Push never writes outside m_dValues and never takes m_iTail modulo a
\* zero length, however the pushes and pops before it left the ring:
\* Resize must always leave room for the value being pushed.
NoUndefinedAccess == ~fault

\* The ring behaves as the FIFO its caller sees (CircularBufferSpec): Pop,
\* Last and [ i ] return what was pushed, in order, across every wrap of
\* head and tail and every Resize.
Ring == [k \in 1..used |-> buf[(k - 1 + head) % Length]]

Abs == INSTANCE CircularBufferSpec WITH q <- Ring

FifoRefinement == Abs!Spec
=============================================================================
