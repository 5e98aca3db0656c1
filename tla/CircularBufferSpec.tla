------------------------- MODULE CircularBufferSpec -------------------------
(***************************************************************************)
(* What CircularBuffer_T (src/sphinxstd.h) offers its caller: a FIFO of    *)
(* any length.  Push appends, Pop hands out and removes the oldest,        *)
(* Last reads the newest and [ i ] the i-th oldest.  out is the value the  *)
(* last read returned.                                                     *)
(***************************************************************************)
EXTENDS Integers, Sequences

CONSTANTS Values, Unset

VARIABLES q, out

Push(v) == q' = Append(q, v) /\ UNCHANGED out

Pop == q # << >> /\ out' = Head(q) /\ q' = Tail(q)

Last == q # << >> /\ out' = q[Len(q)] /\ UNCHANGED q

At(i) == i \in 0..(Len(q) - 1) /\ out' = q[i + 1] /\ UNCHANGED q

Init == q = << >> /\ out = Unset

Next ==
  \/ \E v \in Values : Push(v)
  \/ Pop
  \/ Last
  \/ \E i \in 0..(Len(q) - 1) : At(i)

Spec == Init /\ [][Next]_<<q, out>>
=============================================================================
