-------------------------- MODULE FixedVectorSpec ---------------------------
(***************************************************************************)
(* What CSphFixedVector of src/sphinxstd.h promises its users: each       *)
(* vector holds a sequence whose length is fixed between calls.  Reset to *)
(* another length gives cells with no defined value (Unset), Reset to the *)
(* same length keeps the contents, a newly built vector assigned over one *)
(* has undefined cells, CopyFrom copies a (slice of a) vector, LeakData   *)
(* and a move away leave the vector empty, Set adopts a caller's array.   *)
(* assigned says whether the last step assigned a newly built vector, so *)
(* that no other operation (a Reset or CopyFrom that loses the contents)  *)
(* is taken for one.                                                      *)
(***************************************************************************)
EXTENDS Naturals, Sequences

CONSTANTS Vecs, Values, Unset, MaxSize

VARIABLES fv, assigned

Cells == Values \cup {Unset}
Blocks == UNION {[1..k -> Cells] : k \in 0..MaxSize}

Init == /\ fv \in [Vecs -> {[i \in 1..k |-> Unset] : k \in 0..MaxSize}]
        /\ assigned = FALSE

Reset(v, n) == fv' = [fv EXCEPT ![v] = IF n = Len(fv[v]) THEN @ ELSE [i \in 1..n |-> Unset]]

Fresh(v, n) == fv' = [fv EXCEPT ![v] = [i \in 1..n |-> Unset]]

\* A vector copies a slice of itself only when the slice is all of it.
CopyFrom(v, w, k) ==
  /\ v # w \/ k = Len(fv[w])
  /\ fv' = [fv EXCEPT ![v] = SubSeq(fv[w], 1, k)]

Write(v, i, x) == fv' = [fv EXCEPT ![v][i] = x]

Zero(v) == fv' = [fv EXCEPT ![v] = [i \in DOMAIN @ |-> 0]]

Empty(v) == fv' = [fv EXCEPT ![v] = << >>]

Move(v, w) == fv' = [fv EXCEPT ![v] = fv[w], ![w] = IF v = w THEN fv[w] ELSE << >>]

Swap(v, w) == fv' = [fv EXCEPT ![v] = fv[w], ![w] = fv[v]]

Adopt(v) == fv[v] = << >> /\ \E s \in Blocks : fv' = [fv EXCEPT ![v] = s]

Next ==
  \E v, w \in Vecs :
    \/ \E n \in 0..MaxSize : Fresh(v, n) /\ assigned' = TRUE
    \/ /\ \/ \E n \in 0..MaxSize : Reset(v, n)
          \/ \E k \in 0..Len(fv[w]) : CopyFrom(v, w, k)
          \/ \E i \in DOMAIN fv[v], x \in Values : Write(v, i, x)
          \/ Zero(v) \/ Empty(v) \/ Move(v, w) \/ Swap(v, w) \/ Adopt(v)
       /\ assigned' = FALSE

Spec == Init /\ [][Next]_<<fv, assigned>>
=============================================================================
