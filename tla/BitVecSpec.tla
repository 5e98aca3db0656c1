----------------------------- MODULE BitVecSpec -----------------------------
(***************************************************************************)
(* What BitVec_T (src/sphinxstd.h) offers: a vector of m_iElements bits,   *)
(* seen as the set of indices whose bit is set.  Objects Vecs are values:  *)
(* assignment copies, moving leaves the source empty, Swap exchanges.     *)
(***************************************************************************)
EXTENDS Integers, FiniteSets

CONSTANTS Vecs, Sizes, Unset

VARIABLES size, bits, flag, num

Idx(v) == 0..(size[v] - 1)

Init ==
  /\ size = [v \in Vecs |-> 0]
  /\ bits = [v \in Vecs |-> {}]
  /\ flag = Unset /\ num = Unset

InitElements(v, n) ==
  /\ size' = [size EXCEPT ![v] = n]
  /\ bits' = [bits EXCEPT ![v] = {}]
  /\ UNCHANGED <<flag, num>>

Clear(v) == bits' = [bits EXCEPT ![v] = {}] /\ UNCHANGED <<size, flag, num>>

Set(v) == bits' = [bits EXCEPT ![v] = Idx(v)] /\ UNCHANGED <<size, flag, num>>

BitGet(v, i) == i \in Idx(v) /\ flag' = (i \in bits[v]) /\ UNCHANGED <<size, bits, num>>

BitSet(v, i) ==
  i \in Idx(v) /\ bits' = [bits EXCEPT ![v] = @ \cup {i}] /\ UNCHANGED <<size, flag, num>>

BitClear(v, i) ==
  i \in Idx(v) /\ bits' = [bits EXCEPT ![v] = @ \ {i}] /\ UNCHANGED <<size, flag, num>>

BitCount(v) == num' = Cardinality(bits[v]) /\ UNCHANGED <<size, bits, flag>>

\* Scan ( iStart ): the first set index from iStart on, or m_iElements.
Scan(v, i) ==
  /\ i \in Idx(v)
  /\ LET after == {j \in bits[v] : j >= i}
     IN  num' = IF after = {} THEN size[v]
                ELSE CHOOSE j \in after : \A k \in after : j <= k
  /\ UNCHANGED <<size, bits, flag>>

IsEmpty(v) == flag' = (size[v] = 0) /\ UNCHANGED <<size, bits, num>>

Exchange(f, v, w) == [f EXCEPT ![v] = f[w], ![w] = f[v]]

Swap(v, w) ==
  v # w /\ size' = Exchange(size, v, w) /\ bits' = Exchange(bits, v, w) /\ UNCHANGED <<flag, num>>

CopyAssign(v, w) ==
  /\ size' = [size EXCEPT ![v] = size[w]]
  /\ bits' = [bits EXCEPT ![v] = bits[w]]
  /\ UNCHANGED <<flag, num>>

\* v = std::move ( w ): v takes w's bits, w is left empty.
MoveAssign(v, w) ==
  /\ size' = [size EXCEPT ![w] = 0, ![v] = size[w]]
  /\ bits' = [bits EXCEPT ![w] = {}, ![v] = bits[w]]
  /\ UNCHANGED <<flag, num>>

Next ==
  \E v \in Vecs :
    \/ \E n \in Sizes : InitElements(v, n)
    \/ Clear(v) \/ Set(v) \/ BitCount(v) \/ IsEmpty(v)
    \/ \E i \in 0..(size[v] - 1) : BitGet(v, i) \/ BitSet(v, i) \/ BitClear(v, i) \/ Scan(v, i)
    \/ \E w \in Vecs : Swap(v, w) \/ CopyAssign(v, w) \/ MoveAssign(v, w)

Spec == Init /\ [][Next]_<<size, bits, flag, num>>
=============================================================================
