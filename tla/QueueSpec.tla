----------------------------- MODULE QueueSpec -----------------------------
(***************************************************************************)
(* What CSphQueue (src/sphinxstd.h) offers its caller: a bag of at most    *)
(* iSize entries that keeps the greatest ones pushed.  Push into a full    *)
(* queue rejects an entry less than the least one kept, and otherwise      *)
(* replaces the least one; Root is the least entry kept, Pop removes it.   *)
(***************************************************************************)
EXTENDS Integers, Bags

CONSTANTS Values, Sizes, Unset

VARIABLES bag, size, out

Least(B) == CHOOSE v \in BagToSet(B) : \A w \in BagToSet(B) : v <= w

One(v) == SetToBag({v})

Push(e) ==
  /\ size > 0
  /\ bag' = CASE BagCardinality(bag) < size -> bag (+) One(e)
              [] e < Least(bag)              -> bag
              [] OTHER                       -> (bag (-) One(Least(bag))) (+) One(e)
  /\ UNCHANGED <<size, out>>

Pop ==
  /\ bag # EmptyBag
  /\ bag' = bag (-) One(Least(bag))
  /\ UNCHANGED <<size, out>>

Root ==
  /\ bag # EmptyBag
  /\ out' = Least(bag)
  /\ UNCHANGED <<bag, size>>

Clear == bag' = EmptyBag /\ UNCHANGED <<size, out>>

\* Reset ( iSize ): an empty queue of the new capacity.
Reset(n) == bag' = EmptyBag /\ size' = n /\ UNCHANGED out

Init == bag = EmptyBag /\ size \in Sizes /\ out = Unset

Next ==
  \/ \E e \in Values : Push(e)
  \/ Pop
  \/ Root
  \/ Clear
  \/ \E n \in Sizes : Reset(n)

Spec == Init /\ [][Next]_<<bag, size, out>>
=============================================================================
