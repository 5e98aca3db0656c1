-------------------------- MODULE MC_VectorInsert --------------------------
(***************************************************************************)
(* CSphVector<int> (Vector.tla) where Insert may be handed any element of  *)
(* the vector itself, as both Insert overloads allow: unlike the Add       *)
(* overloads they do not assert against "inserting own value (like        *)
(* last()) by ref!" (sphinxstd.h:1640).  passed records the value the     *)
(* caller's reference named when it made the call.                        *)
(***************************************************************************)
EXTENDS Integers, TLC

CONSTANTS Values, MaxCount, InitialLimit

VARIABLES data, count, limit, ret, passed

V == INSTANCE Vector WITH AliasAny <- TRUE

NoCall == [at |-> -1, val |-> -1]

Init == V!Init /\ passed = NoCall

Next ==
  \/ V!Next /\ passed' = NoCall
  \/ \E i \in 0..count, p \in 0..(count - 1) :
       V!InsertOwn(i, p) /\ passed' = [at |-> i, val |-> data[p]]

Spec == Init /\ [][Next]_<<data, count, limit, ret, passed>>

\* Insert ( iIndex, tValue ) places at iIndex the value tValue had when
\* Insert was called, as the assert in Add demands of its callers and as
\* VectorSpec's Insert says, also when tValue is one of the vector's own
\* elements: the shift loop and a reallocating Reserve must not change
\* what is inserted.
InsertPlacesValue == passed # NoCall => data[passed.at] = passed.val
=============================================================================
