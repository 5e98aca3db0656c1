---------------------------- MODULE ListSpec --------------------------------
(***************************************************************************)
(* What List_t of src/sphinxstd.h promises: a sequence of distinct nodes, *)
(* read from Begin () to End ().  Add appends the node at the tail, as    *)
(* its comment says ("Append the node to the tail"), Remove takes it out   *)
(* wherever it is, HardReset forgets every node.                          *)
(***************************************************************************)
EXTENDS Sequences

CONSTANT Nodes

VARIABLE lseq

Elems == {lseq[i] : i \in DOMAIN lseq}

Init == lseq = << >>

Add(n) == /\ n \notin Elems
          /\ lseq' = Append(lseq, n)

Remove(n) == /\ n \in Elems
             /\ lseq' = SelectSeq(lseq, LAMBDA m : m # n)

HardReset == lseq' = << >>

Next == \/ \E n \in Nodes : Add(n) \/ Remove(n)
        \/ HardReset

Spec == Init /\ [][Next]_lseq
=============================================================================
