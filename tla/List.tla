------------------------------ MODULE List ----------------------------------
(***************************************************************************)
(* List_t of src/sphinxstd.h: an intrusive doubly linked list closed by   *)
(* the stub node m_tStub, with its element count m_iCount, and the range- *)
(* for iteration over it by Iterator_c, whose backup m_pNext lets the     *)
(* loop body unlink (and free) the node it is at.                         *)
(*                                                                         *)
(* Callers keep the contract the asserts and the iterator's comment state: *)
(* a node is added while unlinked and removed from the list it is in; the  *)
(* body of a range-for removes at most the node it is at, and nothing is   *)
(* reset under an iteration.  Nodes left linked by HardReset are never     *)
(* handed back to the list (the assert of Add forbids it).                *)
(***************************************************************************)
EXTENDS Naturals, Sequences, FiniteSets

CONSTANTS Nodes, Stub, Null

VARIABLES
  lnext, lprev,   \* m_pNext and m_pPrev of every node and of the stub
  lcount,         \* m_iCount
  liter,          \* a range-for over the list is running
  lit, lnx,       \* the iterator's m_pIterator and m_pNext
  lstart,         \* the nodes in the list when the loop began (history)
  lvisited        \* the nodes the loop body has been given (history)

lvars == <<lnext, lprev, lcount, liter, lit, lnx, lstart, lvisited>>
itvars == <<liter, lit, lnx, lstart, lvisited>>

Cells == Nodes \cup {Stub}

\* the nodes from Begin () to End (), following m_pNext
RECURSIVE Walk(_, _)
Walk(x, k) == IF x \in {Stub, Null} \/ k = 0 THEN << >>
              ELSE <<x>> \o Walk(lnext[x], k - 1)
Chain == Walk(lnext[Stub], 1 + Cardinality(Nodes))
InList == {Chain[i] : i \in DOMAIN Chain}

\* List_t (): the stub linked to itself; nodes start unlinked.
Init ==
  /\ lnext = [c \in Cells |-> IF c = Stub THEN Stub ELSE Null]
  /\ lprev = [c \in Cells |-> IF c = Stub THEN Stub ELSE Null]
  /\ lcount = 0
  /\ liter = FALSE /\ lit = Null /\ lnx = Null
  /\ lstart = {} /\ lvisited = {}

\* List_t::Add: the node is linked right after the stub.  Allowed in a
\* loop body too.
Add(n) ==
  LET h == lnext[Stub] IN
  /\ lnext[n] = Null /\ lprev[n] = Null
  /\ lnext' = [lnext EXCEPT ![n] = h, ![Stub] = n]
  /\ lprev' = [lprev EXCEPT ![n] = Stub, ![h] = n]
  /\ lcount' = lcount + 1
  /\ UNCHANGED itvars

\* Unlink that leaves m_iCount as it was.
UnlinkNoCount(n) ==
  /\ lnext' = [lnext EXCEPT ![lprev[n]] = lnext[n], ![n] = Null]
  /\ lprev' = [lprev EXCEPT ![lnext[n]] = lprev[n], ![n] = Null]
  /\ UNCHANGED lcount

\* List_t::Remove: the neighbours are joined, the node's own links
\* cleared, the count lowered.
Unlink(n) ==
  /\ lnext' = [lnext EXCEPT ![lprev[n]] = lnext[n], ![n] = Null]
  /\ lprev' = [lprev EXCEPT ![lnext[n]] = lprev[n], ![n] = Null]
  /\ lcount' = lcount - 1

Remove(n) == ~liter /\ n \in InList /\ Unlink(n) /\ UNCHANGED itvars

\* the loop body removes the node the iterator is at
RemoveCurrent == /\ liter /\ lit \in InList
                 /\ Unlink(lit) /\ UNCHANGED itvars

\* List_t::HardReset: the stub linked to itself; the nodes keep their links.
HardReset ==
  /\ ~liter
  /\ lnext' = [lnext EXCEPT ![Stub] = Stub]
  /\ lprev' = [lprev EXCEPT ![Stub] = Stub]
  /\ lcount' = 0
  /\ UNCHANGED itvars

\* begin (): Iterator_c (m_tStub.m_pNext) saves the node's m_pNext.
IterBegin ==
  LET b == lnext[Stub] IN
  /\ ~liter
  /\ liter' = TRUE /\ lit' = b /\ lnx' = lnext[b]
  /\ lstart' = InList
  /\ lvisited' = IF b = Stub THEN {} ELSE {b}
  /\ UNCHANGED <<lnext, lprev, lcount>>

\* operator++ that reads the successor from the node after the body ran.
IterNextNoBackup ==
  /\ liter /\ lit # Stub
  /\ lit' = lnext[lit] /\ lnx' = lnext[lit]
  /\ lvisited' = IF lnext[lit] \in Nodes THEN lvisited \cup {lnext[lit]} ELSE lvisited
  /\ UNCHANGED <<lnext, lprev, lcount, liter, lstart>>

\* it != end () held, so operator++ moves to the saved m_pNext (asserted
\* non-null) and saves its successor.
IterNext ==
  /\ liter /\ lit # Stub /\ lnx # Null
  /\ lit' = lnx /\ lnx' = lnext[lnx]
  /\ lvisited' = IF lnx = Stub THEN lvisited ELSE lvisited \cup {lnx}
  /\ UNCHANGED <<lnext, lprev, lcount, liter, lstart>>

\* it == end (): the loop is over.
IterEnd ==
  /\ liter /\ lit = Stub
  /\ liter' = FALSE /\ lit' = Null /\ lnx' = Null
  /\ lstart' = {} /\ lvisited' = {}
  /\ UNCHANGED <<lnext, lprev, lcount>>

Next ==
  \/ \E n \in Nodes : Add(n) \/ Remove(n)
  \/ RemoveCurrent \/ HardReset
  \/ IterBegin \/ IterNext \/ IterEnd

Spec == Init /\ [][Next]_lvars

-----------------------------------------------------------------------------
\* The links agree both ways along the chain from the stub, the chain is
\* closed by the stub, and m_iCount is its length (GetLength): Add and
\* Remove rewrite four pointers and the count in an order where one
\* forgotten write corrupts a later Add or Remove, not the current one.
ListConsistent ==
  LET c == Chain IN
  /\ lcount = Len(c)
  /\ \A i \in DOMAIN c : lprev[c[i]] = IF i = 1 THEN Stub ELSE c[i - 1]
  /\ lprev[Stub] = IF c = << >> THEN Stub ELSE c[Len(c)]
  /\ (c = << >> \/ lnext[c[Len(c)]] = Stub)

\* During a range-for whose body may unlink the current node, the
\* iterator's saved successor is always in the list or the stub, and the
\* current node is in the list, the stub, or the node just unlinked: no
\* step of operator++ follows a cleared or stale pointer.
IteratorSafe ==
  liter => /\ lnx \in InList \cup {Stub}
           /\ lit \in InList \cup {Stub} \/ lnext[lit] = Null

\* List_t implements the sequence its comments describe (ListSpec): the
\* nodes from Begin () to End () are those added and not removed, each
\* Add putting its node at the tail.
Abs == INSTANCE ListSpec WITH lseq <- Chain
ListRefinement == Abs!Spec
=============================================================================
