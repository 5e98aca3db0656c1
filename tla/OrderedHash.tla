----------------------------- MODULE OrderedHash -----------------------------
(***************************************************************************)
(* CSphOrderedHash<int, int, IdentityHash_fn, LENGTH> of src/sphinxstd.h   *)
(* (lines 2216-2561): LENGTH buckets, each a chain of HashEntry_t linked   *)
(* by m_pNextByHash, and one doubly linked list of all entries in         *)
(* insertion order (m_pPrevByOrder / m_pNextByOrder, m_pFirstByOrder,     *)
(* m_pLastByOrder).                                                        *)
(*                                                                         *)
(* The heap is a function from the addresses Nodes to entries; a node     *)
(* that is not live is free (its old contents are not kept).  new picks   *)
(* any free node: the number of Nodes bounds the entries.  An Iterator_c  *)
(* is the address it holds.  Reading a freed node through an iterator is  *)
(* undefined behaviour and sets fault.  Delete and Reset may free the     *)
(* node an iterator holds only when DeleteIterated holds.                 *)
(***************************************************************************)
EXTENDS Integers, Sequences, FiniteSets

CONSTANTS Keys, Vals, Default, Null, LENGTH, Nodes, DeleteIterated

VARIABLES
  bucket,   \* m_dHash[0..LENGTH-1]
  first,    \* m_pFirstByOrder
  last,     \* m_pLastByOrder
  length,   \* m_iLength
  heap,     \* the HashEntry_t at each address
  ok, out,  \* the last bool and the last value returned
  it,       \* an Iterator_c's m_pIterator
  fault     \* a freed entry was read

vars == <<bucket, first, last, length, heap, ok, out, it, fault>>

FreeNode == [live |-> FALSE, key |-> Null, val |-> Null, nh |-> Null, po |-> Null, no |-> Null]

Live == {n \in Nodes : heap[n].live}

\* HashPos: IdentityHash_fn::Hash ( tKey ) % LENGTH.
HashPos(k) == k % LENGTH

\* The nodes from p on, following field f (bounded by the number of Nodes).
RECURSIVE Walk(_, _, _)
Walk(p, f, d) == IF p = Null \/ d = 0 THEN << >> ELSE <<p>> \o Walk(heap[p][f], f, d - 1)

Chain(h) == Walk(bucket[h], "nh", Cardinality(Nodes))
Order == Walk(first, "no", Cardinality(Nodes))

\* FindByKey: the first entry of the key's chain holding tKey, or Null.
FindByKey(k) ==
  LET c == Chain(HashPos(k))
      i == {j \in DOMAIN c : heap[c[j]].key = k}
  IN  IF i = {} THEN Null ELSE c[CHOOSE j \in i : \A j2 \in i : j <= j2]

\* AddImpl's insertion of key k at free address n: at the end of the
\* chain, and at the end of the insertion order.
AddImpl(n, k, v) ==
  LET c  == Chain(HashPos(k))
      h1 == [heap EXCEPT ![n] = [live |-> TRUE, key |-> k, val |-> v,
                                 nh |-> Null, po |-> last, no |-> Null]]
      h2 == IF c = << >> THEN h1 ELSE [h1 EXCEPT ![c[Len(c)]].nh = n]
  IN  /\ bucket' = IF c = << >> THEN [bucket EXCEPT ![HashPos(k)] = n] ELSE bucket
      /\ heap' = IF last = Null THEN h2 ELSE [h2 EXCEPT ![last].no = n]
      /\ first' = IF first = Null THEN n ELSE first
      /\ last' = n
      /\ length' = length + 1

\* Add ( tValue, tKey ): false if the key is hashed already.
Add(k, v) ==
  /\ ~fault
  /\ IF FindByKey(k) # Null
       THEN ok' = FALSE /\ UNCHANGED <<bucket, first, last, length, heap>>
       ELSE ok' = TRUE /\ \E n \in Nodes \ Live : AddImpl(n, k, v)
  /\ UNCHANGED <<out, it, fault>>

\* AddUnique ( tKey ): the value of the key, added with T() when absent.
AddUnique(k) ==
  /\ ~fault
  /\ IF FindByKey(k) # Null
       THEN out' = heap[FindByKey(k)].val /\ UNCHANGED <<bucket, first, last, length, heap>>
       ELSE out' = Default /\ \E n \in Nodes \ Live : AddImpl(n, k, Default)
  /\ UNCHANGED <<ok, it, fault>>

\* operator [] ( tKey ) = v: asserts that the key exists.
Assign(k, v) ==
  /\ ~fault
  /\ FindByKey(k) # Null
  /\ heap' = [heap EXCEPT ![FindByKey(k)].val = v]
  /\ UNCHANGED <<bucket, first, last, length, ok, out, it, fault>>

\* Mutant: the successor's m_pPrevByOrder is not updated.
DeleteNoBackLink(k) ==
  LET h    == HashPos(k)
      c    == Chain(h)
      p    == FindByKey(k)
      j    == CHOOSE j \in DOMAIN c : c[j] = p
      e    == heap[p]
      h1   == IF j > 1 THEN [heap EXCEPT ![c[j - 1]].nh = e.nh] ELSE heap
      h2   == IF e.po # Null THEN [h1 EXCEPT ![e.po].no = e.no] ELSE h1
  IN  /\ bucket' = IF j > 1 THEN bucket ELSE [bucket EXCEPT ![h] = e.nh]
      /\ first' = IF e.po # Null THEN first ELSE e.no
      /\ last' = IF e.no # Null THEN last ELSE e.po
      /\ heap' = [h2 EXCEPT ![p] = FreeNode]
      /\ length' = length - 1

\* Mutant: the entry is unlinked as if it were first in its chain.
DeleteHeadOnly(k) ==
  LET h    == HashPos(k)
      p    == FindByKey(k)
      e    == heap[p]
      h2   == IF e.po # Null THEN [heap EXCEPT ![e.po].no = e.no] ELSE heap
      h3   == IF e.no # Null THEN [h2 EXCEPT ![e.no].po = e.po] ELSE h2
  IN  /\ bucket' = [bucket EXCEPT ![h] = e.nh]
      /\ first' = IF e.po # Null THEN first ELSE e.no
      /\ last' = IF e.no # Null THEN last ELSE e.po
      /\ heap' = [h3 EXCEPT ![p] = FreeNode]
      /\ length' = length - 1

\* Delete ( tKey ): unlink from the chain and from the order, free.
DeleteOp(k) ==
  LET h    == HashPos(k)
      c    == Chain(h)
      p    == FindByKey(k)
      j    == CHOOSE j \in DOMAIN c : c[j] = p
      e    == heap[p]
      h1   == IF j > 1 THEN [heap EXCEPT ![c[j - 1]].nh = e.nh] ELSE heap
      h2   == IF e.po # Null THEN [h1 EXCEPT ![e.po].no = e.no] ELSE h1
      h3   == IF e.no # Null THEN [h2 EXCEPT ![e.no].po = e.po] ELSE h2
  IN  /\ bucket' = IF j > 1 THEN bucket ELSE [bucket EXCEPT ![h] = e.nh]
      /\ first' = IF e.po # Null THEN first ELSE e.no
      /\ last' = IF e.no # Null THEN last ELSE e.po
      /\ heap' = [h3 EXCEPT ![p] = FreeNode]
      /\ length' = length - 1

Delete(k) ==
  /\ ~fault
  /\ DeleteIterated \/ it = Null \/ FindByKey(k) # it
  /\ IF FindByKey(k) = Null
       THEN ok' = FALSE /\ UNCHANGED <<bucket, first, last, length, heap>>
       ELSE ok' = TRUE /\ DeleteOp(k)
  /\ UNCHANGED <<out, it, fault>>

\* operator () ( tKey ): the value, or nullptr.
Find(k) ==
  /\ ~fault
  /\ out' = IF FindByKey(k) = Null THEN Null ELSE heap[FindByKey(k)].val
  /\ UNCHANGED <<bucket, first, last, length, heap, ok, it, fault>>

Exists(k) ==
  /\ ~fault
  /\ ok' = (FindByKey(k) # Null)
  /\ UNCHANGED <<bucket, first, last, length, heap, out, it, fault>>

\* Reset (): free every entry along the order, clear the buckets.
Reset ==
  /\ ~fault
  /\ DeleteIterated \/ it = Null
  /\ heap' = [n \in Nodes |-> FreeNode]
  /\ bucket' = [h \in 0..(LENGTH - 1) |-> Null]
  /\ first' = Null /\ last' = Null /\ length' = 0
  /\ UNCHANGED <<ok, out, it, fault>>

\* begin (), operator ++, operator --, operator *.
Begin == ~fault /\ it' = first /\ UNCHANGED <<bucket, first, last, length, heap, ok, out, fault>>

Step(f) ==
  /\ ~fault
  /\ it # Null
  /\ IF heap[it].live THEN it' = heap[it][f] /\ UNCHANGED fault
                      ELSE fault' = TRUE /\ UNCHANGED it
  /\ UNCHANGED <<bucket, first, last, length, heap, ok, out>>

Deref ==
  /\ ~fault
  /\ it # Null
  /\ IF heap[it].live THEN out' = heap[it].val /\ UNCHANGED fault
                      ELSE fault' = TRUE /\ UNCHANGED out
  /\ UNCHANGED <<bucket, first, last, length, heap, ok, it>>

Init ==
  /\ bucket = [h \in 0..(LENGTH - 1) |-> Null]
  /\ first = Null /\ last = Null /\ length = 0
  /\ heap = [n \in Nodes |-> FreeNode]
  /\ ok = FALSE /\ out = Null /\ it = Null /\ fault = FALSE

Next ==
  \/ \E k \in Keys, v \in Vals : Add(k, v) \/ Assign(k, v)
  \/ \E k \in Keys : AddUnique(k) \/ Delete(k) \/ Find(k) \/ Exists(k)
  \/ Reset \/ Begin \/ Step("no") \/ Step("po") \/ Deref

Spec == Init /\ [][Next]_vars

-----------------------------------------------------------------------------
(* Properties                                                              *)

\* The two link structures always agree, whatever sequence of Add,
\* AddUnique, Delete and Reset built them: every live entry sits once in
\* the chain of its own bucket and once in the order list, the order list
\* runs back along m_pPrevByOrder exactly as it runs forward, its ends are
\* m_pFirstByOrder and m_pLastByOrder, m_iLength counts it, and no entry
\* is left allocated but unreachable.
OrderSet == {Order[i] : i \in DOMAIN Order}

WellLinked ==
  /\ \A h \in 0..(LENGTH - 1) :
       \A i \in DOMAIN Chain(h) : heap[Chain(h)[i]].live /\ HashPos(heap[Chain(h)[i]].key) = h
  /\ Live = UNION {{Chain(h)[i] : i \in DOMAIN Chain(h)} : h \in 0..(LENGTH - 1)}
  /\ Live = OrderSet
  /\ Len(Order) = Cardinality(Live)
  /\ length = Len(Order)
  /\ \A i \in DOMAIN Order :
       heap[Order[i]].po = IF i = 1 THEN Null ELSE Order[i - 1]
  /\ last = IF Order = << >> THEN Null ELSE Order[Len(Order)]

\* Seen through Add, AddUnique, operator [], Delete, operator (), Exists,
\* Reset and the iterator, the hash is the insertion-ordered map of
\* OrderedHashSpec: a lookup through the bucket chains and a walk along the
\* order list see the same entries.
Entries == [i \in DOMAIN Order |-> [key |-> heap[Order[i]].key, val |-> heap[Order[i]].val]]

Abs == INSTANCE OrderedHashSpec
         WITH entries <- Entries, pos <- IF it = Null THEN Null ELSE heap[it].key

HashRefinement == Abs!Spec
=============================================================================
