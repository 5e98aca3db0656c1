--------------------------- MODULE OrderedHashSpec ---------------------------
(***************************************************************************)
(* What CSphOrderedHash (src/sphinxstd.h) offers: a map from keys to       *)
(* values that "keeps the order, so Iterate() return the entries in the    *)
(* order they was inserted".  The entries are a sequence of distinct keys  *)
(* with their values; an iterator is the key it stands on, or Null at      *)
(* end().  Deleting the entry an iterator stands on leaves that iterator   *)
(* undefined, so the spec only deletes other entries.                     *)
(***************************************************************************)
EXTENDS Integers, Sequences

CONSTANTS Keys, Vals, Default, Null

VARIABLES
  entries,   \* << [key, val], ... >> in insertion order
  ok,        \* the bool the last Add / Delete / Exists returned
  out,       \* the value the last lookup returned, or Null
  pos        \* the iterator: a key, or Null for end()

KeysOf == {entries[i].key : i \in DOMAIN entries}
IndexOf(k) == CHOOSE i \in DOMAIN entries : entries[i].key = k
ValueOf(k) == entries[IndexOf(k)].val

Add(k, v) ==
  /\ ok' = (k \notin KeysOf)
  /\ entries' = IF k \in KeysOf THEN entries ELSE Append(entries, [key |-> k, val |-> v])
  /\ UNCHANGED <<out, pos>>

\* AddUnique: the value of k, inserting k with the default value first.
AddUnique(k) ==
  /\ out' = IF k \in KeysOf THEN ValueOf(k) ELSE Default
  /\ entries' = IF k \in KeysOf THEN entries ELSE Append(entries, [key |-> k, val |-> Default])
  /\ UNCHANGED <<ok, pos>>

\* hash[k] = v on a key that is present.
Assign(k, v) ==
  /\ k \in KeysOf
  /\ entries' = [entries EXCEPT ![IndexOf(k)].val = v]
  /\ UNCHANGED <<ok, out, pos>>

Delete(k) ==
  /\ pos # k
  /\ ok' = (k \in KeysOf)
  /\ entries' = SelectSeq(entries, LAMBDA e : e.key # k)
  /\ UNCHANGED <<out, pos>>

Find(k) ==
  /\ out' = IF k \in KeysOf THEN ValueOf(k) ELSE Null
  /\ UNCHANGED <<entries, ok, pos>>

Exists(k) ==
  /\ ok' = (k \in KeysOf)
  /\ UNCHANGED <<entries, out, pos>>

Reset ==
  /\ pos = Null
  /\ entries' = << >>
  /\ UNCHANGED <<ok, out, pos>>

Begin ==
  /\ pos' = IF entries = << >> THEN Null ELSE entries[1].key
  /\ UNCHANGED <<entries, ok, out>>

Forward ==
  /\ pos # Null
  /\ pos' = IF IndexOf(pos) = Len(entries) THEN Null ELSE entries[IndexOf(pos) + 1].key
  /\ UNCHANGED <<entries, ok, out>>

Backward ==
  /\ pos # Null
  /\ pos' = IF IndexOf(pos) = 1 THEN Null ELSE entries[IndexOf(pos) - 1].key
  /\ UNCHANGED <<entries, ok, out>>

Deref ==
  /\ pos # Null
  /\ out' = ValueOf(pos)
  /\ UNCHANGED <<entries, ok, pos>>

Init == entries = << >> /\ ok = FALSE /\ out = Null /\ pos = Null

Next ==
  \/ \E k \in Keys, v \in Vals : Add(k, v) \/ Assign(k, v)
  \/ \E k \in Keys : AddUnique(k) \/ Delete(k) \/ Find(k) \/ Exists(k)
  \/ Reset \/ Begin \/ Forward \/ Backward \/ Deref

Spec == Init /\ [][Next]_<<entries, ok, out, pos>>
=============================================================================
