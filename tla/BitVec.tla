-------------------------------- MODULE BitVec --------------------------------
(***************************************************************************)
(* BitVec_T<T, STATICBITS> of src/sphinxstd.h (lines 4606-4788).  T is a   *)
(* word of SIZEBITS bits.  m_pData points either to the object's own       *)
(* m_dStatic (p = "own"), to an array from new T[] (an address of Addrs),  *)
(* or is nullptr (a default-constructed or moved-from object).  Objects    *)
(* Vecs live for the whole behaviour; the temporaries of operator= are     *)
(* records built, swapped and destroyed within one step.                   *)
(***************************************************************************)
EXTENDS Integers, FiniteSets

CONSTANTS
  Vecs,        \* the BitVec_T objects
  Addrs,       \* the addresses new T[] may return
  Null,        \* nullptr
  SIZEBITS,    \* sizeof(T)*8
  STATICBITS,
  Sizes,       \* the iElements Init may be given
  Unset        \* an answer before the first query

VARIABLES
  obj,    \* each object's m_pData (p), m_dStatic (st), m_iElements (n)
  heap,   \* the array at each address
  live,   \* the addresses allocated and not yet deleted
  flag,   \* the last BitGet or IsEmpty answer
  num     \* the last BitCount or Scan answer

vars == <<obj, heap, live, flag, num>>

STATICSIZE == STATICBITS \div SIZEBITS

Full == 2^SIZEBITS - 1

Bit(x, j) == (x \div 2^j) % 2

CalcStorage(n) == (n + SIZEBITS - 1) \div SIZEBITS

\* A default-constructed object: m_pData nullptr, m_dStatic {0}.
Default == [p |-> Null, st |-> [k \in 0..(STATICSIZE - 1) |-> 0], n |-> 0]

\* The words m_pData points to.
Data(o) == CASE o.p = "own" -> o.st
             [] o.p = Null  -> << >>
             [] OTHER       -> heap[o.p]

\* Writes d over the words object v's m_pData points to.
Store(v, d) ==
  CASE obj[v].p = "own" -> obj' = [obj EXCEPT ![v].st = d] /\ UNCHANGED heap
    [] obj[v].p = Null  -> UNCHANGED <<obj, heap>>
    [] OTHER            -> heap' = [heap EXCEPT ![obj[v].p] = d] /\ UNCHANGED obj

\* memset of the first CalcStorage () words to x: Clear () and Set ().
Fill(o, x) ==
  [k \in DOMAIN Data(o) |-> IF k < CalcStorage(o.n) THEN x ELSE Data(o)[k]]

\* Mutant: "me static, rhs dynamic" does not copy m_dStatic over to rhs.
SwapRecNoStaticCopy(x, y) ==
  CASE x.p = "own" /\ y.p = "own" ->
         << [x EXCEPT !.st = y.st, !.n = y.n], [y EXCEPT !.st = x.st, !.n = x.n] >>
    [] x.p = "own" ->
         << [x EXCEPT !.p = y.p, !.n = y.n], [y EXCEPT !.p = "own", !.n = x.n] >>
    [] y.p = "own" ->
         << [x EXCEPT !.p = "own", !.st = y.st, !.n = y.n], [y EXCEPT !.p = x.p, !.n = x.n] >>
    [] OTHER ->
         << [x EXCEPT !.p = y.p, !.n = y.n], [y EXCEPT !.p = x.p, !.n = x.n] >>

\* Swap ( rhs ) on two objects: << this, rhs >> afterwards.
SwapRec(x, y) ==
  CASE x.p = "own" /\ y.p = "own" ->
         << [x EXCEPT !.st = y.st, !.n = y.n], [y EXCEPT !.st = x.st, !.n = x.n] >>
    [] x.p = "own" ->
         << [x EXCEPT !.p = y.p, !.n = y.n], [y EXCEPT !.p = "own", !.st = x.st, !.n = x.n] >>
    [] y.p = "own" ->
         << [x EXCEPT !.p = "own", !.st = y.st, !.n = y.n], [y EXCEPT !.p = x.p, !.n = x.n] >>
    [] OTHER ->
         << [x EXCEPT !.p = y.p, !.n = y.n], [y EXCEPT !.p = x.p, !.n = x.n] >>

\* The copy constructor from o, with a the address new T[] returns:
\* the heap array, or m_dStatic, receives memcpy of GetSizeBytes ().
CopyOf(o, a) ==
  LET s == CalcStorage(o.n)
  IN  IF o.n > STATICBITS
        THEN [p |-> a, st |-> Default.st, n |-> o.n]
        ELSE [p |-> "own", n |-> o.n,
              st |-> [k \in 0..(STATICSIZE - 1) |-> IF k < s THEN Data(o)[k] ELSE 0]]

CopyArray(o) == [k \in 0..(CalcStorage(o.n) - 1) |-> Data(o)[k]]

\* ~BitVec_T (): SafeDeleteArray of a heap array (whose contents are
\* dropped from the model).
Freed(o) == IF o.p \in Addrs THEN live \ {o.p} ELSE live

Dropped(h, o) == IF o.p \in Addrs THEN [h EXCEPT ![o.p] = << >>] ELSE h

Init ==
  /\ obj = [v \in Vecs |-> Default]
  /\ heap = [a \in Addrs |-> << >>]
  /\ live = {}
  /\ flag = Unset /\ num = Unset

\* Mutant: Init does not delete the heap array it replaces.
InitElementsKeepArray(v, n) ==
  LET o == [obj[v] EXCEPT !.p = "own", !.n = n]
  IN  /\ IF n > STATICBITS
           THEN \E a \in Addrs \ live :
                  /\ obj' = [obj EXCEPT ![v].p = a, ![v].n = n]
                  /\ heap' = [heap EXCEPT ![a] = [k \in 0..(CalcStorage(n) - 1) |-> 0]]
                  /\ live' = live \cup {a}
           ELSE /\ obj' = [obj EXCEPT ![v] = [o EXCEPT !.st = Fill(o, 0)]]
                /\ UNCHANGED <<live, heap>>
      /\ UNCHANGED <<flag, num>>

\* Init ( iElements ): delete a heap array, then m_dStatic or a new array
\* of CalcStorage () words, and Clear ().
InitElements(v, n) ==
  LET kept == Freed(obj[v])
      o    == [obj[v] EXCEPT !.p = "own", !.n = n]
  IN  /\ IF n > STATICBITS
           THEN \E a \in Addrs \ kept :
                  /\ obj' = [obj EXCEPT ![v].p = a, ![v].n = n]
                  /\ heap' = [Dropped(heap, obj[v]) EXCEPT ![a] = [k \in 0..(CalcStorage(n) - 1) |-> 0]]
                  /\ live' = kept \cup {a}
           ELSE /\ obj' = [obj EXCEPT ![v] = [o EXCEPT !.st = Fill(o, 0)]]
                /\ live' = kept
                /\ heap' = Dropped(heap, obj[v])
      /\ UNCHANGED <<flag, num>>

Clear(v) == Store(v, Fill(obj[v], 0)) /\ UNCHANGED <<live, flag, num>>

Set(v) == Store(v, Fill(obj[v], Full)) /\ UNCHANGED <<live, flag, num>>

BitGet(v, i) ==
  /\ obj[v].p # Null /\ 0 <= i /\ i < obj[v].n
  /\ flag' = (Bit(Data(obj[v])[i \div SIZEBITS], i % SIZEBITS) = 1)
  /\ UNCHANGED <<obj, heap, live, num>>

\* m_pData[iIndex>>SHIFT] |= / &= ~ ( 1<<( iIndex&MASK ) ).
SetWord(v, i, b) ==
  LET w == Data(obj[v])[i \div SIZEBITS]
      j == i % SIZEBITS
  IN  Store(v, [Data(obj[v]) EXCEPT ![i \div SIZEBITS] = w + (b - Bit(w, j)) * 2^j])

BitSet(v, i) == 0 <= i /\ i < obj[v].n /\ SetWord(v, i, 1) /\ UNCHANGED <<live, flag, num>>

BitClear(v, i) == 0 <= i /\ i < obj[v].n /\ SetWord(v, i, 0) /\ UNCHANGED <<live, flag, num>>

\* BitCount (): sphBitCount of every storage word, padding bits included.
BitCount(v) ==
  /\ num' = Cardinality({<<k, j>> \in (0..(CalcStorage(obj[v].n) - 1)) \X (0..(SIZEBITS - 1)) :
                           Bit(Data(obj[v])[k], j) = 1})
  /\ UNCHANGED <<obj, heap, live, flag>>

\* ScanBit ( iIndex, iStart ): the first set bit from iStart, or m_iElements.
ScanBit(o, k, s) ==
  LET J == {j \in s..(SIZEBITS - 1) : Bit(Data(o)[k], j) = 1}
  IN  IF J = {} THEN o.n ELSE CHOOSE j \in J : \A j2 \in J : j <= j2

\* Scan ( iStart ): the masked first word, then the first non-zero word.
ScanOp(o, i) ==
  LET k  == i \div SIZEBITS
      nz == {k2 \in (k + 1)..(CalcStorage(o.n) - 1) : Data(o)[k2] # 0}
      k2 == CHOOSE x \in nz : \A y \in nz : x <= y
  IN  CASE \E j \in (i % SIZEBITS)..(SIZEBITS - 1) : Bit(Data(o)[k], j) = 1
             -> k * SIZEBITS + ScanBit(o, k, i % SIZEBITS)
        [] nz = {} -> o.n
        [] OTHER   -> k2 * SIZEBITS + ScanBit(o, k2, 0)

Scan(v, i) ==
  /\ i < obj[v].n
  /\ num' = ScanOp(obj[v], i)
  /\ UNCHANGED <<obj, heap, live, flag>>

IsEmpty(v) ==
  /\ flag' = (obj[v].p = Null \/ obj[v].n = 0)
  /\ UNCHANGED <<obj, heap, live, num>>

Swap(v, w) ==
  /\ v # w
  /\ LET s == SwapRec(obj[v], obj[w]) IN obj' = [obj EXCEPT ![v] = s[1], ![w] = s[2]]
  /\ UNCHANGED <<heap, live, flag, num>>

\* v = w: operator= ( BitVec_T rhs ) with rhs copy-constructed from w,
\* swapped into v, and destroyed with v's old contents.
CopyAssign(v, w) ==
  \E a \in Addrs \ live :
    LET t == CopyOf(obj[w], a)
        s == SwapRec(obj[v], t)
    IN  /\ obj' = [obj EXCEPT ![v] = s[1]]
        /\ heap' = Dropped(IF t.p = a THEN [heap EXCEPT ![a] = CopyArray(obj[w])] ELSE heap, s[2])
        /\ live' = (IF t.p = a THEN live \cup {a} ELSE live) \ (IF s[2].p \in Addrs THEN {s[2].p} ELSE {})
        /\ UNCHANGED <<flag, num>>

\* v = std::move ( w ): rhs move-constructed from w (Swap with a default
\* object), swapped into v, and destroyed with v's old contents.
MoveAssign(v, w) ==
  LET m  == SwapRec(Default, obj[w])
      o1 == [obj EXCEPT ![w] = m[2]]
      s  == SwapRec(o1[v], m[1])
  IN  /\ obj' = [o1 EXCEPT ![v] = s[1]]
      /\ live' = Freed(s[2])
      /\ heap' = Dropped(heap, s[2])
      /\ UNCHANGED <<flag, num>>

Next ==
  \E v \in Vecs :
    \/ \E n \in Sizes : InitElements(v, n)
    \/ Clear(v) \/ Set(v) \/ BitCount(v) \/ IsEmpty(v)
    \/ \E i \in 0..(obj[v].n - 1) : BitGet(v, i) \/ BitSet(v, i) \/ BitClear(v, i) \/ Scan(v, i)
    \/ \E w \in Vecs : Swap(v, w) \/ CopyAssign(v, w) \/ MoveAssign(v, w)

Spec == Init /\ [][Next]_vars

-----------------------------------------------------------------------------
(* Properties                                                              *)

\* Each heap array belongs to exactly one object, and every object's
\* m_pData fits its m_iElements, whatever the sequence of Init, copies,
\* moves and Swaps between static and heap storage: no array is leaked,
\* shared (and so deleted twice) or too short for the bits it holds.
StorageOwned ==
  /\ live = {obj[v].p : v \in Vecs} \ {"own", Null}
  /\ \A v, w \in Vecs : v # w /\ obj[v].p \in Addrs => obj[v].p # obj[w].p
  /\ \A v \in Vecs :
       /\ obj[v].p = "own" => obj[v].n <= STATICBITS
       /\ obj[v].p = Null => obj[v].n = 0
       /\ obj[v].p \in Addrs => obj[v].n > STATICBITS /\ DOMAIN heap[obj[v].p] = 0..(CalcStorage(obj[v].n) - 1)

\* Through every Init, Clear, Set, BitSet, BitClear, copy, move and Swap,
\* each object behaves as the set of bits of BitVecSpec, and BitGet,
\* BitCount, Scan and IsEmpty answer as that set says.
Bits(o) == {i \in 0..(o.n - 1) : Bit(Data(o)[i \div SIZEBITS], i % SIZEBITS) = 1}

Abs == INSTANCE BitVecSpec
         WITH size <- [v \in Vecs |-> obj[v].n], bits <- [v \in Vecs |-> Bits(obj[v])]

BitVecRefinement == Abs!Spec
=============================================================================
