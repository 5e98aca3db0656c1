------------------------------ MODULE CSphString ------------------------------
(***************************************************************************)
(* CSphString of src/sphinxstd.h (2590-2941): m_sValue is nullptr, the     *)
(* shared static EMPTY for "", or a new char[] buffer at a model address.  *)
(* A buffer is its cells, indexed from 1 for the C index 0; Nul is '\0'.   *)
(* The caller may hold buffers it took with Leak, and give them back with  *)
(* Adopt or free them.  fault records an access outside an allocation, a  *)
(* delete[] of what new[] did not return, or a strlen without a Nul.        *)
(*                                                                         *)
(* operator= takes its argument by value: the right-hand side is copy-     *)
(* (or move-) constructed into a temporary, swapped in, and the temporary  *)
(* destroyed with the old value.  Each assignment below is that whole      *)
(* sequence.                                                               *)
(***************************************************************************)
EXTENDS Naturals, Sequences, FiniteSets
LOCAL INSTANCE SequencesExt

CONSTANTS
  Strs,        \* the strings the caller works with
  Addrs,       \* addresses new char[] may return
  Null, Empty, \* nullptr and CSphString::EMPTY
  NullStr,     \* a nullptr const char * argument
  Lits,        \* texts the caller passes as const char *, and NullStr
  UnquoteAny   \* FALSE: Unquote is never given the one-character "'"

VARIABLES sval, heap, live, raw, fault

svars == <<sval, heap, live, raw, fault>>

Nul == "nul"
Blank == " "
Quote == "'"
SAFETY_GAP == 4

Zeros(n) == [i \in 1..n |-> Nul]

\* strlen: the cells before the first Nul (-1 when there is none).
RECURSIVE Scan(_, _)
Scan(cells, i) == IF i > Len(cells) THEN -1 ELSE IF cells[i] = Nul THEN i - 1 ELSE Scan(cells, i + 1)
StrLen(p) == Scan(heap[p], 1)
\* Length (): 0 for nullptr.
Length(p) == IF p = Null THEN 0 ELSE StrLen(p)
Text(p) == SubSeq(heap[p], 1, StrLen(p))
\* The first n cells at p, and whether they lie inside its allocation.
InBounds(p, n) == p \in live \cup {Empty} /\ n <= Len(heap[p])
Cells(p, n) == [i \in 1..n |-> IF i <= Len(heap[p]) THEN heap[p][i] ELSE Nul]

\* SafeFree with the test for EMPTY dropped.
DeletesNoEmptyCheck(p) == p # Null

\* SafeFree: delete[] unless the value is nullptr or EMPTY.
Deletes(p) == p \notin {Null, Empty}
LiveAfterFree(p) == IF Deletes(p) THEN live \ {p} ELSE live
HeapAfterFree(p) == IF Deletes(p) THEN [heap EXCEPT ![p] = << >>] ELSE heap
BadFree(p) == Deletes(p) /\ p \notin live

\* A new char[] buffer at a free address, or nullptr/EMPTY: the record
\* [p, h, l, bad] of the pointer, the heap, the live set and a fault.
Temp(p) == {[p |-> p, h |-> heap, l |-> live, bad |-> FALSE]}
NewBuffer(cells, l) ==
  {[p |-> a, h |-> [heap EXCEPT ![a] = cells], l |-> l \cup {a}, bad |-> FALSE]
     : a \in Addrs \ l}

\* CSphString ( const char * )
FromChars(lit) ==
  IF lit = NullStr THEN Temp(Null)
  ELSE IF lit = << >> THEN Temp(Empty)
  ELSE NewBuffer(lit \o Zeros(SAFETY_GAP + 1), live)

\* CSphString ( const CSphString & rhs ): copies strlen+2 cells.
CopyOf(r) ==
  LET q == sval[r]
      n == 1 + StrLen(q) + 1 IN
  IF q = Null THEN Temp(Null)
  ELSE IF heap[q][1] = Nul THEN Temp(Empty)
  ELSE {[t EXCEPT !.bad = ~InBounds(q, n)]
          : t \in NewBuffer(Cells(q, n) \o Zeros(SAFETY_GAP), live)}

\* The temporary swapped into s, then destroyed with the old value.
Install(s, t) ==
  LET old == sval[s] IN
  /\ sval' = [sval EXCEPT ![s] = t.p]
  /\ live' = IF Deletes(old) THEN t.l \ {old} ELSE t.l
  /\ heap' = IF Deletes(old) THEN [t.h EXCEPT ![old] = << >>] ELSE t.h
  /\ fault' = (fault \/ t.bad \/ (Deletes(old) /\ old \notin t.l))
  /\ UNCHANGED raw

Assign(s, r) == \E t \in CopyOf(r) : Install(s, t)

FromLiteral(s, lit) == \E t \in FromChars(lit) : Install(s, t)

\* s = std::move ( r ): the temporary takes r's value and leaves r null.
MoveAssign(s, r) ==
  LET old == IF s = r THEN Null ELSE sval[s] IN
  /\ sval' = [sval EXCEPT ![r] = Null, ![s] = sval[r]]
  /\ live' = LiveAfterFree(old) /\ heap' = HeapAfterFree(old)
  /\ fault' = (fault \/ BadFree(old))
  /\ UNCHANGED raw

SwapStr(s, r) ==
  /\ sval' = [sval EXCEPT ![s] = sval[r], ![r] = sval[s]]
  /\ UNCHANGED <<heap, live, raw, fault>>

\* SafeFree, then m_sValue = the new value.
Replace(s, t, bad) ==
  /\ sval' = [sval EXCEPT ![s] = t.p] /\ heap' = t.h /\ live' = t.l
  /\ fault' = (fault \/ bad)
  /\ UNCHANGED raw

FreeThenNew(s, cells) ==
  LET old == sval[s] IN
  \E a \in Addrs \ LiveAfterFree(old) :
    Replace(s, [p |-> a, h |-> [HeapAfterFree(old) EXCEPT ![a] = cells],
                l |-> LiveAfterFree(old) \cup {a}], BadFree(old))

FreeThen(s, p) ==
  LET old == sval[s] IN
  Replace(s, [p |-> p, h |-> HeapAfterFree(old), l |-> LiveAfterFree(old)],
          BadFree(old))

FreeThenEmpty(s) == FreeThen(s, Empty)

\* SetBinary reusing the buffer without the memset after the text.
SetBinaryNoZero(s, lit, n) ==
  LET q == sval[s] IN
  IF Length(q) < n + SAFETY_GAP + 1
  THEN IF lit = NullStr THEN FreeThenEmpty(s)
       ELSE FreeThenNew(s, lit \o Zeros(1 + SAFETY_GAP))
  ELSE IF lit # NullStr /\ n > 0
  THEN /\ heap' = [heap EXCEPT ![q] = [i \in DOMAIN @ |-> IF i <= n THEN lit[i] ELSE @[i]]]
       /\ UNCHANGED <<sval, live, raw, fault>>
  ELSE FreeThenEmpty(s)

\* SetBinary ( sValue, iLen ): a new buffer unless the current text is at
\* least iLen+SAFETY_GAP+1 long, then the text and 1+SAFETY_GAP Nuls over it.
SetBinary(s, lit, n) ==
  LET q == sval[s] IN
  IF Length(q) < n + SAFETY_GAP + 1
  THEN IF lit = NullStr THEN FreeThenEmpty(s)
       ELSE FreeThenNew(s, lit \o Zeros(1 + SAFETY_GAP))
  ELSE IF lit # NullStr /\ n > 0
  THEN /\ heap' = [heap EXCEPT ![q] = [i \in DOMAIN @ |->
                     IF i <= n THEN lit[i] ELSE IF i <= n + 1 + SAFETY_GAP THEN Nul ELSE @[i]]]
       /\ fault' = (fault \/ ~InBounds(q, n + 1 + SAFETY_GAP))
       /\ UNCHANGED <<sval, live, raw>>
  ELSE FreeThenEmpty(s)

Reserve(s, n) == FreeThenNew(s, Zeros(1 + SAFETY_GAP + n))

\* The destructor, and the default constructor of the next use.
Destroy(s) == FreeThen(s, Null)

\* Trim: memmove of the text between the first and the last non-blank to
\* the front, and a Nul after it; the cells after that keep what they held.
Trim(s) ==
  LET p == sval[s]
      t == Text(p)
      NonBlank == {i \in 1..Len(t) : t[i] # Blank}
      kept == IF NonBlank = {} THEN << >> ELSE SubSeq(t, Min(NonBlank), Max(NonBlank)) IN
  /\ p # Null
  /\ heap' = [heap EXCEPT ![p] = [i \in DOMAIN @ |->
                IF i <= Len(kept) THEN kept[i] ELSE IF i = Len(kept) + 1 THEN Nul ELSE @[i]]]
  /\ UNCHANGED <<sval, live, raw, fault>>

\* Unquote: for a text of length l in quotes, memmove of l-2 cells one to
\* the front and a Nul at l-2.  For l = 1, l-2 is (size_t)-1.
Unquote(s) ==
  LET p == sval[s]
      l == Length(p) IN
  /\ UnquoteAny \/ ~(l = 1 /\ heap[p][1] = Quote)
  /\ IF l > 0 /\ heap[p][1] = Quote /\ heap[p][l] = Quote
     THEN IF l = 1
          THEN fault' = TRUE /\ UNCHANGED <<sval, heap, live, raw>>
          ELSE /\ heap' = [heap EXCEPT ![p] = [i \in DOMAIN @ |->
                             IF i <= l - 2 THEN @[i + 1] ELSE IF i = l - 1 THEN Nul ELSE @[i]]]
               /\ UNCHANGED <<sval, live, raw, fault>>
     ELSE UNCHANGED svars

\* Leak: the caller gets the buffer; for EMPTY a new char[1] holding "".
Leak(s) ==
  LET p == sval[s] IN
  /\ sval' = [sval EXCEPT ![s] = Null]
  /\ IF p = Empty
     THEN \E a \in Addrs \ live :
            /\ heap' = [heap EXCEPT ![a] = << Nul >>] /\ live' = live \cup {a}
            /\ raw' = raw \cup {a}
     ELSE /\ raw' = IF p = Null THEN raw ELSE raw \cup {p}
          /\ UNCHANGED <<heap, live>>
  /\ UNCHANGED fault

\* Adopt ( &sValue ): SafeFree, then take the caller's buffer.
Adopt(s, a) ==
  LET old == sval[s] IN
  /\ a \in raw
  /\ sval' = [sval EXCEPT ![s] = a]
  /\ live' = LiveAfterFree(old) /\ heap' = HeapAfterFree(old)
  /\ raw' = raw \ {a}
  /\ fault' = (fault \/ BadFree(old))

\* The caller's delete[] of a buffer it leaked.
FreeRaw(a) ==
  /\ a \in raw
  /\ live' = live \ {a} /\ heap' = [heap EXCEPT ![a] = << >>] /\ raw' = raw \ {a}
  /\ UNCHANGED <<sval, fault>>

\* r = s.SubString ( i, c ) in a debug build: the count is cut to the text,
\* then the asserts; the new buffer is moved into r.
SubString(r, s, i, c) ==
  LET p == sval[s]
      len == StrLen(p)
      n == IF len - i < c THEN len - i ELSE c IN
  /\ p # Null /\ i < len /\ n > 0
  /\ \E t \in NewBuffer(SubSeq(heap[p], i + 1, i + n) \o Zeros(1 + SAFETY_GAP), live) :
       Install(r, t)

Init ==
  /\ sval = [s \in Strs |-> Null]
  /\ heap = [a \in Addrs \cup {Empty} |-> IF a = Empty THEN << Nul >> ELSE << >>]
  /\ live = {} /\ raw = {} /\ fault = FALSE

Next ==
  \/ \E a \in Addrs : FreeRaw(a)
  \/ \E s, r \in Strs :
       \/ Assign(s, r) \/ MoveAssign(s, r) \/ SwapStr(s, r)
       \/ \E i \in 0..2, c \in 1..2 : SubString(r, s, i, c)
  \/ \E s \in Strs :
       \/ \E lit \in Lits :
            \/ FromLiteral(s, lit)
            \/ \E n \in IF lit = NullStr THEN 0..1 ELSE {Len(lit)} : SetBinary(s, lit, n)
       \/ \E n \in 0..1 : Reserve(s, n)
       \/ Destroy(s) \/ Trim(s) \/ Unquote(s) \/ Leak(s)
       \/ \E a \in Addrs : Adopt(s, a)

Spec == Init /\ [][Next]_svars

-----------------------------------------------------------------------------
(* Properties                                                              *)

\* Every access stays inside an allocation and every delete[] frees what
\* new[] returned (fault stays FALSE); each live buffer has exactly one
\* owner, a string or the caller, so the by-value operator= and Leak/Adopt
\* neither leak nor share a buffer; every buffer a string reads holds a Nul.
BuffersOwned ==
  /\ ~fault
  /\ \A s \in Strs : sval[s] \in live \cup {Null, Empty} /\ sval[s] \notin raw
  /\ \A s, r \in Strs : s # r /\ sval[s] \in Addrs => sval[s] # sval[r]
  /\ raw \subseteq live
  /\ \A a \in live : a \in raw \/ \E s \in Strs : sval[s] = a
  /\ \A a \in live \cup {Empty} : Nul \in Range(heap[a])

\* The refinement mapping to StringSpec: each string's cstr () read as a
\* text up to its Nul (or nullptr), and the texts of the buffers the caller
\* holds.  MC_Primitives checks that CSphString implements StringSpec under
\* it.
Value == [s \in Strs |-> IF sval[s] = Null THEN NullStr ELSE Text(sval[s])]
RawTexts == [t \in {Text(a) : a \in raw} |-> Cardinality({a \in raw : Text(a) = t})]
====
