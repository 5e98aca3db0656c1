------------------------- MODULE EscapedStringBuilder -------------------------
(***************************************************************************)
(* EscapedStringBuilder_T<T> of src/sphinxstd.h (3361-3815): the append   *)
(* functions that quote, escape and clean a text into a StringBuilder_c    *)
(* buffer, growing it as they go.  sb is the builder: its char[] buffer    *)
(* as a function from C index to cell, m_iSize, m_iUsed, and oob, which    *)
(* records a write outside the allocation.  One call runs at a time: step  *)
(* is "idle" before it, "esc" or "fix" inside the character loop of a     *)
(* dedicated function (cur is pCur, src the text from pSrc on, lim iLen,  *)
(* fixup whether FixupSpaceWithEscaping is applied) and "done" after it.  *)
(* want is the buffer content the call is documented to produce.          *)
(***************************************************************************)
EXTENDS Integers, Sequences, FiniteSets
LOCAL INSTANCE SequencesExt

CONSTANTS
  Chars,        \* the characters of the texts appended
  EscapeChars,  \* T::IsEscapeChar
  Delims,       \* what Delim () may return: "" or a block's delimiter
  MaxText,      \* longest text appended
  MaxUsed,      \* longest content before the call
  MaxSlack,     \* free cells before the call
  GROW_STEP,    \* StringBuilder_c::GROW_STEP
  LOOP_GROW     \* GrowEnough ( 32 ) inside the loops

VARIABLES sb, step, cur, src, lim, fixup, want

esbvars == <<sb, step, cur, src, lim, fixup, want>>

Nul == "nul"
Garbage == "garbage"     \* a cell new char[] leaves uninitialised
Quote == "'"             \* T::cQuote
Backslash == "\\"
Space == " "
Spaces == {"tab", "lf", "cr"}

\* EscBld::eAct
eNone == 0
eFixupSpace == 1
eEscape == 2
eAll == 3
eSkipComma == 4
eNoLimit == 8
Has(e, flag) == (e \div flag) % 2 = 1

\* BaseQuotation_t: FixupSpace turns \t, \n, \r into blanks; an escaped
\* character is written after a backslash as GetEscapedChar gives it.
FixupSpace(c) == IF c \in Spaces THEN Space ELSE c
FixupSpaceWithEscaping(c) == FixupSpace(c)
GetEscapedChar(c) == c
\* The cells the loop body writes for one source character.
Encode1(c, fix) ==
  IF c \in EscapeChars THEN <<Backslash, GetEscapedChar(c)>>
  ELSE <<IF fix THEN FixupSpaceWithEscaping(c) ELSE c>>
Encode(t, fix) == FlattenSeq([i \in DOMAIN t |-> Encode1(t[i], fix)])

\* The buffer: a write outside 0 .. m_iSize-1 is recorded in oob.
Put(b, i, c) ==
  IF i \in DOMAIN b.buf THEN [b EXCEPT !.buf[i] = c] ELSE [b EXCEPT !.oob = TRUE]
RECURSIVE PutAll(_, _, _)
PutAll(b, i, s) == IF s = <<>> THEN b ELSE PutAll(Put(b, i, Head(s)), i + 1, Tail(s))
Content(b) == [i \in 1..b.used |-> b.buf[i - 1]]

\* StringBuilder_c::Grow (in sphinxstd.cpp): a new buffer of m_iUsed+iLen
\* +GROW_STEP cells that keeps the old m_iUsed+1 (text and terminator).
Grow(b, n) ==
  LET sz == b.used + n + GROW_STEP
  IN [b EXCEPT !.size = sz,
               !.buf = [i \in 0..sz - 1 |->
                          IF i <= b.used /\ i \in DOMAIN b.buf THEN b.buf[i] ELSE Garbage]]
\* GrowEnough: keep the buffer if m_iUsed + iLen < m_iSize.
GrowEnough(b, n) == IF b.used + n < b.size THEN b ELSE Grow(b, n)

\* The comma block every function but the eSkipComma ones starts with.
AppendComma(b, comma) ==
  IF comma = <<>> THEN b
  ELSE LET g == GrowEnough(b, Len(comma))
       IN [PutAll(g, g.used, comma) EXCEPT !.used = @ + Len(comma)]
\* AppendEmpty: for an empty text only terminate the buffer.
AppendEmpty(b) == LET g == GrowEnough(b, 1) IN Put(g, g.used, Nul)
\* Mutant: m_iUsed also counts the terminator.
AppendEmptyQuotesCountsNul(b) ==
  LET g == GrowEnough(b, 3) IN [PutAll(g, g.used, <<Quote, Quote, Nul>>) EXCEPT !.used = @ + 3]
\* AppendEmptyQuotes: '' and the terminator.
AppendEmptyQuotes(b) ==
  LET g == GrowEnough(b, 3) IN [PutAll(g, g.used, <<Quote, Quote, Nul>>) EXCEPT !.used = @ + 2]

\* AppendEscaped's selector: eNoLimit set when iLen is -1.
Selector(what, len) == IF len = -1 THEN what + eNoLimit ELSE what
EscapeShortcuts == {eEscape + eSkipComma + eNoLimit, eEscape + eNoLimit, eEscape,
                    eAll + eNoLimit, eAll}
FixupShortcut == eFixupSpace + eNoLimit

\* The loops' test for room after a character: "need 1 ending quote +
\* terminator" behind pCur in the escaping loops, the terminator in the
\* FixupSpace one.
\* Mutant: the escaping loops keep the margin of the FixupSpace one.
NeedsGrowLate(last, size) == last > size - 2
NeedsGrow(last, size) == last > size - 3
FixNeedsGrow(last, size) == last > size - 2

\* The generic path: count the cells (escapes, text, quotes), GrowEnough
\* for them and the terminator, then write them in one pass.
CutTo(text, n) == SubSeq(text, 1, n)
EscapeCount(t) == Cardinality({i \in DOMAIN t : t[i] \in EscapeChars})
GenericWrite(b, e, text, len) ==
  LET esc == Has(e, eEscape)
      n == IF Has(e, eNoLimit) THEN Len(text)
           ELSE IF esc /\ len > Len(text) THEN Len(text) ELSE len
      t == CutTo(text, n)
      final == IF esc THEN EscapeCount(t) + n + 2 ELSE n
      out == CASE e % 4 = eNone       -> t
               [] e % 4 = eFixupSpace -> [i \in DOMAIN t |-> FixupSpace(t[i])]
               [] e % 4 = eEscape     -> <<Quote>> \o Encode(t, FALSE) \o <<Quote>>
               [] e % 4 = eAll        -> <<Quote>> \o Encode(t, TRUE) \o <<Quote>>
      g == GrowEnough(b, final + 1)
  IN [PutAll(g, g.used, out \o <<Nul>>) EXCEPT !.used = @ + final]

Texts == UNION {[1..n -> Chars] : n \in 0..MaxText}
\* An unescaped limited append copies iLen characters whatever the text
\* holds; callers pass a limit within the text there.
Lens(text, what) == {-1} \cup IF Has(what, eEscape) THEN 0..MaxText + 1 ELSE 0..Len(text)

\* The content a call is documented to produce (EscBld's comments): the
\* comma unless eSkipComma, then the text cut to iLen, spaces fixed up
\* under eFixupSpace, escaped and quoted under eEscape; an empty text
\* appends nothing unless it is to be quoted.
Want(before, text, what, len, comma) ==
  LET t == IF len = -1 \/ len > Len(text) THEN text ELSE SubSeq(text, 1, len)
      fix == Has(what, eFixupSpace)
      body == IF Has(what, eEscape) THEN <<Quote>> \o Encode(t, fix) \o <<Quote>>
              ELSE IF fix THEN [i \in DOMAIN t |-> FixupSpace(t[i])] ELSE t
  IN IF ~Has(what, eEscape) /\ text = <<>> THEN before
     ELSE before \o (IF Has(what, eSkipComma) THEN <<>> ELSE comma) \o body

NullBuilder == [buf |-> <<>>, size |-> 0, used |-> 0, oob |-> FALSE]
Builders ==
  {NullBuilder} \cup
  UNION {{[buf |-> [i \in 0..s - 1 |-> IF i < u THEN "a" ELSE IF i = u THEN Nul ELSE Garbage],
           size |-> s, used |-> u, oob |-> FALSE] : s \in u + 1..u + MaxSlack} : u \in 0..MaxUsed}

Init ==
  /\ sb \in Builders
  /\ step = "idle" /\ cur = 0 /\ src = <<>> /\ lim = -1 /\ fixup = FALSE /\ want = <<>>

\* The dedicated escaping functions up to their GrowEnough ( 3 ): the
\* builder after the comma, and whether the call ends with '' instead.
AppendEscapedSkippingCommaOpen(text, len, comma) == <<sb, text = <<>>>>
AppendEscapedWithCommaOpen(text, len, comma) == <<AppendComma(sb, comma), text = <<>>>>
AppendEscapedWithCommaLenOpen(text, len, comma) == <<AppendComma(sb, comma), len = 0>>
FixupSpacedAndAppendEscapedOpen(text, len, comma) == <<AppendComma(sb, comma), text = <<>>>>
FixupSpacedAndAppendEscapedLenOpen(text, len, comma) == <<AppendComma(sb, comma), len = 0>>
\* AppendEscaped's shortcuts to them.
Dedicated(e, text, len, comma) ==
  CASE e = eEscape + eSkipComma + eNoLimit -> AppendEscapedSkippingCommaOpen(text, len, comma)
    [] e = eEscape + eNoLimit -> AppendEscapedWithCommaOpen(text, len, comma)
    [] e = eEscape            -> AppendEscapedWithCommaLenOpen(text, len, comma)
    [] e = eAll + eNoLimit    -> FixupSpacedAndAppendEscapedOpen(text, len, comma)
    [] e = eAll               -> FixupSpacedAndAppendEscapedLenOpen(text, len, comma)

\* AppendEscaped with eEscape or eAll, or the dedicated function it calls:
\* its opening, then '' or GrowEnough ( 3 ) and the opening quote.
StartEscaped ==
  /\ step = "idle"
  /\ \E text \in Texts, what \in {eEscape, eAll, eEscape + eSkipComma}, comma \in Delims :
     \E len \in Lens(text, what) :
       LET e == Selector(what, len)
           open == Dedicated(e, text, len, comma)
           g == GrowEnough(open[1], 3)
       IN /\ e \in EscapeShortcuts
          /\ want' = Want(Content(sb), text, what, len, comma)
          /\ IF open[2]
             THEN /\ sb' = AppendEmptyQuotes(open[1]) /\ step' = "done"
                  /\ UNCHANGED <<cur, src, lim, fixup>>
             ELSE /\ sb' = Put(g, g.used, Quote) /\ cur' = g.used + 1
                  /\ src' = text /\ lim' = len /\ fixup' = Has(e, eFixupSpace)
                  /\ step' = "esc"

\* One pass of the escaping loop: write the character, escaped or fixed
\* up, and when pCur has come within the margin set m_iUsed to it,
\* GrowEnough(32) and take pEnd and pCur from the new buffer.
EscStep ==
  /\ step = "esc" /\ src # <<>> /\ lim # 0
  /\ LET w == Encode1(Head(src), fixup)
         b == PutAll(sb, cur, w)
         last == cur + Len(w) - 1
     IN IF NeedsGrow(last, sb.size)
        THEN LET g == GrowEnough([b EXCEPT !.used = last], LOOP_GROW)
             IN sb' = g /\ cur' = g.used + 1
        ELSE sb' = b /\ cur' = last + 1
  /\ src' = Tail(src) /\ lim' = IF lim = -1 THEN -1 ELSE lim - 1
  /\ UNCHANGED <<step, fixup, want>>

\* The end of the text or of iLen: closing quote, terminator, m_iUsed.
EscEnd ==
  /\ step = "esc" /\ (src = <<>> \/ lim = 0)
  /\ sb' = [PutAll(sb, cur, <<Quote, Nul>>) EXCEPT !.used = cur + 1]
  /\ step' = "done"
  /\ UNCHANGED <<cur, src, lim, fixup, want>>

\* AppendEscaped with eFixupSpace and no limit: FixupSpacesAndAppend up to
\* its loop.
StartFixup ==
  /\ step = "idle"
  /\ \E text \in Texts, comma \in Delims :
     /\ want' = Want(Content(sb), text, eFixupSpace, -1, comma)
     /\ IF text = <<>>
        THEN /\ sb' = AppendEmpty(sb) /\ step' = "done"
             /\ UNCHANGED <<cur, src, lim, fixup>>
        ELSE LET g == GrowEnough(AppendComma(sb, comma), 1)
             IN /\ sb' = g /\ cur' = g.used /\ src' = text /\ step' = "fix"
                /\ UNCHANGED <<lim, fixup>>

FixStep ==
  /\ step = "fix" /\ src # <<>>
  /\ LET b == Put(sb, cur, FixupSpace(Head(src)))
     IN IF FixNeedsGrow(cur, sb.size)
        THEN LET g == GrowEnough([b EXCEPT !.used = cur], LOOP_GROW)
             IN sb' = g /\ cur' = g.used + 1
        ELSE sb' = b /\ cur' = cur + 1
  /\ src' = Tail(src)
  /\ UNCHANGED <<step, lim, fixup, want>>

FixEnd ==
  /\ step = "fix" /\ src = <<>>
  /\ sb' = [Put(sb, cur, Nul) EXCEPT !.used = cur]
  /\ step' = "done"
  /\ UNCHANGED <<cur, src, lim, fixup, want>>

\* AppendEscaped for the selectors without a dedicated function.
AppendGeneric ==
  /\ step = "idle"
  /\ \E text \in Texts, what \in 0..7, comma \in Delims :
     \E len \in Lens(text, what) :
       LET e == Selector(what, len)
           b == IF Has(e, eSkipComma) THEN sb ELSE AppendComma(sb, comma)
           e2 == IF Has(e, eSkipComma) THEN e - eSkipComma ELSE e
       IN /\ e \notin EscapeShortcuts \cup {FixupShortcut}
          /\ want' = Want(Content(sb), text, what, len, comma)
          /\ sb' = IF ~Has(e, eEscape) /\ text = <<>> THEN AppendEmpty(sb)
                   ELSE IF Has(e2, eEscape) /\ text = <<>> THEN AppendEmptyQuotes(b)
                   ELSE GenericWrite(b, e2, text, len)
          /\ step' = "done"
          /\ UNCHANGED <<cur, src, lim, fixup>>

Next ==
  \/ StartEscaped \/ EscStep \/ EscEnd
  \/ StartFixup \/ FixStep \/ FixEnd
  \/ AppendGeneric

Spec == Init /\ [][Next]_esbvars

TypeOK ==
  /\ sb.used \in Nat /\ sb.size \in Nat /\ DOMAIN sb.buf = 0..sb.size - 1
  /\ step \in {"idle", "esc", "fix", "done"}

\* No append writes outside the buffer: the loops' margins (pEnd-3, pEnd-2)
\* leave room for what is written after the test, the escape's second
\* cell, the closing quote and the terminator, and every GrowEnough asks
\* for what is written next.
WritesInAllocation == ~sb.oob

\* A finished append leaves m_iUsed inside the buffer with a terminator
\* there, and the content before it is the old content followed by what
\* the call documents: across in-loop grows (which keep only m_iUsed+1
\* cells), the comma and empty cases, and iLen limits.
AppendsEncoding ==
  step = "done" =>
    /\ sb.used < sb.size /\ sb.buf[sb.used] = Nul
    /\ Content(sb) = want
====
