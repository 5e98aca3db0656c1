-------------------------- MODULE DispatchTemplates --------------------------
(***************************************************************************)
(* The dispatcher templates of src/task_dispatcher.cpp: ParseTemplate     *)
(* reads "<concurrency>/<batch>", ParseTemplates reads two of them joined  *)
(* by '+' (the base and the pseudo-sharding template, optionally quoted),  *)
(* the process-wide pair g_GlobalDispatcherTemplates is seeded from        *)
(* MANTICORE_THREADS_EX and replaced by SetGlobalDispatchers, and Unify    *)
(* lays a partial template over a base one.  A text is a sequence of       *)
(* one-character strings; "tab" stands for any other whitespace.  The      *)
(* parser is the subject here, so the conversion is modelled as it reads   *)
(* characters.  sph::Split and sph::Trim are not in this repository and    *)
(* are modelled from the specification's words.                            *)
(***************************************************************************)
EXTENDS Integers, Sequences

\* Dispatcher::Template_t; 0 in a field means unset.
Template(c, b) == [concurrency |-> c, batch |-> b]

DigitChars == <<"0", "1", "2", "3", "4", "5", "6", "7", "8", "9">>
IsDigit(ch) == \E i \in 1..10 : DigitChars[i] = ch
DigitValue(ch) == CHOOSE v \in 0..9 : DigitChars[v + 1] = ch
IsSpace(ch) == ch \in {" ", "tab"}

-----------------------------------------------------------------------------
(* Library helpers the parser calls.                                       *)

\* libc atoi: skip leading whitespace, take an optional sign, then the
\* longest run of digits; anything else ends the number (no digits: 0).
RECURSIVE DigitsValue(_, _)
DigitsValue(s, acc) ==
  IF s # <<>> /\ IsDigit(Head(s))
  THEN DigitsValue(Tail(s), 10 * acc + DigitValue(Head(s)))
  ELSE acc

RECURSIVE Atoi(_)
Atoi(s) ==
  CASE s = <<>>          -> 0
    [] IsSpace(Head(s))  -> Atoi(Tail(s))
    [] Head(s) = "-"     -> -DigitsValue(Tail(s), 0)
    [] Head(s) = "+"     -> DigitsValue(Tail(s), 0)
    [] OTHER             -> DigitsValue(s, 0)

\* sph::Split: the pieces between separators, empty pieces kept.
RECURSIVE Split(_, _)
Split(s, sep) ==
  IF \A i \in DOMAIN s : s[i] # sep
  THEN << s >>
  ELSE LET k == CHOOSE i \in DOMAIN s :
                  s[i] = sep /\ \A j \in 1..(i - 1) : s[j] # sep
       IN  << SubSeq(s, 1, k - 1) >> \o Split(SubSeq(s, k + 1, Len(s)), sep)

\* sph::Trim ( s, c ): drop every leading and trailing character of the
\* set strip (whitespace by default).
RECURSIVE TrimBy(_, _)
TrimBy(s, strip) ==
  CASE s = <<>>              -> s
    [] Head(s) \in strip     -> TrimBy(Tail(s), strip)
    [] s[Len(s)] \in strip   -> TrimBy(SubSeq(s, 1, Len(s) - 1), strip)
    [] OTHER                 -> s

Trim(s) == TrimBy(s, {" ", "tab"})

-----------------------------------------------------------------------------
(* ParseTemplate, ParseTemplates, the global pair and Unify.              *)

\* while ( dStr.GetLength()<2 ) dStr.Add ( dEmptyStr );
PadToTwo(d) == IF Len(d) >= 2 THEN d ELSE d \o [i \in 1..(2 - Len(d)) |-> <<>>]

\* fnParseValue: empty, "0" or "*" is unset, anything else goes to atoi.
ParseValue(v) ==
  IF v = <<>> \/ (Len(v) = 1 /\ v[1] \in {"0", "*"}) THEN 0 ELSE Atoi(v)

\* Split on '/', trim every piece, pad to two, parse the first two.
ParseTemplate(s) ==
  LET pieces == Split(s, "/")
      d == PadToTwo([i \in DOMAIN pieces |-> Trim(pieces[i])])
  IN  Template(ParseValue(d[1]), ParseValue(d[2]))

\* Unquote, split on '+', pad to two, parse the first two.
ParseTemplates(s) ==
  LET d == PadToTwo(Split(TrimBy(s, {"'"}), "+"))
  IN  << ParseTemplate(d[1]), ParseTemplate(d[2]) >>

\* g_GlobalDispatcherTemplates after SetGlobalDispatchers ( s ), or as
\* seeded from the environment string s.
SetGlobalDispatchers(s) == ParseTemplates(s)

GetGlobalBaseDispatcherTemplate(g) == g[1]

GetGlobalPseudoShardingDispatcherTemplate(g) == g[2]

\* Unify ( tBase, tNew ): a nonzero field of tNew overwrites tBase's.
Unify(tBase, tNew) ==
  [tBase EXCEPT !.concurrency = IF tNew.concurrency # 0 THEN tNew.concurrency
                                                        ELSE @,
                !.batch = IF tNew.batch # 0 THEN tNew.batch ELSE @]
=============================================================================
