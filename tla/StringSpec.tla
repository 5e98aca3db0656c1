------------------------------ MODULE StringSpec ------------------------------
(***************************************************************************)
(* What CSphString offers its callers: each string is either null (cstr () *)
(* returns nullptr) or a text, a sequence of characters.  Besides the      *)
(* strings, the caller holds the texts it took with Leak (a bag: two        *)
(* leaked buffers may hold the same text) until it frees them or hands one *)
(* back with Adopt.                                                         *)
(***************************************************************************)
EXTENDS Naturals, Sequences, Bags

CONSTANTS Strs, NullStr, Lits

VARIABLES val, held

Blank == " "
Quote == "'"

\* The text between the first and the last character that is not a blank.
Trimmed(t) ==
  LET Keep == {i \in 1..Len(t) : t[i] # Blank} IN
  IF Keep = {} THEN << >>
  ELSE SubSeq(t, CHOOSE i \in Keep : \A j \in Keep : i <= j,
                 CHOOSE i \in Keep : \A j \in Keep : i >= j)

Quoted(t) == Len(t) >= 2 /\ t[1] = Quote /\ t[Len(t)] = Quote

Init == val = [s \in Strs |-> NullStr] /\ held = EmptyBag

Set(s, v) == val' = [val EXCEPT ![s] = v] /\ UNCHANGED held

Assign(s, r) == Set(s, val[r])
FromLiteral(s, lit) == Set(s, lit)
\* SetBinary of a null source gives "", of a text gives that text.
SetBinary(s, lit) == Set(s, IF lit = NullStr THEN << >> ELSE lit)
Reserve(s) == Set(s, << >>)
Destroy(s) == Set(s, NullStr)
Trim(s) == val[s] # NullStr /\ Set(s, Trimmed(val[s]))
\* Unquote of the one-character text "'" is left out: the class gives it no
\* value.
Unquote(s) ==
  /\ val[s] # NullStr /\ val[s] # << Quote >>
  /\ Set(s, IF Quoted(val[s]) THEN SubSeq(val[s], 2, Len(val[s]) - 1) ELSE val[s])
\* The count is cut to what follows the start.
SubString(r, s, i, c) ==
  /\ val[s] # NullStr /\ i < Len(val[s])
  /\ Set(r, SubSeq(val[s], i + 1, IF i + c <= Len(val[s]) THEN i + c ELSE Len(val[s])))
Move(s, r) ==
  /\ val' = [val EXCEPT ![r] = NullStr, ![s] = val[r]]
  /\ UNCHANGED held
Swap(s, r) ==
  /\ val' = [val EXCEPT ![s] = val[r], ![r] = val[s]]
  /\ UNCHANGED held
Leak(s) ==
  /\ val' = [val EXCEPT ![s] = NullStr]
  /\ held' = IF val[s] = NullStr THEN held ELSE held (+) SetToBag({val[s]})
Adopt(s) ==
  \E t \in BagToSet(held) :
    /\ val' = [val EXCEPT ![s] = t]
    /\ held' = held (-) SetToBag({t})
FreeRaw == \E t \in BagToSet(held) : held' = held (-) SetToBag({t}) /\ UNCHANGED val

Next ==
  \/ FreeRaw
  \/ \E s, r \in Strs :
       \/ Assign(s, r) \/ Move(s, r) \/ Swap(s, r)
       \/ \E i \in 0..2, c \in 1..2 : SubString(r, s, i, c)
  \/ \E s \in Strs :
       \/ \E lit \in Lits : FromLiteral(s, lit) \/ SetBinary(s, lit)
       \/ Reserve(s) \/ Destroy(s) \/ Trim(s) \/ Unquote(s)
       \/ Leak(s) \/ Adopt(s)

Spec == Init /\ [][Next]_<<val, held>>
=============================================================================
