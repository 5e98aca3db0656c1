---------------------------- MODULE MC_Primitives ----------------------------
(***************************************************************************)
(* Four primitives checked in one run, side by side: ClonableCtx_T and     *)
(* Waitable_T of src/detail/coroutine_impl.h, CSphString and              *)
(* EscapedStringBuilder_T of src/sphinxstd.h.  They share no state: Init  *)
(* picks the one a behaviour exercises (container) and the others stay in *)
(* their initial state.                                                   *)
(***************************************************************************)
EXTENDS Naturals, TLC

CONSTANTS
  NThreads, MaxJobs, DistThreads,  \* ClonableCtx
  Goal, wa, wb, n1, n2,            \* Waitable_T: goal, waiters, notifiers
  Strs, Addrs, Null, Empty, NullStr,  \* CSphString
  UnquoteAny,                         \* may Unquote be given "'"
  MaxText, MaxUsed, MaxSlack, GROW_STEP, LOOP_GROW  \* EscapedStringBuilder_T

VARIABLES
  container,
  phase, jobs, nChildren, disabled, tasks, built, jobIds, spawned, ctx, pc,
  data, visit,
  value, mutex, spin, queue, wpc, woken, result, npc, opIdx,
  sval, heap, live, raw, fault,
  aval, aheld,  \* Str!Value and Str!RawTexts, kept so TLC maps each state once
  sb, step, cur, src, lim, fixup, want

ccvars == <<phase, jobs, nChildren, disabled, tasks, built, jobIds, spawned,
            ctx, pc, data, visit>>
cvvars == <<value, mutex, spin, queue, wpc, woken, result, npc, opIdx>>
strvars == <<sval, heap, live, raw, fault>>
esbvars == <<sb, step, cur, src, lim, fixup, want>>
vars == <<container, ccvars, cvvars, strvars, aval, aheld, esbvars>>

\* ClonableCtx_T with four threads (up to three child slots), one to four
\* jobs and any LimitConcurrency.  Callers pass the index of the job a
\* coroutine starts with; coroutines started later get lower indices, so
\* claim order and job order differ.
DistinctJobIds(w) == NThreads - w
CC == INSTANCE ClonableCtx WITH JobIdOf <- DistinctJobIds

\* Waitable_T<int>: two waiters for value >= Goal, one with a deadline; one
\* notifier calls ModifyValueAndNotifyAll (increment), the other
\* UpdateValueAndNotifyOne(1) then SetValueAndNotifyAll(2).
MCOps ==
  n1 :> << [kind |-> "modify", all |-> TRUE,  val |-> 0] >>
  @@ n2 :> << [kind |-> "update", all |-> FALSE, val |-> 1],
              [kind |-> "set",    all |-> TRUE,  val |-> 2] >>
CV == INSTANCE CondVar WITH Waiters <- {wa, wb}, Timed <- {wb},
                            Notifiers <- {n1, n2}, Ops <- MCOps

\* CSphString: the texts passed in are nullptr, "", "'" and " 'aa' ".  The
\* last has blanks to trim and quotes to strip once trimmed; it is longer
\* than "'" plus SAFETY_GAP, so SetBinary of "'" over it reuses its buffer,
\* and SubString cuts texts of one and two characters out of it.
StrLits == {NullStr, << >>, <<"'">>, <<" ", "'", "a", "a", "'", " ">>}
Str == INSTANCE CSphString WITH Lits <- StrLits

\* EscapedStringBuilder_T<T> for a T that escapes the quote (BaseQuotation_t,
\* the one trait under src/, escapes nothing; its loops are the case with
\* no escapes) over texts of up to two of "a", "'" and a tab, limits -1 to
\* 3, no comma or ",", and builders holding up to one character with one
\* to five free cells, or no buffer: GrowEnough (3) keeps a buffer of four
\* free cells, whose loop then grows on the second character.
EscDelims == {<< >>, <<",">>}
Esc == INSTANCE EscapedStringBuilder WITH Chars <- {"a", "'", "tab"},
         EscapeChars <- {"'"}, Delims <- EscDelims

Init ==
  /\ container \in {"clonable", "condvar", "string", "escape"}
  \* outside its own behaviours ClonableCtx stays in one of its initial
  \* states (the choice is made before its Init, which then checks it)
  /\ container = "clonable" \/ (jobs = 1 /\ nChildren = 0)
  /\ container = "escape" \/ sb = Esc!NullBuilder
  /\ CC!Init /\ CV!Init /\ Str!Init /\ Esc!Init
  /\ aval = Str!Value /\ aheld = Str!RawTexts

Clonable(A) == container = "clonable" /\ A /\ UNCHANGED <<container, cvvars, strvars, aval, aheld, esbvars>>
Cond(A) == container = "condvar" /\ A /\ UNCHANGED <<container, ccvars, strvars, aval, aheld, esbvars>>
String(A) ==
  /\ container = "string" /\ A /\ UNCHANGED <<container, ccvars, cvvars, esbvars>>
  /\ aval' = Str!Value' /\ aheld' = Str!RawTexts'

Escape(A) == container = "escape" /\ A /\ UNCHANGED <<container, ccvars, cvvars, strvars, aval, aheld>>

Next == Clonable(CC!Next) \/ Cond(CV!Next) \/ String(Str!Next) \/ Escape(Esc!Next)

\* Waitable_T's fairness (CondVar.tla), for the behaviours that exercise it.
Fairness ==
  /\ \A w \in {wa, wb} :
       /\ WF_vars(Cond(CV!WaiterLock(w))) /\ WF_vars(Cond(CV!WaiterCheck(w)))
       /\ WF_vars(Cond(CV!WaiterSuspend(w))) /\ WF_vars(Cond(CV!WaiterTimedReturn(w)))
  /\ \A n \in {n1, n2} :
       /\ WF_vars(Cond(CV!NotifierStart(n))) /\ WF_vars(Cond(CV!NotifierMutate(n)))
       /\ WF_vars(Cond(CV!NotifierNotify(n)))

Spec == Init /\ [][Next]_vars /\ Fairness

Sym == Permutations(Addrs) \cup Permutations(Strs)

\* The properties of each primitive (stated in its module).
ContextsExclusive == CC!ContextsExclusive
FinalizeCollectsAll == CC!FinalizeCollectsAll
MergeOrderByJobId == CC!MergeOrderByJobId
EveryWaiterReturns == container = "condvar" => CV!EveryWaiterReturns
BuffersOwned == Str!BuffersOwned
\* CSphString implements StringSpec: read through the mapping Str!Value
\* (each cstr () as the text up to its Nul, or nullptr) and Str!RawTexts
\* (the texts of the buffers Leak handed out), every sequence of calls is
\* one the abstract strings allow.
AbsStr == INSTANCE StringSpec WITH Lits <- StrLits, val <- aval, held <- aheld
StringRefinement == AbsStr!Spec
WritesInAllocation == Esc!WritesInAllocation
AppendsEncoding == Esc!AppendsEncoding
=============================================================================
