------------------------------- MODULE CondVar -------------------------------
(***************************************************************************)
(* The coroutine-aware condition variable and Waitable_T of                *)
(* src/detail/coroutine_impl.h (lines 199-456).                            *)
(*                                                                         *)
(* Waiters call Waitable_T::Wait(pred) or WaitUntil(pred, t): lock the     *)
(* mutex, test pred, and while it is false ConditionVariableAny_c::Wait:   *)
(* take the wait-queue spinlock, unlock the mutex, enqueue and suspend;    *)
(* once woken (or timed out) relock the mutex and test again.  A timed     *)
(* wait that times out returns fnPred() (line 251).                        *)
(*                                                                         *)
(* Notifiers run Waitable_T mutators: Set/Modify take the mutex, change    *)
(* the value and release it, and only then NotifyOne/NotifyAll, which      *)
(* resume queued waiters under the spinlock.  UpdateValueAndNotifyX first  *)
(* reads the value without the mutex and does nothing if it is unchanged.  *)
(* The wait queue itself (WaitQueue_c) lives outside src/ and is modelled  *)
(* from spec 4.1: NotifyOne resumes one queued waiter, NotifyAll all.      *)
(***************************************************************************)
EXTENDS Integers, Sequences, FiniteSets, TLC

CONSTANTS
  Waiters,       \* coroutines blocked in Waitable_T::Wait / WaitUntil
  Timed,         \* those of them that use WaitUntil (a deadline)
  Goal,          \* every waiter's predicate is value >= Goal
  Notifiers,     \* coroutines calling Waitable_T mutators
  Ops            \* Ops[n]: the sequence of mutator calls notifier n makes

ASSUME Timed \subseteq Waiters

Free == "free"

VARIABLES
  value,     \* Waitable_T::m_tValue
  mutex,     \* holder of Waitable_T::m_tMutex, or Free
  spin,      \* holder of m_tWaitQueueSpinlock, or Free
  queue,     \* m_tWaitQueue: the suspended waiters
  wpc,       \* each waiter's place in Wait / WaitUntil
  woken,     \* SuspendAndWaitUntil's result: TRUE notified, FALSE timed out
  result,    \* what each timed waiter's WaitVoidUntil returned
  npc,       \* each notifier's place in its current mutator
  opIdx      \* each notifier's current call in Ops[n]

vars == <<value, mutex, spin, queue, wpc, woken, result, npc, opIdx>>

Pred(v) == v >= Goal

Init ==
  /\ value = 0
  /\ mutex = Free
  /\ spin = Free
  /\ queue = {}
  /\ wpc = [w \in Waiters |-> "lock"]
  /\ woken = [w \in Waiters |-> TRUE]
  /\ result = [w \in Waiters |-> FALSE]
  /\ npc = [n \in Notifiers |-> "start"]
  /\ opIdx = [n \in Notifiers |-> 1]

WSet(w, s) == wpc' = [wpc EXCEPT ![w] = s]
NSet(n, s) == npc' = [npc EXCEPT ![n] = s]

-----------------------------------------------------------------------------
(* Waiter                                                                  *)

\* ScopedMutex_t lk ( m_tMutex ) at entry, and tMutex.Lock() after waking.
WaiterLock(w) ==
  /\ wpc[w] \in {"lock", "relock"}
  /\ mutex = Free
  /\ mutex' = w
  /\ WSet(w, IF wpc[w] = "relock" /\ ~woken[w] THEN "timedout" ELSE "check")
  /\ UNCHANGED <<value, spin, queue, woken, result, npc, opIdx>>

\* Mutant: the external mutex is released before the spinlock is taken.
WaiterCheckNoSpin(w) ==
  /\ wpc[w] = "check"
  /\ mutex' = Free
  /\ IF Pred(value)
       THEN /\ WSet(w, "done")
            /\ result' = [result EXCEPT ![w] = TRUE]
       ELSE /\ WSet(w, "enqueue")
            /\ UNCHANGED result
  /\ UNCHANGED <<value, spin, queue, woken, npc, opIdx>>

\* while ( !fnPred() ) ...: a true predicate returns (lk unlocks); a false
\* one enters ConditionVariableAny_c::Wait / WaitUntil, which takes the
\* spinlock and unlocks the external mutex (lines 209-210, 223-224).
WaiterCheck(w) ==
  /\ wpc[w] = "check"
  /\ spin = Free \/ Pred(value)
  /\ mutex' = Free
  /\ IF Pred(value)
       THEN /\ WSet(w, "done")
            /\ result' = [result EXCEPT ![w] = TRUE]
            /\ UNCHANGED spin
       ELSE /\ WSet(w, "enqueue")
            /\ spin' = w
            /\ UNCHANGED result
  /\ UNCHANGED <<value, queue, woken, npc, opIdx>>

\* m_tWaitQueue.SuspendAndWait(tLock, pActiveWorker): enqueue this worker
\* and release the spinlock as the coroutine suspends.
WaiterSuspend(w) ==
  /\ wpc[w] = "enqueue"
  /\ queue' = queue \cup {w}
  /\ spin' = Free
  /\ WSet(w, "suspended")
  /\ UNCHANGED <<value, mutex, woken, result, npc, opIdx>>

\* The deadline of WaitUntil passes: the waiter leaves the queue on its own
\* and SuspendAndWaitUntil returns false.
WaiterTimeout(w) ==
  /\ w \in Timed
  /\ wpc[w] = "suspended"
  /\ spin = Free
  /\ queue' = queue \ {w}
  /\ woken' = [woken EXCEPT ![w] = FALSE]
  /\ WSet(w, "relock")
  /\ UNCHANGED <<value, mutex, spin, result, npc, opIdx>>

\* if ( !WaitUntil ( tMutex, iTimestamp ) ) return fnPred();  (line 251)
WaiterTimedReturn(w) ==
  /\ wpc[w] = "timedout"
  /\ result' = [result EXCEPT ![w] = Pred(value)]
  /\ mutex' = Free
  /\ WSet(w, "done")
  /\ UNCHANGED <<value, spin, queue, woken, npc, opIdx>>

-----------------------------------------------------------------------------
(* Notifier                                                                *)

Op(n) == Ops[n][opIdx[n]]

NextOp(n) ==
  /\ opIdx' = [opIdx EXCEPT ![n] = @ + 1]
  /\ NSet(n, "start")

\* Begin the next call.  UpdateValueAndNotifyX: if ( tValue == GetValue() )
\* return;  GetValue() reads m_tValue without taking the mutex.
NotifierStart(n) ==
  /\ npc[n] = "start"
  /\ opIdx[n] <= Len(Ops[n])
  /\ IF Op(n).kind = "update" /\ Op(n).val = value
       THEN NextOp(n)
       ELSE NSet(n, "mutate") /\ UNCHANGED opIdx
  /\ UNCHANGED <<value, mutex, spin, queue, wpc, woken, result>>

\* SetValue / ModifyValue: under ScopedMutex_t, assign or apply fnMod
\* (here: increment).
NotifierMutate(n) ==
  /\ npc[n] = "mutate"
  /\ mutex = Free
  /\ value' = IF Op(n).kind = "modify" THEN value + 1 ELSE Op(n).val
  /\ NSet(n, "notify")
  /\ UNCHANGED <<mutex, spin, queue, wpc, woken, result, opIdx>>

\* NotifyOne / NotifyAll, after the mutex was released: under the spinlock
\* resume one queued waiter, or all of them.
NotifierNotify(n) ==
  /\ npc[n] = "notify"
  /\ spin = Free
  /\ \E S \in (IF Op(n).all THEN {queue}
               ELSE IF queue = {} THEN {{}} ELSE {{w} : w \in queue}) :
       /\ queue' = queue \ S
       /\ wpc' = [w \in Waiters |-> IF w \in S THEN "relock" ELSE wpc[w]]
       /\ woken' = [w \in Waiters |-> IF w \in S THEN TRUE ELSE woken[w]]
  /\ NextOp(n)
  /\ UNCHANGED <<value, mutex, spin, result>>

Next ==
  \/ \E w \in Waiters :
       \/ WaiterLock(w) \/ WaiterCheck(w) \/ WaiterSuspend(w)
       \/ WaiterTimeout(w) \/ WaiterTimedReturn(w)
  \/ \E n \in Notifiers :
       NotifierStart(n) \/ NotifierMutate(n) \/ NotifierNotify(n)

\* Every coroutine that can go on eventually runs; deadlines are not
\* promised to pass, so WaiterTimeout is not fair.
Fairness ==
  /\ \A w \in Waiters : WF_vars(WaiterLock(w)) /\ WF_vars(WaiterCheck(w))
                        /\ WF_vars(WaiterSuspend(w))
                        /\ WF_vars(WaiterTimedReturn(w))
  /\ \A n \in Notifiers : WF_vars(NotifierStart(n)) /\ WF_vars(NotifierMutate(n))
                          /\ WF_vars(NotifierNotify(n))

Spec == Init /\ [][Next]_vars /\ Fairness

-----------------------------------------------------------------------------
(* Properties                                                              *)

TypeOK ==
  /\ value \in Nat
  /\ mutex \in Waiters \cup {Free}
  /\ spin \in Waiters \cup {Free}
  /\ queue \subseteq Waiters
  /\ wpc \in [Waiters -> {"lock", "check", "enqueue", "suspended", "relock",
                          "timedout", "done"}]
  /\ woken \in [Waiters -> BOOLEAN]
  /\ result \in [Waiters -> BOOLEAN]
  /\ npc \in [Notifiers -> {"start", "mutate", "notify"}]
  /\ opIdx \in [Notifiers -> Nat]

\* No lost wake-up: the notifiers' calls bring the value to one that
\* satisfies every predicate and never take it back, so every waiter,
\* timed or not, eventually returns from Wait / WaitUntil, and every
\* untimed one returns with its predicate true.  A waiter that tested the
\* predicate false just before a mutator changed it must still be resumed
\* by that mutator's notify, which the spinlock taken before the mutex is
\* released (ConditionVariableAny_c::Wait) is there to guarantee.
EveryWaiterReturns ==
  <>(\A w \in Waiters : wpc[w] = "done" /\ (w \notin Timed => result[w]))
=============================================================================
