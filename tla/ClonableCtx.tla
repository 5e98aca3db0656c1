----------------------------- MODULE ClonableCtx -----------------------------
(***************************************************************************)
(* Threads::ClonableCtx_T of src/detail/coroutine_impl.h (lines 22-119)   *)
(* and the caller protocol around it (spec 4.2): construct the context,   *)
(* optionally LimitConcurrency, spawn Concurrency(jobs) coroutines, each   *)
(* calls CloneNewContext once with its job id and works in the context it *)
(* got, then, after all have returned, Finalize merges the children into   *)
(* the parent in the order ForAll sorts them by job id.                    *)
(*                                                                         *)
(* A context's data is the sequence of job ids processed in it; MergeChild *)
(* appends the child's sequence to the parent's.                           *)
(***************************************************************************)
EXTENDS Integers, Sequences, SequencesExt, FiniteSets

CONSTANTS
  NThreads,      \* Threads::NThreads()
  MaxJobs,       \* largest number of job items of one operation
  DistThreads,   \* arguments LimitConcurrency may be called with
  JobIdOf(_)     \* the job id coroutine w passes to CloneNewContext

ASSUME NThreads >= 1

Workers   == 1..NThreads      \* never more than Concurrency(jobs) <= NThreads
Slots     == 0..(NThreads - 2) \* m_dChildrenContexts as allocated by the ctor
ParentCtx == -1                \* CloneNewContext returned m_dParentContext
NoCtx     == -2                \* has not called CloneNewContext yet
Ctxs      == {ParentCtx} \cup Slots

VARIABLES
  phase,      \* where the caller is: "setup", "run", "final"
  jobs,       \* job items of this operation
  nChildren,  \* m_dChildrenContexts.GetLength()
  disabled,   \* m_bDisabled
  tasks,      \* m_iTasks
  built,      \* which m_dChildrenContexts[i] hold a constructed clone
  jobIds,     \* m_dJobIds
  spawned,    \* coroutines the caller started
  ctx,        \* the context each coroutine got
  pc,         \* each coroutine: "idle", "cloned", "done"
  data,       \* what each context holds: job ids, in processing order
  visit       \* history: the slots Finalize merged, in order

vars == <<phase, jobs, nChildren, disabled, tasks, built, jobIds, spawned,
          ctx, pc, data, visit>>

MinOf(a, b) == IF a < b THEN a ELSE b

\* ClonableCtx_T::Concurrency: +1 since the parent is also a context.
Concurrency(n) == MinOf(nChildren + 1, n)

\* ClonableCtx_T::Setup: reallocate the slots (all empty again).
Setup(k) ==
  /\ nChildren' = k
  /\ built' = [i \in Slots |-> FALSE]
  /\ jobIds' = [i \in Slots |-> 0]
  /\ disabled' = (k = 0)

\* ClonableCtx_T ctor: a non-clonable parent, or a single thread, never
\* gets child slots.  m_bDisabled starts TRUE (its default in coroutine.h).
Init ==
  /\ phase = "setup"
  /\ jobs \in 1..MaxJobs
  /\ \E clonable \in BOOLEAN :
       IF ~clonable \/ NThreads - 1 = 0
         THEN /\ nChildren = 0 /\ disabled = TRUE
         ELSE /\ nChildren = NThreads - 1 /\ disabled = FALSE
  /\ built = [i \in Slots |-> FALSE]
  /\ jobIds = [i \in Slots |-> 0]
  /\ tasks = 0
  /\ spawned = 0
  /\ ctx = [w \in Workers |-> NoCtx]
  /\ pc = [w \in Workers |-> "idle"]
  /\ data = [c \in Ctxs |-> <<>>]
  /\ visit = <<>>

\* ClonableCtx_T::LimitConcurrency, called before any work starts.
LimitConcurrency(n) ==
  /\ phase = "setup"
  /\ tasks = 0
  /\ IF n = 0 \/ nChildren <= n - 1
       THEN UNCHANGED <<nChildren, built, jobIds, disabled>>
       ELSE Setup(n - 1)
  /\ phase' = "run"
  /\ spawned' = MinOf(nChildren' + 1, jobs)
  /\ UNCHANGED <<jobs, tasks, ctx, pc, data, visit>>

\* The caller starts Concurrency(jobs) coroutines without limiting first.
Spawn ==
  /\ phase = "setup"
  /\ phase' = "run"
  /\ spawned' = Concurrency(jobs)
  /\ UNCHANGED <<jobs, nChildren, disabled, tasks, built, jobIds, ctx, pc,
                 data, visit>>

\* Mutant: no parent for the first claimant and no --iMyIdx.
CloneNewContextNoParent(w) ==
  /\ phase = "run"
  /\ w <= spawned
  /\ pc[w] = "idle"
  /\ pc' = [pc EXCEPT ![w] = "cloned"]
  /\ IF disabled
       THEN /\ ctx' = [ctx EXCEPT ![w] = ParentCtx]
            /\ UNCHANGED <<tasks, built, jobIds>>
       ELSE /\ tasks' = tasks + 1
            /\ ctx' = [ctx EXCEPT ![w] = tasks]
            /\ built' = [built EXCEPT ![tasks] = TRUE]
            /\ jobIds' = [jobIds EXCEPT ![tasks] = JobIdOf(w)]
  /\ UNCHANGED <<phase, jobs, nChildren, disabled, spawned, data, visit>>

\* ClonableCtx_T::CloneNewContext: the first claimant (fetch_add returned 0)
\* gets the parent; claimant k > 0 gets slot k-1, cloned once, and records
\* its job id there.
CloneNewContext(w) ==
  /\ phase = "run"
  /\ w <= spawned
  /\ pc[w] = "idle"
  /\ pc' = [pc EXCEPT ![w] = "cloned"]
  /\ IF disabled
       THEN /\ ctx' = [ctx EXCEPT ![w] = ParentCtx]
            /\ UNCHANGED <<tasks, built, jobIds>>
       ELSE /\ tasks' = tasks + 1
            /\ IF tasks = 0
                 THEN /\ ctx' = [ctx EXCEPT ![w] = ParentCtx]
                      /\ UNCHANGED <<built, jobIds>>
                 ELSE /\ ctx' = [ctx EXCEPT ![w] = tasks - 1]
                      /\ built' = [built EXCEPT ![tasks - 1] = TRUE]
                      /\ jobIds' = [jobIds EXCEPT ![tasks - 1] = JobIdOf(w)]
  /\ UNCHANGED <<phase, jobs, nChildren, disabled, spawned, data, visit>>

\* The coroutine processes its job in the context it got.
Process(w) ==
  /\ pc[w] = "cloned"
  /\ pc' = [pc EXCEPT ![w] = "done"]
  /\ data' = [data EXCEPT ![ctx[w]] = Append(@, JobIdOf(w))]
  /\ UNCHANGED <<phase, jobs, nChildren, disabled, tasks, built, jobIds,
                 spawned, ctx, visit>>

-----------------------------------------------------------------------------
(* ForAll's ordering: dOrder.Sort(bind(&pair::second)) runs sphSort, which *)
(* for fewer than 33 entries is its insertion sort: an entry moves left    *)
(* past every neighbour that is not strictly less than it.                 *)

\* Mutant: the comparison is reversed (IsLess(j, j1)).
RECURSIVE SinkLeftDescending(_, _)
SinkLeftDescending(s, j) ==
  IF j <= 1 \/ s[j][2] < s[j - 1][2] THEN s
  ELSE SinkLeftDescending([s EXCEPT ![j - 1] = s[j], ![j] = s[j - 1]], j - 1)

RECURSIVE SinkLeft(_, _)
SinkLeft(s, j) ==
  IF j <= 1 \/ s[j - 1][2] < s[j][2] THEN s
  ELSE SinkLeft([s EXCEPT ![j - 1] = s[j], ![j] = s[j - 1]], j - 1)

RECURSIVE InsertionSort(_, _)
InsertionSort(s, i) ==
  IF i > Len(s) THEN s ELSE InsertionSort(SinkLeft(s, i), i + 1)

\* Mutant: iWorkThreads = m_iTasks - 2.
ForAllOrderDropLast ==
  LET order == [i \in 1..(tasks - 2) |-> <<i - 1, jobIds[i - 1]>>]
  IN  [k \in 1..(tasks - 2) |-> InsertionSort(order, 2)[k][1]]

\* ClonableCtx_T::ForAll without the root: the slots 0..m_iTasks-2 as
\* (slot, job id) pairs, sorted by job id.
ForAllOrder ==
  LET order == [i \in 1..(tasks - 1) |-> <<i - 1, jobIds[i - 1]>>]
  IN  [k \in 1..(tasks - 1) |-> InsertionSort(order, 2)[k][1]]

\* ClonableCtx_T::Finalize, once every coroutine has returned: MergeChild
\* each child into the parent in ForAll order; nothing when disabled.
Finalize ==
  /\ phase = "run"
  /\ \A w \in 1..spawned : pc[w] = "done"
  /\ phase' = "final"
  /\ IF disabled
       THEN UNCHANGED <<data, visit>>
       ELSE /\ visit' = ForAllOrder
            /\ data' = [data EXCEPT ![ParentCtx] =
                          @ \o FlattenSeq([k \in DOMAIN ForAllOrder |->
                                             data[ForAllOrder[k]]])]
  /\ UNCHANGED <<jobs, nChildren, disabled, tasks, built, jobIds, spawned,
                 ctx, pc>>

Next ==
  \/ \E n \in DistThreads : LimitConcurrency(n)
  \/ Spawn
  \/ \E w \in Workers : CloneNewContext(w) \/ Process(w)
  \/ Finalize

Spec == Init /\ [][Next]_vars

-----------------------------------------------------------------------------
(* Properties                                                              *)

TypeOK ==
  /\ phase \in {"setup", "run", "final"}
  /\ jobs \in 1..MaxJobs
  /\ nChildren \in 0..(NThreads - 1)
  /\ disabled \in BOOLEAN
  /\ tasks \in Nat
  /\ built \in [Slots -> BOOLEAN]
  /\ spawned \in 0..NThreads
  /\ ctx \in [Workers -> Ctxs \cup {NoCtx} \cup Nat]
  /\ pc \in [Workers -> {"idle", "cloned", "done"}]
  /\ visit \in Seq(Nat)

\* However LimitConcurrency and the job count shrink the slots, the
\* Concurrency(jobs) coroutines the caller starts each get a context of
\* their own that exists: a constructed slot below the slot count, or the
\* parent, which is never handed to two coroutines at once.
ContextsExclusive ==
  \A v, w \in Workers :
    /\ ctx[w] >= 0 => ctx[w] < nChildren /\ built[ctx[w]]
    /\ (v # w /\ ctx[v] # NoCtx) => ctx[v] # ctx[w]

\* After Finalize the parent holds every job processed by every coroutine,
\* each exactly once: no child left out of ForAll, none merged twice.
FinalizeCollectsAll ==
  phase = "final" =>
    /\ Len(data[ParentCtx]) = spawned
    /\ ToSet(data[ParentCtx]) = { JobIdOf(w) : w \in 1..spawned }

\* Spec 4.2: Finalize merges the children in ascending job-id order, which
\* with ties (CloneNewContext(nullptr) records job id 0) must still be one
\* order fixed by the job ids alone; we take ties in coroutine order.
MergeOrderByJobId ==
  phase = "final" /\ ~disabled =>
    LET owner(i) == CHOOSE w \in 1..spawned : ctx[w] = i
    IN  \A k \in 1..(Len(visit) - 1) :
          LET a == visit[k]  b == visit[k + 1] IN
          \/ jobIds[a] < jobIds[b]
          \/ jobIds[a] = jobIds[b] /\ owner(a) < owner(b)
=============================================================================
