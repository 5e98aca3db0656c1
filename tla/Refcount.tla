------------------------------- MODULE Refcount -------------------------------
(***************************************************************************)
(* ISphRefcountedMT and the handles that own it, CSphRefcountedPtr and     *)
(* SharedPtr_T (whose shared state is an ISphRefcountedMT), of            *)
(* src/sphinxstd.h, used by several threads.                               *)
(*                                                                         *)
(* Each thread owns handles (holds) and raw owning pointers (raw: what    *)
(* new and Leak () give), as bags of the objects they point to.  A handle  *)
(* is used only by the thread that owns it, and passed on by moving.      *)
(* m_iRefCount is count.  Release () is two steps: the fetch_sub, whose   *)
(* result the thread keeps (pc), and the test of that result, which       *)
(* deletes the object.  The atomics are modelled as sequentially          *)
(* consistent; the release/acquire pair of Release is what makes the      *)
(* deleting thread see every earlier use.                                 *)
(***************************************************************************)
EXTENDS Integers, Bags, FiniteSets

CONSTANTS
  Threads,
  Objects,   \* the addresses new can return (reused once deleted)
  None,      \* pc of a thread that is not inside Release
  MaxHeld    \* bound on the handles and raw pointers one thread owns

VARIABLES
  count,   \* m_iRefCount of each allocated object
  alloc,   \* the live objects: returned by new and not deleted since
  frees,   \* how many times each object was deleted since its new
  holds,   \* each thread's handles
  raw,     \* each thread's owning raw pointers
  pc       \* None, or [o, old] between Release's fetch_sub and its test

vars == <<count, alloc, frees, holds, raw, pc>>

One(o) == SetToBag({o})

Owned(t) == BagCardinality(holds[t]) + BagCardinality(raw[t])

Idle(t) == pc[t] = None

\* Release (), first step: m_iRefCount.fetch_sub ( 1 ), result kept.
FetchSub(t, o) ==
  /\ count' = [count EXCEPT ![o] = @ - 1]
  /\ pc' = [pc EXCEPT ![t] = [o |-> o, old |-> count[o]]]

\* new T: m_iRefCount { 1 }, a raw owning pointer, at an address that
\* is not live.
New(t, o) ==
  /\ Idle(t) /\ o \notin alloc /\ Owned(t) < MaxHeld
  /\ alloc' = alloc \cup {o}
  /\ count' = [count EXCEPT ![o] = 1]
  /\ frees' = [frees EXCEPT ![o] = 0]
  /\ raw' = [raw EXCEPT ![t] = @ (+) One(o)]
  /\ UNCHANGED <<holds, pc>>

\* explicit CSphRefcountedPtr ( T * ) / SharedPtr_T ( PTR ): takes over.
Adopt(t, o) ==
  /\ Idle(t) /\ o \in BagToSet(raw[t])
  /\ raw' = [raw EXCEPT ![t] = @ (-) One(o)]
  /\ holds' = [holds EXCEPT ![t] = @ (+) One(o)]
  /\ UNCHANGED <<count, alloc, frees, pc>>

\* Copy constructors (SafeAddRef), ConstCastPtr, SharedPtr_T copy.
Copy(t, o) ==
  /\ Idle(t) /\ o \in BagToSet(holds[t]) /\ Owned(t) < MaxHeld
  /\ count' = [count EXCEPT ![o] = @ + 1]
  /\ holds' = [holds EXCEPT ![t] = @ (+) One(o)]
  /\ UNCHANGED <<alloc, frees, raw, pc>>

\* Move constructor, Swap, operator= ( && ) into an empty handle: a
\* handle changes hands with no refcount traffic.
Pass(t, u, o) ==
  /\ Idle(t) /\ t # u /\ o \in BagToSet(holds[t]) /\ Owned(u) < MaxHeld
  /\ holds' = [holds EXCEPT ![t] = @ (-) One(o), ![u] = @ (+) One(o)]
  /\ UNCHANGED <<count, alloc, frees, raw, pc>>

\* Mutant: the old object is released before the new one is referenced.
AssignCopyReleaseFirst(t, o, p) ==
  /\ Idle(t) /\ o \in BagToSet(holds[t]) /\ p \in BagToSet(holds[t])
  /\ pc' = [pc EXCEPT ![t] = [o |-> o, old |-> count[o]]]
  /\ count' = [count EXCEPT ![o] = @ - 1, ![p] = @ + 1]
  /\ holds' = [holds EXCEPT ![t] = (@ (-) One(o)) (+) One(p)]
  /\ UNCHANGED <<alloc, frees, raw>>

\* operator= ( const CSphRefcountedPtr<DERIVED> & ) and the copy-and-swap
\* operator=: SafeAddRef ( rhs ) first, then SafeRelease of the object
\* the handle pointed to.  rhs is a handle of the same thread, possibly
\* the assigned one itself (p = o).  The AddRef and the fetch_sub touch
\* counters no other thread can bring to zero meanwhile, so one step.
AssignCopy(t, o, p) ==
  /\ Idle(t) /\ o \in BagToSet(holds[t]) /\ p \in BagToSet(holds[t])
  /\ pc' = [pc EXCEPT ![t] = [o |-> o, old |-> IF p = o THEN count[o] + 1 ELSE count[o]]]
  /\ count' = [count EXCEPT ![p] = @ + 1, ![o] = @ - 1]
  /\ holds' = [holds EXCEPT ![t] = (@ (-) One(o)) (+) One(p)]
  /\ UNCHANGED <<alloc, frees, raw>>

\* ~CSphRefcountedPtr, SafeRelease ( m_pPtr ), and operator= ( && ) over
\* a handle that points somewhere: the handle lets go of o.
Drop(t, o) ==
  /\ Idle(t) /\ o \in BagToSet(holds[t])
  /\ holds' = [holds EXCEPT ![t] = @ (-) One(o)]
  /\ FetchSub(t, o)
  /\ UNCHANGED <<alloc, frees, raw>>

\* Leak (): the handle hands its reference to a raw pointer.
Leak(t, o) ==
  /\ Idle(t) /\ o \in BagToSet(holds[t])
  /\ holds' = [holds EXCEPT ![t] = @ (-) One(o)]
  /\ raw' = [raw EXCEPT ![t] = @ (+) One(o)]
  /\ UNCHANGED <<count, alloc, frees, pc>>

\* operator= ( T * ) and SharedPtr_T::operator= ( PTR ): SafeRelease of
\* the old object, then the handle takes over the raw pointer p.
RawAssign(t, o, p) ==
  /\ Idle(t) /\ o \in BagToSet(holds[t]) /\ p \in BagToSet(raw[t])
  /\ holds' = [holds EXCEPT ![t] = (@ (-) One(o)) (+) One(p)]
  /\ raw' = [raw EXCEPT ![t] = @ (-) One(p)]
  /\ FetchSub(t, o)
  /\ UNCHANGED <<alloc, frees>>

\* SafeRelease on a raw owning pointer (as VecRefPtrs_t's destructor does).
ReleaseRaw(t, o) ==
  /\ Idle(t) /\ o \in BagToSet(raw[t])
  /\ raw' = [raw EXCEPT ![t] = @ (-) One(o)]
  /\ FetchSub(t, o)
  /\ UNCHANGED <<alloc, frees, holds>>

\* Mutant: the test reads the counter again instead of fetch_sub's result.
ReleaseTestLoad(t) ==
  /\ pc[t] # None
  /\ IF count[pc[t].o] = 0
       THEN /\ frees' = [frees EXCEPT ![pc[t].o] = @ + 1]
            /\ alloc' = alloc \ {pc[t].o}
       ELSE UNCHANGED <<frees, alloc>>
  /\ pc' = [pc EXCEPT ![t] = None]
  /\ UNCHANGED <<count, holds, raw>>

\* Mutant: fetch_sub's result is compared with 0.
ReleaseTestZero(t) ==
  /\ pc[t] # None
  /\ IF pc[t].old = 0
       THEN /\ frees' = [frees EXCEPT ![pc[t].o] = @ + 1]
            /\ alloc' = alloc \ {pc[t].o}
       ELSE UNCHANGED <<frees, alloc>>
  /\ pc' = [pc EXCEPT ![t] = None]
  /\ UNCHANGED <<count, holds, raw>>

\* Release (), second step: if fetch_sub returned 1, the acquire fence
\* and delete this (~SharedState_T then deletes the payload).
ReleaseTest(t) ==
  /\ pc[t] # None
  /\ IF pc[t].old = 1
       THEN /\ frees' = [frees EXCEPT ![pc[t].o] = @ + 1]
            /\ alloc' = alloc \ {pc[t].o}
       ELSE UNCHANGED <<frees, alloc>>
  /\ pc' = [pc EXCEPT ![t] = None]
  /\ UNCHANGED <<count, holds, raw>>

Init ==
  /\ count = [o \in Objects |-> 0]
  /\ alloc = {}
  /\ frees = [o \in Objects |-> 0]
  /\ holds = [t \in Threads |-> EmptyBag]
  /\ raw = [t \in Threads |-> EmptyBag]
  /\ pc = [t \in Threads |-> None]

Next ==
  \E t \in Threads :
    \/ ReleaseTest(t)
    \/ \E o \in Objects :
         \/ New(t, o) \/ Adopt(t, o) \/ Copy(t, o) \/ Drop(t, o) \/ Leak(t, o)
         \/ ReleaseRaw(t, o)
         \/ \E u \in Threads : Pass(t, u, o)
         \/ \E p \in Objects : AssignCopy(t, o, p) \/ RawAssign(t, o, p)

\* A thread inside Release () finishes it.
Spec == Init /\ [][Next]_vars /\ \A t \in Threads : WF_vars(ReleaseTest(t))

-----------------------------------------------------------------------------
(* Properties                                                              *)

Owners(o) == \E t \in Threads : o \in BagToSet(holds[t]) \cup BagToSet(raw[t])

\* No handle or owning raw pointer ever points to a deleted object,
\* whatever the threads' copies, moves, assignments (self-assignment
\* included) and releases: an object is deleted only once nobody owns it.
NoUseAfterFree == \A o \in Objects : Owners(o) => frees[o] = 0

\* Two threads that release the last two references at the same time
\* never both delete the object: exactly one fetch_sub returns 1.
DeletedAtMostOnce == \A o \in Objects : frees[o] <= 1

\* Once the last handle and raw pointer to an object are gone, the object
\* is deleted: no reference is leaked by any sequence of operations.
EventuallyFreed ==
  \A o \in Objects : (o \in alloc /\ ~Owners(o)) ~> o \notin alloc
=============================================================================
