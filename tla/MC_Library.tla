---------------------------- MODULE MC_Library -------------------------------
(***************************************************************************)
(* Library components of src/sphinxstd.h, checked in one run: sphSort,    *)
(* CSphVector, CircularBuffer_T, CSphQueue, CSphOrderedHash, and          *)
(* refcounting (ISphRefcountedMT with CSphRefcountedPtr / SharedPtr_T)    *)
(* the intrusive List_t, CSphFixedVector, and sphLog2 / sphZipValue.      *)
(* They share no state, so each behaviour exercises one of them           *)
(* (container, fixed by Init) and the others stay in an initial state:    *)
(* the states checked are those of the models side by side, not their    *)
(* product.                                                               *)
(***************************************************************************)
EXTENDS Integers, TLC

CONSTANTS
  Unset,     \* a cell or result not yet written
  Null,      \* nullptr
  Nodes,     \* the addresses new may return for hash entries
  Threads,   \* threads sharing refcounted objects
  Objects,   \* the addresses new may return for refcounted objects
  None,
  Stub,      \* List_t's m_tStub
  Vecs       \* CSphFixedVector objects

VARIABLES
  container,
  rbuf, rhead, rtail, rused, rout, rfault,
  qdata, qused, qsize, qout, qfault,
  hbucket, hfirst, hlast, hlength, hheap, hok, hout, hit, hfault,
  ccount, calloc, cfrees, cholds, craw, cpc,
  vdata, vcount, vlimit, vret,
  sinput, sarr, sstack, sdepth, sa, sb, si, sj, sx, spc,
  lnext, lprev, lcount, liter, lit, lnx, lstart, lvisited,
  bu,
  fptr, fcount, flive, fheap, fraw, fassigned

rvars == <<rbuf, rhead, rtail, rused, rout, rfault>>
qvars == <<qdata, qused, qsize, qout, qfault>>
hvars == <<hbucket, hfirst, hlast, hlength, hheap, hok, hout, hit, hfault>>
cvars == <<ccount, calloc, cfrees, cholds, craw, cpc>>
vvars == <<vdata, vcount, vlimit, vret>>
svars == <<sinput, sarr, sstack, sdepth, sa, sb, si, sj, sx, spc>>
lvars == <<lnext, lprev, lcount, liter, lit, lnx, lstart, lvisited>>
fvars == <<fptr, fcount, flive, fheap, fraw, fassigned>>

\* CircularBuffer_T<int> with the default m_fGrowFactor 1.5f; initial
\* sizes 2 and 3 both grow and wrap within five values.
R == INSTANCE CircularBuffer
       WITH Values <- {10, 11}, InitialSizes <- {2, 3}, GrowNum <- 3, GrowDen <- 2,
            MaxUsed <- 5, buf <- rbuf, head <- rhead, tail <- rtail,
            used <- rused, out <- rout, fault <- rfault

\* CSphQueue<int, SphLess_T> of capacity 0, 2 or 4; Reset only when empty.
Q == INSTANCE Queue
       WITH Values <- {1, 2, 3}, Sizes <- {0, 2, 4}, ResetAny <- FALSE,
            data <- qdata, used <- qused, size <- qsize, out <- qout, fault <- qfault

\* CSphOrderedHash<int, int, IdentityHash_fn, 2>: keys 0 and 2 share a
\* bucket; no entry an iterator holds is deleted.
H == INSTANCE OrderedHash
       WITH Keys <- {0, 1, 2}, Vals <- {0, 1}, Default <- 0, LENGTH <- 2,
            DeleteIterated <- FALSE,
            bucket <- hbucket, first <- hfirst, last <- hlast, length <- hlength,
            heap <- hheap, ok <- hok, out <- hout, it <- hit, fault <- hfault

\* Two threads, two addresses, at most two references owned per thread.
C == INSTANCE Refcount
       WITH MaxHeld <- 2, count <- ccount, alloc <- calloc, frees <- cfrees,
            holds <- cholds, raw <- craw, pc <- cpc

\* CSphVector<int> with keys 0..2 and up to four elements.
\* MAGIC_INITIAL_LIMIT is 8 in the code; 2 lets four elements go through
\* two reallocations.  Insert is given a reference to an own element only
\* where neither the shift nor a reallocation moves it.
V == INSTANCE Vector
       WITH Values <- {0, 1, 2}, MaxCount <- 4, InitialLimit <- 2, AliasAny <- FALSE,
            data <- vdata, count <- vcount, limit <- vlimit, ret <- vret

\* sphSort over every array of up to six keys from 0..2.  SMALL_THRESH is
\* 32 in the code; 1 sends these arrays through the partitioning, the
\* explicit stack and the insertion sort alike.
S == INSTANCE Sort
       WITH MaxLen <- 6, Values <- {0, 1, 2}, SmallThresh <- 1,
            input <- sinput, arr <- sarr, stack <- sstack, depth <- sdepth,
            a <- sa, b <- sb, i <- si, j <- sj, x <- sx, pc <- spc

\* List_t over the three addresses of Nodes.
L == INSTANCE List

\* sphLog2 and sphZipValue with unsigned of 8 bits and uint64_t of 16; a
\* "bits" behaviour is the one call of its initial state.
B == INSTANCE Log2Zip WITH UW <- 8, LW <- 16, u <- bu

\* CSphFixedVector<int> objects of up to two elements over the addresses
\* of Nodes.
F == INSTANCE FixedVector WITH Addrs <- Nodes, Values <- {0, 1}, MaxSize <- 2

vars == <<container, rvars, qvars, hvars, cvars, vvars, svars, lvars, bu, fvars>>

Init ==
  /\ container \in {"ring", "queue", "hash", "refcount", "vector", "sort", "list", "bits", "fixed"}
  \* a container not exercised stays in one of its initial states (each
  \* such choice is made before the component's Init, which then checks it)
  /\ container = "ring" \/ rbuf = [k \in 0..1 |-> Unset]
  /\ container = "queue" \/ qsize = 0
  /\ container = "sort" \/ sinput = << >>
  /\ container = "bits" \/ bu = 0
  /\ container = "fixed" \/ fcount = [v \in Vecs |-> 0]
  /\ R!Init /\ Q!Init /\ H!Init /\ C!Init /\ V!Init /\ S!Init /\ L!Init /\ B!Init /\ F!Init

Next ==
  \/ container = "ring"     /\ R!Next /\ UNCHANGED <<container, qvars, hvars, cvars, vvars, svars, lvars, bu, fvars>>
  \/ container = "queue"    /\ Q!Next /\ UNCHANGED <<container, rvars, hvars, cvars, vvars, svars, lvars, bu, fvars>>
  \/ container = "hash"     /\ H!Next /\ UNCHANGED <<container, rvars, qvars, cvars, vvars, svars, lvars, bu, fvars>>
  \/ container = "refcount" /\ C!Next /\ UNCHANGED <<container, rvars, qvars, hvars, vvars, svars, lvars, bu, fvars>>
  \/ container = "vector"   /\ V!Next /\ UNCHANGED <<container, rvars, qvars, hvars, cvars, svars, lvars, bu, fvars>>
  \/ container = "sort"     /\ S!Next /\ UNCHANGED <<container, rvars, qvars, hvars, cvars, vvars, lvars, bu, fvars>>
  \/ container = "list"     /\ L!Next /\ UNCHANGED <<container, rvars, qvars, hvars, cvars, vvars, svars, bu, fvars>>
  \/ container = "fixed"    /\ F!Next /\ UNCHANGED <<container, rvars, qvars, hvars, cvars, vvars, svars, lvars, bu>>

\* Refcount's fairness: a thread inside Release () finishes it.
ReleaseTestStep(t) ==
  C!ReleaseTest(t) /\ UNCHANGED <<container, rvars, qvars, hvars, vvars, svars, lvars, bu, fvars>>

\* Sort's fairness: sphSort, once called, keeps running.
SortStep == S!Next /\ UNCHANGED <<container, rvars, qvars, hvars, cvars, vvars, lvars, bu, fvars>>

Spec ==
  /\ Init /\ [][Next]_vars
  /\ \A t \in Threads : WF_vars(ReleaseTestStep(t))
  /\ WF_vars(SortStep)

Sym == Permutations(Nodes) \cup Permutations(Vecs)

\* The properties of each container (stated in its module).
NoUndefinedAccess == R!NoUndefinedAccess
FifoRefinement == R!FifoRefinement
QueueRefinement == Q!QueueRefinement
NoQueueOverflow == Q!NoQueueOverflow
WellLinked == H!WellLinked
HashRefinement == H!HashRefinement
NoUseAfterFree == C!NoUseAfterFree
DeletedAtMostOnce == C!DeletedAtMostOnce
EventuallyFreed == C!EventuallyFreed
CountWithinLimit == V!CountWithinLimit
BinarySearchFinds == V!BinarySearchFinds
VectorRefinement == V!VectorRefinement
SortsInput == S!SortsInput
StackBounded == S!StackBounded
HeapSortSorts == S!HeapSortSorts
Terminates == S!Terminates
ListConsistent == L!ListConsistent
IteratorSafe == L!IteratorSafe
\* (bu is pinned to 0 outside "bits" behaviours, so nothing is skipped there)
Log2Agrees == container = "bits" => B!Log2Agrees
ZipRoundTrip == container = "bits" => B!ZipRoundTrip
ArraysOwned == F!ArraysOwned
FixedVectorRefinement == F!FixedVectorRefinement
=============================================================================
