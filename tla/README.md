# TLA+ models of the Manticore concurrency core and its library

These modules model the concurrency core in `src/`, as `spec.md` describes it, and the library of `sphinxstd.h` it is built on. The core has four parts:

- **Task dispatchers** (`task_dispatcher.cpp`). `Dispatcher::Make` builds a greedy `ConcurrentTaskDispatcher_c` or a round-robin `RRTaskDispatcher_c` for one logical operation of `iJobs` jobs. Each participating coroutine calls `MakeSource()` once. It then calls `FetchTask()` until that returns false. The `Template_t` (concurrency, batch) that selects the strategy is parsed from text by `ParseTemplate(s)`, kept as a process-wide base / pseudo-sharding pair, and overlaid with `Unify`.
- **Context cloning** (`ClonableCtx_T`, `detail/coroutine_impl.h`). Each of those coroutines calls `CloneNewContext(jobId)` to get a scratch context:
  - the first claimant gets the parent;
  - the others get clones.
  
  `Finalize` merges the clones back into the parent in job-id order. `ForAll` gets that order from `sphSort` (`sphinxstd.h`).
- **Condition variable** (`ConditionVariableAny_c` / `Waitable_T`, `detail/coroutine_impl.h`). Coroutines wait on a value with a predicate, and other coroutines change the value and notify them.
- **Task manager** (`searchdtask.cpp`). It holds a registry of job classes, each with a ceiling on concurrent runners:
  - `StartJob` admits or drops a job;
  - `ScheduleJob` arms a timer whose `OnTimer` calls `StartJob` from the timer thread;
  - the `AttachClass` wrapper keeps per-class counters while the job runs.

The library (`sphinxstd.h`) gives them their data structures: `sphSort`, `CSphVector`, `CircularBuffer_T`, `CSphQueue`, `CSphOrderedHash`, `BitVec_T`, `CSphFixedVector`, `CSphString`, the escaping appends of `EscapedStringBuilder_T`, the intrusive `List_t`, `sphLog2` and the variable-length integer encoding `sphZipValue`, and the refcounted pointers (`ISphRefcountedMT`, `CSphRefcountedPtr`, `SharedPtr_T`) that share objects between threads.

How they interact: the task manager wraps a whole unit of work. Inside it, a dispatcher partitions the job indices, and `ClonableCtx_T` gives each worker its own context. The condition variable is the blocking primitive the coroutines use.

## Modules

| Module | Models | State | Actions |
|---|---|---|---|
| `JobPool` | What every dispatcher promises (spec 4.3): indices 0..n-1 are handed out, each at most once, and all are gone when the last worker is told "no more". | `remaining`, `finished` | `Take`, `Quit` |
| `TaskDispatcher` | `task_dispatcher.cpp`: `Make`, both dispatchers, `SingleTaskSource_c`, `RRTaskSource_c`, `NullTaskSource_c`, and the caller's pull loop. | the `Template_t` and `iDefaultConcurrency` passed to `Make`; the counters `m_iCurrentJob` and `m_iNextFiber`; each worker's source cursor and `iTask`; a history of what each worker fetched | one action per `MakeSource` and `FetchTask` implementation, plus `ConsumeTask` (the caller resets `iTask`) |
| `DispatchTemplates` | `task_dispatcher.cpp` 200-268: `ParseTemplate`, `ParseTemplates`, `SetGlobalDispatchers`, the two `GetGlobal*` readers and `Unify`, as operators over texts (sequences of one-character strings). `atoi` is modelled as it reads characters: whitespace, sign, digits. `sph::Split` (empty pieces kept) and `sph::Trim` are outside `src/` and are modelled from the specification. | none: pure operators | none; `MC_Core` builds the dispatcher's `Templates` constant with them, and ASSUMEs the specification's four examples (`"4/2"`, `"0/*"`, `"4/2+8/4"`, `""`) |
| `TaskManager` | `searchdtask.cpp`: `RegisterGlobal`, `StartJob` split into its load, check and `fetch_add`, `ScheduleJob`, `OnTimer`, and `AttachClass` split into its start and three counter updates. | `g_Tasks[i]` counters; each submitter's place in `StartJob` and its snapshot; armed timers, queued and running jobs | `RegisterGlobal`, `StartJob`, `OnTimer`, `AdmissionCheck`, `Submit`, `ScheduleJob`, `JobStart`, `JobFinish`, `JobRelease`, `JobDone`, `Interrupt` |
| `ClonableCtx` | `ClonableCtx_T`: ctor, `LimitConcurrency`, `Setup`, `Concurrency`, `CloneNewContext`, `ForAll`, `Finalize`. `sphSort`'s insertion-sort branch is the RECURSIVE `SinkLeft` / `InsertionSort`. | `m_iTasks`, the slots, `m_dJobIds`, `m_bDisabled`; each coroutine's context; each context's data; the merge order | `LimitConcurrency`, `Spawn`, `CloneNewContext`, `Process`, `Finalize` |
| `Sort` | `sphSort` of `sphinxstd.h` in full: the explicit segment stack `st0`/`st1`, the depth limit, the `sphHeapSort`/`sphSiftDown` fallback, insertion sort for short segments, and Hoare partitioning around the middle key with the smaller part pushed last. `sphLog2`. | the array, the stack, `a`, `b`, `i`, `j`, `x`, `iDepthLimit`, and a program counter; `input` keeps the original array | `Pop` (pop, depth test, heap fallback / insertion sort / median), `Outer`, `PartitionStep`, `Split`, `Finish`. The insertion sort, heap sort and the `i`/`j` scans are RECURSIVE operators applied in one step. |
| `VectorSpec` | What `Vector_T`'s method comments promise: the elements form a sequence, and each mutator changes it in one step. Entries exposed without being written may hold any value. `DiscardAndReserve` either keeps everything (answer `iDiscard`) or drops the first `iDiscard` (answer 0). | `seq`, `ret` | `AddValues`, `AddUnique`, `Insert`, `Grow`, `RemoveAt`, `Truncate`, `RemoveFast`, `DiscardAndReserve`, `SortSlice`, `Uniq`, `Zero`, `MergeSorted` |
| `Vector` | `CSphVector` of an int (`Vector_T` with `DefaultCopy_T`, `DefaultRelimit`, `DefaultStorage_T`), the `VecTraits_T` sort and search, and `sphBinarySearch`, both `sphBinarySearchFirst`s and `sphUniq` as RECURSIVE operators. | `m_pData[0..m_iLimit-1]`, `m_iCount`, `m_iLimit`, the last `DiscardAndReserve` answer. Fresh storage from `new T[]` is uninitialised, so a reallocation gives the new cells any value. | one action per mutator: `Add`, `AddN`, `AppendVec`, `AddUnique`, `Insert`, `InsertOwn` (a reference to an own element), `Remove`, `RemoveFast`, `RemoveValue`, `RemoveValueFromSorted`, `Pop`, `DiscardAndReserve`, `Resize`, `Shrink`, `Reset`, `ZeroVec`, `ZeroTail`, `Sort`, `Uniq`, `MergeSorted` (its three loops are the RECURSIVE `Merge`). `Reserve` is an operator with a set of outcomes. |
| `CircularBufferSpec` | What `CircularBuffer_T` offers: a FIFO of values. | `q`, `out` | `Push`, `Pop`, `Last`, `At` |
| `CircularBuffer` | `CircularBuffer_T` (`sphinxstd.h` 5138-5250): the ring in a `CSphFixedVector`, grown by the private `Resize` to `int(m_iUsed*m_fGrowFactor)` when a push finds it full. | `m_dValues`, `m_iHead`, `m_iTail`, `m_iUsed`, the value last returned, and whether an access left the vector | `Push` (both overloads), `Pop`, `Last`, `At` (`operator []`) |
| `QueueSpec` | What `CSphQueue` offers: a bag of at most `iSize` entries keeping the greatest pushed, with the least as `Root`. | `bag`, `size`, `out` | `Push`, `Pop`, `Root`, `Clear`, `Reset` |
| `Queue` | `CSphQueue<int, SphLess_T>` (`sphinxstd.h` 5033-5135): a binary min-heap. The shift-up and shift-down loops are RECURSIVE operators. | `m_pData`, `m_iUsed`, `m_iSize`, the last `Root`, and whether an access left the array. `new T[]` gives any contents. | `Push`, `Pop`, `Root`, `Clear`, `Reset` |
| `OrderedHashSpec` | What `CSphOrderedHash` offers: a map from keys to values that iterates in insertion order; an iterator stands on a key or at `end()`. | `entries`, `ok`, `out`, `pos` | `Add`, `AddUnique`, `Assign`, `Delete`, `Find`, `Exists`, `Reset`, `Begin`, `Forward`, `Backward`, `Deref` |
| `OrderedHash` | `CSphOrderedHash<int, int, IdentityHash_fn, LENGTH>` (`sphinxstd.h` 2216-2561) on a heap of `HashEntry_t`. Its addresses are model values, so `new` may return any free one; the chain and order walks are RECURSIVE. | `m_dHash`, `m_pFirstByOrder`, `m_pLastByOrder`, `m_iLength`, each address's entry (`first`, `second`, the three links, or free), an `Iterator_c`, the last results, and whether a freed entry was read | `Add`, `AddUnique`, `Assign` (`operator []`), `Delete`, `Find` (`operator ()`), `Exists`, `Reset`, `Begin`, `Step` (`++` / `--`), `Deref` |
| `Refcount` | `ISphRefcountedMT` (`sphinxstd.h` 4811-4845) shared by threads through `CSphRefcountedPtr` (3936-4027), `SharedPtr_T` (4923-5011), `ConstCastPtr` and `VecRefPtrs_t`. `Release` is two steps: the `fetch_sub`, then the test of its result and `delete this`. | `m_iRefCount` of each address; the live addresses; deletions since the last `new`; each thread's handles and raw owning pointers (bags); each thread's place inside `Release` | `New`, `Adopt`, `Copy`, `Pass`, `AssignCopy`, `Drop`, `Leak`, `RawAssign`, `ReleaseRaw`, `ReleaseTest` |
| `ListSpec` | What `List_t` offers: a sequence of distinct nodes from `Begin ()` to `End ()`; `Add` appends a node at the tail, as its comment says, `Remove` takes it out, `HardReset` forgets all. | `lseq` | `Add`, `Remove`, `HardReset` |
| `List` | `List_t` (`sphinxstd.h` 5268-5376): the links of every node and of `m_tStub`, `m_iCount`, and a range-for through `Iterator_c`, whose saved `m_pNext` lets the body unlink its node. | `m_pNext`/`m_pPrev` of each node and the stub, `m_iCount`, the iterator's two pointers, and as history the nodes present at `begin ()` and those given to the body | `Add`, `Remove`, `RemoveCurrent` (the body unlinks its node), `HardReset`, `IterBegin`, `IterNext` (`++`), `IterEnd` |
| `Log2Zip` | `sphLog2`/`sphLog2const` of `sphinxstd.h` (432-465) and of `std/log2_impl.h`, every `#if` build, and `sphCalcZippedLen`/`sphZipValue` (5397-5427), as operators. `__builtin_clz (0)` is undefined, so `Clz` of 0 is the set of every count. | the argument | none: each initial state is one call |
| `FixedVectorSpec` | What `CSphFixedVector` offers: a sequence per vector whose length changes only by `Reset`, assignment, `CopyFrom`, `LeakData`, moves and `Set`. `assigned` records whether the last step assigned a newly built vector, so that no other call (a `Reset` that loses the contents) can pass for one. | `fv`, `assigned` | `Reset`, `Fresh`, `CopyFrom`, `Write`, `Zero`, `Empty`, `Move`, `Swap`, `Adopt` |
| `FixedVector` | `CSphFixedVector<int>` (`sphinxstd.h` 2130-2210) over arrays at model addresses; the caller may hold arrays it took with `LeakData`. `Reset` is an operator with the set of results `new[]` may give. | `m_pData`, `m_iCount` of each vector; the live addresses and their cells; the caller's leaked arrays; as history, whether the last call was an assignment of a new vector | `Reset`, `AssignNew` (`= CSphFixedVector ( n )`), `CopyFrom`, `LeakData`, `FreeRaw` (the caller's `delete[]`), `SetData` (`Set`), `SwapData`, `MoveAssign`, `ZeroVec`, `Write` |
| `MC_Library` | `Sort`, `Vector`, `CircularBuffer`, `Queue`, `OrderedHash`, `Refcount`, `List`, `Log2Zip` and `FixedVector` side by side in one run. `Init` picks the component a behaviour exercises; the others stay in one initial state, so the run's states are the sum of the nine models'. | | |
| `BitVecSpec` | What `BitVec_T` offers: each object is a number of bits and the set of those that are set. Copies copy, a move leaves the source empty, `Swap` exchanges. | `size`, `bits`, the last boolean and numeric answers | `InitElements`, `Clear`, `Set`, `BitGet`, `BitSet`, `BitClear`, `BitCount`, `Scan`, `IsEmpty`, `Swap`, `CopyAssign`, `MoveAssign` |
| `BitVec` | `BitVec_T` (`sphinxstd.h` 4606-4788) with words of `SIZEBITS` bits. `m_pData` points to the object's own `m_dStatic`, to a heap array at a model address, or is null. The temporaries of `operator=` are records built, swapped and destroyed in one step. | each object's `m_pData`, `m_dStatic` and `m_iElements`; the array at each address; the live addresses; the last answers | `InitElements` (`Init`), `Clear`, `Set`, `BitGet`, `BitSet`, `BitClear`, `BitCount`, `Scan`, `IsEmpty`, `Swap`, `CopyAssign`, `MoveAssign` |
| `MC_BitVec` | `BitVec` with symmetry over its objects and addresses. | | |
| `StringSpec` | What `CSphString` offers: each string is null or a text; the caller holds a bag of texts it took with `Leak`. | `val`, `held` | `Assign`, `FromLiteral`, `SetBinary`, `Reserve`, `Destroy`, `Trim`, `Unquote`, `SubString`, `Move`, `Swap`, `Leak`, `Adopt`, `FreeRaw` |
| `CSphString` | `CSphString` (`sphinxstd.h` 2590-2941) over `new char[]` buffers at model addresses, the shared static `EMPTY`, and `'\0'` as the cell `Nul`; `strlen` is the RECURSIVE `Scan`. `operator=` takes its argument by value, so each assignment is one step: construct the temporary, swap, destroy the old value. | `m_sValue` of each string; each address's cells; the live addresses; the buffers the caller took with `Leak`; whether an access left an allocation or a `delete[]` freed what `new[]` did not return | `Assign`, `FromLiteral`, `MoveAssign`, `SwapStr`, `SetBinary`, `Reserve`, `Destroy`, `Trim`, `Unquote`, `Leak`, `Adopt`, `FreeRaw` (the caller's `delete[]`), `SubString` |
| `EscapedStringBuilder` | `EscapedStringBuilder_T<T>` (`sphinxstd.h` 3361-3815) over a `StringBuilder_c` buffer: the five dedicated escaping functions (their openings, the character loop with its grow, the closing quote), `FixupSpacesAndAppend`, and `AppendEscaped`'s selector and generic path. `GrowEnough` is translated; `Grow`, whose body is in `sphinxstd.cpp`, is taken from its declaration: a buffer of `m_iUsed+iLen+GROW_STEP` cells keeping the first `m_iUsed+1`. `Delim ()` is the delimiter it returns. `want` is what the call is documented to append (`EscBld`'s comments). | the buffer cells by C index, `m_iSize`, `m_iUsed`, whether a write left the buffer; the loop's `pCur`, `pSrc`, `iLen` | `StartEscaped`, `EscStep`, `EscEnd`, `StartFixup`, `FixStep`, `FixEnd`, `AppendGeneric` |
| `MC_Core` | `TaskManager` and `TaskDispatcher` side by side in one run (a `container` variable picks the component; the dispatcher's `pc` is renamed `dpc`), with the caller-built templates and the parser examples. `MC_TaskManager` and `MC_TaskDispatcher` remain for the two violation runs. | | |
| `MC_VectorInsert` | `Vector` with `AliasAny` TRUE and one history variable, `passed`: the value the caller's reference named when `InsertOwn` was called. | | |
| `MC_Primitives` | `ClonableCtx`, `CondVar`, `CSphString` and `EscapedStringBuilder` side by side in one run, as `MC_Library` does. It keeps `CSphString`'s refinement mapping in two auxiliary variables (`aval`, `aheld`, functions of the state) so TLC computes it once per state. | | |
| `CondVar` | `ConditionVariableAny_c::Wait/WaitUntil` with a predicate, `Waitable_T` Set/Update/Modify with NotifyOne or NotifyAll. | `m_tValue`, the mutex, the wait-queue spinlock, the queue, each waiter's and notifier's place | `WaiterLock`, `WaiterCheck`, `WaiterSuspend`, `WaiterTimeout`, `WaiterTimedReturn`, `NotifierStart`, `NotifierMutate`, `NotifierNotify` |

Each `MC_*` module instantiates one of these for TLC. It declares model values for workers, callers or waiters, a symmetry set where the actors are interchangeable, and the definitions TLC cannot take from a `.cfg` (sequences, negative numbers).

How the code's atomic steps become actions:

- Every atomic operation of the code is one step. This covers each `fetch_add`/`fetch_sub`, each relaxed load, and each mutex- or spinlock-protected region.
- Where the code does several atomics in a row, they are separate actions:
  - `StartJob`'s load, check and add;
  - `AttachClass`'s three counter updates;
  - the waiter's lock, check, enqueue and relock.
- The one exception is a guard that holds a lock across the steps.

`PROJECT.json` maps every definition to the lines it translates.

## Runs

| Run | Config | Expect | What it shows |
|---|---|---|---|
| core | `MC_Core.cfg` | pass | See below. |
| dispatch_negbatch | `MC_TaskDispatcher_negbatch.cfg` | violation | `ParseTemplate` turns `"2/-1"` into batch -1 through `atoi`. The round-robin sources then hand out negative indices for ever (`task_dispatcher.cpp:123`). |
| taskmanager_ceiling | `MC_TaskManager_ceiling.cfg` | violation | Spec 8's "exactly max are admitted" does not hold. Two submitters that both load `m_iAllRunners` = 0 are both admitted past ceiling 1. |
| primitives | `MC_Primitives.cfg` | pass | See below. |
| vector_leftmost | `MC_Vector_leftmost.cfg` | violation | The int `sphBinarySearchFirst` returns `iEnd` once the range is at most two elements, unchecked. On `[0]` it answers 0 for value 1, where its comment promises -1 (`sphinxstd.h:962`). |
| library | `MC_Library.cfg` | pass | See below. |
| circular_small | `CircularBuffer_small.cfg` | violation | A buffer of length 0 resizes to `int(0*1.5)` = 0 on the first push, writes through a null pointer and takes `% 0`. Length 1 resizes to 1 and writes past the end. The move constructor leaves the moved-from buffer at length 0 (`sphinxstd.h:5173`). |
| bitvec | `MC_BitVec.cfg` | pass | See below. |
| bitvec_count | `MC_BitVec_count.cfg` | violation | `Set ()` fills whole words, padding bits included, and `BitCount ()` counts whole words: a 3-element vector reports 4 set bits (`sphinxstd.h:4741`). |
| vector_insert_own | `MC_VectorInsert.cfg` | violation | `Insert` handed a reference to one of the vector's own elements reads it only after `Reserve` and the shift. TLC inserts element 1 of a full vector of two: the reallocation frees the buffer the reference points into, and another value is placed. Within the limit the shifted neighbour is placed. `Add` asserts against this ("inserting own value (like last()) by ref!", `sphinxstd.h:1640`); `Insert` does not (`sphinxstd.h:2048`). |
| list_add_tail | `List_addtail.cfg` | violation | `List_t::Add` is commented "Append the node to the tail" but links the node right after the stub. After `Add ( n2 )`, `Add ( n1 )`, `Begin ()` reaches `n1` first, so the list does not refine the tail-appending `ListSpec` (`sphinxstd.h:5286`). |
| string_unquote | `MC_Primitives_unquote.cfg` | violation | `CSphString::Unquote` on the text `'` (one quote, which `SubString` or a literal gives): the first and the last character are the same cell, so the test passes, `memmove` gets `l-2` = (size_t)-1 and `m_sValue[-1]` is written (`sphinxstd.h:2929`). |

**core** checks the task manager and the dispatchers, one per behaviour. The dispatchers use three workers, up to 5 jobs, and every template a caller can build: `Unify` of a parsed overlay (`""`, `"*/0"`, `"0/1"`, `"0/2"`, `"1/1"`, `"3"`) over the base or the pseudo-sharding template of a parsed global string (unset, `"'3/2+1/*'"`, `" 1 / 1 +x"`). That set is exactly concurrency {unset, 1, 3} × batch {unset, 1, 2}. It checks:

- `NoJobTwice`;
- `OnlyJobIndices`;
- `RoundRobinPartition`: each fiber gets exactly the batches `j div batch ≡ f (mod concurrency)`, in ascending order;
- `JobPoolRefinement`: the dispatcher with its workers implements `JobPool`.

The task manager uses two callers plus the timer thread, a class with ceiling 1, an unlimited class, and two calls per caller. It checks:

- `CountersMatchJobs`: every counter equals the number of jobs in the states it is meant to count, including between the wrapper's separate updates;
- `CeilingOvershootBounded`: the overshoot is at most one job per concurrent submitter;
- `EventuallyIdle`: every admitted job eventually releases its place.

**primitives** checks four primitives, one per behaviour.

- `ClonableCtx_T` with four threads, one to four jobs, and `LimitConcurrency` with 0..3 (or not at all). Job ids are distinct and in reverse coroutine order, so the sort has work to do.
  - `ContextsExclusive`;
  - `FinalizeCollectsAll`;
  - `MergeOrderByJobId`.
- `Waitable_T` with two waiters, one of them timed, and two notifiers. The first notifier does modify-and-notify-all. The second does update(1)-and-notify-one, then set(2)-and-notify-all. Whatever the interleaving, `EveryWaiterReturns`: every waiter returns, and every untimed waiter returns with its predicate true.
- `CSphString` with two strings over three addresses, and the texts nullptr, `""`, `'` and ` 'aa' ` passed in. Every call is made on every string, self-assignment and self-move included.
  - `BuffersOwned`: no access leaves an allocation and no `delete[]` frees `EMPTY` or a freed buffer; each live buffer has exactly one owner, a string or the caller; and every buffer read as a C string has its `'\0'`.
  - `StringRefinement`: the strings refine `StringSpec`, with `cstr ()` read up to its `'\0'`. So `SetBinary` reusing a buffer leaves no old tail, `Trim` and `Unquote` shift the right cells, and `Leak` of `""` hands out a buffer of its own.
- `EscapedStringBuilder_T` for a trait that escapes the quote, over texts of up to two characters from `a`, `'` and a tab, every `eAct` and limit (-1 to 3), no delimiter or `,`, from no buffer or one holding up to one character with one to five free cells.
  - `WritesInAllocation`: no append writes outside the buffer. The loops test for room only after writing a character, which an escape makes two cells, so this rests on the margins `pEnd-3` and `pEnd-2`.
  - `AppendsEncoding`: a finished append leaves `m_iUsed` inside the buffer with `'\0'` at it, and before it the old content, the comma unless `eSkipComma`, then the text cut to `iLen`, fixed up, escaped and quoted as `eAct` says. This holds across the grows inside a loop, which set `m_iUsed` to the last character written.

In **library**, `sphSort` runs on every array of length 0 to 6 over the keys {0, 1, 2}, so there are many duplicates. The run checks:

- `SortsInput`: when the sort returns, the array is the input in ascending order. The reference is a counting definition of the sorted array.
- `StackBounded`: the stack never holds `sphLog2(n)` segments. This is the bound that keeps `st0[32]` in range. It is tight: TLC reaches `sphLog2(n) - 1`.
- `HeapSortSorts`: `sphHeapSort` on its own sorts every input.
- `Terminates`: every call returns.

In **library**, `Vector_T` runs every sequence of calls on up to four elements from {0, 1, 2}, `MergeSorted` of two other sorted vectors of up to two elements from {0, 1} included. In this run `Insert` gets a reference to an own element only when neither the shift nor a reallocation can move it. It checks:

- `VectorRefinement`: `m_pData[0..m_iCount-1]` refines `VectorSpec`, whatever the reallocations, in-place moves of `DiscardAndReserve` and compactions of `Uniq`.
- `CountWithinLimit`: `m_iCount <= m_iLimit`, and the limit is one that `Relimit` produces.
- `BinarySearchFinds`: on a sorted vector, `BinarySearch` finds a value exactly when it is present.

**library** also checks seven more components of `sphinxstd.h`. Each behaviour exercises one of its nine components:

- `CircularBuffer_T` starts from lengths 2 and 3, with growth factor 3/2, and mixes up to five pushes with pops, `Last` and `[]`.
  - `NoUndefinedAccess`: no push writes outside the vector or takes a remainder by zero.
  - `FifoRefinement`: the ring read from `m_iHead` refines `CircularBufferSpec`'s FIFO, across every wrap and every `Resize`.
- `CSphQueue` has capacity 0, 2 or 4 and entries {1, 2, 3}. `Reset` is called only on an empty queue, as the constructor does.
  - `NoQueueOverflow`: `Push`, `Pop` and `Root` never touch a cell outside `m_pData[0..m_iSize-1]`. A full queue rejects or pops before it stores, so `m_pData[m_iSize]` is never written.
  - `QueueRefinement`: the heap refines `QueueSpec`'s bag. `Root` is always the least entry kept, and a full queue rejects a lesser entry or replaces its root.
- `CSphOrderedHash` has two buckets, keys {0, 1, 2} (0 and 2 collide) and three addresses. No entry that an iterator holds is deleted.
  - `WellLinked`: each live entry is in exactly one chain (its own bucket's) and once in the order list; the order list's back links mirror its forward links; its ends and `m_iLength` match; nothing is leaked.
  - `HashRefinement`: the hash refines `OrderedHashSpec`. Lookups through the chains, and iteration in both directions through the order list, see the same insertion-ordered map.
- Refcounting has two threads, two addresses (reused after a delete) and at most two owned references per thread. Each thread creates, adopts, copies, passes to the other thread, copy-assigns (self-assignment included), leaks, raw-assigns and drops references.
  - `NoUseAfterFree`: no handle or raw owning pointer ever points at a deleted object.
  - `DeletedAtMostOnce`: when two threads release the last two references at once, exactly one deletes.
  - `EventuallyFreed`: an object that nobody owns any more is eventually deleted, so no sequence of operations leaks a reference.
- `List_t` has three nodes, added and removed in every order, reset, and iterated by a range-for whose body may unlink the node it is given or add nodes. Its refinement of `ListSpec` is the `list_add_tail` violation run.
  - `ListConsistent`: the back links mirror the forward links along the chain from the stub, the chain is closed by the stub, and `m_iCount` is its length.
  - `IteratorSafe`: the iterator's saved successor is always in the list or the stub, so `++` never follows a cleared pointer.
- `sphLog2` and `sphZipValue` are called on every argument of up to 9 bits and on 2^k-1, 2^k and 2^k+1 up to 2^16, with `unsigned` 8 bits and `uint64_t` 16 bits wide.
  - `Log2Agrees`: every build of `sphLog2` in `sphinxstd.h`, and `sphLog2const`, give the number of bits the argument needs (0 for 0); every build of `log2_impl.h`'s gives the same for non-zero arguments and 1 for 0. No build relies on `clz` or `BitScanReverse` of 0.
  - `ZipRoundTrip`: `sphZipValue` writes `sphCalcZippedLen` bytes, all but the last flagged 0x80, that decode to the argument, with no empty leading group.
- `CSphFixedVector` has two vectors of up to two elements from {0, 1}, over three addresses, and a caller that can take arrays with `LeakData`, free them, or hand them to `Set`.
  - `ArraysOwned`: every live array has exactly one owner, a vector or the caller, and each vector's array is live and as long as its count.
  - `FixedVectorRefinement`: the vectors refine `FixedVectorSpec`, call for call; `Reset` to the same size, and `CopyFrom` of a whole vector into itself, keep the contents.

**bitvec** runs every sequence of calls on two `BitVec_T` objects of 2 or 4 elements: `Init`, `Clear`, `Set`, the bit calls, `Scan`, `BitCount`, `IsEmpty`, `Swap`, and copy and move assignment, self-assignment included. It checks:

- `StorageOwned`: each heap array belongs to exactly one object (none leaked, none shared), a static object fits `STATICBITS`, a heap array has `CalcStorage ()` words, and a null `m_pData` means no elements.
- `BitVecRefinement`: the objects refine `BitVecSpec`'s bit sets, and every query answers as the set says, across every static/heap `Swap`.

The library run declares symmetry over the addresses of `Nodes` (the hash's entries, `List_t`'s nodes and `CSphFixedVector`'s arrays) and over the two fixed vectors, which TLC warns about because the run also checks liveness. Those values occur only in the state of those three components, and the liveness properties (`Terminates`, `EventuallyFreed`) concern the sort and the refcounts, so the reduction cannot hide a violation of them.

Every property of a passing run has a mutant in `PROJECT.json`: a plausible bug in the translated code that TLC catches under that run's configuration. The mutants are:

- a dropped decrement;
- off-by-one end tests;
- a stride without the fiber count;
- `>` for `>=` in the ceiling test;
- a job counted but not enqueued;
- a missing `--iMyIdx`;
- a reversed comparison;
- an insertion sort that stops one element early;
- segments popped from the bottom of the stack;
- a sift-down that ignores the last child;
- partition cursors not stepped past a swapped pair;
- `AddN` reserving the gap instead of the new size;
- a binary search that skips the `pEnd` test;
- `DiscardAndReserve` forgetting to move the kept elements down;
- releasing the mutex before taking the spinlock;
- `CircularBuffer_T::Resize` called with `m_iUsed`, without the growth factor;
- `Resize` copying the cells in storage order instead of from `m_iHead`;
- `CSphQueue`'s shift-down selecting the larger child;
- `CSphOrderedHash::Delete` not updating the successor's `m_pPrevByOrder`;
- `Delete` unlinking the entry as if it were first in its chain;
- copy assignment releasing the old object before referencing the new one;
- `Release` testing a re-read of the counter instead of `fetch_sub`'s result;
- `Release` comparing `fetch_sub`'s result with 0 instead of 1;
- `BitVec_T::Init` not deleting the heap array it replaces;
- `BitVec_T::Swap` not copying `m_dStatic` across when a static object swaps with a heap-backed one;
- `Remove` not decrementing `m_iCount`;
- `Iterator_c::operator++` reading the successor from the node the body just unlinked;
- `sphLog2` without its test for zero;
- `sphCalcZippedLen` without the shift before its loop;
- `CSphFixedVector::Reset` without its early return for an unchanged size;
- `CSphQueue::Push` testing `m_iUsed>m_iSize` for a full queue;
- `LeakData` calling `Reset ( 0 )` before clearing `m_pData`;
- `MergeSorted` without its last loop over `dB`;
- `CSphString::SafeFree` without its test for `EMPTY`;
- `SetBinary` reusing the buffer without the `memset` after the new text;
- the escaping loops testing `pEnd-2`, the margin of the space-fixing one;
- `AppendEmptyQuotes` counting the terminator in `m_iUsed`.

Some disagreements between the code and its comments, and caller contracts the code does not check, are recorded here rather than as runs; those that are hazards of the code are also in `PROJECT.json`, with the constants that reproduce them:

- The pointer `sphBinarySearchFirst` returns the first entry not less than `tRef`, though its comment says "greater than".
- Deleting the entry an `Iterator_c` holds, inside a range-for, leaves `++` reading freed memory (`DeleteIterated` TRUE).
- `CSphQueue::Reset` keeps `m_iUsed`, so after a `Reset` on a non-empty queue the next `Root` reads outside the new array (`ResetAny` TRUE).
- Spec 4.2 says `ForAll` visits the children in job-id order, independent of claim order. With `CloneNewContext ( nullptr )` every job id is 0, and no sort can order equal ids, so the order then follows which coroutine claimed which slot. `MergeOrderByJobId` is checked with distinct ids.
- The two `sphLog2`s disagree at 0: `sphinxstd.h`'s returns 0, `log2_impl.h`'s (which takes `uValue | 1`) returns 1. For a negative `int`, `log2_impl.h` casts to `unsigned` (32) where `sphinxstd.h`'s `uint64_t` parameter sign-extends (64). `Log2Agrees` states each header's own answer at 0.
- `sphCalcZippedLen` of a negative signed value never ends: the arithmetic shift stops at -1. Only unsigned arguments are given.
- `CSphFixedVector::CopyFrom` given a slice of the same vector of another length frees the source in `Reset` before reading it, and `Set` on a non-empty vector leaks the array it replaces. The model keeps to both contracts.
- `MergeSorted` given the vector itself as `dA` or `dB` writes over its input while reading it; the model merges other vectors only.
- `EscapedStringBuilder_T::AppendEscaped` reads `iLen` in two ways. The escaping modes stop at the terminator or after `iLen` characters. `eNone` and `eFixupSpace` with a limit copy exactly `iLen` characters, past the terminator of a shorter text. The model gives those modes limits within the text. An empty text appends nothing in the unescaped modes, but a non-empty one with limit 0 still appends the comma; `want` states what the code does.
- `AppendEscaped`'s loops keep the last written character only because `Grow` (in `sphinxstd.cpp`) copies `m_iUsed+1` cells; the model takes that from the terminator `Grow` must keep.

## Bounds and why they are enough

- **Dispatcher.** Five jobs with batch 2 and concurrency 3 give every fiber a full batch, a partial batch and an empty share. Three workers against concurrency 1 give surplus `NullTaskSource_c`s. `Make`'s `iDefaultConcurrency` is 0 or 2 (no caller under `src/` fixes it): an unset template concurrency takes 2, or with 0 falls through to `NThreads ()` (3).
- **Task manager.** Ceiling 1 with three possible submitters is the smallest case where the snapshot race can overshoot, and lets `CeilingOvershootBounded` be reached with equality.
- **ClonableCtx.** Four threads give three slots, enough for every claim order of three clones to be sorted non-trivially, and for every `LimitConcurrency` shrink.
- **Sort.** `SMALL_THRESH` is 32 in the code; the run uses 1, so that arrays of up to 6 elements go through partitioning, the stack and the insertion sort alike. No control decision depends on the threshold's value except which branch a segment takes. The depth limit `(5*sphLog2(n))>>1` is not used up for any n <= 12, because the stack's bottom segment is popped fewer times than that. The heap-fallback arm of `Pop` is therefore not reached, and `HeapSortSorts` checks `sphHeapSort` directly on every input.
- **Vector.** `MAGIC_INITIAL_LIMIT` is 8 in the code; the run uses 2, so four elements already pass through limits 2 and 4 and both `DiscardAndReserve` paths. Three key values give duplicates for `Uniq` and the searches, and a miss between two present values.
- **CircularBuffer.** Lengths 2 and 3 grow to 3 and 4, so five pushes cover a growth from a wrapped ring; lengths 1 and 0 are the `circular_small` run. Two values suffice to tell FIFO order from any other.
- **OrderedHash.** Two buckets and keys {0, 1, 2} give a two-entry chain, so `Delete` meets both the chain head and a chain successor. Three addresses give every position in the order list: first, middle and last. Addresses are symmetric, because `new` may return any free one.
- **Queue.** Capacity 4 is the smallest for which a shift-down meets two children and a shift-up climbs two levels. Capacity 0 is the null-array case. Three entry values give duplicates and rejections.
- **Refcount.** Two threads are the fewest for a concurrent last release. Two addresses let a thread hold references to two objects, so copy-assignment meets both another object and itself. Two references per thread let both threads hold the same object twice.
- **BitVec.** Words of 2 bits and `STATICBITS` 2: two elements use `m_dStatic`, four a heap array of two words, so `Swap` meets all four static/dynamic cases and `Scan` crosses words. Three addresses let a copy assignment between two heap-backed objects allocate before it frees. The passing run uses whole words only; `bitvec_count` takes 3 elements, which leave a padding bit.
- **List.** Three nodes give a first, middle and last node, so `Remove` meets every neighbour case, and a loop body can unlink its node while another node follows and add one before it.
- **Log2Zip.** The algorithms depend on the width only through `UW` and `LW`; at 8 and 16 the Windows build still splits the argument into two halves with both non-empty, and the zip arguments reach three bytes. TLC's integers cannot hold the real 64-bit values. `sphBitCount`'s HACKMEM constants need the real widths, so it is not modelled.
- **FixedVector.** Sizes 0..2 give the null array, and both a same-size and a different-size `Reset`. Three addresses let `AssignNew` allocate while the old array is live, with a leaked array held by the caller.
- **CSphString.** Three addresses let an assignment, `SubString` or `Leak` of `""` allocate while both strings hold a buffer. ` 'aa' ` is the shortest text that has blanks to trim, quotes to strip once trimmed, and a length of at least `1 + SAFETY_GAP + 1`, so `SetBinary` of `'` over it takes the reuse branch; `SubString` cuts `'` out of it. `""` and nullptr give `EMPTY` and the null value.
- **EscapedStringBuilder.** `GROW_STEP` (64) and `GrowEnough ( 32 )` keep the code's values. `GrowEnough ( 3 )` keeps a buffer with four free cells, and the loop then grows it on the second character, or on the first if that is escaped; with one to three free cells it grows before the loop, and with five it does not grow at all. Two-character texts therefore reach every grow in every loop. A comma of one character moves the start by one.
- **CondVar.** Two waiters and a notify-one call make one waiter's wake-up depend on the other's. The unlocked `GetValue` skip path fires when the update's value is already there.

## Fairness

Weak fairness is assumed only where the code guarantees progress:

- a thread inside `StartJob` finishes the call;
- the timer facility fires armed nodes;
- the scheduler runs every job it was given;
- a runnable coroutine is eventually resumed;
- a thread inside `Release` finishes it (`ReleaseTest`).

Callers are not obliged to call, the daemon is not obliged to shut down, and a `WaitUntil` deadline is not obliged to pass, so those actions are not fair. Runs that end (all workers exhausted, all calls made) say `CHECK_DEADLOCK FALSE`, because the operation really is over. The `library` and `primitives` runs say it too: callers of these classes may stop at any point. Its correct models never deadlock, but a leaked refcounted object keeps its address live for ever.

## Not modelled (yet)

- `SetGlobalDispatchers` racing the `GetGlobal*` readers. `g_GlobalDispatcherTemplates` is a plain `std::pair`, so a concurrent write could be read torn. But no caller in `src/` calls `SetGlobalDispatchers`, so whether it ever runs concurrently with the readers cannot be read from this code. `atoi` of a number past `INT_MAX` (undefined) is not among the texts.
- `CircularBuffer_T::Swap`, its move constructor and `operator=`, which only exchange members; their effect, a buffer of length 0, is the `circular_small` run.
- `CSphOrderedHash`'s copy constructor (a loop of `Add`) and `Swap`, the move constructor and `operator=`, which exchange two hashes' members.
- `sphBitCount` (its constants need 32- and 64-bit arithmetic), `List_t`'s `ListedData_t` payload, and `CSphFixedVector`'s `LazyStorage_T` and owned-storage variants. The payload behind a refcounted pointer, and the release/acquire memory order of `Release`: TLC explores sequentially consistent interleavings only.
- Of `Vector_T`: `SwapData`, `LeakData`, `AdoptData`, copy and move, the `RawStorage_T`, `LazyStorage_T` and `SwapCopy_T` back-ends, and `TightRelimit`.
- `ScopedScheduler_c`, `Continue` and `Throttler_c`, which are thin wrappers over a scheduler that lives outside `src/`.
- `accumulator.h` (declarations only), `columnarmisc.cpp` (columnar I/O glue), `std/timers.h` (clock declarations), and `StringBuilder_c`'s appends, blocks and number formatting, whose bodies are in `sphinxstd.cpp`, outside `src/` (the escaping appends of `EscapedStringBuilder_T` are modelled); logging (formatting only).
- Of `CSphString`: the comparisons and case helpers (`ToLower`, `ToUpper`, `Begins`, `Ends`, `operator<`), which change no buffer but their own characters; `SetSprintf`; and `LeakToVec`, which hands the buffer to a `CSphVector`. `isspace` is modelled as the one blank character. `SetBinary` given a pointer into the string's own buffer frees it before reading it when it allocates; the model passes only texts the caller owns, as callers must. The copy constructor copies `strlen+2` bytes, one past the terminator, which is safe for every buffer the class allocates; a buffer adopted from elsewhere with no spare byte would be over-read, and the model adopts only buffers `Leak` handed out.
- Timestamps in the task statistics.
- The lock wrappers (`CSphScopedLock`, the read-write lock classes) and `LazyComma_c`/`Delim`: their bodies are in `sphinxstd.cpp` or the platform library, outside `src/`, and the headers only forward to them. `TightRelimit`'s float growth factor is left out because TLC has no floating-point arithmetic. The macros of `generics.h` change no state.

## Plan for the next modules

1. The predicate-less waits and `ExchangeValue` of `Waitable_T`.
2. Task manager extras: the unregistered slot that `StartJob`'s assert admits, registration beyond `NUM_TASKS`, and `RegisterGlobal` racing `StartJob`.
