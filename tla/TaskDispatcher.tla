--------------------------- MODULE TaskDispatcher ---------------------------
(***************************************************************************)
(* The two task dispatchers of src/task_dispatcher.cpp and the workers     *)
(* that use them.  Dispatcher::Make builds either the greedy               *)
(* ConcurrentTaskDispatcher_c (a shared atomic counter drained by every    *)
(* SingleTaskSource_c) or the round-robin RRTaskDispatcher_c (an atomic    *)
(* fiber counter hands out fiber numbers; each RRTaskSource_c walks its    *)
(* own batches, surplus sources get a NullTaskSource_c).  Every worker     *)
(* calls MakeSource() once and then FetchTask() until it returns false;   *)
(* the atomic fetch_sub / fetch_add of the dispatchers are single steps,   *)
(* so the workers interleave at every call.                                *)
(***************************************************************************)
EXTENDS Integers, Sequences, SequencesExt

CONSTANTS
  MaxJobs,               \* largest iJobs of one operation
  Workers,               \* coroutines that each pull from their own source
  DefaultConcurrencies,  \* the iDefaultConcurrency values passed to Make
  Templates,             \* the Template_t values tWhat the caller passes
                         \* (0 = unset); ParseTemplate's atoi makes any int
  NThreads               \* Threads::NThreads()

NoTask == -1    \* the iTask a caller passes when it wants a new job

VARIABLES
  jobs,        \* m_iJobs of the dispatcher built for this operation
  template,    \* the Template_t passed to Dispatcher::Make
  defaultConcurrency,  \* the iDefaultConcurrency passed to Dispatcher::Make
  currentJob,  \* ConcurrentTaskDispatcher_c::m_iCurrentJob
  nextFiber,   \* RRTaskDispatcher_c::m_iNextFiber
  source,      \* the TaskSource_i each worker holds
  task,        \* the iTask each worker passes to FetchTask
  pc,          \* where each worker is in its pull loop
  fetched      \* history: the job indices FetchTask gave each worker

vars == <<jobs, template, defaultConcurrency, currentJob, nextFiber, source, task, pc, fetched>>

-----------------------------------------------------------------------------
(* Dispatcher::Make and the dispatcher constructors.                      *)

\* Make: a nonzero batch selects round robin.
IsRoundRobin == template.batch # 0

\* Make: tWhat.concurrency ? tWhat.concurrency : iDefaultConcurrency, then
\* the constructor's iConcurrency ? iConcurrency : Threads::NThreads().
Concurrency ==
  LET requested == IF template.concurrency # 0 THEN template.concurrency
                                               ELSE defaultConcurrency
  IN  IF requested # 0 THEN requested ELSE NThreads

NoSource     == [kind |-> "none",   fiber |-> 0, serie |-> 0, inSerie |-> 0]
SingleSource == [kind |-> "single", fiber |-> 0, serie |-> 0, inSerie |-> 0]
NullSource   == [kind |-> "null",   fiber |-> 0, serie |-> 0, inSerie |-> 0]
RRSource(f)  == [kind |-> "rr",     fiber |-> f, serie |-> 0, inSerie |-> 0]

Init ==
  /\ jobs \in 0..MaxJobs
  /\ template \in Templates
  /\ defaultConcurrency \in DefaultConcurrencies
  /\ currentJob = jobs - 1
  /\ nextFiber = 0
  /\ source = [w \in Workers |-> NoSource]
  /\ task = [w \in Workers |-> NoTask]
  /\ pc = [w \in Workers |-> "make"]
  /\ fetched = [w \in Workers |-> <<>>]

-----------------------------------------------------------------------------
(* FetchTask outcomes shared by all sources.                              *)

\* FetchTask returns true with iTask = j.
Deliver(w, j) ==
  /\ task' = [task EXCEPT ![w] = j]
  /\ pc' = [pc EXCEPT ![w] = "work"]
  /\ fetched' = [fetched EXCEPT ![w] = Append(@, j)]

\* FetchTask returns false: the worker leaves its loop.
Exhausted(w) ==
  /\ pc' = [pc EXCEPT ![w] = "done"]
  /\ UNCHANGED <<task, fetched>>

-----------------------------------------------------------------------------
(* Greedy strategy.                                                        *)

\* ConcurrentTaskDispatcher_c::MakeSource
ConcurrentMakeSource(w) ==
  /\ ~IsRoundRobin
  /\ pc[w] = "make"
  /\ source' = [source EXCEPT ![w] = SingleSource]
  /\ pc' = [pc EXCEPT ![w] = "fetch"]
  /\ UNCHANGED <<jobs, template, defaultConcurrency, currentJob, nextFiber, task, fetched>>

\* Mutant: the counter is read but never decremented (load for fetch_sub).
SingleFetchTaskNoDecrement(w) ==
  /\ pc[w] = "fetch"
  /\ source[w].kind = "single"
  /\ task[w] = NoTask
  /\ currentJob' = currentJob
  /\ IF currentJob < 0 THEN Exhausted(w)
                       ELSE Deliver(w, (jobs - 1) - currentJob)
  /\ UNCHANGED <<jobs, template, defaultConcurrency, nextFiber, source>>

\* Mutant: exhaustion tested with <= 0, off by one.
SingleFetchTaskEarlyStop(w) ==
  /\ pc[w] = "fetch"
  /\ source[w].kind = "single"
  /\ task[w] = NoTask
  /\ currentJob' = currentJob - 1
  /\ IF currentJob <= 0 THEN Exhausted(w)
                        ELSE Deliver(w, (jobs - 1) - currentJob)
  /\ UNCHANGED <<jobs, template, defaultConcurrency, nextFiber, source>>

\* SingleTaskSource_c::FetchTask with GetNextConcurrentTask (fetch_sub):
\* the job is m_iMaxJob - the counter's old value.
SingleFetchTask(w) ==
  /\ pc[w] = "fetch"
  /\ source[w].kind = "single"
  /\ task[w] = NoTask
  /\ currentJob' = currentJob - 1
  /\ IF currentJob < 0 THEN Exhausted(w)
                       ELSE Deliver(w, (jobs - 1) - currentJob)
  /\ UNCHANGED <<jobs, template, defaultConcurrency, nextFiber, source>>

-----------------------------------------------------------------------------
(* Round-robin strategy.                                                   *)

\* RRTaskDispatcher_c::MakeSource: fetch_add on m_iNextFiber; a fiber number
\* past the concurrency gets a NullTaskSource_c.
RRMakeSource(w) ==
  /\ IsRoundRobin
  /\ pc[w] = "make"
  /\ nextFiber' = nextFiber + 1
  /\ source' = [source EXCEPT ![w] = IF nextFiber < Concurrency
                                     THEN RRSource(nextFiber) ELSE NullSource]
  /\ pc' = [pc EXCEPT ![w] = "fetch"]
  /\ UNCHANGED <<jobs, template, defaultConcurrency, currentJob, task, fetched>>

\* Mutant: the end test is iJob > m_iJobs, off by one.
RRFetchTaskPastEnd(w) ==
  LET s    == source[w]
      job  == s.serie * (Concurrency * template.batch)
                + s.fiber * template.batch + s.inSerie
      next == IF s.inSerie + 1 >= template.batch
              THEN [s EXCEPT !.inSerie = 0, !.serie = @ + 1]
              ELSE [s EXCEPT !.inSerie = @ + 1]
  IN
  /\ pc[w] = "fetch"
  /\ s.kind = "rr"
  /\ task[w] = NoTask
  /\ IF s.fiber >= Concurrency \/ job > jobs
       THEN Exhausted(w) /\ UNCHANGED source
       ELSE Deliver(w, job) /\ source' = [source EXCEPT ![w] = next]
  /\ UNCHANGED <<jobs, template, defaultConcurrency, currentJob, nextFiber>>

\* Mutant: the stride forgets the number of fibers (m_iStride = iBatch).
RRFetchTaskNoStride(w) ==
  LET s    == source[w]
      job  == s.serie * template.batch + s.fiber * template.batch + s.inSerie
      next == IF s.inSerie + 1 >= template.batch
              THEN [s EXCEPT !.inSerie = 0, !.serie = @ + 1]
              ELSE [s EXCEPT !.inSerie = @ + 1]
  IN
  /\ pc[w] = "fetch"
  /\ s.kind = "rr"
  /\ task[w] = NoTask
  /\ IF s.fiber >= Concurrency \/ job >= jobs
       THEN Exhausted(w) /\ UNCHANGED source
       ELSE Deliver(w, job) /\ source' = [source EXCEPT ![w] = next]
  /\ UNCHANGED <<jobs, template, defaultConcurrency, currentJob, nextFiber>>

\* RRTaskSource_c::FetchTask: job = serie * stride + offset + jobInSerie,
\* stride = fibers * batch, offset = fiber * batch; then advance the cursor.
RRFetchTask(w) ==
  LET s    == source[w]
      job  == s.serie * (Concurrency * template.batch)
                + s.fiber * template.batch + s.inSerie
      next == IF s.inSerie + 1 >= template.batch
              THEN [s EXCEPT !.inSerie = 0, !.serie = @ + 1]
              ELSE [s EXCEPT !.inSerie = @ + 1]
  IN
  /\ pc[w] = "fetch"
  /\ s.kind = "rr"
  /\ task[w] = NoTask
  /\ IF s.fiber >= Concurrency \/ job >= jobs   \* m_bIdle, or past m_iJobs
       THEN Exhausted(w) /\ UNCHANGED source
       ELSE Deliver(w, job) /\ source' = [source EXCEPT ![w] = next]
  /\ UNCHANGED <<jobs, template, defaultConcurrency, currentJob, nextFiber>>

\* NullTaskSource_c::FetchTask returns iTask >= 0, i.e. false here.
NullFetchTask(w) ==
  /\ pc[w] = "fetch"
  /\ source[w].kind = "null"
  /\ task[w] = NoTask
  /\ Exhausted(w)
  /\ UNCHANGED <<jobs, template, defaultConcurrency, currentJob, nextFiber, source>>

-----------------------------------------------------------------------------
(* The caller's loop: having processed iTask it resets it to -1 and calls  *)
(* FetchTask again.                                                         *)
ConsumeTask(w) ==
  /\ pc[w] = "work"
  /\ task' = [task EXCEPT ![w] = NoTask]
  /\ pc' = [pc EXCEPT ![w] = "fetch"]
  /\ UNCHANGED <<jobs, template, defaultConcurrency, currentJob, nextFiber, source, fetched>>

Next ==
  \E w \in Workers :
    \/ ConcurrentMakeSource(w)
    \/ SingleFetchTask(w)
    \/ RRMakeSource(w)
    \/ RRFetchTask(w)
    \/ NullFetchTask(w)
    \/ ConsumeTask(w)

Spec == Init /\ [][Next]_vars

-----------------------------------------------------------------------------
(* Properties                                                              *)

TypeOK ==
  /\ jobs \in 0..MaxJobs
  /\ currentJob \in Int
  /\ nextFiber \in Nat
  /\ source \in [Workers -> [kind : {"none", "single", "rr", "null"},
                             fiber : Nat, serie : Nat, inSerie : Nat]]
  /\ task \in [Workers -> Int]
  /\ pc \in [Workers -> {"make", "fetch", "work", "done"}]
  /\ fetched \in [Workers -> Seq(Int)]

Delivered == UNION { ToSet(fetched[w]) : w \in Workers }

\* The dispatcher implements JobPool: whatever the interleaving of the
\* workers' MakeSource and FetchTask calls, every index 0..iJobs-1 is given
\* out at most once, no index outside that range is given out, and when the
\* last worker's FetchTask returns false every index has been given out.
\* It holds when the caller starts at least GetConcurrency() workers (see
\* RoundRobinPartition for what each fiber owns).
Pool == INSTANCE JobPool WITH remaining <- (0..(jobs - 1)) \ Delivered,
                              finished <- { w \in Workers : pc[w] = "done" }

JobPoolRefinement == Pool!Spec

\* No index is given out twice, within one worker or across two: the
\* shared counter's fetch_sub and the fibers' disjoint strides keep the
\* histories disjoint (JobPool's state is a set and cannot see a repeat).
NoJobTwice ==
  \A v, w \in Workers : \A i \in DOMAIN fetched[v], k \in DOMAIN fetched[w] :
     fetched[v][i] = fetched[w][k] => v = w /\ i = k

\* Every index FetchTask hands out is a job of this operation, 0..iJobs-1
\* (JobPool cannot see an index outside that range: giving one out leaves
\* its state unchanged).  Spec 4.3: the round-robin walk stops the first
\* time a computed index reaches the job count; ParseTemplate's atoi also
\* yields negative concurrency and batch values.
OnlyJobIndices ==
  Delivered \subseteq 0..(jobs - 1)

\* Reference partition of spec 8: fiber f of a round-robin dispatcher owns
\* exactly the indices j < iJobs whose batch number (j \div batch) is f modulo
\* the concurrency, and receives them in ascending order; a source made
\* after the fibers ran out (NullTaskSource_c) receives nothing.
RRShare(f) ==
  SetToSortSeq({ j \in 0..(jobs - 1) :
                   (j \div template.batch) % Concurrency = f }, <)

RoundRobinPartition ==
  \A w \in Workers :
    /\ source[w].kind = "rr" =>
         IF pc[w] = "done" THEN fetched[w] = RRShare(source[w].fiber)
                           ELSE IsPrefix(fetched[w], RRShare(source[w].fiber))
    /\ source[w].kind = "null" => fetched[w] = <<>>
=============================================================================
