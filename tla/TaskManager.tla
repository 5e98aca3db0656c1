---------------------------- MODULE TaskManager ----------------------------
(***************************************************************************)
(* The task-class registry of src/searchdtask.cpp: RegisterGlobal,         *)
(* TaskManager::StartJob with its admission control, the AttachClass       *)
(* wrapper that keeps the per-class counters while a job runs, and         *)
(* ScheduleJob whose ScheduledTask_c calls StartJob from the timer thread. *)
(*                                                                         *)
(* StartJob is not atomic: it loads m_iAllRunners (line 69), then tests    *)
(* sphInterrupted() and the ceiling against that snapshot, and only then   *)
(* does fetch_add (line 86) and hands the wrapped job to the scheduler.    *)
(* Each submitting thread therefore takes three steps, and other threads,  *)
(* the timer and the running jobs interleave between them.  The counters  *)
(* are relaxed atomics; each update is one step.  Timestamps (m_iLastFin-  *)
(* ished, m_iTotalSpent) and names are left out.                           *)
(***************************************************************************)
EXTENDS Integers, Sequences, FiniteSets

CONSTANTS
  Limits,    \* iThreads of each RegisterGlobal call, in registration order
  Callers,   \* threads that call StartJob / ScheduleJob
  Timer,     \* the timer thread that runs ScheduledTask_c::OnTimer
  MaxCalls   \* StartJob + ScheduleJob calls per caller (bound)

Ids == 0..(Len(Limits) - 1)          \* TaskIDs handed out by RegisterGlobal
Submitters == Callers \cup {Timer}   \* every thread that runs StartJob

VARIABLES
  registered,   \* g_iTasks
  maxRunners,   \* g_Tasks[i].m_iMaxRunners
  allRunners,   \* g_Tasks[i].m_iAllRunners (running + enqueued)
  curRunners,   \* g_Tasks[i].m_iCurrentRunners
  totalRun,     \* g_Tasks[i].m_iTotalRun
  dropped,      \* g_Tasks[i].m_iTotalDropped
  interrupted,  \* sphInterrupted()
  pc,           \* where each submitter is inside StartJob
  job,          \* the iTask a submitter's StartJob works on
  snapshot,     \* its local iAllRunners
  calls,        \* calls each caller has made so far
  timers,       \* ScheduledTask_c nodes armed in the timer heap, per id
  queued,       \* jobs given to Threads::StartJob, not started yet, per id
  running,      \* AttachClass wrappers inside fnWorker(), per id
  submitted,    \* history: StartJob calls that returned, per id
  leaving,      \* jobs whose wrapper did m_iCurrentRunners.fetch_sub only
  released      \* ... and also m_iAllRunners.fetch_sub, not m_iTotalRun yet

vars == <<registered, maxRunners, allRunners, curRunners, totalRun, dropped,
          interrupted, pc, job, snapshot, calls, timers, queued, running,
          submitted, leaving, released>>

Zero == [i \in Ids |-> 0]

Init ==
  /\ registered = 0
  /\ maxRunners = Zero          \* static g_Tasks is zero-initialised
  /\ allRunners = Zero
  /\ curRunners = Zero
  /\ totalRun = Zero
  /\ dropped = Zero
  /\ interrupted = FALSE
  /\ pc = [s \in Submitters |-> "idle"]
  /\ job = [s \in Submitters |-> 0]
  /\ snapshot = [s \in Submitters |-> 0]
  /\ calls = [c \in Callers |-> 0]
  /\ timers = Zero
  /\ queued = Zero
  /\ running = Zero
  /\ submitted = Zero
  /\ leaving = Zero
  /\ released = Zero

Inc(f, i) == [f EXCEPT ![i] = @ + 1]
Dec(f, i) == [f EXCEPT ![i] = @ - 1]

-----------------------------------------------------------------------------
\* TaskManager::RegisterGlobal: fetch_add on g_iTasks, then the slot's
\* limit is written.  Registration happens at start-up, before traffic.
RegisterGlobal ==
  /\ registered < Len(Limits)
  /\ \A s \in Submitters : pc[s] = "idle"
  /\ registered' = registered + 1
  /\ maxRunners' = [maxRunners EXCEPT ![registered] = Limits[registered + 1]]
  /\ UNCHANGED <<allRunners, curRunners, totalRun, dropped, interrupted, pc,
                 job, snapshot, calls, timers, queued, running, submitted,
                 leaving, released>>

\* StartJob, lines 65-69: a caller enters with a registered id and loads
\* m_iAllRunners.
StartJob(c, t) ==
  /\ pc[c] = "idle"
  /\ calls[c] < MaxCalls
  /\ t < registered
  /\ calls' = Inc(calls, c)
  /\ pc' = [pc EXCEPT ![c] = "loaded"]
  /\ job' = [job EXCEPT ![c] = t]
  /\ snapshot' = [snapshot EXCEPT ![c] = allRunners[t]]
  /\ UNCHANGED <<registered, maxRunners, allRunners, curRunners, totalRun,
                 dropped, interrupted, timers, queued, running, submitted, leaving, released>>

\* ScheduledTask_c::OnTimer: the timer heap releases an armed node, which
\* calls StartJob (lines 336-338 again) on the timer thread.
OnTimer(t) ==
  /\ pc[Timer] = "idle"
  /\ timers[t] > 0
  /\ timers' = Dec(timers, t)
  /\ pc' = [pc EXCEPT ![Timer] = "loaded"]
  /\ job' = [job EXCEPT ![Timer] = t]
  /\ snapshot' = [snapshot EXCEPT ![Timer] = allRunners[t]]
  /\ UNCHANGED <<registered, maxRunners, allRunners, curRunners, totalRun,
                 dropped, interrupted, calls, queued, running, submitted, leaving, released>>

\* Mutant: the ceiling test is iAllRunners > m_iMaxRunners.
AdmissionCheckStrict(s) ==
  LET t == job[s] IN
  /\ pc[s] = "loaded"
  /\ IF interrupted \/ (maxRunners[t] > 0 /\ snapshot[s] > maxRunners[t])
       THEN /\ dropped' = Inc(dropped, t)
            /\ submitted' = Inc(submitted, t)
            /\ pc' = [pc EXCEPT ![s] = "idle"]
       ELSE /\ pc' = [pc EXCEPT ![s] = "admitted"]
            /\ UNCHANGED <<dropped, submitted>>
  /\ UNCHANGED <<registered, maxRunners, allRunners, curRunners, totalRun,
                 interrupted, job, snapshot, calls, timers, queued, running,
                 leaving, released>>

\* StartJob, lines 71-83: drop the job when interrupted, or when a ceiling
\* is set and the snapshot has reached it.
AdmissionCheck(s) ==
  LET t == job[s] IN
  /\ pc[s] = "loaded"
  /\ IF interrupted \/ (maxRunners[t] > 0 /\ snapshot[s] >= maxRunners[t])
       THEN /\ dropped' = Inc(dropped, t)
            /\ submitted' = Inc(submitted, t)
            /\ pc' = [pc EXCEPT ![s] = "idle"]
       ELSE /\ pc' = [pc EXCEPT ![s] = "admitted"]
            /\ UNCHANGED <<dropped, submitted>>
  /\ UNCHANGED <<registered, maxRunners, allRunners, curRunners, totalRun,
                 interrupted, job, snapshot, calls, timers, queued, running, leaving, released>>

\* Mutant: the counter is bumped but the job never reaches the scheduler.
SubmitNotEnqueued(s) ==
  LET t == job[s] IN
  /\ pc[s] = "admitted"
  /\ allRunners' = Inc(allRunners, t)
  /\ submitted' = Inc(submitted, t)
  /\ pc' = [pc EXCEPT ![s] = "idle"]
  /\ UNCHANGED <<registered, maxRunners, curRunners, totalRun, dropped,
                 interrupted, job, snapshot, calls, timers, queued, running,
                 leaving, released>>

\* StartJob, lines 85-87: fetch_add on m_iAllRunners and hand the
\* AttachClass wrapper to Threads::StartJob.
Submit(s) ==
  LET t == job[s] IN
  /\ pc[s] = "admitted"
  /\ allRunners' = Inc(allRunners, t)
  /\ queued' = Inc(queued, t)
  /\ submitted' = Inc(submitted, t)
  /\ pc' = [pc EXCEPT ![s] = "idle"]
  /\ UNCHANGED <<registered, maxRunners, curRunners, totalRun, dropped,
                 interrupted, job, snapshot, calls, timers, running, leaving, released>>

\* TaskManager::ScheduleJob / ScheduledTask_c::EngageJob: arm a timer node.
ScheduleJob(c, t) ==
  /\ pc[c] = "idle"
  /\ calls[c] < MaxCalls
  /\ t < registered
  /\ calls' = Inc(calls, c)
  /\ timers' = Inc(timers, t)
  /\ UNCHANGED <<registered, maxRunners, allRunners, curRunners, totalRun,
                 dropped, interrupted, pc, job, snapshot, queued, running,
                 submitted, leaving, released>>

\* AttachClass wrapper, lines 46-52: a scheduler thread starts the job and
\* increments m_iCurrentRunners.
JobStart(t) ==
  /\ queued[t] > 0
  /\ queued' = Dec(queued, t)
  /\ running' = Inc(running, t)
  /\ curRunners' = Inc(curRunners, t)
  /\ UNCHANGED <<registered, maxRunners, allRunners, totalRun, dropped,
                 interrupted, pc, job, snapshot, calls, timers, submitted, leaving, released>>

\* AttachClass wrapper, lines 53-56: fnWorker() returned; the wrapper
\* decrements m_iCurrentRunners.
JobFinish(t) ==
  /\ running[t] > 0
  /\ running' = Dec(running, t)
  /\ curRunners' = Dec(curRunners, t)
  /\ leaving' = Inc(leaving, t)
  /\ UNCHANGED <<registered, maxRunners, allRunners, totalRun, dropped,
                 interrupted, pc, job, snapshot, calls, timers, queued,
                 submitted, released>>

\* Mutant: the wrapper forgets m_iAllRunners.fetch_sub.
JobReleaseNoDecrement(t) ==
  /\ leaving[t] > 0
  /\ leaving' = Dec(leaving, t)
  /\ released' = Inc(released, t)
  /\ UNCHANGED <<registered, maxRunners, allRunners, curRunners, totalRun,
                 dropped, interrupted, pc, job, snapshot, calls, timers,
                 queued, running, submitted>>

\* AttachClass wrapper, line 57: the separate m_iAllRunners.fetch_sub,
\* which is what frees a place under the class's ceiling.
JobRelease(t) ==
  /\ leaving[t] > 0
  /\ leaving' = Dec(leaving, t)
  /\ allRunners' = Dec(allRunners, t)
  /\ released' = Inc(released, t)
  /\ UNCHANGED <<registered, maxRunners, curRunners, totalRun, dropped,
                 interrupted, pc, job, snapshot, calls, timers, queued,
                 running, submitted>>

\* AttachClass wrapper, lines 58-60: m_iTotalRun.fetch_add (timestamps
\* left out); the wrapper returns.
JobDone(t) ==
  /\ released[t] > 0
  /\ released' = Dec(released, t)
  /\ totalRun' = Inc(totalRun, t)
  /\ UNCHANGED <<registered, maxRunners, allRunners, curRunners, dropped,
                 interrupted, pc, job, snapshot, calls, timers, queued,
                 running, submitted, leaving>>

\* The daemon is being shut down: sphInterrupted() turns true for good.
Interrupt ==
  /\ ~interrupted
  /\ interrupted' = TRUE
  /\ UNCHANGED <<registered, maxRunners, allRunners, curRunners, totalRun,
                 dropped, pc, job, snapshot, calls, timers, queued, running,
                 submitted, leaving, released>>

Next ==
  \/ RegisterGlobal
  \/ \E c \in Callers, t \in Ids : StartJob(c, t) \/ ScheduleJob(c, t)
  \/ \E t \in Ids : OnTimer(t) \/ JobStart(t) \/ JobFinish(t)
                   \/ JobRelease(t) \/ JobDone(t)
  \/ \E s \in Submitters : AdmissionCheck(s) \/ Submit(s)
  \/ Interrupt

\* A thread inside StartJob finishes the call, the timer facility fires
\* every armed node, and the scheduler starts and completes every job it was
\* given.  Callers are not obliged to call, nor the daemon to shut down.
Fairness ==
  /\ \A s \in Submitters : WF_vars(AdmissionCheck(s)) /\ WF_vars(Submit(s))
  /\ \A t \in Ids : WF_vars(OnTimer(t)) /\ WF_vars(JobStart(t))
                    /\ WF_vars(JobFinish(t)) /\ WF_vars(JobRelease(t))
                    /\ WF_vars(JobDone(t))

Spec == Init /\ [][Next]_vars /\ Fairness

-----------------------------------------------------------------------------
(* Properties                                                              *)

TypeOK ==
  /\ registered \in 0..Len(Limits)
  /\ maxRunners \in [Ids -> Nat]
  /\ \A f \in {allRunners, curRunners, totalRun, dropped, timers, queued,
               running, submitted, leaving, released} : f \in [Ids -> Nat]
  /\ interrupted \in BOOLEAN
  /\ pc \in [Submitters -> {"idle", "loaded", "admitted"}]
  /\ job \in [Submitters -> Ids]
  /\ snapshot \in [Submitters -> Nat]
  /\ calls \in [Callers -> 0..MaxCalls]

\* The counters of a class describe its jobs: m_iAllRunners counts exactly
\* the jobs admitted whose wrapper has not yet released them (queued in
\* the scheduler, running, or between the wrapper's two fetch_subs),
\* m_iCurrentRunners exactly the running ones, and every StartJob call that
\* returned is exactly one of dropped, admitted-and-unfinished or counted
\* in m_iTotalRun.  A leak here would lower the class's ceiling for good.
CountersMatchJobs ==
  \A t \in Ids :
    /\ allRunners[t] = queued[t] + running[t] + leaving[t]
    /\ curRunners[t] = running[t]
    /\ submitted[t] = dropped[t] + allRunners[t] + released[t] + totalRun[t]

\* Because the ceiling is tested against a snapshot taken before the
\* fetch_add, it can be overshot, but by at most one job per thread that can
\* be inside StartJob at the same time (the callers and the timer thread).
CeilingOvershootBounded ==
  \A t \in Ids :
    maxRunners[t] > 0 =>
      allRunners[t] <= maxRunners[t] + Cardinality(Submitters) - 1

\* Spec 8: StartJob called max + K times admits exactly max jobs; i.e. an
\* admitted-but-unfinished count never exceeds a class's nonzero ceiling.
CeilingRespected ==
  \A t \in Ids : maxRunners[t] > 0 => allRunners[t] <= maxRunners[t]

\* Every admitted job is eventually run and its counters released, so the
\* ceiling of every class eventually frees up again.
EventuallyIdle ==
  <>[](\A t \in Ids : allRunners[t] = 0 /\ curRunners[t] = 0)
=============================================================================
