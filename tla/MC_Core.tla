------------------------------ MODULE MC_Core ------------------------------
(***************************************************************************)
(* The two parts of the concurrency core that hand out work, checked in   *)
(* one run side by side: the task manager of src/searchdtask.cpp (two     *)
(* callers plus the timer thread, a class with a ceiling of one job and   *)
(* an unlimited class, two calls per caller) and the task dispatchers of  *)
(* src/task_dispatcher.cpp (three workers, up to five jobs, and every     *)
(* template a caller can build from the parsed global pair and a parsed   *)
(* per-call template).  They share no state: Init picks the one a         *)
(* behaviour exercises (container) and the other stays in its initial     *)
(* state.                                                                 *)
(***************************************************************************)
EXTENDS TaskManager, TLC

CONSTANTS
  c1, c2, tmr,                              \* task manager threads
  w1, w2, w3, MaxJobs, NThreads             \* dispatcher workers, bounds

VARIABLES
  container,
  jobs, template, defaultConcurrency, currentJob, nextFiber, source, task, dpc, fetched

tdvars == <<jobs, template, defaultConcurrency, currentJob, nextFiber, source, task, dpc, fetched>>
allvars == <<container, vars, tdvars>>

MCCallers == {c1, c2}
MCLimits == <<1, 0>>

DT == INSTANCE DispatchTemplates

\* The examples the specification gives for ParseTemplate(s).
ASSUME /\ DT!ParseTemplate(<<"4", "/", "2">>) = DT!Template(4, 2)
       /\ DT!ParseTemplate(<<"0", "/", "*">>) = DT!Template(0, 0)
       /\ DT!ParseTemplates(<<"4", "/", "2", "+", "8", "/", "4">>)
            = << DT!Template(4, 2), DT!Template(8, 4) >>
       /\ DT!ParseTemplates(<< >>) = << DT!Template(0, 0), DT!Template(0, 0) >>

\* MANTICORE_THREADS_EX or a SetGlobalDispatchers argument: unset,
\* "'3/2+1/*'" (quoted) and " 1 / 1 +x" (spaces; atoi of "x" is 0).
GlobalTexts ==
  { << >>,
    <<"'", "3", "/", "2", "+", "1", "/", "*", "'">>,
    <<" ", "1", " ", "/", " ", "1", " ", "+", "x">> }

\* The per-call template laid over a global one: "", "*/0", "0/1", "0/2",
\* "1/1" and "3".
OverlayTexts ==
  { << >>, <<"*", "/", "0">>, <<"0", "/", "1">>, <<"0", "/", "2">>,
    <<"1", "/", "1">>, <<"3">> }

\* Unify ( base, ParseTemplate ( overlay ) ) for either global template:
\* exactly concurrency {unset, 1, 3} x batch {unset, 1, 2}.
CallerTemplates ==
  { DT!Unify(base, DT!ParseTemplate(o)) :
      base \in UNION { { DT!GetGlobalBaseDispatcherTemplate(g),
                         DT!GetGlobalPseudoShardingDispatcherTemplate(g) } :
                       g \in { DT!SetGlobalDispatchers(t) : t \in GlobalTexts } },
      o \in OverlayTexts }

TD == INSTANCE TaskDispatcher WITH pc <- dpc, Workers <- {w1, w2, w3},
                                   Templates <- CallerTemplates,
                                   \* no caller under src/ calls Make: 0
                                   \* (NThreads () decides) or a count
                                   DefaultConcurrencies <- {0, 2}

CoreInit ==
  /\ container \in {"manager", "dispatch"}
  /\ container = "dispatch" \/ (jobs = 0 /\ template = DT!Template(0, 0)
                                /\ defaultConcurrency = 0)
  /\ Init /\ TD!Init

Manage(A) == container = "manager" /\ A
             /\ UNCHANGED <<container, tdvars>>
Dispatch(A) == container = "dispatch" /\ A
               /\ UNCHANGED <<container, vars>>

CoreNext == Manage(Next) \/ Dispatch(TD!Next)

\* The task manager's fairness (TaskManager.tla); the dispatcher's runs
\* need none, the workers' loops may stop anywhere.
CoreFairness ==
  /\ \A s \in Submitters : WF_allvars(Manage(AdmissionCheck(s)))
                           /\ WF_allvars(Manage(Submit(s)))
  /\ \A t \in Ids : /\ WF_allvars(Manage(OnTimer(t)))
                    /\ WF_allvars(Manage(JobStart(t)))
                    /\ WF_allvars(Manage(JobFinish(t)))
                    /\ WF_allvars(Manage(JobRelease(t)))
                    /\ WF_allvars(Manage(JobDone(t)))

CoreSpec == CoreInit /\ [][CoreNext]_allvars /\ CoreFairness

\* Callers and dispatcher workers are interchangeable.
CoreSymmetry == Permutations(MCCallers) \cup Permutations({w1, w2, w3})

\* The dispatcher's properties (stated in TaskDispatcher.tla).
NoJobTwice == TD!NoJobTwice
OnlyJobIndices == TD!OnlyJobIndices
RoundRobinPartition == TD!RoundRobinPartition
JobPoolRefinement == TD!JobPoolRefinement
=============================================================================
