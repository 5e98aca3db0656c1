-------------------------- MODULE MC_TaskManager --------------------------
(* Instantiates TaskManager for TLC: two calling threads plus the timer    *)
(* thread, each caller making up to two StartJob / ScheduleJob calls; one *)
(* class with a ceiling of one job and one unlimited class, so that the    *)
(* ceiling is hit by concurrent submitters and the unlimited path is taken.*)
(* The task manager's passing run is MC_Core.                               *)
EXTENDS TaskManager, TLC

CONSTANTS c1, c2, tmr

MCCallers == {c1, c2}
MCLimits == <<1, 0>>
=============================================================================
