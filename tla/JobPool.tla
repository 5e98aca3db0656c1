------------------------------ MODULE JobPool ------------------------------
(***************************************************************************)
(* What a Dispatcher::TaskDispatcher_i promises its callers (spec 4.3):    *)
(* the job indices 0..n-1 of one logical operation are handed out to the  *)
(* workers, each index at most once, and once every participating worker  *)
(* has been told "no more work" every index has been handed out.  How a   *)
(* strategy partitions the indices is not part of the promise.            *)
(***************************************************************************)
EXTENDS Naturals

CONSTANTS
  MaxJobs,   \* largest job count of one operation
  Workers    \* the workers that each pull from their own TaskSource

VARIABLES
  remaining, \* job indices not handed out yet
  finished   \* workers whose source reported exhaustion

vars == <<remaining, finished>>

Init ==
  /\ remaining \in { 0..(n-1) : n \in 0..MaxJobs }
  /\ finished = {}

\* Worker w receives job j; nobody received it before.
Take(w, j) ==
  /\ w \notin finished
  /\ j \in remaining
  /\ remaining' = remaining \ {j}
  /\ UNCHANGED finished

\* Worker w is told there is no more work; the last worker to be told so
\* can only be told it when nothing remains.
Quit(w) ==
  /\ w \notin finished
  /\ finished' = finished \cup {w}
  /\ finished' = Workers => remaining = {}
  /\ UNCHANGED remaining

Next == \E w \in Workers : Quit(w) \/ \E j \in remaining : Take(w, j)

Spec == Init /\ [][Next]_vars
=============================================================================
