------------------------- MODULE MC_TaskDispatcher -------------------------
(* Instantiates TaskDispatcher for TLC with three workers (model values),  *)
(* up to five jobs, and the template ParseTemplate makes of "2/-1".  The   *)
(* dispatchers' passing run, over every template a caller builds, is      *)
(* MC_Core.                                                                *)
EXTENDS TaskDispatcher, DispatchTemplates, TLC

CONSTANTS w1, w2, w3

MCWorkers == {w1, w2, w3}
MCSymmetry == Permutations(MCWorkers)

\* ParseTemplate("2/-1"): atoi turns the batch field into -1
MCNegativeTemplates == { ParseTemplate(<<"2", "/", "-", "1">>) }
=============================================================================
