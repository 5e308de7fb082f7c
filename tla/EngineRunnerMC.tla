--------------------------- MODULE EngineRunnerMC ---------------------------
(* A small instance of EngineRunner: one runner with two worker slots, and *)
(* two rows of one instance, so that a dequeue can race a worker, a commit *)
(* and the runners of other processes over that instance.                  *)
EXTENDS EngineRunner, TLC

CONSTANTS i1, t1, t2

TwoOfOne == (t1 :> i1) @@ (t2 :> i1)
=============================================================================
