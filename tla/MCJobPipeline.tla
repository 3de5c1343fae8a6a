---------------------------- MODULE MCJobPipeline ---------------------------
(* Two jobs of one model on one prover slot; the bounds are in the .cfg.   *)
EXTENDS JobPipeline

CONSTANTS j1, j2

MCTwoJobs  == {j1, j2}
MCIdOf     == [j \in Jobs |-> IF j = j1 THEN 1 ELSE 2]
MCModelOf  == [j \in Jobs |-> 1]
============================================================================
