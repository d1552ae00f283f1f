---------------------------- MODULE MCGeneration ----------------------------
(* Two lives of shard 0, one worker, two splits. *)
EXTENDS Generation

Deploy(m, l, x, f) == [mode |-> m, lazy |-> l, admin |-> x, faults |-> f]

MCDeployments == {Deploy("exported", FALSE, 0, 0), Deploy("exported", TRUE, 0, 0),
                  Deploy("best_effort", FALSE, 2, 1)}
=============================================================================
