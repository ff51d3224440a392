------------------------------ MODULE MCEvalRun ------------------------------
(* Small instances: two clients that share a run name (eval_shared_name), and  *)
(* one that evaluates twice under it (eval_drift).                             *)
EXTENDS EvalRun, TLC

CONSTANTS c1, c2

Symmetry == Permutations({c1, c2})
=============================================================================
