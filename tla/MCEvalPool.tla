------------------------------ MODULE MCEvalPool ------------------------------
(* Two solvers' predictions of one instance, one of another, and an instance *)
(* without a prediction.                                                     *)
EXTENDS EvalPool
MCInstances == <<"x", "x", "y", "z">>
MCFiles     == <<"run_b", "run_c">>
===============================================================================
