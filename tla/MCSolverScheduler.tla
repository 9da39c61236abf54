-------------------------- MODULE MCSolverScheduler --------------------------
(* Instances of SolverScheduler for TLC.  Jobs 1 and 2 share a provider    *)
(* that takes one attempt at a time, job 3 is on one without a limit.      *)
EXTENDS SolverScheduler

MCProviderOf    == <<"p", "p", "q">>
MCProviderLimit == [p |-> 1]
MCBudget        == <<2, 1, 1>>
MCMisbudget4    == <<1, 0, 1, 1>>
MCProviderOf4   == <<"p", "p", "q", "q">>
MCReported      == {"succeeded", "timed_out", "exploded"}
MCRetriable     == {"failed", "timed_out"}
=============================================================================
