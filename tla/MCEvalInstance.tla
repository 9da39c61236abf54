---------------------------- MODULE MCEvalInstance ----------------------------
(* Two tests; a dataset row declares neither list, one of them, or both.    *)
(* The code treats a test that failed and one that is absent alike, so      *)
(* "absent" stands for both in the larger instance.                         *)
EXTENDS EvalInstance
MCDeclared == {[ftp |-> {}, ptp |-> {}], [ftp |-> {"t"}, ptp |-> {}],
               [ftp |-> {}, ptp |-> {"u"}], [ftp |-> {"t"}, ptp |-> {"u"}]}
===============================================================================
