---------------------------- MODULE EvalInstance ----------------------------
(***************************************************************************)
(* repogauge/validation/validate.py, _eval_instance: one prediction is     *)
(* judged by five passes over one checkout (the base, the test patch, both *)
(* patches, and the last two again), each of which resets the checkout,    *)
(* applies its patches, collects and runs the tests.  What the passes saw  *)
(* then decides the verdict, its reason and the two test lists.            *)
(*                                                                         *)
(* A pass's outcomes are a function on the tests; a test without an entry  *)
(* is "absent".  Tests are free to be flaky: a run may report anything.    *)
(***************************************************************************)
EXTENDS Integers, Sequences, FiniteSets

CONSTANTS
  Tests,     \* canonical test ids
  Outcomes,  \* what a run may report of a test, "absent" included
  Declared,  \* dataset rows: sets of declared [ftp, ptp] test lists
  Pytest,    \* the language adapter is python's and the command is pytest
  Commands   \* number of command attempts of the adapter

ASSUME EvalAssumption ==
  /\ {"pass", "absent"} \subseteq Outcomes
  /\ Declared \subseteq [ftp: SUBSET Tests, ptp: SUBSET Tests]
  /\ Pytest \in BOOLEAN
  /\ Commands \in Nat \ {0}

Labels   == <<"a", "b", "c", "b_rerun", "c_rerun">>
Passes   == DOMAIN Labels
Patches  == <<{}, {"test"}, {"test", "pred"}, {"test"}, {"test", "pred"}>>
NoTests  == [t \in Tests |-> "absent"]

VARIABLES
  declared,  \* the row's FAIL_TO_PASS and PASS_TO_PASS
  pass,      \* which pass is under way
  step,      \* where it is
  tree,      \* patches applied to the checkout
  dirty,     \* the checkout holds what an earlier pass left there
  try,       \* [command, inputs]: the command attempt, on collected nodes or files
  report,    \* the report file: who wrote it (0: nobody) and whether it parses
  run,       \* run[p]: what pass p returned
  result     \* the result row ("none" before the end)

evalVars == <<declared, pass, step, tree, dirty, try, report, run, result>>

NotRun    == [status |-> "not_run", code |-> "none", outcomes |-> NoTests]
Passed(o) == [status |-> "passed", code |-> "none", outcomes |-> o]
Failed(c) == [status |-> "failed", code |-> c, outcomes |-> NoTests]
NoReport  == [pass |-> 0, good |-> FALSE]
NoResult  == [status |-> "none", reason |-> "none", ftp |-> {}, ptp |-> {}]
FirstTry  == [command |-> 1, inputs |-> "nodes"]

EvalInit ==
  /\ declared \in Declared
  /\ pass = 1 /\ step = "reset"
  /\ tree = {} /\ dirty = FALSE
  /\ try = FirstTry
  /\ report = NoReport
  /\ run = [p \in Passes |-> NotRun]
  /\ result = NoResult

-----------------------------------------------------------------------------
(* One pass: _run_validation_pass                                          *)

GoOn(s) == step' = s

EndPass(r) ==
  /\ run' = [run EXCEPT ![pass] = r]
  /\ GoOn("verdict")

\* Mutant: git reset --hard without git clean.
ResetOnly ==
  /\ step = "reset"
  /\ tree' = {} /\ dirty' = dirty /\ report' = report
  /\ try' = FirstTry
  /\ GoOn("patch_test")
  /\ UNCHANGED <<declared, pass, run, result>>

\* git reset --hard and git clean -fdx, reports in the checkout included.
Reset ==
  /\ step = "reset"
  /\ tree' = {} /\ dirty' = FALSE /\ report' = NoReport
  /\ try' = FirstTry
  /\ GoOn("patch_test")
  /\ UNCHANGED <<declared, pass, run, result>>

\* Anything else that is raised: by git, by a container, by a command that
\* cannot be started.
PassRaises ==
  /\ step \in {"reset", "collect", "command"}
  /\ EndPass(Failed("unknown_validator_failure"))
  /\ UNCHANGED <<declared, pass, tree, dirty, try, report, result>>

ApplyTestPatch ==
  /\ step = "patch_test"
  /\ tree' = tree \cup ({"test"} \cap Patches[pass])
  /\ GoOn("patch_pred")
  /\ UNCHANGED <<declared, pass, dirty, try, report, run, result>>

ApplyPredPatch ==
  /\ step = "patch_pred"
  /\ tree' = tree \cup ({"pred"} \cap Patches[pass])
  /\ GoOn(IF Pytest THEN "collect" ELSE "command")
  /\ UNCHANGED <<declared, pass, dirty, try, report, run, result>>

\* A patch that does not apply is put down to the prediction in every pass
\* that applies it.
PatchFails ==
  /\ \/ step = "patch_test" /\ "test" \in Patches[pass]
     \/ step = "patch_pred" /\ "pred" \in Patches[pass]
  /\ EndPass(Failed(IF "pred" \in Patches[pass] THEN "patch_apply_failed"
                                                ELSE "test_patch_apply_failed"))
  /\ UNCHANGED <<declared, pass, tree, dirty, try, report, result>>

\* pytest --collect-only: the targeted files are absent (no outcomes, and
\* the pass has passed), or nodes or files to run are found.
Collect ==
  /\ step = "collect"
  /\ \/ EndPass(Passed(NoTests))
     \/ GoOn("command") /\ UNCHANGED run
  /\ dirty' = TRUE
  /\ UNCHANGED <<declared, pass, tree, try, report, result>>

\* The report of an earlier command is unlinked; the command (which may time
\* out) leaves a report that parses, one that does not, or none.
Command ==
  /\ step = "command"
  /\ report' \in {NoReport} \cup [pass: {pass}, good: BOOLEAN]
  /\ dirty' = TRUE
  /\ GoOn("parse")
  /\ UNCHANGED <<declared, pass, tree, try, run, result>>

\* What pass A reported is kept as evidence and never compared.
Parse ==
  /\ step = "parse" /\ report.good
  /\ \E o \in [Tests -> Outcomes] : EndPass(Passed(IF pass = 1 THEN NoTests ELSE o))
  /\ UNCHANGED <<declared, pass, tree, dirty, try, report, result>>

\* pytest found no such node: the same command again, on whole files.
RetryOnFiles ==
  /\ step = "parse" /\ report.good
  /\ Pytest /\ try.inputs = "nodes"
  /\ try' = [try EXCEPT !.inputs = "files"]
  /\ GoOn("command")
  /\ UNCHANGED <<declared, pass, tree, dirty, report, run, result>>

\* No report to parse: the next command, or the pass has failed.
ParseFails ==
  /\ step = "parse" /\ ~report.good
  /\ IF try.command < Commands
       THEN /\ try' = [command |-> try.command + 1, inputs |-> "nodes"]
            /\ GoOn("command")
            /\ UNCHANGED run
       ELSE /\ EndPass(Failed("missing_junit"))
            /\ UNCHANGED try
  /\ UNCHANGED <<declared, pass, tree, dirty, report, result>>

-----------------------------------------------------------------------------
(* The verdict                                                             *)

B  == run[2].outcomes
C  == run[3].outcomes
BR == run[4].outcomes
CR == run[5].outcomes

\* Mutant: skipped in B counts as failing.
DerivedFtpUnpassed == {t \in Tests : B[t] # "pass" /\ C[t] = "pass"}
DerivedFtp == {t \in Tests : B[t] \in {"fail", "error", "absent"} /\ C[t] = "pass"}
DerivedPtp == {t \in Tests : B[t] = "pass" /\ C[t] = "pass"}

\* Declared lists replace the derived ones, and only look at C.
Ftp == IF declared.ftp = {} THEN DerivedFtp
                            ELSE {t \in declared.ftp : C[t] = "pass"}
Ptp == IF declared.ptp = {} THEN DerivedPtp
                            ELSE {t \in declared.ptp : C[t] = "pass"}

\* Mutant: only the reruns of C are compared.
FlakyC == C # CR
Flaky  == B # BR \/ C # CR

Regression       == \E t \in declared.ptp : B[t] = "pass" /\ C[t] # "pass"
DeclaredFtpFails == \E t \in declared.ftp : C[t] # "pass"

Taxonomy == {"base_repo_unrunnable", "env_install_failed", "test_targeting_failed",
             "test_patch_apply_failed", "patch_apply_failed", "no_fail_to_pass",
             "pass_to_pass_regression", "flaky_outcomes", "missing_junit",
             "unknown_validator_failure"}

\* normalize_failure_reason.
Normalize(status, reason, code) ==
  IF code \in Taxonomy THEN code
  ELSE IF reason \in Taxonomy THEN reason
  ELSE IF status = "error" /\ reason = "run_a_failed" THEN "base_repo_unrunnable"
  ELSE IF status = "error" /\ reason \in {"run_b_rerun_failed", "run_c_rerun_failed"}
    THEN "flaky_outcomes"
  ELSE IF status = "flaky" THEN "flaky_outcomes"
  ELSE IF status = "not_resolved" /\ reason = "declared_ftp_not_resolved" THEN reason
  ELSE "unknown_validator_failure"

Verdict(status, reason, code, ftp, ptp) ==
  result' = [status |-> status,
             reason |-> IF status = "resolved" \/ reason = "none" THEN reason
                        ELSE Normalize(status, reason, code),
             ftp |-> ftp, ptp |-> ptp]

\* Both reruns are made, then looked at; each earlier pass at once.
NextPass ==
  /\ step = "verdict" /\ pass < 5
  /\ run[pass].status = "passed" \/ pass = 4
  /\ pass' = pass + 1
  /\ GoOn("reset")
  /\ UNCHANGED <<declared, tree, dirty, try, report, run, result>>

\* An error: one of the first three passes failed, or one of the reruns.
RejectFailed ==
  /\ step = "verdict"
  /\ pass \in {1, 2, 3, 5}
  /\ LET bad == {p \in (IF pass = 5 THEN {4, 5} ELSE {pass}) : run[p].status = "failed"}
         first == CHOOSE p \in bad : \A q \in bad : p <= q
         Reasons == <<"run_a_failed", "run_b_failed", "run_c_failed",
                      "run_b_rerun_failed", "run_c_rerun_failed">>
     IN  /\ bad # {}
         /\ Verdict("error", Reasons[first], run[first].code, {}, {})
  /\ GoOn("done")
  /\ UNCHANGED <<declared, pass, tree, dirty, try, report, run>>

AllPassed == pass = 5 /\ \A p \in Passes : run[p].status = "passed"

RejectFlaky ==
  /\ step = "verdict" /\ AllPassed /\ Flaky
  /\ Verdict("flaky", "rerun_mismatch", "flaky_outcomes", {}, {})
  /\ GoOn("done")
  /\ UNCHANGED <<declared, pass, tree, dirty, try, report, run>>

RejectionReason ==
  IF Regression THEN "pass_to_pass_regression"
  ELSE IF DeclaredFtpFails THEN "declared_ftp_not_resolved"
  ELSE IF Ftp = {} THEN "no_fail_to_pass" ELSE "none"

\* _is_resolved, then the two ways of losing it again.
Resolved ==
  /\ IF declared.ftp # {} THEN ~DeclaredFtpFails ELSE Ftp # {}
  /\ ~Regression

Decide ==
  /\ step = "verdict" /\ AllPassed /\ ~Flaky
  /\ Verdict(IF Resolved THEN "resolved" ELSE "not_resolved", RejectionReason,
             "none", Ftp, Ptp)
  /\ GoOn("done")
  /\ UNCHANGED <<declared, pass, tree, dirty, try, report, run>>

\* The checkout or the container session cannot be set up or closed: the
\* exception leaves _eval_instance, and there is no row.
SessionFails ==
  /\ \/ step = "reset" /\ pass = 1
     \/ step = "done" /\ result.status # "raised"
  /\ result' = [NoResult EXCEPT !.status = "raised"]
  /\ GoOn("done")
  /\ UNCHANGED <<declared, pass, tree, dirty, try, report, run>>

EvalNext ==
  \/ Reset \/ PassRaises \/ ApplyTestPatch \/ ApplyPredPatch \/ PatchFails
  \/ Collect \/ Command \/ Parse \/ RetryOnFiles \/ ParseFails
  \/ NextPass \/ RejectFailed \/ RejectFlaky \/ Decide \/ SessionFails

EvalSpec == EvalInit /\ [][EvalNext]_evalVars

-----------------------------------------------------------------------------
(* Properties                                                              *)

(***************************************************************************)
(* No pass sees another: whenever tests are collected or run, the checkout *)
(* holds exactly the pass's own patches, nothing an earlier pass left, and *)
(* the report that is parsed was written by a command of this pass.        *)
(***************************************************************************)
PassesAreIsolated ==
  /\ step \in {"collect", "command", "parse"} => tree = Patches[pass]
  /\ step \in {"patch_test", "patch_pred", "collect"} => ~dirty
  /\ step = "parse" /\ report.good => report.pass = pass

(***************************************************************************)
(* A resolved verdict is proven by the passes: B and C were seen twice     *)
(* with the same outcomes, there is a FAIL_TO_PASS test, every one of them *)
(* and every declared one passed both times with the prediction, and no    *)
(* declared PASS_TO_PASS test that passed without it was lost.             *)
(***************************************************************************)
AcceptedIsProven ==
  result.status = "resolved" =>
    /\ \A p \in Passes : run[p].status = "passed"
    /\ B = BR /\ C = CR
    /\ result.ftp # {} /\ declared.ftp \subseteq result.ftp
    /\ \A t \in result.ftp \cup result.ptp : C[t] = "pass" /\ CR[t] = "pass"
    /\ \A t \in declared.ptp : B[t] = "pass" => t \in result.ptp

(***************************************************************************)
(* A reader of validation.jsonl can tell why a prediction is rejected, and *)
(* the reason is true of what the passes saw: an error is put down to the  *)
(* first pass that failed and what failed in it, a flaky one to outcomes   *)
(* that changed, a regression or a lost declared test to a declared test   *)
(* that did not pass with the prediction, and an empty FAIL_TO_PASS list   *)
(* to passes in which the prediction made no failing test pass.            *)
(***************************************************************************)
RejectionsAreExplained ==
  LET why == result.reason IN
  result.status \notin {"none", "raised"} =>
    /\ (why = "none") = (result.status = "resolved")
    /\ IF result.status = "error"
         THEN \E p \in Passes : /\ run[p].status = "failed" /\ run[p].code = why
                                /\ \A q \in Passes : q < p => run[q].status = "passed"
         ELSE \A p \in Passes : run[p].status = "passed"
    /\ (result.status = "flaky") = (why = "flaky_outcomes")
    /\ (result.status = "flaky") = (result.status # "error" /\ (B # BR \/ C # CR))
    /\ why = "pass_to_pass_regression" =>
         \E t \in declared.ptp : B[t] = "pass" /\ C[t] # "pass"
    /\ why = "declared_ftp_not_resolved" => \E t \in declared.ftp : C[t] # "pass"
    /\ why = "no_fail_to_pass" =>
         \A t \in Tests : C[t] = "pass" => B[t] \notin {"fail", "error", "absent"}
    /\ declared.ftp = {} => \A t \in result.ftp : B[t] \notin {"pass", "skip"}

(***************************************************************************)
(* What docs/repogauge_bead_plan.md asks of acceptance: an instance with   *)
(* any PASS_TO_PASS regression is rejected.  The code only looks for the   *)
(* declared ones.                                                          *)
(***************************************************************************)
NoRegressionAccepted ==
  result.status = "resolved" => \A t \in Tests : B[t] = "pass" => C[t] = "pass"
=============================================================================
