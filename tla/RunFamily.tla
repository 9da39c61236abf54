------------------------------ MODULE RunFamily ------------------------------
(***************************************************************************)
(* repogauge/cli.py: the commands run, run --retry-failures-from and       *)
(* analyze [--merge-retries], one after the other, over the files they     *)
(* leave in a run root and its "-retry" siblings.  A command may fail, or  *)
(* be killed between any two files it writes; --resume skips one whose     *)
(* manifest says that it succeeded.                                        *)
(*                                                                         *)
(* Root 1 is the run_id the matrix names, root r + 1 root r's with -retry  *)
(* appended, so the numbers are the order of the names.  A job is a key    *)
(* (instance, solver, seed); verdicts are kept by pair (instance, solver). *)
(* Only the last attempt of a job in a run is kept here: the ones before   *)
(* it failed and carry no patch.                                           *)
(***************************************************************************)
EXTENDS Integers, FiniteSets
LOCAL INSTANCE FiniteSetsExt

CONSTANTS
  Keys,      \* the jobs of the matrix
  PairOf,    \* (instance, solver) of each job
  NumRoots,  \* bound: the base run and its retries
  MaxRuns,   \* bound: executions of run
  MaxReruns  \* bound: the same where one is of a root already judged or retried

Roots == 1 .. NumRoots

ASSUME FamilyAssumption ==
  /\ Keys \subseteq DOMAIN PairOf
  /\ NumRoots \in Nat \ {0}
  /\ MaxRuns \in Nat /\ MaxReruns \in Nat

VARIABLES
  cmd,       \* the command under way
  ran,       \* root of which manifest.json of run says "succeeded", or 0
  reported,  \* roots of which analyze/manifest.json says "succeeded"
  rows,      \* rows[r]: last status of each job in r/run_jobs.jsonl
  attempts,  \* attempts[r]: the rows of r/attempts.jsonl
  results,   \* results[r]: r/eval/instance_results.jsonl, or NoResults
  begun,     \* history: how often run wrote into a root, bounded by MaxRuns
  complete,  \* history: roots that a run finished and none began since
  analysed,  \* history: roots whose report analyze finished, likewise
  careless   \* history: was a root run again after it was judged or retried?

dirs == <<rows, attempts, results>>
hist == <<begun, complete, analysed, careless>>
vars == <<cmd, ran, reported, dirs, hist>>

Idle      == [step |-> "idle"]
NoRows    == [k \in Keys |-> "none"]
NoResults == [present |-> FALSE]
Retriable == {"failed"}   \* _RETRYABLE_RUN_JOB_STATUSES, the four of them

Init ==
  /\ cmd = Idle
  /\ ran = 0 /\ reported = {}
  /\ rows = [r \in Roots |-> NoRows]
  /\ attempts = [r \in Roots |-> {}]
  /\ results = [r \in Roots |-> NoResults]
  /\ begun = 0 /\ complete = {} /\ analysed = {} /\ careless = FALSE

At(s) == cmd.step = s

-----------------------------------------------------------------------------
(* run; into root r > 1, with --retry-failures-from root r - 1             *)

\* Something was made of a root: verdicts on its attempts, or retries.
Used(r) == \/ results[r].present
           \/ \E q \in Roots : q > r /\ (rows[q] # NoRows \/ attempts[q] # {})

\* run does not ask whether it is; the properties do.
BeginRun(r) ==
  /\ careless' = (careless \/ Used(r))
  /\ begun < IF careless' THEN MaxReruns ELSE MaxRuns
  /\ cmd' = [step |-> "planning", root |-> r, keys |-> {}]
  /\ UNCHANGED <<reported, dirs, begun, complete, analysed>>

\* Mutant: the manifest is written when the command has ended only.
StartRunUnmarked(r) == At("idle") /\ BeginRun(r) /\ UNCHANGED ran

\* The manifest says "running" before anything is touched.
StartRun(r) == At("idle") /\ BeginRun(r) /\ ran' = 0

\* _load_retry_failure_keys: jobs whose last row is retriable, and every job
\* (with a row) of a pair whose verdict is not a success.
Known(s)      == {k \in Keys : rows[s][k] # "none"}
Unresolved(s) == IF results[s].present
                   THEN {p \in DOMAIN results[s].by : ~results[s].by[p].resolved}
                   ELSE {}
\* Mutant: verdicts are not looked at.
FailureKeysByRow(s) == {k \in Known(s) : rows[s][k] \in Retriable}
FailureKeys(s) ==
  {k \in Known(s) : rows[s][k] \in Retriable \/ PairOf[k] \in Unresolved(s)}

PlannedKeys(r) == IF r = 1 THEN Keys ELSE FailureKeys(r - 1)

Plan ==
  /\ At("planning")
  /\ PlannedKeys(cmd.root) # {}
  /\ cmd' = [cmd EXCEPT !.step = "clearing", !.keys = PlannedKeys(cmd.root)]
  /\ UNCHANGED <<ran, reported, dirs, hist>>

\* The stale ledgers go one after the other; verdicts stay where they are.
ClearJobs ==
  /\ At("clearing")
  /\ rows' = [rows EXCEPT ![cmd.root] = NoRows]
  /\ begun' = begun + 1
  /\ complete' = complete \ {cmd.root}
  /\ cmd' = [cmd EXCEPT !.step = "clearing_attempts"]
  /\ UNCHANGED <<ran, reported, attempts, results, analysed, careless>>

ClearAttempts ==
  /\ At("clearing_attempts")
  /\ attempts' = [attempts EXCEPT ![cmd.root] = {}]
  /\ cmd' = [cmd EXCEPT !.step = "working"]
  /\ UNCHANGED <<ran, reported, rows, results, hist>>

\* The scheduler: a job's row is open (queued or running), its attempt is
\* recorded, its row is closed.
OpenJob(k) ==
  /\ At("working") /\ k \in cmd.keys /\ rows[cmd.root][k] = "none"
  /\ rows' = [rows EXCEPT ![cmd.root][k] = "open"]
  /\ UNCHANGED <<cmd, ran, reported, attempts, results, hist>>

Recorded(k) == {a \in attempts[cmd.root] : a.key = k}

RecordAttempt(k) ==
  /\ At("working") /\ rows[cmd.root][k] = "open" /\ Recorded(k) = {}
  /\ \E s \in {"succeeded", "failed", "skipped"} :
       attempts' = [attempts EXCEPT ![cmd.root] =
                      @ \cup {[key |-> k, run |-> begun, state |-> s]}]
  /\ UNCHANGED <<cmd, ran, reported, rows, results, hist>>

CloseJob(k) ==
  /\ At("working") /\ rows[cmd.root][k] = "open"
  /\ \E a \in Recorded(k) : rows' = [rows EXCEPT ![cmd.root][k] = a.state]
  /\ UNCHANGED <<cmd, ran, reported, attempts, results, hist>>

FinishRun ==
  /\ At("working")
  /\ \A k \in cmd.keys : rows[cmd.root][k] \notin {"none", "open"}
  /\ ran' = cmd.root
  /\ complete' = complete \cup {cmd.root}
  /\ cmd' = Idle
  /\ UNCHANGED <<reported, dirs, begun, analysed, careless>>

\* An exception: nothing to retry or, while jobs run, one that the scheduler
\* raises after it has closed the open jobs as failed.
FailRun ==
  /\ \/ At("planning") /\ UNCHANGED rows
     \/ At("working") /\ rows' = [rows EXCEPT ![cmd.root] =
          [k \in Keys |-> IF @[k] = "open" THEN "failed" ELSE @[k]]]
  /\ cmd' = Idle
  /\ UNCHANGED <<ran, reported, attempts, results, hist>>

-----------------------------------------------------------------------------
(* analyze r [--merge-retries]                                             *)

StartAnalyze(r, merge) ==
  /\ At("idle")
  /\ reported' = reported \ {r}
  /\ cmd' = [step |-> "resolving", root |-> r, merge |-> merge]
  /\ UNCHANGED <<ran, dirs, hist>>

\* _discover_retry_family_run_roots, in the order of the names.
Family == {r \in Roots : attempts[r] # {}}

\* _merge_retry_family_artifacts: a later root's rows replace an earlier's.
\* Mutant: an earlier root's rows are not replaced.
MergedAttemptsFirst ==
  {a \in UNION {attempts[r] : r \in Roots} :
     \E r \in Family : a \in attempts[r] /\
       \A q \in Family : q < r => \A b \in attempts[q] : b.key # a.key}
MergedAttempts ==
  {a \in UNION {attempts[r] : r \in Roots} :
     \E r \in Family : a \in attempts[r] /\
       \A q \in Family : q > r => \A b \in attempts[q] : b.key # a.key}

Judging(p) == {r \in Family : p \in DOMAIN results[r].by}
\* Mutant: an earlier root's verdicts are not replaced.
MergedResultsFirst ==
  IF \E r \in Family : ~results[r].present THEN NoResults
  ELSE LET judged == UNION {DOMAIN results[r].by : r \in Family}
       IN  [present |-> TRUE, by |-> [p \in judged |-> results[Min(Judging(p))].by[p]]]
MergedResults ==
  IF \E r \in Family : ~results[r].present THEN NoResults
  ELSE LET judged == UNION {DOMAIN results[r].by : r \in Family}
       IN  [present |-> TRUE, by |-> [p \in judged |-> results[Max(Judging(p))].by[p]]]

Selected == IF cmd.merge THEN MergedAttempts ELSE attempts[cmd.root]
Found    == IF cmd.merge THEN MergedResults ELSE results[cmd.root]

Resolve ==
  /\ At("resolving")
  /\ Selected # {}
  /\ cmd' = [step |-> "resolved", root |-> cmd.root, merge |-> cmd.merge,
             rows |-> Selected, verdicts |-> Found]
  /\ UNCHANGED <<ran, reported, dirs, hist>>

\* Attempts with a patch are judged (EvalPool); a pair's last row counts, and
\* threads end in any order.  Of a root on its own the verdicts are kept in
\* it, of a merge below the report, where no other command looks for them.
Patched == {a \in cmd.rows : a.state = "succeeded"}
\* Mutant: predictions are told apart by instance, not by solver as well.
JudgedAlike(p) == Patched
Judged(p) == {a \in Patched : PairOf[a.key] = p}
Evaluate ==
  LET pairs == {PairOf[a.key] : a \in Patched} IN
  /\ At("resolved") /\ ~cmd.verdicts.present /\ pairs # {}
  /\ \E last \in [pairs -> Patched], won \in SUBSET pairs :
       LET verdicts == [present |-> TRUE,
                        by |-> [p \in pairs |-> [attempt  |-> last[p],
                                                 resolved |-> p \in won]]]
       IN  /\ \A p \in pairs : last[p] \in Judged(p)
           /\ cmd' = [cmd EXCEPT !.verdicts = verdicts]
           /\ results' = IF cmd.merge THEN results
                         ELSE [results EXCEPT ![cmd.root] = verdicts]
  /\ UNCHANGED <<ran, reported, rows, attempts, hist>>

\* join_attempt_rows: an attempt gets its pair's verdict, if there is one.
Joined(a) ==
  LET p == PairOf[a.key]
      found == p \in DOMAIN cmd.verdicts.by
  IN  [attempt  |-> a,
       judged   |-> IF found THEN {cmd.verdicts.by[p].attempt} ELSE {},
       resolved |-> found /\ cmd.verdicts.by[p].resolved]
Matched == {a \in cmd.rows : PairOf[a.key] \in DOMAIN cmd.verdicts.by}

Join ==
  /\ At("resolved") /\ cmd.verdicts.present
  /\ DOMAIN cmd.verdicts.by # {} => Matched # {}
  /\ analysed' = analysed \ {cmd.root}
  /\ cmd' = [step |-> "joined", root |-> cmd.root, merge |-> cmd.merge,
             rows |-> {Joined(a) : a \in cmd.rows}]
  /\ UNCHANGED <<ran, reported, dirs, begun, complete, careless>>

FinishAnalyze ==
  /\ At("joined")
  /\ reported' = reported \cup {cmd.root}
  /\ analysed' = analysed \cup {cmd.root}
  /\ cmd' = Idle
  /\ UNCHANGED <<ran, dirs, begun, complete, careless>>

\* No attempts, no patch to judge, --skip-eval without verdicts, verdicts for
\* none of the attempts, an evaluation or a report that raises.
FailAnalyze ==
  /\ cmd.step \in {"resolving", "resolved", "joined"}
  /\ cmd' = Idle
  /\ UNCHANGED <<ran, reported, dirs, hist>>

-----------------------------------------------------------------------------
\* The process is killed; its manifest goes on saying "running".
Kill ==
  /\ ~At("idle")
  /\ cmd' = Idle
  /\ UNCHANGED <<ran, reported, dirs, hist>>

Next ==
  \/ \E r \in Roots : StartRun(r)
  \/ Plan \/ ClearJobs \/ ClearAttempts \/ FinishRun \/ FailRun
  \/ \E k \in Keys : OpenJob(k) \/ RecordAttempt(k) \/ CloseJob(k)
  \/ \E r \in Roots, merge \in BOOLEAN : StartAnalyze(r, merge)
  \/ Resolve \/ Evaluate \/ Join \/ FinishAnalyze \/ FailAnalyze
  \/ Kill

Spec == Init /\ [][Next]_vars

-----------------------------------------------------------------------------
(* Properties                                                              *)

(***************************************************************************)
(* Unless a root was run again after it was judged or retried, an attempt  *)
(* with a patch is reported with the verdict on that patch, and a merged   *)
(* report says resolved of no attempt but the one that was judged,  *)
(* unless a fault came between an attempt's row and its job's, so that a   *)
(* success stands in one ledger and a failure, which is retried, in the    *)
(* other (SolverScheduler's LedgersAgree allows that).                     *)
(***************************************************************************)
LedgersMatch == \A r \in Roots : \A a \in attempts[r] : rows[r][a.key] \in {a.state, "open"}
VerdictIsOwn ==
  ~careless /\ At("joined") =>
    \A row \in cmd.rows :
      row.attempt.state = "succeeded" \/ (cmd.merge /\ row.resolved /\ LedgersMatch) =>
        row.judged = {row.attempt}

(***************************************************************************)
(* However often a root is run again, and whenever: when the report of one *)
(* root gives an attempt a verdict on something else, it is a verdict on   *)
(* the same pair, of an earlier execution whose attempts run has thrown    *)
(* away since; never one of another job or of a later execution.           *)
(***************************************************************************)
StrayVerdictIsStale ==
  At("joined") /\ ~cmd.merge =>
    \A row \in cmd.rows : \A b \in row.judged \ {row.attempt} :
      /\ PairOf[b.key] = PairOf[row.attempt.key]
      /\ b \notin attempts[cmd.root] /\ b.run < row.attempt.run

(***************************************************************************)
(* "Rerun the same matrix on the same dataset next month.  Diff the pass   *)
(* rate" (README.md), with an analyze that "runs the official harness over *)
(* those predictions": an attempt with a patch is reported with the        *)
(* verdict on its patch, also when its root was run and analysed before.   *)
(***************************************************************************)
RerunIsJudged ==
  At("joined") /\ ~cmd.merge =>
    \A row \in cmd.rows : row.attempt.state = "succeeded" => row.judged = {row.attempt}

(***************************************************************************)
(* "Merge sibling <run-id>-retry* directories into the selected run before *)
(* analysis, preferring the latest retry result per job": every job that   *)
(* has an attempt anywhere in the family is reported once, by its latest,  *)
(* unless a root was run again after it was judged or retried.             *)
(***************************************************************************)
MergedIsLatest ==
  ~careless /\ At("joined") /\ cmd.merge =>
    LET all == UNION {attempts[r] : r \in Roots}
    IN  {row.attempt : row \in cmd.rows} =
          {a \in all : \A b \in all : b.key = a.key => b.run <= a.run}

(***************************************************************************)
(* A retry of a run that finished repeats exactly what did not come to a   *)
(* success: each job whose attempt failed, or was judged and not resolved, *)
(* and none that was resolved; unless a root was run again after it was    *)
(* judged or retried.                                                      *)
(***************************************************************************)
RetryIsExact ==
  ~careless /\ At("clearing") /\ cmd.root - 1 \in complete =>
    LET source == results[cmd.root - 1]
        Won(p) == source.present /\ p \in DOMAIN source.by /\ source.by[p].resolved
        Lost(p) == source.present /\ p \in DOMAIN source.by /\ ~source.by[p].resolved
    IN  \A a \in attempts[cmd.root - 1] :
          /\ a.state = "failed" \/ Lost(PairOf[a.key]) => a.key \in cmd.keys
          /\ a.key \in cmd.keys => ~Won(PairOf[a.key])

(***************************************************************************)
(* What --resume skips was done: a manifest that says "succeeded" stands   *)
(* for a run that finished, with every row closed and none begun since, or *)
(* for a finished report, however commands were killed and repeated.       *)
(***************************************************************************)
SkipIsSound ==
  /\ ran # 0 => ran \in complete /\ \A k \in Keys : rows[ran][k] # "open"
  /\ reported \subseteq analysed
=============================================================================
