---------------------------- MODULE JudgeBatches ----------------------------
(***************************************************************************)
(* repogauge/runner/judge.py: run_harness_evaluation groups predictions    *)
(* into batches, runs the SWE-bench harness on each batch in a thread of   *)
(* its own, and joins the batches' rows into one verdict per prediction.   *)
(* A batch changes two things that belong to the whole process while the   *)
(* harness runs: the working directory, which the harness writes its       *)
(* reports under, and DOCKER_HOST.                                         *)
(*                                                                         *)
(* Predictions are named by their place in the file; a batch by the place  *)
(* of its group's first prediction and its number in the group.  Dataset   *)
(* rows carry no solver of their own, paths are absolute.                  *)
(***************************************************************************)
EXTENDS Integers, Sequences, FiniteSets, FiniteSetsExt

CONSTANTS
  Evaluations,     \* to consider: [file: a sequence of [solver, inst], parallel]
  Dataset,         \* instances of the dataset
  VersionOf,       \* version of each instance
  BatchSize,       \* batch_size
  Verdicts,        \* what the harness may find: resolved, not_resolved, error
  MaxFaults        \* bound: harness calls that raise

ASSUME JudgeAssumption ==
  /\ Dataset \subseteq DOMAIN VersionOf
  /\ BatchSize \in Nat \ {0} /\ MaxFaults \in Nat
  /\ \A e \in Evaluations :
       /\ e.parallel \in Nat \ {0}
       /\ e.file \in Seq({e.file[i] : i \in DOMAIN e.file})
       /\ \A i \in DOMAIN e.file :
            e.file[i] = [solver |-> e.file[i].solver, inst |-> e.file[i].inst]

Home == <<0, 0>>

VARIABLES
  parallel,    \* max_parallel_batches
  predictions, \* the prediction file
  verdict,     \* what the harness finds when it runs each prediction
  main,        \* where run_harness_evaluation is
  pc,          \* where each batch's thread is
  cwd,         \* the process's working directory: Home or a batch's root
  dockerHost,  \* DOCKER_HOST: "inherited" or the configured "host"
  savedHost,   \* thread-local: DOCKER_HOST as the batch found it
  daemon,      \* thread-local: the daemon the batch's client talks to
  origin,      \* thread-local: orig_dir
  reportDir,   \* where the batch's instance reports and its summary were written
  failing,     \* batches that are raising
  rows,        \* rows[b]: status of the rows the batch returns, by prediction
  collected,   \* batch_results, in order of completion
  final,       \* status of each prediction in instance_results.jsonl
  faults

ownVars  == <<savedHost, daemon, origin, reportDir, rows>>
mainVars == <<main, collected, final>>
inputs   == <<parallel, predictions, verdict>>
vars == <<inputs, mainVars, pc, cwd, dockerHost, ownVars, failing, faults>>

-----------------------------------------------------------------------------
(* _prepare_batches                                                        *)

Judged == {i \in DOMAIN predictions : predictions[i].inst \in Dataset}
\* Mutant: rows are joined by instance only.
KeyInstance(i) == predictions[i].inst
Key(i) == <<predictions[i].solver, predictions[i].inst>>
Group(i) == {k \in Judged : /\ predictions[k].solver = predictions[i].solver
                            /\ VersionOf[predictions[k].inst] = VersionOf[predictions[i].inst]}
BatchOf(i) == <<Min(Group(i)), Cardinality({k \in Group(i) : k < i}) \div BatchSize>>
Batches    == {BatchOf(i) : i \in Judged}
RowsOf(b)  == {i \in Judged : BatchOf(i) = b}
Before(b, c) == b[1] < c[1] \/ (b[1] = c[1] /\ b[2] < c[2])

\* _augment_instance_rows_with_prediction_solver_ids: a harness row gets a
\* solver, without which it is dropped, only if one prediction of the batch
\* is for its instance.
Attributed(b) ==
  {i \in RowsOf(b) : \A k \in RowsOf(b) : predictions[k].inst = predictions[i].inst => k = i}

Init ==
  /\ \E e \in Evaluations : predictions = e.file /\ parallel = e.parallel
  /\ verdict \in [Judged -> Verdicts]
  /\ main = "running"
  /\ pc = [b \in Batches |-> "pending"]
  /\ cwd = Home /\ dockerHost = "inherited"
  /\ savedHost = [b \in Batches |-> "none"]
  /\ daemon = [b \in Batches |-> "none"]
  /\ origin = [b \in Batches |-> Home]
  /\ reportDir = [b \in Batches |-> Home]
  /\ failing = {}
  /\ rows = [b \in Batches |-> <<>>]
  /\ collected = <<>> /\ final = <<>>
  /\ faults = 0

-----------------------------------------------------------------------------
(* One batch: _run_batch and _invoke_swebench_harness                      *)

Goto(b, s) == pc' = [pc EXCEPT ![b] = s]
At(b, s)   == pc[b] = s
Busy       == {b \in Batches : pc[b] \notin {"pending", "returned", "raised"}}

\* Mutant: the pool leaves one worker out.
StartOneLess(b) ==
  /\ At(b, "pending") /\ \A c \in Batches : Before(c, b) => pc[c] # "pending"
  /\ Cardinality(Busy) < parallel - 1
  /\ Goto(b, "set_host")
  /\ UNCHANGED <<inputs, mainVars, cwd, dockerHost, ownVars, failing, faults>>

Start(b) ==
  /\ At(b, "pending") /\ \A c \in Batches : Before(c, b) => pc[c] # "pending"
  /\ Cardinality(Busy) < parallel
  /\ Goto(b, "set_host")
  /\ UNCHANGED <<inputs, mainVars, cwd, dockerHost, ownVars, failing, faults>>

SetHost(b) ==
  /\ At(b, "set_host")
  /\ savedHost' = [savedHost EXCEPT ![b] = dockerHost]
  /\ dockerHost' = "host"
  /\ Goto(b, "connect")
  /\ UNCHANGED <<inputs, mainVars, cwd, daemon, origin, reportDir, rows, failing, faults>>

\* docker.from_env, then the environment images are built.
Connect(b) ==
  /\ At(b, "connect")
  /\ daemon' = [daemon EXCEPT ![b] = dockerHost]
  /\ Goto(b, "getcwd")
  /\ UNCHANGED <<inputs, mainVars, cwd, dockerHost, savedHost, origin, reportDir,
                 rows, failing, faults>>

GetCwd(b) ==
  /\ At(b, "getcwd")
  /\ origin' = [origin EXCEPT ![b] = cwd]
  /\ Goto(b, "chdir")
  /\ UNCHANGED <<inputs, mainVars, cwd, dockerHost, savedHost, daemon, reportDir,
                 rows, failing, faults>>

Chdir(b) ==
  /\ At(b, "chdir")
  /\ cwd' = b
  /\ Goto(b, "harness")
  /\ UNCHANGED <<inputs, mainVars, dockerHost, ownVars, failing, faults>>

\* run_instances: the reports go under the working directory of the moment.
RunInstances(b) ==
  /\ At(b, "harness")
  /\ reportDir' = [reportDir EXCEPT ![b] = cwd]
  /\ Goto(b, "report")
  /\ UNCHANGED <<inputs, mainVars, cwd, dockerHost, savedHost, daemon, origin,
                 rows, failing, faults>>

\* The prediction the harness runs for an instance: predictions are keyed by
\* instance, so the last one of the batch.
Run(b, i) == Max({k \in RowsOf(b) : predictions[k].inst = predictions[i].inst})

\* make_run_report: an instance whose report is not under the working
\* directory is listed as an error; the summary is written there too.
MakeReport(b) ==
  /\ At(b, "report")
  /\ rows' = [rows EXCEPT ![b] =
       [i \in Attributed(b) |-> IF reportDir[b] = cwd THEN verdict[Run(b, i)]
                                                      ELSE "error"]]
  /\ reportDir' = [reportDir EXCEPT ![b] = cwd]
  /\ Goto(b, "read")
  /\ UNCHANGED <<inputs, mainVars, cwd, dockerHost, savedHost, daemon, origin,
                 failing, faults>>

\* The summary's path is relative: read_text finds it or raises.
ReadReport(b) ==
  /\ At(b, "read")
  /\ failing' = IF reportDir[b] = cwd THEN failing ELSE failing \cup {b}
  /\ Goto(b, "leave")
  /\ UNCHANGED <<inputs, mainVars, cwd, dockerHost, ownVars, faults>>

\* Mutant: the directory is restored only when nothing was raised.
LeaveUnlessFailing(b) ==
  /\ At(b, "leave")
  /\ cwd' = IF b \in failing THEN cwd ELSE origin[b]
  /\ Goto(b, "restore_host")
  /\ UNCHANGED <<inputs, mainVars, dockerHost, ownVars, failing, faults>>

\* The two finally clauses.
Leave(b) ==
  /\ At(b, "leave")
  /\ cwd' = origin[b]
  /\ Goto(b, "restore_host")
  /\ UNCHANGED <<inputs, mainVars, dockerHost, ownVars, failing, faults>>

RestoreHost(b) ==
  /\ At(b, "restore_host")
  /\ dockerHost' = savedHost[b]
  /\ Goto(b, IF b \in failing THEN "raised" ELSE "returned")
  /\ UNCHANGED <<inputs, mainVars, cwd, ownVars, failing, faults>>

\* Docker or the harness raises.
HarnessFault(b) ==
  /\ faults < MaxFaults /\ faults' = faults + 1
  /\ pc[b] \in {"connect", "harness", "report"}
  /\ failing' = failing \cup {b}
  /\ Goto(b, IF At(b, "connect") THEN "restore_host" ELSE "leave")
  /\ UNCHANGED <<inputs, mainVars, cwd, dockerHost, ownVars>>

Batch(b) ==
  \/ Start(b) \/ SetHost(b) \/ Connect(b) \/ GetCwd(b) \/ Chdir(b)
  \/ RunInstances(b) \/ MakeReport(b) \/ ReadReport(b) \/ Leave(b) \/ RestoreHost(b)

-----------------------------------------------------------------------------
(* run_harness_evaluation                                                  *)

InCollected(b) == \E n \in DOMAIN collected : collected[n] = b

\* as_completed yields a finished batch; the first exception leaves the loop.
Collect(b) ==
  /\ main = "running" /\ ~InCollected(b)
  /\ \/ /\ At(b, "returned")
        /\ collected' = Append(collected, b)
        /\ UNCHANGED main
     \/ /\ At(b, "raised")
        /\ main' = "joining"
        /\ UNCHANGED collected
  /\ UNCHANGED <<inputs, pc, cwd, dockerHost, ownVars, final, failing, faults>>

\* Leaving the pool runs the batches that are left; nothing is written.
GiveUp ==
  /\ main = "joining"
  /\ \A b \in Batches : pc[b] \in {"returned", "raised"}
  /\ main' = "failed"
  /\ UNCHANGED <<inputs, pc, cwd, dockerHost, ownVars, collected, final, failing, faults>>

\* row_by_key: of the rows with a prediction's key, the last one collected.
Matching(i) ==
  {n \in DOMAIN collected : \E k \in Attributed(collected[n]) : Key(k) = Key(i)}
JoinedStatus(i) ==
  IF Matching(i) = {} THEN "error"
  ELSE LET b == collected[Max(Matching(i))]
       IN  rows[b][CHOOSE k \in Attributed(b) : Key(k) = Key(i)]

WriteResults ==
  /\ main = "running"
  /\ \A b \in Batches : InCollected(b)
  /\ final' = [i \in Judged |-> JoinedStatus(i)]
  /\ main' = "written"
  /\ UNCHANGED <<inputs, pc, cwd, dockerHost, ownVars, collected, failing, faults>>

Main == GiveUp \/ WriteResults \/ \E b \in Batches : Collect(b)

Next == Main \/ \E b \in Batches : Batch(b) \/ HarnessFault(b)

Spec == Init /\ [][Next]_vars

\* The harness returns or raises (it has a timeout), and threads are scheduled.
FairSpec == Spec /\ WF_vars(Main \/ \E b \in Batches : Batch(b))

-----------------------------------------------------------------------------
(* Properties                                                              *)

Ended == main \in {"written", "failed"}

(***************************************************************************)
(* Every prediction's row carries the verdict the harness reached on that  *)
(* prediction's own patch, whatever batch it was put in.  (A solver that   *)
(* has two predictions for one instance is left out: one row is kept for   *)
(* both.)                                                                  *)
(***************************************************************************)
Single(i) == \A k \in Judged : predictions[k] = predictions[i] => k = i
VerdictsKept ==
  main = "written" => \A i \in Judged : Single(i) => final[i] = verdict[i]

\* The same of evaluations that run one batch at a time.
SerialVerdictsKept == parallel = 1 => VerdictsKept

(***************************************************************************)
(* Even when batches overlap or a prediction is repeated, a row never      *)
(* carries the verdict of another solver's patch or of another instance:   *)
(* it is the verdict of a prediction with the same key, or an error.       *)
(***************************************************************************)
NoForeignVerdict ==
  main = "written" =>
    \A i \in Judged : \/ final[i] = "error"
                      \/ \E k \in Judged : predictions[k] = predictions[i] /\ final[i] = verdict[k]

(***************************************************************************)
(* One batch at a time: while the harness works for it, the process is in  *)
(* that batch's directory and the client talks to the configured daemon;   *)
(* and when the evaluation ends, in failure too, the working directory and *)
(* DOCKER_HOST are what they were.                                         *)
(***************************************************************************)
SurroundingsKept ==
  parallel = 1 =>
    /\ \A b \in Batches : pc[b] \in {"harness", "report", "read"} =>
         cwd = b /\ daemon[b] = "host"
    /\ Ended => cwd = Home /\ dockerHost = "inherited"

(***************************************************************************)
(* The evaluation ends: its results are written or it raises.              *)
(***************************************************************************)
EvaluationEnds == <>Ended
=============================================================================
