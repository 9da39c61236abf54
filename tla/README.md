# RepoGauge, specified in TLA+

RepoGauge mines a git repository for changes that can serve as coding tasks, exports them as
SWE-bench style datasets, runs coding agents ("solvers") on them, judges the patches the solvers
produce and analyses the results.  This directory holds TLA+ models of the parts of it where
control is hard to get right, the TLC configurations that check them on small instances, and
TLAPS proofs of what holds for every instance.  Every definition is translated from the Python
source; `PROJECT.json` maps each one to its lines.  Paths below are under `src/repogauge/`.

Contents: [inventory](#1-inventory) · [plan](#2-plan) · [the modules](#3-the-modules-and-the-code) ·
[runs](#4-what-the-runs-check) · [fairness](#5-fairness) · [proofs](#6-what-is-proved) ·
[disagreements](#7-where-the-code-disagrees-with-its-documents) · [not modelled](#8-what-is-not-modelled)

## 1. Inventory

Commands (`cli.py`) run one after the other over directories of JSONL files:
`mine → review → export → eval → run → analyze → train-router`, with `run
--retry-failures-from` feeding on an earlier run, and `analyze` calling `eval` (or the SWE-bench
harness) when it finds no verdicts.  Components do not share memory across commands; they share
files.  Inside `run`, `eval` and the judges there are threads.

| Component | State it keeps | Operations | Talks to |
|---|---|---|---|
| **Solver scheduler** `runner/scheduler.py` | job and attempt ledgers (`run_jobs.jsonl`, `attempts.jsonl`, `attempts.parquet`), results by job, one global and several provider semaphores, a sliding window of time stamps per provider | `run`, `_execute_job` in pool threads, `acquire`/release of permits, persisting, flushing, settling after a failure or a Ctrl-C | planner (jobs), adapters, workspaces, patch normalisation, `cli run` |
| **Run planner and matrix** `runner/planner.py`, `matrix.py`, `providers.py`, `pricing.py`, `solvers.py` | none | expand solver × instance × seed into jobs with ids; validate the matrix | `cli run` |
| **Solver adapters** `runner/adapters.py`, `telemetry.py`, `features.py` | per-attempt prompt, command, files | prepare, execute, collect telemetry, finalise, classify the status | containers, host processes, scheduler |
| **Attempt workspaces, git checkouts** `runner/workspaces.py`, `utils/git.py`, `runner/runtime.py` | checkouts on disk, private homes, `DOCKER_HOST`, a podman service | prepare and remove a workspace, clone, reset, apply a patch | scheduler, evaluation |
| **Patch normalisation** `runner/normalize_patch.py` | none | reject or clean what a solver left in its checkout | scheduler |
| **Containers** `runner/container_exec.py` | images by key, a lock per key, containers by name | prepare an image once, run a command with a deadline, sessions | adapters, evaluation |
| **Evaluation** `validation/validate.py`, `evidence.py`, `testsel.py`, `junit_parser.py`, `parsers/` | one checkout per evaluation, test outcomes per pass, result rows by index, a log bundle per instance, a window of futures | five passes, flake and regression checks, verdict and reason; a pool of evaluations | `cli eval`, `cli analyze`, `cli export`, containers |
| **Harness judge** `runner/judge.py` | batches, their working directory, `DOCKER_HOST`, result rows | group predictions, run the harness per batch (in threads), join rows to predictions | the external SWE-bench harness |
| **Diff judge** `runner/diff_judge.py` | `judge/llm_judge.jsonl`: judgements keyed by attempt and by a hash of the question | judge patches by a language model, reuse scored rows | `cli analyze`, language model |
| **Command line and manifests** `cli.py`, `manifest.py`, `artifacts.py`, `config.py` | a manifest per command (status, inputs' hash, step markers), run directories and their `-retry` families | start, resume, finish; retry failed jobs; merge a family | all of the above |
| **Analysis and reports** `runner/analyze.py`, `progress.py` | none beyond its outputs | join attempts with verdicts, count, price, render | `cli analyze` |
| **Router** `runner/router.py` | `router_train.parquet`, `router_model.json`, `router_report.json` | one routing row per instance, split, fit a tree, compare policies | `cli analyze`, `cli train-router` |
| **Mining** `mining/` | candidates | scan, score, inspect, enrich | `cli mine` |
| **Review** `review.py`, `llm.py` | triage cache, policy | review candidates, ask a language model within policy | `cli review` |
| **Export** `export/` | dataset, specs, gold predictions | split patches, materialise, validate | `cli export`, evaluation |
| **Language support** `lang/` | registry of adapters | detect, build commands, parse reports | evaluation, export |
| **Processes, logging, cloud bundles** `exec.py`, `logging_utils.py`, `cloud_bundle.py` | none | run a command with a deadline | all |

What is hard, and what correctness means there:

* **Scheduler.** Pool threads take two semaphores one after the other, write two ledgers, and
  die of exceptions at any write; the main thread collects futures and must settle jobs it never
  heard of when one raises, when a later job turns out to be misconfigured, or when a Ctrl-C
  arrives in the middle of the pool's join.  Correct means: permits are never lost, no thread
  waits for ever, retries stay within budget and follow only retriable states, both ledgers and the
  parquet file tell one story, every submitted job ends with one terminal row.
* **Rate limiter.** A refused caller changes the shared window before it sleeps.  Correct means:
  no minute holds more attempts than configured, and nobody starves.
* **Evaluation.** Five passes share a checkout; tests may be flaky; anything may fail in any
  pass.  Correct means: no pass sees another, an acceptance is proven by what the passes saw, and a
  rejection says why.  The pool around it must put results back in order, count them, and not lose
  rows.
* **Harness judge.** Threads change the process's working directory and `DOCKER_HOST`.  Correct
  means: each prediction gets the verdict on its own patch.
* **Command line.** A command can be killed between any two files it writes, resumed or retried.
  Correct means: nothing is skipped that has not been done for these inputs, a retry repeats what
  failed, and an analysis joins an attempt with the verdict on that attempt.
* **Adapters and containers.** Deadlines race with answers, a cleanup from another terminal with
  use, two builders of one image with each other, and the threads of a run share what a probe of
  the Claude login found.  Correct means: no command outlives its call, no lock outlives a failure,
  and the status and the cost of an attempt are what happened.
* **Workspaces and patch normalisation.** A solver may stage, commit, move and delete, and answer
  with a diff, an edit plan or prose.  Correct means: what is recorded applies to the base commit,
  is the solver's work, holds nothing the benchmark withheld or planted, and nothing is left on disk.
* **Diff judge.** A judgement is bought once and reused, while patches and verdicts change under
  it.  Correct means: a report's judgements are of what it reports, and none is bought twice.
* **Analysis and router.** Pure functions over rows with unknown costs, missing verdicts, several
  attempts of a pair and few rows.  Correct means: the tables of a report agree with one another,
  and a router is compared fairly.
* The planner, mining, export and language parts are sequential functions: what could be wrong is a
  boundary, which a unit test reaches.

The hazards, each at its line and with the properties aimed at it, are in `PROJECT.json`.

## 2. Plan

Order: what runs threads over shared ledgers first, then what a killed or repeated command leaves
behind, then sequential cores.

1. `JobLifecycle` (abstract: the two ledgers), `SolverScheduler` (refines it), their proofs. *Done.*
2. `RateLimiter`, the window every attempt on a throttled provider passes. *Done.*
3. `JudgeBatches`; `EvalInstance` and `EvalPool`. *Done.*
4. `RunFamily` (a run, its retries, evaluation and merged analysis over the files they leave, with
   a process killed anywhere).  *Done.*
5. `PatchNormalization` (one attempt's checkout); `ContainerExec` and `SolverAttempt`, which
   extends it (commands, then what an adapter makes of them), and their proofs.  *Done.*
6. `Reports`, `Router` and `DiffJudge` (what is computed, what is kept), composed by `Analysis`
   (the commands `analyze` and `train-router`).  *Done.*
7. Proofs of every safety property the runs check of `SolverScheduler` (with its refinement of
   `JobLifecycle`), `RunFamily`, `SolverAttempt`, `EvalInstance`, `EvalPool`, `JudgeBatches` and
   `PatchNormalization`.  *Done.*
8. Proofs of `OverrunBounded` of `RateLimiter` and of every property of `Analysis`.  *Done.*

No module that is proved about, or that such a module uses, declares a RECURSIVE operator;
constants are constrained by named assumptions which the runs evaluate; one action stands for one
operation between two points where another thread or a fault can be seen.

## 3. The modules and the code

### `JobLifecycle` — what a run promises a reader of its ledgers
`row[j]` is job *j*'s last row in `run_jobs.jsonl`, `log[j]` the states of its rows in
`attempts.jsonl`.  The actions are the writes a reader can see: enqueue, begin, record, requeue,
finish, interrupt.  Nothing is said of threads.

### `SolverScheduler` — `runner/scheduler.py`
One pool thread per job (a pool thread runs a job from start to end), named by the job; `thread[j]`
is its place in `_execute_job`, and an action ends where a lock, a file or the other thread
matters: `Start` (an idle worker takes the oldest pending job), `Open` (budget check, first row),
`Preflight`, `RecordSkip`, `BeginAttempt`, `EnterWorkspace`, `AcquireGlobal`, `AcquireProvider`,
`Throttle`, `CallAdapter`, `ReleaseProvider`, `ReleaseGlobal`, `LeaveWorkspace`, `RecordAttempt`,
`Decide`, `Close`; `Raise` is an exception at any of the steps where a ledger is written.  The main
thread is `Submit`, `Collect`, `CollectedAll`, `Join` (leaving the pool's `with`), `Settle` (a future is
looked at) and `CloseInterrupted` (its row is written, or `SettleFault`), `SettledAll`, `Flush`, `FlushFault`.
`Interrupt` is a `KeyboardInterrupt` that reaches it anywhere on that way: while it submits or collects it leads to
the join, in the join it may cut that short, in the `finally` block it skips the rest, and in the flush, which
has taken the rows out of the buffer, it may lose some or all of them.  `failure` says what `run` will raise, and of a
Ctrl-C whether it cut the join or the block short (`Cut`).  Semaphores are counters, as in the code; `provider_parallelism` may leave providers
out, which share the fallback semaphore.  `Reported` holds statuses an adapter may give, one of
them unknown to `_coerce_attempt_status`.  Abstracted: payloads, telemetry, prices, durations.
Simplified: `pool.submit` and the registration of its future are one step, and so is the write of one row; no
interrupt falls inside either.  Pool threads go on after a cut join, as Python's do; their later rows are in the
ledgers, and their attempts miss the parquet file.

### `RateLimiter` — `_SimpleRateLimiter`
A clock in ticks, the list of stamps, and per call its own earlier reading of the clock (it is
read before the lock is taken).  Attempts arrive in order, `max_parallel_jobs` of them at once.  `Refuse` drops
the oldest stamp, as the code does, and sleeps; so the configured limit is kept by one thread only,
and `OverrunBounded` says by how much more threads exceed it.  `granted` is history.

### `JudgeBatches` — `runner/judge.py`
The input is a prediction file and the number of batches at once (`Evaluations`); batches are computed as
`_prepare_batches` does (by solver and version, cut to `batch_size`).  Each batch's thread sets `DOCKER_HOST`, connects, changes
directory, runs the harness, writes and reads its summary relative to the working directory, and
undoes both changes in its `finally` clauses; `cwd` and `dockerHost` belong to the process.
The harness itself is external: it finds `verdict[i]` and writes where the process stands.  Paths
are taken as absolute, dataset rows as carrying no solver of their own.

### `EvalInstance` — `_eval_instance`
Five passes over one checkout, each from `Reset` to a report that parses or does not, through
every command of the adapter and pytest's second try on whole files.  `tree`, `dirty` and `report`
say what is in the checkout; `run[p]` what pass *p* returned.  Tests may report anything in any
run.  The verdict's operators (`DerivedFtp`, `Ftp`, `Regression`, `Flaky`, `Resolved`,
`Normalize`) are the functions of the code, over functions from tests to outcomes.

### `EvalPool` — `run_eval`
The main thread's window of futures, the evaluation threads, the rows by index, the counts and the
log bundles.  An evaluation is abstracted to a verdict, or an exception, and its writes of the
bundle's files, one at a time, into the directory of its instance, which predictions of one instance share.

### `RunFamily` — `cli.py`, `manifest.py`, the join of `analyze.py`
Commands run one at a time over roots: root 1 is the run the matrix names, root *r + 1* its retry, named
`…-retry`.  `rows`, `attempts` and `results` are a root's ledgers and verdicts, `ran` and
`reported` say which manifests read "succeeded".  A run is `StartRun`, `Plan` (for a retry: which jobs failed, by row
or by verdict), `ClearJobs`, `ClearAttempts`, the scheduler's three writes per job, `FinishRun` or
`FailRun`; an analysis is `StartAnalyze`, `Resolve` (of one root or the merged family), `Evaluate` (an
`EvalPool` seen from outside: a verdict per pair), `Join`, `FinishAnalyze` or `FailAnalyze`; `Kill` ends either between two
of its steps.  A skip by `--resume` changes nothing and is no action: `SkipIsSound` is about the states in
which one may happen.  `begun`, `complete` and `analysed` are history, and so is `careless`: was a root run again after
verdicts on it or retries of it were there (`Used`)?  `run` does not ask.

### `PatchNormalization` — `normalize_patch.py`, `workspaces.py`, `utils/git.py`
One attempt's checkout as git has it, three trees (`git.head`, `git.index`, `git.files`), from
`Prepare` (clone, the benchmark's `AGENTS.md`, copied credentials; `PrepareFails` after any of the copies)
through whatever the solver does (`WriteFile`, `MoveFile`, `GitAdd`, `GitCommit`, of `AGENTS.md` as of any other file)
and says (`Answer`) to `NormalizeAnswer` and `Close`.  A diff is a set of chunks; git's pairing of renames is any one-to-one set of
pairs of a file that went and one that came and is `Alike` (the same, or similar), to which no pair can be added; the same
first.  `Normalize` takes the sources in
the code's order (a patch in the answer, an edit plan, the workspace as it was found), and each passes
through the same git steps, `DiscardAgents`, `Stage`, `Restore`.  It gives a patch (`Got`), a
`PatchNormalizationError` (`Refused`: no change, one of a file that is or was binary, a patch that does not fit) or an
error of another kind (`Raised`: a json fence that is no JSON, an edit plan that writes onto a directory, a change that is
not UTF-8), which `Record` puts on record as the scheduler does.  `NormalizeFaults` and `GiveUpRaises`
are the machine's part: a git command or a write fails (a `GitError` of `apply_patch_text` among them), and `faulty` says
so.  What the solver does and how git pairs renames are external.
Simplified: contents are those of whole files, so a change shows all of a file that is not UTF-8 where git shows the lines
around it; a plan with two files that cannot be written is decided by the first, so answers have one;
ignored files, line endings and file modes are left out.

### `ContainerExec` and `SolverAttempt` — `container_exec.py`, `exec.py`, `adapters.py`
`cast[t]` says what thread *t* is: an attempt of an adapter, in a container or on the host, or an
evaluation session.  `ContainerExec` gets its commands run: the image (built under the lock of its key by a
session, under none by an attempt), the container, the command's presence in it, the setup, the
command and its deadline, the `finally` clauses; `Sweep` is `repogauge cleanup` from another terminal.
An image that an override names is one that is present.  `SolverAttempt` adds the preflight with the two
attributes the threads of the Claude adapter share, and what each adapter makes of a way to end and an
output: an output is the set of the things that can be found in it (`Marks`), `CodexResult`,
`ClaudeResult` and `OpenCodeResult` differ in the order in which they look.

### `Reports`, `Router`, `DiffJudge`, `Analysis` — `analyze.py`, `router.py`, `diff_judge.py`, `cli.py`
`Reports` is the pure part of a report: the join, a summary per solver, the two rankings, both
frontiers, failure reasons, the cost floor and savings, the browser.  Quotients are pairs compared
crosswise, so no precision is lost.  `Router` is the routing table (`RouterTable`) and what
`train-router` does with it: `Splits` (rounded half to even, clamped; any order of a label's rows,
since a hash decides), any tree over the labels of the rows it was fitted on, the scores.  `DiffJudge`
is `run_diff_judge`, one candidate at a time, over the judgements on file: a reply rates the dimensions
(`Replies` bounds which: none, too few, an impossible rating, three usable ones of which two lie next to a
label's boundary), and its weighted delta and label follow; `bought` is history.
`Analysis` is the two commands, file by file (`summary.json`, `report.csv`, `report.parquet` and `report.html` hold
one content and are one file, `page`), with evaluations and runs in between, failures and kills.  `World` says what attempts a run
of the scheduler can leave.

### How they fit
`SolverScheduler` implements `JobLifecycle` (`LifecycleSpec`, checked step by step by TLC and proved);
`Throttle` is a call of `RateLimiter`; `EvalPool`'s `Judge` is a behaviour of `EvalInstance`, and
its `JudgeRaises` that module's `SessionFails`; `RunFamily`'s `OpenJob`,
`RecordAttempt`, `CloseJob` and `FailRun` are what `JobLifecycle` lets a reader see, without the retries inside one run.
The scheduler's `EnterWorkspace`, `CallAdapter` and `LeaveWorkspace` are `PatchNormalization`'s `Prepare`, `SolverAttempt`'s steps
and `NormalizeAnswer` with `Close`; `EvalInstance`'s commands run in a session of `ContainerExec`; `Analysis` starts where
`RunFamily`'s `Resolve` has found the files.  The `MC…` modules only name values for the
constants.

## 4. What the runs check

| Run | Instance | Shows |
|---|---|---|
| `scheduler` | 3 jobs, 2 workers, provider *p* with one permit, job 1 may retry, 1 exception anywhere | permits conserved, the global semaphore never the bottleneck, a return or failure leaves complete ledgers; implements `JobLifecycle`, whose ledgers agree; every run ends |
| `scheduler_interrupt` | 4 jobs, budget 0 for job 2, no adapter for job 4, 1 exception and 2 interrupts wherever `run` is, the `finally` block and the flush included | a Ctrl-C while submitting or collecting loses nothing; a job that ended keeps its row, but for one case; the ledgers never contradict each other |
| `rate_limiter` | 4 calls, limit 1, window 2 ticks, 5 ticks, one thread and two | at most limit + threads grants in a window, exactly the limit with one thread; every call returns |
| `judge` | three files of 3–4 predictions, one batch at a time, and one file two batches at once; 2 solvers, 2 versions, 1 fault | own verdicts, directory and host restored when serial; never a foreign verdict; the end reached |
| `judge_parallel_claim` | the two batches at once, no fault | verdicts are lost |
| `eval_instance` | 2 tests, 4 kinds of dataset row, 2 commands, all failures | isolation of passes, soundness of acceptance, explained rejections |
| `eval_pool` | 3 predictions, two of them of one instance, and an unpredicted row, 2 workers, 1 exception | complete rows and counts, nothing runs unseen, a bundle holds its instance's logs only, the end is reached |
| `run_family` | 2 jobs, a run and its retry, 4 executions of `run`, 2 where one repeats a judged root, any number of analyses, kills and failures | own verdicts, latest attempts and exact retries up to such a repetition, no foreign verdict after it, sound skips |
| `normalize` | 5 paths (a source, a withheld test, one the test patch adds, `AGENTS.md`, one more), 3 base commits (plain; `AGENTS.md` tracked and a binary file; a file that is not UTF-8), 3 things done to the workspace, 15 answers, a failure of any step | recorded patches apply and are clean, work is kept |
| `normalize_claim` | as above | a status of success without a normalised patch, on a machine that works |
| `attempt` | 5 casts of two or three threads, 6 outputs, 1 docker fault, 1 sweep | images built once, nothing runs on, status and cost true, every attempt ends |
| `analysis` | about 300 runs of up to 3 solvers and 4 instances, 2 data sets, 2 pairs of shares, 1 change, 1 kill or failure | judgements current and bought once, report coherent, oracle best, scores honest |

Why these bounds.  Scheduler: a permit or window hazard needs two threads that compete and a third
job that waits for a worker or runs on another provider; a retry needs budget two; an exception needs to hit
once, before, between or after the others (a second one changes nothing that the first does not
reach, since `run` stops collecting at the first; 331,885 states).  Two interrupts let one end the
collection and the other meet what follows it (173,870 states).  Rate limiter: four calls let both threads be refused and both be granted a second
time within a window; the clock stops at `MaxTime`, and windows that reach it are not judged.  Judges: two batches
are enough for one to move the other's directory.  Evaluation: verdicts quantify over single tests,
so two tests suffice to have one that decides and one that does not; "absent" stands for failing and
erring too, which the code treats alike wherever it looks at them (the flake check compares outcomes for
equality, where any two different values do).  Pool: two workers and four items fill, drain and refill the
window, with a skipped row among them, and two predictions of one instance are at work at once (16,433 states).  Run family: two jobs are one that is retried and one that is not, or is
lost; two roots are a source and a target of a retry, merged or not; four executions let one of them be killed and repeated
on either side of a retry (4,706,004 states).  `MaxReruns` = 2 is enough to judge a root, run it again and report the new
attempts with the old verdicts, which is `careless`; with one root and three executions `StrayVerdictIsStale` was checked
too.  The jobs are of distinct
(instance, solver) pairs: verdicts are kept by pair, and two seeds of one share it.  Jobs are symmetric:
no definition orders them.

Normalisation: one path of each kind the code treats differently, contents that git takes for changed copies of
the source and of the withheld test, and three steps, which are enough to move one file, write over another and
stage both (1,313,425 states; with four steps, 13,424,177 states, nothing else is found).  Attempts: two threads meet at a lock or at the login's two
attributes; one fault decides any of the branches, and a second would follow a call that is over
(88,931 states).  Analysis: the fates of a job (solved cheaply, dearly or at an unknown price, timed out,
lost, retried, two seeds) on one instance for three solvers and on two for two, where rankings, ties and
missing rows occur; a label needs three rows or four for a split to have all its parts.  What happens
over several commands (`MaxChanges`, `MaxFaults`, judgements, training) is followed for
runs of at most `MaxAttempts` = 2 attempts, and a run is either judged or given a router
(`MayJudge`, `MayTrain`), since neither reads what the other writes (738,780 states).

`CHECK_DEADLOCK FALSE` is said where the program ends and nothing follows (the rate
limiter whose calls are over, the judges, an evaluation, a user who gives no further command); `SolverScheduler` has a `Terminated` step
instead and is checked for deadlock.

Each property has a mutant in `PROJECT.json`: a version of one definition with a plausible bug that
makes TLC refute it.

## 5. Fairness

* `SolverScheduler!FairSpec`: weak fairness of the main thread and of each pool thread.  Adapters run
  commands with a deadline, semaphores are released in `finally` clauses, so a thread that can go
  on does.  Weak fairness is enough for `AcquireProvider` although a semaphore is shared: the run is
  finite, every holder releases, and `threading.Semaphore` wakes a waiter; no fairness is assumed of
  `Raise` or `Interrupt`.
* `RateLimiter!FairSpec`: time passes, and each caller is scheduled.
* `SolverAttempt!FairSpec`: weak fairness of each thread; a command that does not end is ended by its
  deadline, so `Deadline` or `CommandEnds` is taken, and a lock's holder is a thread that goes on.  No
  fairness singles out a fault, and none is assumed of `Sweep`.
* `JudgeBatches!FairSpec`, `EvalPool!FairSpec`: harness and test commands have timeouts, so each
  batch or evaluation goes on until it ends or raises.

## 6. What is proved

Checked by TLAPS for every value of the constants that satisfies the named assumptions:

* `SolverSchedulerProofs`: `TypeCorrect`, `PermitsAlwaysConserved`, `GlobalNeverMakesWait`, for
  any number of jobs, workers, providers, budgets, exceptions and interrupts (`SchedulerAssumption`).
  - `TypeOK` is not inductive: a row takes an attempt's state only after it was coerced, and `Submit`
    reads `submitted + 1`.  `TypeInv` adds both facts and is split by the variables it
    types (`MainTypes`, `ThreadTypes`, `PermitTypes`, `FileTypes`, `BoundTypes`); frame lemmas
    say which actions change which group, so each part is proved over the few actions that
    matter to it.
  - permits: the sets of threads at places where a permit is held change by one element exactly
    when the counter changes by one (`FS_AddElement`, `FS_RemoveElement`).
  - the global semaphore: at most `MaxParallel` threads are `Running` (an invariant of `Start`), a
    thread at `acquire_global` is one of them and holds no permit, so with permits conserved one is free.
  - the ledgers: `ReturnedRunIsComplete`, `FailedRunClosesEveryJob`, `InterruptedRunLosesNothing`, `VerdictsAlwaysStand` and
    `LedgersNeverContradict`, all without a hypothesis on interrupts, rest on `LedgerInv`: by a thread's place,
    what its job has in both ledgers (`Story`), what has been collected of it (`Harvest`, `Told`), and, as long as no Ctrl-C cut
    anything short (`Whole`, a part of the invariant, read off `failure`), what the main thread can rely on after the
    pool's join (`Joined`, `Settled`, `Buffered`).  A cut stays one (`CutStays`), so `Whole'` implies `Whole`.
  - the refinement: unless a join was cut short with a job's exception pending (`NoneMistaken`), every step is
    one of `JobLifecycle` or leaves both ledgers as they are (`LifecycleStep`), so `RunFollowsLifecycle` and, with
    `MaxInterrupts = 0`, `UninterruptedRunFollowsLifecycle` (`Spec => LifecycleSpec`).
  - what the abstract specification promises, over the instance `Lifecycle` of it: `LedgersAlwaysAgree`
    (`Lifecycle!Spec => []Lifecycle!LedgersAgree`) and `ClosedJobsStayClosed`.  `TypeOK /\ LedgersAgree` is inductive; two lemmas
    (`LifecycleRowStep`, `LifecycleRecordStep`) say that a step that touches one job's row, or log, has only to be looked at for that
    job.  With the refinement the second gives `RunClosesJobsOnce` of the scheduler itself.
* `RunFamilyProofs`: `SkipsAreSound`, for any matrix, roots and executions, careless or not.
  `SkipIsSound` is not inductive: `Unvouched` adds that while a run (an analysis) is under way no
  manifest vouches for one, and that a run touches the rows of planned jobs only.
  `MergesAreLatest`, and with one job per pair (`OneSeed`) `RetriesAreExact` and `VerdictsAreOwn`, speak of what happens before anyone
  is careless, by `FInv`, which holds until then (`CaredHolds`): of two
  roots the later one's attempt of a job is the later execution's (`Ordered`), a run under way is the newest and
  nothing was made of its root (`Newest`, `Unjudged`), a job a retry has was no success in any root before it
  (`Chained`), and an analysis in progress has what the files say (`Analysing`).  That a merge picks the greatest root needs
  that one exists (`GreatestRoot`, by well-founded induction on the distance from the last).
  After it too, `StrayVerdictsAreStale`: verdicts on file are of their pair and of no later execution than the attempts
  in the same root (`StrayInv`).
* `SolverAttemptProofs`: `NothingEverRunsOn`, `ImagesAreBuiltOnce`, `StatusAlwaysTrue` and `SpendAlwaysKept`, for any threads,
  casts, outputs, faults and sweeps (`CastAssumption`).
  - `NothingRunsOn` speaks of threads whose call is over; `Tidy` adds where else a thread has
    nothing (`Quiet`: before its command), and that one without a container has at most the command
    it waits for.  `OneThread` reduces a step to the thread that takes it, `Moved` those that only go
    somewhere.
  - `ImageBuiltOnce`: who is inside has the lock (`Held`), so two are never inside for one image; where
    there are only sessions an image that is missing was not built (`NewBuilds`), and a build holds it missing.
  - status and spend: `Verdicts` says how a command can have come to its end by the time its result is read (`LetThrough`),
    and that a result is a skip, a failure before the command, or what the adapter makes of that end and that output
    (`Judged`); what remains is a comparison, adapter by adapter, of two functions.
* `EvaluationProofs`, of one evaluation: `PassesStayIsolated`, `AcceptedAlwaysProven`, `RejectionsAlwaysExplained`, for any tests, however
  flaky, and any declared lists.  `Checkout` says what is applied in the checkout at each step of a pass, `VerdictInv` what the
  result rests on once there is one.
* `EvaluationProofs`, of the pool: `WrittenAlwaysComplete`, `NoneEverRunsUnseen` for any items, workers and exceptions, and
  `BundlesAreTheirInstances`, also where an instance is predicted more than once (what is in its directory was written by one of its
  predictions, and each file by one that wrote that many).
  `PoolInv` relates an item's place to the cursor, the window and its row, and the counts to the rows: one more row is
  one more in exactly one count (`CountsOneMore`).
* `JudgeBatchesProofs`: `NoVerdictIsForeign` for any files and any number of batches at once; `SerialVerdictsAlwaysKept`
  and `SurroundingsAlwaysKept` for one at a time.
  - that a batch's rows are about its own predictions (`BatchInv`) needs what `_prepare_batches` does: predictions of one batch and
    one instance have one solver (`OneSolver`, since a group's least member names it), so a prediction that gets
    a row is the one the harness ran (`RunsItsOwn`).
  - one at a time: `Serial` says where the process is at each place of the batch that is run; a pool of one starts a batch only when
    the set of those that run is empty (`OneWorker`), so no other batch can have moved it.
* `PatchNormalizationProofs`: `TypeCorrect`, `PatchesAreClean`, `WorkIsAlwaysKept`, for any paths, base commits, contents, similarity,
  test patch, answers, edits and faults (`PathAssumption`: finitely many paths).  The lemmas are about diffs.
  - a pairing as git makes it exists, so `Renames` is one: of the one-to-one sets of pairs one is largest
    (`MatchingIs`, by well-foundedness of the natural numbers), and no pair can be added to it.
  - `RoundTrip`: a diff applied to what it was taken of gives what it was taken to, whatever was paired; `PartPatched`: a part of a
    diff fits, and does to each path what the whole does, or removes it, or nothing.
  - `WorkspaceRead` says which diff a normalisation takes, and when it refuses or raises, `KeptRead` what is left once withheld chunks are
    cut out and the rest is put on the base commit again (`CutIsClean`, `CutWork`).
* `RateLimiterProofs`: `OverrunAlwaysBounded`, for any calls, threads, limit and length of the window.  Until the clock leaves a window, a stamp of
  a grant in it is dropped only by a thread that is refused and then sleeps past the window, so the grants are at most the
  stamps left and these sleepers (`Before`); afterwards only threads that still hold a reading from the window can be granted in it,
  once each (`After`).  With one thread, whoever sleeps is alone and has dropped a stamp
  (`SizeInv`), which gives the limit itself.
* `AnalysisProofs`: all five properties of `Analysis`, for any sets of attempts, data sets, shares, verdicts, replies, changes and faults
  (`AnalysisAssumption`), from `AnalysisInv`.
  - `AlwaysPaidOnce`: an answer is `Held`, by the file or by the session, or it was lost: `PaidInv` allows one purchase more for a question that
    is held and would be asked now than for one that is not, so that losing an answer pays for buying it again.
  - `JudgementsAlwaysCurrent`: a session has one judgement of each candidate that is no longer pending, about its present patch and verdict
    (`JudgedSet`), whatever was on file, and used the file wherever that had the answer (`FileUsed`).
  - `OracleAlwaysBest`, `ScoresAlwaysHonest`: what the first says is a fact of every row of a table (`Facts`, `TableInv`), which the files
    carry to `train-router`; a split holds rows of a label back as soon as it has two (`SharesAre`, `SplitIs`).
  - `ReportAlwaysCoherent`: quotients with the infinity <<1, 0>> are totally preordered (`LessTransitive`, `LessTotal`), so keys that end in
    a name have exactly one first element (`FirstByIs`) and everything follows from the first measures of a key: a solver off the frontier is
    dominated by the one with the fewest above it (`FrontierDominates`), a key that starts with the three measures, in any order, puts no
    solver before one that dominates it (`CheapestOnFrontier`; `BestOnFrontier` needs that all tried as many), and who is within a
    budget is within a larger one (`LargerBudget`, `LargestBudget`).  The costs are comparisons of sums term by
    term, on a part of the terms (`SumOfPart`) or along an injection of one sum's terms into the other's (`SumUnder`).
  - sums and counts are folds of the library.  Induction over sets takes an operator, so each lemma about them
    (`SumPick`, `SumLeq`, `PartsAddUp`) looks at a smallest part of the set for which it would fail
    (`SmallestPart`, by well-foundedness of strict inclusion among finite sets).

Proof and model corrected each other in four places.  What `RunFamily` calls careless once looked only at the next root's
attempts, and a bound of three executions hid that a retry killed between clearing its rows and its attempts, followed by the
first run again, merges stale attempts; `Used` now looks at both ledgers of every later root.  `PatchIsClean` once said that a
withheld file is untouched unless a chunk moves it: it is also removed when the solver stages an `AGENTS.md`
with its contents (`normalize_patch.py:528` keeps what is staged, the second reading at `:320` does not), and git may name
another file like it as the source; `MovedAway` says both, and the run reaches the first.  `JudgeAssumption` and
`PoolAssumption` now say that files are sequences and predictions are records, which every run evaluates.  `Analysis` did not say which
attempts a run can leave: that a judgement is of the patch shown needs that an attempt with a patch is its job's last
(`scheduler.py:1053`), now part of `World`, which the runs evaluate of every set they start from.

The assumptions on constants are named in the modules and evaluated by the runs; three hypotheses go beyond them and
are stated in the theorems: `OneSeed` (a user's matrix), `MaxInterrupts = 0`
and `[]NoneMistaken` (how often Ctrl-C is pressed, and when).

Every safety property of the passing runs is a theorem.  Only model-checked: liveness (`RunEnds`, `EveryCallReturns`, `EvaluationEnds`,
`EvalEnds`, `AttemptsEnd`), which this prover does not reach.  The `TypeOK` of
`RateLimiter`, `EvalPool`, `PatchNormalization` and `SolverAttempt` documents their variables and is not among the runs' properties
(that of `PatchNormalization` is a theorem, `TypeCorrect`).

## 7. Where the code disagrees with its documents

Two are runs expected to be violated, with the sentence they contradict under `findings`:

* `judge_parallel_claim`: parallel batches move each other's working directory.
* `normalize_claim`: an answer with a block fenced as json that is not JSON ends as a success without a
  patch (`runner/normalize_patch.py:238`, `scheduler.py:1012`); so do an edit plan that writes onto a directory and a
  change that is not UTF-8.

Four more are stated by the models, and are refuted when named as the invariant of the module's configuration:

* `RerunIsJudged` of `RunFamily`: a run repeated into its root is reported with the verdicts of the run before
  (`cli.py:2938` clears the ledgers and leaves `eval/`, `cli.py:2244` judges only where there are no results), although
  `README.md:30` says "Rerun the same matrix on the same dataset next month.  Diff the pass rate and the cost", and every
  example matrix names its run.  `StrayVerdictIsStale` says whose verdicts these can be.
* `NothingLeftBehind` of `PatchNormalization`: the homes with the user's credentials go only when an attempt's context is
  left normally (`runner/workspaces.py:216`); a failure while they are made leaves what was copied, an error that goes through
  the context both (`tests/unit/test_attempt_workspaces.py:93` asserts that they are gone).  The next attempt of the same id
  removes them (`:169`).
* `RateLimitRespected` of `RateLimiter`: with two threads more attempts than the limit fall within a minute
  (`scheduler.py:177` drops the oldest stamp before the sleep; `:52` says "Maximum attempts per minute").
  `OverrunBounded` says by how much.
* `NoRegressionAccepted` of `EvalInstance`: regressions are looked for only among declared PASS_TO_PASS
  tests (`validation/validate.py:1121`; `docs/DESIGN.md:262` says "no `PASS_TO_PASS` regressions").

What the properties do not promise, because the code does not do it: the logs of two predictions of one instance
are mixed in one directory (`validation/evidence.py:74`; `BundleIsItsInstances` says that no other instance's are); a
solver that moves or copies the benchmark's `AGENTS.md` has its text in the patch under the other path
(`runner/normalize_patch.py:533` discards it by its path; `PatchIsClean` speaks of that path); a router's stand-in is booked
on the solver it stands in for (`router.py:301`); and the manifest that tells whether scores belong to the model
beside them is, without `--out`, one for all runs and of the latest `train-router` (`cli.py:1026`).

Met while reading, and not the subject of a run: `declared_ftp_not_resolved` is reported but not in the taxonomy of
reasons, and `base_repo_unrunnable` is in it and never reported (`validation/validate.py`, `evidence.py`);
a matrix that names no run drops `--run-id` and the name of a retry (`runner/matrix.py:238`).

## 8. What is not modelled

Listed per component in `PROJECT.json`.  HTML reports, prompts, parsing of tool output, pricing tables and
file-name heuristics hold no state and no order; they stay outside, as do tokens, tool calls, percentiles and
samples of a report, a router's features and thresholds (any tree is taken), the words of a judge's verdict,
Dockerfiles and mounts, the hash of a command's arguments, and the planner, mining, review,
export and language parts, which are functions of one call.  `RunFamily` keeps of a job's attempts in one run the last (the earlier ones failed and carry
no patch), of the four retriable statuses one, and of `instance_results.jsonl` and `validation.jsonl` one file.
