--------------------------- MODULE SolverScheduler ---------------------------
(***************************************************************************)
(* repogauge/runner/scheduler.py: SolverScheduler.run submits every        *)
(* planned job to a thread pool, collects the futures, and settles what is *)
(* left when a job or the main thread raises; _execute_job is the life of  *)
(* one pool thread: preflight, then attempts under a global and a provider *)
(* semaphore and a rate limiter, retried within the solver's budget.       *)
(*                                                                         *)
(* Jobs are numbered in plan order.  A pool thread runs one job from start *)
(* to end, so a thread is named by its job, and the pool by the number of  *)
(* jobs being run.  The semaphores are counters, as in the code.           *)
(***************************************************************************)
EXTENDS Integers, Sequences, FiniteSets

CONSTANTS
  NumJobs,        \* number of planned jobs
  MaxParallel,    \* max_parallel_jobs
  ProviderOf,     \* provider_id of each job
  ProviderLimit,  \* provider_parallelism: a function on the limited providers
  Fallback,       \* the semaphore shared by every other provider
  Budget,         \* solver budget of each job
  Adapterless,    \* jobs whose solver has no adapter
  NeedsWorkspace, \* jobs whose adapter runs inside an attempt workspace
  Reported,       \* statuses an adapter may report for an attempt
  Retriable,      \* retriable_states
  MaxFaults,      \* bound: writes and preflights that raise
  MaxInterrupts   \* bound: KeyboardInterrupts that reach the main thread

Jobs       == 1 .. NumJobs
Limited    == DOMAIN ProviderLimit
Semaphores == Limited \cup {Fallback}

\* The states an attempt row can carry; "queued" and "running" are known to
\* _coerce_attempt_status too, but no adapter of the repository reports them.
AttemptStates == {"succeeded", "skipped", "failed", "timed_out",
                  "budget_exceeded", "invalid_patch"}
JobStates     == AttemptStates \cup {"none", "queued", "running"}

ASSUME SchedulerAssumption ==
  /\ NumJobs \in Nat
  /\ MaxParallel \in Nat \ {0}
  /\ ProviderLimit \in [Limited -> Nat]
  /\ Fallback \notin Limited
  /\ Budget \in [Jobs -> Int]
  /\ Adapterless \subseteq Jobs
  /\ NeedsWorkspace \subseteq Jobs
  /\ Reported \cap {"none", "queued", "running"} = {}
  /\ Retriable \subseteq AttemptStates
  /\ MaxFaults \in Nat
  /\ MaxInterrupts \in Nat

SemaphoreOf(j) == IF ProviderOf[j] \in Limited THEN ProviderOf[j] ELSE Fallback
Limit(s)       == IF s = Fallback THEN MaxParallel ELSE ProviderLimit[s]
\* Mutant: an unknown status is recorded as it came.
CoerceNothing(s) == s
Coerce(s)      == IF s \in AttemptStates THEN s ELSE "failed"

VARIABLES
  main,          \* where run() is
  submitted,     \* jobs handed to the pool: 1 .. submitted
  results,       \* results_by_job_id ("none": no entry)
  cursor,        \* next future the settling loop looks at
  failure,       \* what run() is about to raise ("none": nothing)
  thread,        \* thread[j]: where the pool thread of j is
  attempts,      \* thread-local: attempts made
  outcome,       \* thread-local: status of the current attempt, then of the job
  globalFree,    \* _global_sema
  providerFree,  \* _provider_sema and _fallback_provider_sema
  row,           \* last row of each job in run_jobs.jsonl
  log,           \* states of each job's rows in attempts.jsonl
  buffer,        \* how many of each job's rows are in _attempt_rows
  parquet,       \* how many of each job's rows are in attempts.parquet
  faults, interrupts   \* bounded by MaxFaults and MaxInterrupts

mainVars   == <<main, submitted, results, cursor, failure>>
threadVars == <<thread, attempts, outcome>>
semaVars   == <<globalFree, providerFree>>
fileVars   == <<row, log, buffer, parquet>>
vars == <<mainVars, threadVars, semaVars, fileVars, faults, interrupts>>

Row(s, n) == [status |-> s, attempts |-> n]
NoRow     == Row("none", 0)
RowType   == [status: JobStates, attempts: Nat]

MainStates == {"submitting", "collecting", "joining", "settling", "closing",
               "flushing", "returned", "raised"}

\* "interrupt": a Ctrl-C came while run() submitted or collected.  "cut" and
\* "job_cut": one came later, in the join or in the finally block, without or
\* with a job's exception pending.
Cut        == {"cut", "job_cut"}
Failures   == Cut \cup {"none", "job", "setup", "interrupt", "write"}

HoldsProvider == {"throttled", "adapter", "release_provider"}
HoldsGlobal   == HoldsProvider \cup {"acquire_provider", "release_global"}
Running       == HoldsGlobal \cup
                 {"open", "preflight", "record_skip", "begin", "workspace",
                  "acquire_global", "leave", "record", "decide",
                  "close"}
Ended         == {"done", "raised"}
ThreadStates  == Running \cup Ended \cup {"unsubmitted", "pending"}

In(S) == {j \in Jobs : thread[j] \in S}

Init ==
  /\ main = IF NumJobs = 0 THEN "returned" ELSE "submitting"
  /\ submitted = 0 /\ cursor = 1 /\ failure = "none"
  /\ results = [j \in Jobs |-> NoRow]
  /\ thread = [j \in Jobs |-> "unsubmitted"]
  /\ attempts = [j \in Jobs |-> 0]
  /\ outcome = [j \in Jobs |-> "queued"]
  /\ globalFree = MaxParallel
  /\ providerFree = [s \in Semaphores |-> Limit(s)]
  /\ row = [j \in Jobs |-> NoRow]
  /\ log = [j \in Jobs |-> <<>>]
  /\ buffer = [j \in Jobs |-> 0]
  /\ parquet = [j \in Jobs |-> 0]
  /\ faults = 0 /\ interrupts = 0

Goto(j, s) == thread' = [thread EXCEPT ![j] = s]
At(j, s)   == thread[j] = s

WriteRow(j, s, n) == row' = [row EXCEPT ![j] = Row(s, n)]
Fault == faults < MaxFaults /\ faults' = faults + 1

-----------------------------------------------------------------------------
(* The pool thread of job j: _execute_job                                  *)

\* Mutant: a pool with one worker more than the semaphore has permits.
StartOneMore(j) ==
  /\ At(j, "pending")
  /\ \A k \in Jobs : k < j => thread[k] # "pending"
  /\ Cardinality(In(Running)) <= MaxParallel
  /\ Goto(j, "open")
  /\ UNCHANGED <<mainVars, attempts, outcome, semaVars, fileVars, faults, interrupts>>

\* An idle worker takes the oldest pending job.
Start(j) ==
  /\ At(j, "pending")
  /\ \A k \in Jobs : k < j => thread[k] # "pending"
  /\ Cardinality(In(Running)) < MaxParallel
  /\ Goto(j, "open")
  /\ UNCHANGED <<mainVars, attempts, outcome, semaVars, fileVars, faults, interrupts>>

\* _attempt_budget raises before any row is written; else the first row.
Open(j) ==
  /\ At(j, "open")
  /\ \/ /\ Budget[j] < 1
        /\ Goto(j, "raised")
        /\ UNCHANGED row
     \/ /\ Budget[j] >= 1
        /\ WriteRow(j, "queued", 0)
        /\ Goto(j, "preflight")
  /\ UNCHANGED <<mainVars, attempts, outcome, semaVars, log, buffer, parquet,
                 faults, interrupts>>

Preflight(j) ==
  /\ At(j, "preflight")
  /\ \E next \in {"begin", "record_skip"} : Goto(j, next)
  /\ UNCHANGED <<mainVars, attempts, outcome, semaVars, fileVars, faults, interrupts>>

\* _persist_attempt: one row in attempts.jsonl, and one in the parquet buffer.
AppendAttempt(j, s) ==
  /\ log' = [log EXCEPT ![j] = Append(@, s)]
  /\ buffer' = [buffer EXCEPT ![j] = @ + 1]

RecordSkip(j) ==
  /\ At(j, "record_skip")
  /\ attempts' = [attempts EXCEPT ![j] = 1]
  /\ outcome' = [outcome EXCEPT ![j] = "skipped"]
  /\ AppendAttempt(j, "skipped")
  /\ Goto(j, "close")
  /\ UNCHANGED <<mainVars, semaVars, row, parquet, faults, interrupts>>

BeginAttempt(j) ==
  /\ At(j, "begin")
  /\ attempts' = [attempts EXCEPT ![j] = @ + 1]
  /\ WriteRow(j, "running", attempts[j] + 1)
  /\ Goto(j, "workspace")
  /\ UNCHANGED <<mainVars, outcome, semaVars, log, buffer, parquet, faults, interrupts>>

\* The workspace is prepared, or cannot be (no dataset row, no configuration,
\* a failing clone): then the attempt has failed before it asks for a permit.
EnterWorkspace(j) ==
  /\ At(j, "workspace")
  /\ \/ Goto(j, "acquire_global") /\ UNCHANGED outcome
     \/ /\ j \in NeedsWorkspace
        /\ outcome' = [outcome EXCEPT ![j] = "failed"]
        /\ Goto(j, "record")
  /\ UNCHANGED <<mainVars, attempts, semaVars, fileVars, faults, interrupts>>

AcquireGlobal(j) ==
  /\ At(j, "acquire_global")
  /\ globalFree > 0
  /\ globalFree' = globalFree - 1
  /\ Goto(j, "acquire_provider")
  /\ UNCHANGED <<mainVars, attempts, outcome, providerFree, fileVars, faults, interrupts>>

AcquireProvider(j) ==
  /\ At(j, "acquire_provider")
  /\ providerFree[SemaphoreOf(j)] > 0
  /\ providerFree' = [providerFree EXCEPT ![SemaphoreOf(j)] = @ - 1]
  /\ Goto(j, "throttled")
  /\ UNCHANGED <<mainVars, attempts, outcome, globalFree, fileVars, faults, interrupts>>

\* limiter.acquire returns (module RateLimiter); both permits are held.
Throttle(j) ==
  /\ At(j, "throttled")
  /\ Goto(j, "adapter")
  /\ UNCHANGED <<mainVars, attempts, outcome, semaVars, fileVars, faults, interrupts>>

\* prepare_request, execute_attempt, collect_telemetry and finalize_output:
\* an exception of any of them is caught and makes the attempt fail.
CallAdapter(j) ==
  /\ At(j, "adapter")
  /\ \E s \in Reported \cup {"failed"} : outcome' = [outcome EXCEPT ![j] = s]
  /\ Goto(j, "release_provider")
  /\ UNCHANGED <<mainVars, attempts, semaVars, fileVars, faults, interrupts>>

\* Mutant: the release is not in a finally clause.
ReleaseProviderUnlessFailed(j) ==
  /\ At(j, "release_provider")
  /\ providerFree' = IF outcome[j] = "failed" THEN providerFree
                     ELSE [providerFree EXCEPT ![SemaphoreOf(j)] = @ + 1]
  /\ Goto(j, "release_global")
  /\ UNCHANGED <<mainVars, attempts, outcome, globalFree, fileVars, faults, interrupts>>

ReleaseProvider(j) ==
  /\ At(j, "release_provider")
  /\ providerFree' = [providerFree EXCEPT ![SemaphoreOf(j)] = @ + 1]
  /\ Goto(j, "release_global")
  /\ UNCHANGED <<mainVars, attempts, outcome, globalFree, fileVars, faults, interrupts>>

ReleaseGlobal(j) ==
  /\ At(j, "release_global")
  /\ globalFree' = globalFree + 1
  /\ Goto(j, "leave")
  /\ UNCHANGED <<mainVars, attempts, outcome, providerFree, fileVars, faults, interrupts>>

\* Outside the permits: a succeeded workspace attempt is normalised, which
\* may reject its patch; the workspace is removed.
LeaveWorkspace(j) ==
  /\ At(j, "leave")
  /\ \/ UNCHANGED outcome
     \/ /\ j \in NeedsWorkspace
        /\ outcome[j] = "succeeded"
        /\ outcome' = [outcome EXCEPT ![j] = "invalid_patch"]
  /\ Goto(j, "record")
  /\ UNCHANGED <<mainVars, attempts, semaVars, fileVars, faults, interrupts>>

RecordAttempt(j) ==
  /\ At(j, "record")
  /\ outcome' = [outcome EXCEPT ![j] = Coerce(@)]
  /\ AppendAttempt(j, Coerce(outcome[j]))
  /\ Goto(j, "decide")
  /\ UNCHANGED <<mainVars, attempts, semaVars, row, parquet, faults, interrupts>>

\* Mutant: a retry after any state but success.
MayRetryAnything(j) ==
  /\ outcome[j] # "succeeded"
  /\ attempts[j] < Budget[j]

MayRetry(j) ==
  /\ outcome[j] \in {"failed", "timed_out"}
  /\ outcome[j] \in Retriable
  /\ attempts[j] < Budget[j]

Decide(j) ==
  /\ At(j, "decide")
  /\ IF MayRetry(j)
       THEN /\ WriteRow(j, "queued", attempts[j])
            /\ Goto(j, "begin")
       ELSE /\ Goto(j, "close")
            /\ UNCHANGED row
  /\ UNCHANGED <<mainVars, attempts, outcome, semaVars, log, buffer, parquet,
                 faults, interrupts>>

\* The job's last row, and its future's result.
Close(j) ==
  /\ At(j, "close")
  /\ WriteRow(j, outcome[j], attempts[j])
  /\ Goto(j, "done")
  /\ UNCHANGED <<mainVars, attempts, outcome, semaVars, log, buffer, parquet,
                 faults, interrupts>>

\* The steps that write a ledger, and preflight, may raise instead: nothing is
\* written and the exception becomes the future's.
Writes(j) ==
  \/ thread[j] \in {"record_skip", "begin", "record", "close", "preflight"}
  \/ At(j, "open") /\ Budget[j] >= 1
  \/ At(j, "decide") /\ MayRetry(j)

Raise(j) ==
  /\ Writes(j)
  /\ Fault
  /\ Goto(j, "raised")
  /\ UNCHANGED <<mainVars, attempts, outcome, semaVars, fileVars, interrupts>>

Thread(j) ==
  \/ Start(j) \/ Open(j) \/ Preflight(j) \/ RecordSkip(j) \/ BeginAttempt(j)
  \/ EnterWorkspace(j) \/ AcquireGlobal(j) \/ AcquireProvider(j) \/ Throttle(j)
  \/ CallAdapter(j) \/ ReleaseProvider(j) \/ ReleaseGlobal(j)
  \/ LeaveWorkspace(j) \/ RecordAttempt(j) \/ Decide(j) \/ Close(j)

-----------------------------------------------------------------------------
(* The main thread: run                                                    *)

\* Submit the next job; a solver without an adapter raises out of the loop.
Submit ==
  LET j == submitted + 1 IN
  /\ main = "submitting"
  /\ \/ /\ j \in Adapterless
        /\ main' = "joining"
        /\ failure' = "setup"
        /\ UNCHANGED <<submitted, thread>>
     \/ /\ j \notin Adapterless
        /\ submitted' = j
        /\ Goto(j, "pending")
        /\ main' = IF j = NumJobs THEN "collecting" ELSE main
        /\ UNCHANGED failure
  /\ UNCHANGED <<results, cursor, attempts, outcome, semaVars, fileVars,
                 faults, interrupts>>

\* Mutant: a job's exception is swallowed.
CollectSwallowing(j) ==
  /\ main = "collecting"
  /\ results[j] = NoRow
  /\ thread[j] \in Ended
  /\ results' = [results EXCEPT ![j] = IF At(j, "done")
                                         THEN Row(outcome[j], attempts[j])
                                         ELSE Row("failed", 0)]
  /\ UNCHANGED <<main, failure, submitted, cursor, threadVars, semaVars,
                 fileVars, faults, interrupts>>

\* as_completed yields a finished future: its result is kept; the first
\* exception ends the loop.
Collect(j) ==
  /\ main = "collecting"
  /\ results[j] = NoRow
  /\ \/ /\ At(j, "done")
        /\ results' = [results EXCEPT ![j] = Row(outcome[j], attempts[j])]
        /\ UNCHANGED <<main, failure>>
     \/ /\ At(j, "raised")
        /\ failure' = "job"
        /\ main' = "joining"
        /\ UNCHANGED results
  /\ UNCHANGED <<submitted, cursor, threadVars, semaVars, fileVars, faults, interrupts>>

CollectedAll ==
  /\ main = "collecting"
  /\ \A j \in Jobs : results[j] # NoRow
  /\ main' = "joining"
  /\ UNCHANGED <<submitted, results, cursor, failure, threadVars, semaVars,
                 fileVars, faults, interrupts>>

\* Leaving the pool waits for every submitted job, the pending ones included.
Join ==
  /\ main = "joining"
  /\ \A j \in 1 .. submitted : thread[j] \in Ended
  /\ main' = "settling"
  /\ UNCHANGED <<submitted, results, cursor, failure, threadVars, semaVars,
                 fileVars, faults, interrupts>>

\* execution_error is set by a job's exception only.
ExecutionError == failure \in {"job", "job_cut"}

\* Mutants: only a future that has not ended is given a failed row; and every
\* one that has not, whatever run() raises.
NeedsRowUnended(j) ==
  /\ results[j] = NoRow
  /\ thread[j] \notin Ended
  /\ ExecutionError
NeedsRowAnyway(j) ==
  /\ results[j] = NoRow
  /\ thread[j] # "done"

\* The finally block gives every future that has no result one: that of a job
\* that ended, or a failed row for one that raised, or (when a job's exception
\* is pending) for one that has not ended.
NeedsRow(j) ==
  /\ results[j] = NoRow
  /\ At(j, "raised") \/ (thread[j] \notin Ended /\ ExecutionError)

\* The state of a future is looked at, and its row written, in two steps:
\* a job that was still running may end between them.
Settle ==
  LET j == cursor IN
  /\ main = "settling"
  /\ j <= submitted
  /\ IF NeedsRow(j)
       THEN main' = "closing" /\ UNCHANGED <<cursor, results>>
       ELSE /\ cursor' = cursor + 1
            /\ IF results[j] = NoRow /\ At(j, "done")
                 THEN results' = [results EXCEPT ![j] = Row(outcome[j], attempts[j])]
                 ELSE UNCHANGED results
            /\ UNCHANGED main
  /\ UNCHANGED <<submitted, failure, threadVars, semaVars, fileVars, faults, interrupts>>

\* Mutant: the failed row counts the attempts the job has made.
CloseCounting ==
  /\ main = "closing"
  /\ WriteRow(cursor, "failed", attempts[cursor])
  /\ results' = [results EXCEPT ![cursor] = Row("failed", attempts[cursor])]
  /\ cursor' = cursor + 1
  /\ main' = "settling"
  /\ UNCHANGED <<submitted, failure, threadVars, semaVars, log, buffer, parquet,
                 faults, interrupts>>

\* _persist_interrupted_job.
CloseInterrupted ==
  /\ main = "closing"
  /\ WriteRow(cursor, "failed", 0)
  /\ results' = [results EXCEPT ![cursor] = Row("failed", 0)]
  /\ cursor' = cursor + 1
  /\ main' = "settling"
  /\ UNCHANGED <<submitted, failure, threadVars, semaVars, log, buffer, parquet,
                 faults, interrupts>>

\* A Ctrl-C is chained to what is raised after it, and is not forgotten.
WriteFailure == IF failure \in Cut THEN failure ELSE "write"

\* The row of an interrupted job cannot be written: run() raises that, and
\* neither the later futures nor the parquet file are looked at.
SettleFault ==
  /\ main = "closing"
  /\ Fault
  /\ failure' = WriteFailure
  /\ main' = "raised"
  /\ UNCHANGED <<submitted, results, cursor, threadVars, semaVars, fileVars, interrupts>>

SettledAll ==
  /\ main = "settling"
  /\ cursor > submitted
  /\ main' = "flushing"
  /\ UNCHANGED <<submitted, results, cursor, failure, threadVars, semaVars,
                 fileVars, faults, interrupts>>

\* _flush_attempts_parquet takes the buffered rows and writes them at once,
\* or, when that fails, appends the same rows one by one; then run() ends.
Flush ==
  /\ main = "flushing"
  /\ buffer' = [j \in Jobs |-> 0]
  /\ parquet' = buffer
  /\ main' = IF failure = "none" THEN "returned" ELSE "raised"
  /\ UNCHANGED <<submitted, results, cursor, failure, threadVars, semaVars,
                 row, log, faults, interrupts>>

\* How much of the buffered rows a flush that does not end may have written.
Parts == {part \in [Jobs -> UNION {0 .. buffer[j] : j \in Jobs}] :
            \A j \in Jobs : part[j] <= buffer[j]}

\* The rows are taken out of the buffer; writing them at once fails, and so
\* does appending them, at the first row or at a later one: the rest are lost.
FlushFault ==
  /\ main = "flushing"
  /\ \E j \in Jobs : buffer[j] > 0
  /\ Fault
  /\ buffer' = [j \in Jobs |-> 0]
  /\ parquet' \in Parts
  /\ failure' = WriteFailure
  /\ main' = "raised"
  /\ UNCHANGED <<submitted, results, cursor, threadVars, semaVars, row, log, interrupts>>

\* Mutant: Ctrl-C leaves the pool without waiting for it.
InterruptUnjoined ==
  /\ interrupts < MaxInterrupts
  /\ interrupts' = interrupts + 1
  /\ main \in {"submitting", "collecting"}
  /\ main' = "settling"
  /\ failure' = "interrupt"
  /\ UNCHANGED <<submitted, results, cursor, threadVars, semaVars, fileVars, faults>>

CutShort == IF ExecutionError THEN "job_cut" ELSE "cut"

\* Ctrl-C, wherever run() is.  While submitting or collecting it leaves the
\* pool, which joins.  Once the pool is being left it may go straight to the
\* finally block, jobs still running; and there it skips what is left of the
\* block, the flush too, or loses what the flush has taken but not written.
Interrupt ==
  /\ interrupts < MaxInterrupts
  /\ interrupts' = interrupts + 1
  /\ \/ /\ main \in {"submitting", "collecting"}
        /\ main' = "joining"
        /\ failure' = "interrupt"
        /\ UNCHANGED <<buffer, parquet>>
     \/ /\ main = "joining"
        /\ main' \in {"joining", "settling"}
        /\ failure' = CutShort
        /\ UNCHANGED <<buffer, parquet>>
     \/ /\ main \in {"settling", "closing", "flushing"}
        /\ main' = "raised"
        /\ failure' = CutShort
        /\ \/ UNCHANGED <<buffer, parquet>>
           \/ /\ main = "flushing"
              /\ buffer' = [j \in Jobs |-> 0]
              /\ parquet' \in Parts
  /\ UNCHANGED <<submitted, results, cursor, threadVars, semaVars, row, log, faults>>

Main ==
  \/ Submit \/ CollectedAll \/ Join \/ Settle \/ CloseInterrupted \/ SettledAll \/ Flush
  \/ \E j \in Jobs : Collect(j)

Terminated ==
  /\ main \in {"returned", "raised"}
  /\ \A j \in 1 .. submitted : thread[j] \in Ended
  /\ UNCHANGED vars

Next ==
  \/ Main \/ SettleFault \/ FlushFault \/ Interrupt \/ Terminated
  \/ \E j \in Jobs : Thread(j) \/ Raise(j)

Spec == Init /\ [][Next]_vars

\* A pool thread that can take a step takes it (adapters time out), and so
\* does the main thread.
Fairness == WF_vars(Main) /\ \A j \in Jobs : WF_vars(Thread(j))
FairSpec == Spec /\ Fairness

-----------------------------------------------------------------------------
(* Properties                                                              *)

TypeOK ==
  /\ main \in MainStates /\ failure \in Failures
  /\ submitted \in 0 .. NumJobs /\ cursor \in 1 .. (NumJobs + 1)
  /\ results \in [Jobs -> RowType]
  /\ thread \in [Jobs -> ThreadStates]
  /\ attempts \in [Jobs -> Nat]
  /\ outcome \in [Jobs -> Reported \cup AttemptStates \cup {"queued"}]
  /\ globalFree \in Nat
  /\ providerFree \in [Semaphores -> Nat]
  /\ row \in [Jobs -> RowType]
  /\ log \in [Jobs -> Seq(AttemptStates)]
  /\ buffer \in [Jobs -> Nat] /\ parquet \in [Jobs -> Nat]
  /\ faults \in 0 .. MaxFaults /\ interrupts \in 0 .. MaxInterrupts

Using(s) == {j \in In(HoldsProvider) : SemaphoreOf(j) = s}

(***************************************************************************)
(* No path through _resource_guards leaks or invents a permit: what is     *)
(* free and what is held always add up to what __init__ put there, so no   *)
(* more attempts run against a provider than provider_parallelism allows.  *)
(***************************************************************************)
PermitsConserved ==
  /\ globalFree + Cardinality(In(HoldsGlobal)) = MaxParallel
  /\ \A s \in Semaphores : providerFree[s] + Cardinality(Using(s)) = Limit(s)

(***************************************************************************)
(* The pool has as many workers as _global_sema has permits, and a worker  *)
(* takes one permit at a time: a thread that asks for the global permit    *)
(* finds one, so a job never holds up the run there, and the provider      *)
(* semaphores are the only place where a thread can be made to wait.       *)
(***************************************************************************)
GlobalNeverBlocks ==
  \A j \in Jobs : At(j, "acquire_global") => globalFree > 0

Closed(j) == row[j].status \notin {"none", "queued", "running"}

(***************************************************************************)
(* When run() returns, every planned job has ended, its last row in        *)
(* run_jobs.jsonl is terminal and is what run() reports for it, and        *)
(* attempts.parquet holds the attempt rows that attempts.jsonl holds.      *)
(***************************************************************************)
ReturnIsComplete ==
  main = "returned" =>
    \A j \in Jobs : /\ thread[j] = "done"
                    /\ Closed(j) /\ results[j] = row[j]
                    /\ parquet[j] = Len(log[j])

(***************************************************************************)
(* When run() raises because a job did (or a solver has no adapter), no    *)
(* submitted job is left queued or running in run_jobs.jsonl, and the      *)
(* attempts recorded before the failure are in attempts.parquet: a failure *)
(* of one job costs no other job anything.  (A Ctrl-C that comes after it  *)
(* does, and run() then raises that.)                                      *)
(***************************************************************************)
FailureClosesEveryJob ==
  main = "raised" /\ failure \in {"job", "setup"} =>
    \A j \in 1 .. submitted : /\ Closed(j) /\ results[j] = row[j]
                              /\ parquet[j] = Len(log[j])

(***************************************************************************)
(* A Ctrl-C while run() submits or collects loses nothing, if no other     *)
(* follows: the pool is still joined, so every submitted job ends, has its *)
(* terminal row and has its attempts in attempts.parquet.  (One that comes *)
(* in the join or in the finally block cuts these short: jobs are left     *)
(* open, and attempts.parquet may hold a part of the attempts, or none.)   *)
(***************************************************************************)
OneInterruptLosesNothing ==
  main = "raised" /\ failure = "interrupt" =>
    \A j \in 1 .. submitted : Closed(j) /\ parquet[j] = Len(log[j])

(***************************************************************************)
(* A job that has ended keeps its verdict: its last row is the one its own *)
(* thread wrote, however often run() is interrupted, but in one case.  It  *)
(* has a job's exception pending, a Ctrl-C cuts the join short, and the    *)
(* finally block takes the job, still running, for one that died: then its *)
(* failed row may follow the job's own and be the last.                    *)
(***************************************************************************)
VerdictStands ==
  \A j \in Jobs : thread[j] = "done" =>
    \/ row[j] = Row(outcome[j], attempts[j])
    \/ failure = "job_cut" /\ row[j] = Row("failed", 0)

(***************************************************************************)
(* The two ledgers follow JobLifecycle: a job's rows go through queued and *)
(* running to one terminal row which is its last attempt's state, attempts *)
(* are retried only after a retriable state and within the budget, and an  *)
(* interrupted job is closed once.                                         *)
(***************************************************************************)
Lifecycle == INSTANCE JobLifecycle WITH Jobs <- Jobs, Budget <- Budget,
               AttemptStates <- AttemptStates, Retriable <- Retriable, row <- row, log <- log
LifecycleSpec == Lifecycle!Spec

(***************************************************************************)
(* In every state, and however the run is interrupted, a job's last row    *)
(* and its attempt rows do not contradict each other (JobLifecycle): the   *)
(* row counts the attempts on record, less the one in flight; a closed job *)
(* shows the last of them or, closed by the run, none; and there are no    *)
(* more of them than the budget.                                           *)
(***************************************************************************)
LedgersAgree == Lifecycle!LedgersAgree

(***************************************************************************)
(* Every run ends: no thread waits forever for a permit, and the main      *)
(* thread never waits forever for a future.                                *)
(***************************************************************************)
RunEnds == <>(main \in {"returned", "raised"} /\ In(Running) = {})
=============================================================================
