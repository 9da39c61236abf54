---------------------------- MODULE JobLifecycle ----------------------------
(***************************************************************************)
(* What a run promises a reader of its two ledgers, run_jobs.jsonl and     *)
(* attempts.jsonl: for each planned job the last job row, and the sequence *)
(* of its attempt rows.  This module says nothing of threads, semaphores   *)
(* or futures; SolverScheduler is shown to implement it.                   *)
(***************************************************************************)
EXTENDS Integers, Sequences

CONSTANTS
  Jobs,            \* the planned jobs
  Budget,          \* solver budget of each job (attempts allowed)
  AttemptStates,   \* states an attempt row can record
  Retriable        \* states after which another attempt may be made

\* What an instance of this module has to give.
LifecycleAssumption ==
  /\ Budget \in [Jobs -> Int]
  /\ "skipped" \in AttemptStates /\ "failed" \in AttemptStates
  /\ AttemptStates \cap {"none", "queued", "running"} = {}
  /\ Retriable \subseteq AttemptStates

VARIABLES
  row,   \* row[j]: the last row of j in run_jobs.jsonl ("none": no row yet)
  log    \* log[j]: the states of j's rows in attempts.jsonl, oldest first

vars == <<row, log>>

Row(s, n) == [status |-> s, attempts |-> n]
NoRow     == Row("none", 0)

RowType  == [status: AttemptStates \cup {"none", "queued", "running"},
             attempts: Nat]
Open(j)  == row[j].status \in {"none", "queued", "running"}
Closed(j) == ~Open(j)

LastState(j) == log[j][Len(log[j])]

TypeOK ==
  /\ row \in [Jobs -> RowType]
  /\ log \in [Jobs -> Seq(AttemptStates)]

-----------------------------------------------------------------------------
Init ==
  /\ row = [j \in Jobs |-> NoRow]
  /\ log = [j \in Jobs |-> <<>>]

SetRow(j, r) == row' = [row EXCEPT ![j] = r] /\ UNCHANGED log

\* The job's first row.
Enqueue(j) ==
  /\ row[j].status = "none"
  /\ SetRow(j, Row("queued", 0))

\* An attempt begins: every earlier one is on record, and budget is left.
Begin(j) ==
  /\ row[j].status = "queued"
  /\ Len(log[j]) = row[j].attempts
  /\ row[j].attempts < Budget[j]
  /\ SetRow(j, Row("running", row[j].attempts + 1))

\* The running attempt is put on record, or the skip of a job whose solver
\* is not available.
Record(j, s) ==
  /\ \/ row[j].status = "running" /\ Len(log[j]) + 1 = row[j].attempts
     \/ row[j] = Row("queued", 0) /\ log[j] = <<>> /\ s = "skipped"
  /\ log' = [log EXCEPT ![j] = Append(@, s)]
  /\ UNCHANGED row

\* A recorded attempt that may be retried puts the job back in the queue.
Requeue(j) ==
  /\ row[j].status = "running"
  /\ Len(log[j]) = row[j].attempts
  /\ row[j].attempts < Budget[j]
  /\ LastState(j) \in Retriable
  /\ SetRow(j, Row("queued", row[j].attempts))

\* The last recorded attempt becomes the job's verdict.
Finish(j) ==
  /\ Open(j)
  /\ log[j] # <<>>
  /\ \/ row[j].status = "running" /\ Len(log[j]) = row[j].attempts
     \/ row[j] = Row("queued", 0) /\ log[j] = <<"skipped">>
  /\ SetRow(j, Row(LastState(j), Len(log[j])))

\* The job's thread died: the run closes its row as failed.
Interrupt(j) ==
  /\ Open(j)
  /\ SetRow(j, Row("failed", 0))

Next ==
  \E j \in Jobs :
    \/ Enqueue(j) \/ Begin(j) \/ Requeue(j) \/ Finish(j) \/ Interrupt(j)
    \/ \E s \in AttemptStates : Record(j, s)

Spec == Init /\ [][Next]_vars

-----------------------------------------------------------------------------
(***************************************************************************)
(* The ledgers agree.  While a job is open, the attempts its row counts    *)
(* are the attempts on record, less the one in flight; a closed job shows  *)
(* its last recorded attempt and their number, unless its thread died, in  *)
(* which case it shows no attempt at all; and no job is given more         *)
(* attempts than its budget (a skip counts as one).                        *)
(***************************************************************************)
Agree(r, l) ==
  /\ r.status = "none"    => l = <<>> /\ r.attempts = 0
  /\ r.status = "queued"  => \/ Len(l) = r.attempts
                             \/ r.attempts = 0 /\ l = <<"skipped">>
  /\ r.status = "running" => Len(l) \in {r.attempts - 1, r.attempts}
  /\ r.status \notin {"none", "queued", "running"} =>
       \/ r = Row("failed", 0)
       \/ l # <<>> /\ r = Row(l[Len(l)], Len(l))

WithinBudget(r, l, b) ==
  \/ r.attempts <= b /\ Len(l) <= b
  \/ r.attempts \in {0, 1} /\ l = <<"skipped">>
  \/ r.attempts = 0 /\ l = <<>>

LedgersAgree ==
  \A j \in Jobs : Agree(row[j], log[j]) /\ WithinBudget(row[j], log[j], Budget[j])

\* A closed job is never reopened, and its attempt rows never change.
ClosedIsFinal ==
  [][\A j \in Jobs : Closed(j) => row'[j] = row[j] /\ log'[j] = log[j]]_vars
=============================================================================
