--------------------------- MODULE SolverAttempt ----------------------------
(***************************************************************************)
(* A solver's attempt as its adapter sees it: whether the Claude command   *)
(* may be used at all (asked once for all threads), the call of the        *)
(* command or of the HTTP endpoint, and what is made of the way it ended   *)
(* and of what it wrote - a status, a text and the money it cost.          *)
(* ContainerExec runs the commands.  An output is the set of the things    *)
(* that can be found in it.                                                *)
(***************************************************************************)
EXTENDS ContainerExec

CONSTANTS
  Outputs,      \* what a command or an endpoint may write, see Marks
  Priced        \* is the model in the price list?

\* A diff or an edit plan in some event, an error event (claude: a result
\* with is_error), words of a broken tool call, token usage, a cost.
Marks == {"patch", "plan", "error", "tool failure", "usage", "cost"}

ASSUME OutputAssumption == Outputs \subseteq SUBSET Marks /\ Priced \in BOOLEAN

VARIABLES
  auth,      \* the Claude adapter's [mode, reason], shared by its threads
  probes,    \* [ok, failed]: number of probes that ended so
  half,      \* threads let through by an auth that was half written
  wrote,     \* wrote[t]: what t's command wrote
  result     \* result[t]: [status, text, cost], or none

vars == <<exec, auth, probes, half, wrote, result>>

None == [status |-> "none", text |-> "", cost |-> "none"]
Result(status, text, cost) == [status |-> status, text |-> text, cost |-> cost]

Init ==
  /\ ExecInit
  /\ auth = [mode |-> "unset", reason |-> "none"]
  /\ probes = [ok |-> 0, failed |-> 0] /\ half = {}
  /\ wrote = [t \in Threads |-> {}] /\ result = [t \in Threads |-> None]

-----------------------------------------------------------------------------
(* Preflight.  The first callers try the user's logins, each for itself;   *)
(* the outcome is kept in two fields that are set one after the other.     *)

ToStep(t, l) ==
  /\ Go(t, l)
  /\ UNCHANGED <<cast, images, holder, builds, box, running, ran, ret,
                 faults, sweeps>>

Preflight(t) ==
  /\ at[t] = "preflight"
  /\ IF auth.mode = "unset" /\ auth.reason = "none"
     THEN ToStep(t, "probe") /\ UNCHANGED <<result, half>>
     ELSE IF auth.reason # "none"
     THEN /\ result' = [result EXCEPT ![t] = Result("skipped", "", "none")]
          /\ ToStep(t, "done") /\ UNCHANGED half
     ELSE /\ half' = IF probes.ok = 0 THEN half \cup {t} ELSE half
          /\ ToStep(t, "begin") /\ UNCHANGED result
  /\ UNCHANGED <<auth, probes, wrote>>

\* One of the logins answers: its mode is kept, and then that there is no
\* reason to skip.
ProbeSucceeds(t, mode) ==
  /\ at[t] = "probe"
  /\ auth' = [auth EXCEPT !.mode = mode]
  /\ probes' = [probes EXCEPT !.ok = @ + 1]
  /\ ToStep(t, "clear reason")
  /\ UNCHANGED <<half, wrote, result>>

ClearReason(t) ==
  /\ at[t] = "clear reason"
  /\ auth' = [auth EXCEPT !.reason = "none"]
  /\ ToStep(t, "begin")
  /\ UNCHANGED <<probes, half, wrote, result>>

\* None of them does.
ProbeFails(t) ==
  /\ at[t] = "probe"
  /\ auth' = [auth EXCEPT !.mode = "ambient"]
  /\ probes' = [probes EXCEPT !.failed = @ + 1]
  /\ ToStep(t, "set reason")
  /\ UNCHANGED <<half, wrote, result>>

SetReason(t) ==
  /\ at[t] = "set reason"
  /\ auth' = [auth EXCEPT !.reason = "unavailable"]
  /\ ToStep(t, "read reason")
  /\ UNCHANGED <<probes, half, wrote, result>>

\* MUTANT of ReadReason: the thread goes on all the same.
ReadReasonInVain(t) ==
  /\ at[t] = "read reason"
  /\ ToStep(t, "begin")
  /\ UNCHANGED <<auth, probes, half, wrote, result>>

\* The fields are read again for an answer: another thread's login may have
\* cleared the reason.
ReadReason(t) ==
  /\ at[t] = "read reason"
  /\ IF auth.reason = "none"
     THEN ToStep(t, "begin") /\ UNCHANGED result
     ELSE /\ result' = [result EXCEPT ![t] = Result("skipped", "", "none")]
          /\ ToStep(t, "done")
  /\ UNCHANGED <<auth, probes, half, wrote>>

-----------------------------------------------------------------------------
(* What is made of an output.                                              *)

PatchIn(o)     == "patch" \in o
PlanIn(o)      == "plan" \in o
ErrorIn(o)     == "error" \in o
UsageIn(o)     == "usage" \in o
ToolStuckIn(o) == "tool failure" \in o

\* A diff comes before an edit plan.
TextOf(o) == IF PatchIn(o) THEN "patch" ELSE IF PlanIn(o) THEN "plan" ELSE ""

\* The cost told by an event comes before one reckoned from the tokens.
CostOf(o) == IF "cost" \in o THEN "reported"
             ELSE IF UsageIn(o) /\ Priced THEN "estimated" ELSE "none"

\* A deadline passed because the tool itself was stuck is a failure.
CodexResult(r, o) ==
  IF r.timedOut
  THEN Result(IF ToolStuckIn(o) THEN "failed" ELSE "timed_out", "",
              CostOf(o))
  ELSE IF ~r.ok THEN Result("failed", "", CostOf(o))
  ELSE Result("succeeded", TextOf(o), CostOf(o))

\* An error event counts only if nothing usable was written.
OpenCodeResult(r, o) ==
  IF r.timedOut THEN Result("timed_out", "", CostOf(o))
  ELSE IF ~r.ok \/ (ErrorIn(o) /\ TextOf(o) = "")
  THEN Result("failed", "", CostOf(o))
  ELSE Result("succeeded", TextOf(o), CostOf(o))

\* MUTANT of ClaudeResult: what failed is not charged.
ClaudeResultUncharged(r, o) ==
  IF r.timedOut \/ ErrorIn(o) \/ ~r.ok
  THEN Result(IF r.timedOut THEN "timed_out" ELSE "failed", "", "none")
  ELSE Result("succeeded", TextOf(o), CostOf(o))

\* An error result counts whatever was written, and before the exit code; a
\* run that wrote neither diff nor plan has its last words for a text.
ClaudeResult(r, o) ==
  IF r.timedOut THEN Result("timed_out", "", CostOf(o))
  ELSE IF ErrorIn(o) \/ ~r.ok THEN Result("failed", "", CostOf(o))
  ELSE Result("succeeded", IF TextOf(o) = "" THEN "words" ELSE TextOf(o),
              CostOf(o))

Commanded == {"codex", "opencode", "claude"}

CLIResult(a, r, o) ==
  CASE a = "codex"    -> CodexResult(r, o)
    [] a = "opencode" -> OpenCodeResult(r, o)
    [] a = "claude"   -> ClaudeResult(r, o)

\* An endpoint answers with the cost it tells, or with none.
HTTPResult(o) == Result("succeeded", TextOf(o),
                        IF "cost" \in o THEN "reported" ELSE "none")

\* finalize_output: without a workspace, a success needs a diff or a plan.
Finalize(t, r) ==
  IF /\ r.status = "succeeded" /\ r.text \notin {"patch", "plan"}
     /\ cast[t].place = "none"
  THEN [r EXCEPT !.status = "invalid_patch", !.text = ""]
  ELSE r

Conclude(t, r) ==
  /\ result' = [result EXCEPT ![t] = Finalize(t, r)]
  /\ ToStep(t, "done")
  /\ UNCHANGED <<auth, probes, half>>

\* A command's output is judged, and a container that could not be had, or
\* another error on the way, is a failed attempt.
ConcludeCommand(t, o) ==
  /\ at[t] = "returned" /\ cast[t].adapter \in Commanded
  /\ IF ret[t].kind = "result"
     THEN /\ Conclude(t, CLIResult(cast[t].adapter, ret[t], o))
          /\ wrote' = [wrote EXCEPT ![t] = o]
     ELSE /\ Conclude(t, Result("failed", "", "none"))
          /\ UNCHANGED wrote

ConcludeSession(t) ==
  /\ at[t] = "returned" /\ cast[t].adapter = "test"
  /\ ToStep(t, "done")
  /\ UNCHANGED <<auth, probes, half, wrote, result>>

\* One request, with the adapter's timeout: a refused one and one without a
\* key are failed attempts, and one that is late is by the scheduler's hand.
CallEndpoint(t, o) ==
  /\ at[t] = "begin" /\ cast[t].adapter = "http"
  /\ \/ /\ Conclude(t, HTTPResult(o))
        /\ wrote' = [wrote EXCEPT ![t] = o]
     \/ /\ Conclude(t, Result("failed", "", "none"))
        /\ UNCHANGED wrote

\* The mock adapter gives back the states its matrix lists.
CallMock(t) ==
  /\ at[t] = "begin" /\ cast[t].adapter = "mock"
  /\ \/ Conclude(t, Result("succeeded", "patch", "none"))
     \/ \E s \in {"failed", "timed_out", "budget_exceeded", "invalid_patch"} :
          Conclude(t, Result(s, "", "none"))
  /\ UNCHANGED wrote

Done == (\A t \in Threads : at[t] = "done") /\ UNCHANGED vars

AdapterStep(t) ==
  \/ Preflight(t) \/ ClearReason(t) \/ ProbeFails(t)
  \/ SetReason(t) \/ ReadReason(t)
  \/ \E m \in {"subscription", "api_key", "ambient"} : ProbeSucceeds(t, m)
  \/ \E o \in Outputs : ConcludeCommand(t, o) \/ CallEndpoint(t, o)
  \/ ConcludeSession(t) \/ CallMock(t)

Step(t) == \/ ExecStep(t) /\ UNCHANGED <<auth, probes, half, wrote, result>>
           \/ AdapterStep(t)

Next ==
  \/ \E t \in Threads : Step(t)
  \/ \E T \in SUBSET Threads :
       Sweep(T) /\ UNCHANGED <<auth, probes, half, wrote, result>>
  \/ Done

\* Threads are scheduled, docker and the endpoints answer, and a deadline
\* comes when its command does not end.
Spec     == Init /\ [][Next]_vars
FairSpec == Spec /\ \A t \in Threads : WF_vars(Step(t))

-----------------------------------------------------------------------------
\* A thread is one of the run's, no image is locked by a thread outside the
\* building of it, and results are what the scheduler knows to record.
TypeOK ==
  /\ cast \in Casts /\ images \subseteq {BaseKey} \cup EnvKeys
  /\ holder \in [{BaseKey} \cup EnvKeys -> Threads \cup {NoThread}]
  /\ \A k \in DOMAIN holder : holder[k] # NoThread =>
       at[holder[k]] \in {"in base", "building base", "in env", "building env"}
  /\ box \in [Threads -> {"none", "created", "running"}]
  /\ auth.mode \in {"unset", "ambient", "subscription", "api_key"}
  /\ auth.reason \in {"none", "unavailable"}
  /\ \A t \in Threads : result[t].status \in
       {"none", "skipped", "failed", "timed_out", "succeeded",
        "invalid_patch", "budget_exceeded"}

\* A status tells how the attempt went: a success ended by itself and well,
\* a timeout passed the deadline, a skip followed a probe that failed; and
\* when no login works, nobody goes on but who read the answer half written.
StatusTellsTruth ==
  \A t \in Threads : LET r == result[t] IN
    /\ cast[t].adapter \in Commanded =>
         /\ r.status = "succeeded" => ret[t].ok /\ ~ret[t].timedOut
         /\ r.status = "timed_out" => ret[t].timedOut
    /\ r.status = "skipped" => probes.failed > 0
    /\ /\ cast[t].adapter = "claude" /\ probes.ok = 0
       /\ at[t] \notin {"preflight", "probe", "set reason", "read reason"}
       => r.status = "skipped" \/ t \in half

\* What an attempt is known to have cost is on record whatever its ending:
\* a command that wrote a cost, or tokens of a model with a price, is charged
\* when it failed or ran out of time as when it succeeded.
SpendIsKept ==
  \A t \in Threads :
    /\ result[t].status # "none" /\ cast[t].adapter \in Commanded
    /\ \/ "cost" \in wrote[t]
       \/ "usage" \in wrote[t] /\ Priced
    => result[t].cost # "none"

\* Every attempt comes to an end: no lock is kept by a thread that failed,
\* and no command is waited for past its deadline.
AttemptsEnd == <>(\A t \in Threads : at[t] = "done")
=============================================================================
