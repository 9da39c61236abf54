--------------------------- MODULE RunFamilyProofs ---------------------------
(***************************************************************************)
(* What is proved of RunFamily for every matrix, number of roots and       *)
(* sequence of commands, failures and kills: that the commands --resume    *)
(* skips were carried out and, when no pair has two jobs, that a root's    *)
(* report gives an attempt no other verdict than its own or a thrown away  *)
(* one's.  And of what happens before a root is run again that was judged  *)
(* or retried (~careless), that merged reports hold the latest attempts    *)
(* and, of one job per pair, that retries repeat what did not succeed and  *)
(* verdicts are their own: run does nothing against such a rerun, after    *)
(* which the last does not hold (RerunIsJudged fails).                     *)
(***************************************************************************)
EXTENDS RunFamily, TLAPS, WellFoundedInduction
LOCAL INSTANCE FiniteSetsExt

RunSteps     == {"planning", "clearing", "clearing_attempts", "working"}
AnalyzeSteps == {"resolving", "resolved", "joined"}
Untouched    == {"clearing_attempts", "working"}

Statuses == {"none", "open", "succeeded", "failed", "skipped"}
Types ==
  /\ rows \in [Roots -> [Keys -> Statuses]]
  /\ \A r \in Roots : \A a \in attempts[r] : a.state \in {"succeeded", "failed", "skipped"}
  /\ attempts = [r \in Roots |-> attempts[r]]
  /\ ran \in 0 .. NumRoots
  /\ cmd.step \in RunSteps \cup AnalyzeSteps \cup {"idle"}
  /\ "step" \in DOMAIN cmd
  /\ cmd.step # "idle" => "root" \in DOMAIN cmd /\ cmd.root \in Roots
  /\ cmd.step \in RunSteps => "keys" \in DOMAIN cmd

\* While a run is under way no manifest vouches for one, and it opens no row
\* of a job that it did not plan; while an analysis is, its own vouches for
\* nothing.
Unvouched ==
  /\ cmd.step \in RunSteps => ran = 0
  /\ cmd.step \in Untouched =>
       \A k \in Keys : k \notin cmd.keys => rows[cmd.root][k] = "none"
  /\ cmd.step \in AnalyzeSteps => cmd.root \notin reported

IInv == Types /\ Unvouched /\ SkipIsSound

LEMMA SkipStep == IInv /\ [Next]_vars => IInv'
<1> USE FamilyAssumption DEF At, Idle, RunSteps, AnalyzeSteps, Untouched, Statuses,
                             Roots, dirs, hist
<1> SUFFICES ASSUME IInv, [Next]_vars PROVE IInv'
  OBVIOUS
<1> USE DEF IInv, Types, Unvouched, SkipIsSound
<1>1. ASSUME NEW r \in Roots, StartRun(r) PROVE IInv'
  BY <1>1 DEF StartRun, BeginRun
<1>2. CASE Plan
  BY <1>2 DEF Plan
<1>3. CASE ClearJobs
  BY <1>3 DEF ClearJobs, NoRows
<1>4. CASE ClearAttempts
  BY <1>4 DEF ClearAttempts
<1>5. CASE FinishRun
  BY <1>5 DEF FinishRun
<1>6. CASE FailRun
  <2>1. CASE UNCHANGED rows
    BY <1>6, <2>1 DEF FailRun
  <2>2. CASE ~UNCHANGED rows
    <3>1. /\ cmd.step = "working" /\ cmd' = Idle
          /\ rows' = [rows EXCEPT ![cmd.root] =
                       [k \in Keys |-> IF @[k] = "open" THEN "failed" ELSE @[k]]]
          /\ UNCHANGED <<ran, reported, attempts, complete, analysed>>
      BY <1>6, <2>2 DEF FailRun
    <3>2. rows' \in [Roots -> [Keys -> Statuses]]
      BY <3>1
    <3>3. ran = 0
      BY <3>1
    <3> QED BY <3>1, <3>2, <3>3
  <2> QED BY <2>1, <2>2
<1>7. ASSUME NEW k \in Keys, OpenJob(k) PROVE IInv'
  BY <1>7 DEF OpenJob
<1>8. ASSUME NEW k \in Keys, RecordAttempt(k) PROVE IInv'
  <2>1. PICK s \in {"succeeded", "failed", "skipped"} :
          attempts' = [attempts EXCEPT ![cmd.root] =
                         @ \cup {[key |-> k, run |-> begun, state |-> s]}]
    BY <1>8 DEF RecordAttempt
  <2>2. \A r \in Roots : \A a \in attempts'[r] :
          a.state \in {"succeeded", "failed", "skipped"}
    <3> SUFFICES ASSUME NEW r \in Roots, NEW a \in attempts'[r]
                 PROVE a.state \in {"succeeded", "failed", "skipped"}
      OBVIOUS
    <3>1. CASE a \in attempts[r]
      BY <3>1
    <3>2. CASE a \notin attempts[r]
      <4>1. a = [key |-> k, run |-> begun, state |-> s]
        BY <3>2, <2>1, <1>8 DEF RecordAttempt
      <4> QED BY <4>1
    <3> QED BY <3>1, <3>2
  <2>3. attempts' = [r \in Roots |-> attempts'[r]]
    BY <2>1
  <2> QED
    BY <2>2, <2>3, <1>8 DEF RecordAttempt
<1>9. ASSUME NEW k \in Keys, CloseJob(k) PROVE IInv'
  BY <1>9 DEF CloseJob, Recorded
<1>10. ASSUME NEW r \in Roots, NEW merge \in BOOLEAN, StartAnalyze(r, merge) PROVE IInv'
  BY <1>10 DEF StartAnalyze
<1>11. CASE Resolve
  BY <1>11 DEF Resolve
<1>12. CASE Evaluate
  BY <1>12 DEF Evaluate
<1>13. CASE Join
  BY <1>13 DEF Join
<1>14. CASE FinishAnalyze
  BY <1>14 DEF FinishAnalyze
<1>15. CASE FailAnalyze
  BY <1>15 DEF FailAnalyze
<1>16. CASE Kill
  BY <1>16 DEF Kill
<1>17. CASE UNCHANGED vars
  BY <1>17 DEF vars
<1> QED
  BY <1>1, <1>2, <1>3, <1>4, <1>5, <1>6, <1>7, <1>8, <1>9, <1>10, <1>11, <1>12,
     <1>13, <1>14, <1>15, <1>16, <1>17 DEF Next

(***************************************************************************)
(* A manifest lets --resume skip a run only if that run finished, closed   *)
(* its rows and was not begun again, and an analysis only if its report    *)
(* was finished and not begun again (_run_command, Manifest.write).        *)
(***************************************************************************)
THEOREM SkipsAreSound == Spec => []SkipIsSound
<1>1. Init => IInv
  BY FamilyAssumption DEF At, Idle, RunSteps, AnalyzeSteps, Untouched, Statuses, Roots,
                          Init, IInv, Types, Unvouched, SkipIsSound, NoRows
<1>2. IInv /\ [Next]_vars => IInv'
  BY SkipStep
<1>3. IInv => SkipIsSound
  BY DEF IInv
<1> QED
  BY <1>1, <1>2, <1>3, PTL DEF Spec

-----------------------------------------------------------------------------
(***************************************************************************)
(* What verdicts rest on.                                                  *)
(***************************************************************************)
OneSeed == \A j, k \in Keys : PairOf[j] = PairOf[k] => j = k

\* An attempt names a job and the execution that made it; a root holds one
\* attempt per job, and of two roots the later has the later execution's.
Outcomes == {"succeeded", "failed", "skipped"}
AttemptIn(a, r) == r \in Roots /\ a \in attempts[r]
Attempts ==
  /\ begun \in Nat
  /\ \A r \in Roots : \A a \in attempts[r] :
       a.key \in Keys /\ a.run \in 0 .. begun /\ a.state \in Outcomes
  /\ \A r \in Roots : \A a, b \in attempts[r] : a.key = b.key => a = b
Ordered ==
  \A q, r \in Roots : q < r =>
    \A a \in attempts[q], b \in attempts[r] : a.key = b.key => a.run < b.run

\* The run under way is the newest, and nothing was made of its root yet.
Newest ==
  cmd.step \in Untouched =>
    \A r \in Roots \ {cmd.root} : \A a \in attempts[r] : a.run < begun
Unjudged ==
  cmd.step \in RunSteps =>
    /\ ~results[cmd.root].present
    /\ \A q \in Roots : q > cmd.root => rows[q] = NoRows /\ attempts[q] = {}

\* A job's row says what its attempt says, or that it is open; of a root
\* that a run finished, it says what the attempt says.
Agreeing ==
  /\ complete \subseteq Roots
  /\ \A r \in complete : \A a \in attempts[r] : rows[r][a.key] = a.state
  /\ cmd.step \in Untouched => cmd.root \notin complete
  /\ cmd.step = "working" =>
       \A a \in attempts[cmd.root] : rows[cmd.root][a.key] \in {"open", a.state}

\* Verdicts are on the pairs of a root's successes, each on one of them.
VerdictsOf(by, found) ==
  /\ \A p \in DOMAIN by :
       /\ by[p].attempt \in found
       /\ by[p].attempt.state = "succeeded"
       /\ PairOf[by[p].attempt.key] = p
  /\ \A a \in found : a.state = "succeeded" => PairOf[a.key] \in DOMAIN by
Judgements ==
  /\ DOMAIN results = Roots
  /\ \A r \in Roots : results[r].present => VerdictsOf(results[r].by, attempts[r])

FamilyInv == Types /\ Unvouched /\ SkipIsSound /\ Attempts /\ Ordered /\ Newest /\ Unjudged
                   /\ Agreeing /\ Judgements

\* What a retry repeats was, in each root before it, not a success.
Unsettled(k, q) == rows[q][k] = "failed" \/ PairOf[k] \in Unresolved(q)
Retried(k, r) == rows[r][k] # "none" \/ \E a \in attempts[r] : a.key = k
Chained ==
  /\ \A q, r \in Roots : q < r => \A k \in Keys : Retried(k, r) => Unsettled(k, q)
  /\ cmd.step \in RunSteps \ {"planning"} =>
       \A q \in Roots : q < cmd.root => \A k \in cmd.keys : Unsettled(k, q)
  /\ cmd.step = "clearing" => cmd.keys = PlannedKeys(cmd.root)

\* An analysis works on what the files say, and judges it if they do not.
Analysing ==
  /\ cmd.step \in AnalyzeSteps => cmd.merge \in BOOLEAN
  /\ cmd.step = "resolved" =>
       /\ "verdicts" \in DOMAIN cmd
       /\ cmd.rows = Selected
       /\ cmd.verdicts.present =>
            \/ cmd.verdicts = Found
            \/ VerdictsOf(cmd.verdicts.by, Selected)
       /\ ~cmd.verdicts.present /\ ~cmd.merge => ~results[cmd.root].present
  /\ cmd.step = "joined" =>
       {row.attempt : row \in cmd.rows} = Selected

FInv == FamilyInv /\ Chained /\ Analysing

LEMMA Frames ==
  ASSUME Types, [Next]_vars
  PROVE  /\ UNCHANGED <<attempts, begun>> \/ ClearJobs \/ ClearAttempts
              \/ \E k \in Keys : RecordAttempt(k)
         /\ UNCHANGED rows \/ ClearJobs \/ FailRun
              \/ \E k \in Keys : OpenJob(k) \/ CloseJob(k)
         /\ UNCHANGED results \/ Evaluate
         /\ UNCHANGED complete \/ ClearJobs \/ FinishRun
<1>1. ASSUME NEW r \in Roots, StartRun(r)
      PROVE  UNCHANGED <<rows, attempts, results, begun, complete>>
  BY <1>1 DEF StartRun, BeginRun, dirs, hist
<1>2. CASE Plan
  BY <1>2 DEF Plan, dirs, hist
<1>3. CASE ClearJobs
  BY <1>3 DEF ClearJobs
<1>4. CASE ClearAttempts
  BY <1>4 DEF ClearAttempts, hist
<1>5. CASE FinishRun
  BY <1>5 DEF FinishRun, dirs
<1>6. CASE FailRun
  BY <1>6 DEF FailRun, hist
<1>7. ASSUME NEW k \in Keys, OpenJob(k) \/ CloseJob(k)
      PROVE  UNCHANGED <<attempts, results, begun, complete>>
  BY <1>7 DEF OpenJob, CloseJob, hist
<1>8. ASSUME NEW k \in Keys, RecordAttempt(k)
      PROVE  UNCHANGED <<rows, results, begun, complete>>
  BY <1>8 DEF RecordAttempt, hist
<1>9. ASSUME NEW r \in Roots, NEW merge \in BOOLEAN, StartAnalyze(r, merge)
      PROVE  UNCHANGED <<rows, attempts, results, begun, complete>>
  BY <1>9 DEF StartAnalyze, dirs, hist
<1>10. CASE Evaluate
  BY <1>10 DEF Evaluate, hist
<1>11. CASE Resolve \/ Join \/ FinishAnalyze \/ FailAnalyze \/ Kill
  BY <1>11 DEF Resolve, Join, FinishAnalyze, FailAnalyze, Kill, dirs, hist
<1>12. CASE UNCHANGED vars
  BY <1>12 DEF vars, dirs, hist
<1> QED
  BY <1>1, <1>2, <1>3, <1>4, <1>5, <1>6, <1>7, <1>8, <1>9, <1>10, <1>11, <1>12 DEF Next

\* A run works on the root it was started on, an analysis too.
LEMMA Moves ==
  ASSUME Types, [Next]_vars, cmd'.step # "idle"
  PROVE  \/ cmd' = cmd
         \/ \E r \in Roots : StartRun(r) \/ \E merge \in BOOLEAN : StartAnalyze(r, merge)
         \/ Plan \/ ClearJobs \/ ClearAttempts \/ Resolve \/ Evaluate \/ Join
<1>1. CASE FinishRun \/ FailRun \/ FinishAnalyze \/ FailAnalyze \/ Kill
  BY <1>1 DEF FinishRun, FailRun, FinishAnalyze, FailAnalyze, Kill, Idle
<1>2. ASSUME NEW k \in Keys, OpenJob(k) \/ RecordAttempt(k) \/ CloseJob(k)
      PROVE  cmd' = cmd
  BY <1>2 DEF OpenJob, RecordAttempt, CloseJob
<1>3. CASE UNCHANGED vars
  BY <1>3 DEF vars
<1> QED
  BY <1>1, <1>2, <1>3 DEF Next

\* An evaluation judges every pair that has a patch, on one of its patches.
LEMMA EvaluateJudges ==
  ASSUME Types, Evaluate
  PROVE  /\ cmd.step = "resolved" /\ ~cmd.verdicts.present
         /\ \E v : /\ v.present /\ VerdictsOf(v.by, cmd.rows)
                   /\ cmd' = [cmd EXCEPT !.verdicts = v]
                   /\ results' = IF cmd.merge THEN results
                                 ELSE [results EXCEPT ![cmd.root] = v]
<1> DEFINE pairs == {PairOf[a.key] : a \in Patched}
           by(last, won) == [p \in pairs |-> [attempt |-> last[p], resolved |-> p \in won]]
           ver(last, won) == [present |-> TRUE, by |-> by(last, won)]
<1>1. PICK last \in [pairs -> Patched], won \in SUBSET pairs :
        /\ \A p \in pairs : last[p] \in Judged(p)
        /\ cmd' = [cmd EXCEPT !.verdicts = ver(last, won)]
        /\ results' = IF cmd.merge THEN results
                      ELSE [results EXCEPT ![cmd.root] = ver(last, won)]
  BY DEF Evaluate
<1>2. VerdictsOf(by(last, won), cmd.rows)
  <2>1. ASSUME NEW p \in pairs
        PROVE  /\ last[p] \in cmd.rows /\ last[p].state = "succeeded"
               /\ PairOf[last[p].key] = p
    BY <1>1 DEF Judged, Patched
  <2>2. \A a \in cmd.rows : a.state = "succeeded" => PairOf[a.key] \in pairs
    BY DEF Patched
  <2>3. \A p \in pairs : by(last, won)[p].attempt = last[p]
    OBVIOUS
  <2>4. DOMAIN by(last, won) = pairs
    OBVIOUS
  <2> HIDE DEF pairs, by
  <2> QED BY <2>1, <2>2, <2>3, <2>4 DEF VerdictsOf
<1>3. cmd.step = "resolved" /\ ~cmd.verdicts.present
  BY DEF Evaluate, At
<1>4. ver(last, won).present /\ ver(last, won).by = by(last, won)
  OBVIOUS
<1> HIDE DEF ver, by
<1> QED
  BY <1>1, <1>2, <1>3, <1>4

LEMMA AttemptsStep ==
  ASSUME Types, Attempts, [Next]_vars
  PROVE  Attempts'
<1> USE DEF Types, Attempts, Outcomes
<1>1. CASE UNCHANGED <<attempts, begun>>
  BY <1>1
<1>2. CASE ClearJobs
  <2>1. attempts' = attempts /\ begun' = begun + 1
    BY <1>2 DEF ClearJobs
  <2>2. 0 .. begun \subseteq 0 .. begun'
    BY <2>1
  <2>3. begun' \in Nat
    BY <2>1
  <2> QED BY <2>1, <2>2, <2>3
<1>3. CASE ClearAttempts
  BY <1>3 DEF ClearAttempts, hist, At, Untouched, RunSteps
<1>4. ASSUME NEW k \in Keys, RecordAttempt(k) PROVE Attempts'
  <2>1. PICK s \in {"succeeded", "failed", "skipped"} :
          attempts' = [attempts EXCEPT ![cmd.root] =
                         @ \cup {[key |-> k, run |-> begun, state |-> s]}]
    BY <1>4 DEF RecordAttempt
  <2> DEFINE new == [key |-> k, run |-> begun, state |-> s]
  <2>2. begun' = begun /\ cmd.root \in Roots
    BY <1>4 DEF RecordAttempt, hist, At, RunSteps
  <2>3. new.key = k /\ new.run = begun /\ new.state = s
    OBVIOUS
  <2> HIDE DEF new
  <2>4. \A r \in Roots : \A a \in attempts'[r] :
          a \in attempts[r] \/ (a = new /\ r = cmd.root)
    BY <2>1 DEF new
  <2>5. \A a \in attempts[cmd.root] : a.key # k
    BY <1>4 DEF RecordAttempt, Recorded
  <2>6. begun \in 0 .. begun
    OBVIOUS
  <2>7. \A r \in Roots : \A a \in attempts'[r] :
          a.key \in Keys /\ a.run \in 0 .. begun /\ a.state \in Outcomes
    BY <2>3, <2>4, <2>6
  <2>8. \A r \in Roots : \A a, b \in attempts'[r] : a.key = b.key => a = b
    BY <2>2, <2>3, <2>4, <2>5
  <2> QED BY <2>2, <2>7, <2>8
<1> QED
  BY <1>1, <1>2, <1>3, <1>4, Frames

(***************************************************************************)
(* Roots that are run again at any time: a verdict on file is on its pair, *)
(* and of an attempt that the root still holds or of an execution before   *)
(* those it holds; an analysis of one root works on what that root holds.  *)
(***************************************************************************)
Bygone(b, r) == \A a \in attempts[r] : b.run < a.run
Traced(b, p, r) ==
  /\ PairOf[b.key] = p /\ b.run \in 0 .. begun
  /\ b \in attempts[r] \/ Bygone(b, r)
  /\ cmd.step \in Untouched /\ cmd.root = r => b.run < begun
AllTraced(r) == \A p \in DOMAIN results[r].by : Traced(results[r].by[p].attempt, p, r)
OnFile ==
  /\ DOMAIN results = Roots
  /\ \A r \in Roots : results[r].present => AllTraced(r)
  /\ cmd.step \in AnalyzeSteps => "merge" \in DOMAIN cmd
  /\ cmd.step = "resolved" /\ ~cmd.merge =>
       cmd.rows = attempts[cmd.root] /\ cmd.verdicts = results[cmd.root]
  /\ cmd.step = "resolved" => "verdicts" \in DOMAIN cmd
StrayInv == IInv /\ Attempts /\ OnFile /\ StrayVerdictIsStale

LEMMA TracedStep ==
  ASSUME IInv, Attempts, OnFile, [Next]_vars,
         NEW r \in Roots, results[r].present, results'[r] = results[r]
  PROVE  AllTraced(r)'
<1> SUFFICES ASSUME NEW p \in DOMAIN results[r].by, NEW b, b = results[r].by[p].attempt
             PROVE  /\ PairOf[b.key] = p /\ b.run \in 0 .. begun'
                    /\ b \in attempts'[r] \/ \A a \in attempts'[r] : b.run < a.run
                    /\ cmd'.step \in Untouched /\ cmd'.root = r => b.run < begun'
  BY DEF AllTraced, Traced, Bygone
<1>1. Traced(b, p, r)
  BY DEF OnFile, AllTraced
<1> USE DEF Traced, Bygone, IInv, Types, Attempts, RunSteps, AnalyzeSteps, Untouched, At
<1>2. CASE ClearJobs
  BY <1>1, <1>2 DEF ClearJobs
<1>3. CASE ClearAttempts
  <2>1. begun' = begun /\ cmd.step = "clearing_attempts" /\ cmd'.root = cmd.root
        /\ attempts'[cmd.root] = {} /\ (r # cmd.root => attempts'[r] = attempts[r])
    BY <1>3 DEF ClearAttempts, hist
  <2> QED BY <1>1, <2>1
<1>4. ASSUME NEW k \in Keys, RecordAttempt(k)
      PROVE  /\ b.run \in 0 .. begun' /\ (b \in attempts'[r] \/ \A a \in attempts'[r] : b.run < a.run)
             /\ cmd' = cmd /\ begun' = begun
  <2>1. PICK s \in {"succeeded", "failed", "skipped"} :
          attempts' = [attempts EXCEPT ![cmd.root] =
                         @ \cup {[key |-> k, run |-> begun, state |-> s]}]
    BY <1>4 DEF RecordAttempt
  <2>2. cmd' = cmd /\ begun' = begun /\ cmd.step = "working"
    BY <1>4 DEF RecordAttempt, hist
  <2> DEFINE new == [key |-> k, run |-> begun, state |-> s]
  <2>3. new.run = begun
    OBVIOUS
  <2>4. \A a \in attempts'[r] : a \in attempts[r] \/ (a = new /\ r = cmd.root)
    BY <2>1
  <2>5. attempts[r] \subseteq attempts'[r]
    BY <2>1
  <2> HIDE DEF new
  <2> QED BY <1>1, <2>2, <2>3, <2>4, <2>5
<1>5. CASE UNCHANGED <<attempts, begun>> /\ ~ClearJobs /\ ~ClearAttempts
  <2>1. cmd'.step \in Untouched => cmd' = cmd
    <3>1. ASSUME NEW q \in Roots, StartRun(q) PROVE cmd'.step \notin Untouched
      BY <3>1 DEF StartRun, BeginRun
    <3>2. ASSUME NEW q \in Roots, NEW merge \in BOOLEAN, StartAnalyze(q, merge)
          PROVE  cmd'.step \notin Untouched
      BY <3>2 DEF StartAnalyze
    <3>3. ASSUME Plan PROVE cmd'.step \notin Untouched
      BY <3>3 DEF Plan
    <3>4. ASSUME Resolve \/ Join PROVE cmd'.step \notin Untouched
      BY <3>4 DEF Resolve, Join
    <3>5. ASSUME Evaluate PROVE cmd'.step \notin Untouched
      BY <3>5, EvaluateJudges
    <3> QED BY <1>5, <3>1, <3>2, <3>3, <3>4, <3>5, Moves
  <2> QED BY <1>1, <1>5, <2>1
<1> QED
  BY <1>1, <1>2, <1>3, <1>4, <1>5, Frames

LEMMA OnFileStep ==
  ASSUME IInv, Attempts, OnFile, [Next]_vars
  PROVE  OnFile'
<1> USE DEF IInv, Types, RunSteps, AnalyzeSteps, Untouched, At
<1>1. CASE Evaluate
  <2>1. PICK v : /\ v.present /\ VerdictsOf(v.by, cmd.rows)
                 /\ cmd' = [cmd EXCEPT !.verdicts = v]
                 /\ results' = IF cmd.merge THEN results
                               ELSE [results EXCEPT ![cmd.root] = v]
    BY <1>1, EvaluateJudges
  <2>2. cmd.step = "resolved" /\ cmd.root \in Roots /\ attempts' = attempts /\ begun' = begun
    BY <1>1 DEF Evaluate, hist
  <2>3. /\ cmd'.step = "resolved" /\ cmd'.merge = cmd.merge /\ cmd'.rows = cmd.rows
        /\ cmd'.root = cmd.root /\ cmd'.verdicts = v /\ "merge" \in DOMAIN cmd'
        /\ "verdicts" \in DOMAIN cmd'
    BY <2>1, <2>2 DEF OnFile
  <2>4. DOMAIN results' = Roots /\ \A r \in Roots \ {cmd.root} : results'[r] = results[r]
    BY <2>1 DEF OnFile
  <2>5. CASE cmd.merge
    <3>1. results' = results
      BY <2>1, <2>5
    <3>2. ASSUME NEW r \in Roots, results'[r].present PROVE AllTraced(r)'
      BY <3>1, <3>2, TracedStep
    <3> QED BY <2>3, <2>4, <2>5, <3>2 DEF OnFile
  <2>6. CASE ~cmd.merge
    <3>1. results'[cmd.root] = v /\ cmd.rows = attempts[cmd.root]
      BY <2>1, <2>2, <2>6 DEF OnFile
    <3>2. ASSUME NEW r \in Roots, r = cmd.root PROVE AllTraced(r)'
      <4> SUFFICES ASSUME NEW p \in DOMAIN v.by, NEW b, b = v.by[p].attempt
                   PROVE  /\ PairOf[b.key] = p /\ b.run \in 0 .. begun'
                          /\ b \in attempts'[r]
                          /\ cmd'.step \notin Untouched
        BY <3>1, <3>2 DEF AllTraced, Traced
      <4>1. b \in attempts[r] /\ PairOf[b.key] = p
        BY <2>1, <3>1, <3>2 DEF VerdictsOf
      <4> QED BY <2>2, <2>3, <4>1 DEF Attempts
    <3>3. ASSUME NEW r \in Roots, results'[r].present PROVE AllTraced(r)'
      <4>1. CASE r = cmd.root
        BY <3>2, <4>1
      <4>2. CASE r # cmd.root
        <5>1. results'[r] = results[r]
          BY <2>4, <4>2
        <5> QED BY <3>3, <5>1, TracedStep
      <4> QED BY <4>1, <4>2
    <3> QED BY <2>2, <2>3, <2>4, <3>1, <3>3 DEF OnFile
  <2> QED BY <2>5, <2>6
<1>2. CASE results' = results
  <2>1. ASSUME NEW r \in Roots, results'[r].present PROVE AllTraced(r)'
    BY <1>2, <2>1, TracedStep
  <2>2. DOMAIN results' = Roots
    BY <1>2 DEF OnFile
  <2>3. /\ cmd'.step \in AnalyzeSteps => "merge" \in DOMAIN cmd'
        /\ cmd'.step = "resolved" /\ ~cmd'.merge =>
             cmd'.rows = attempts'[cmd'.root] /\ cmd'.verdicts = results'[cmd'.root]
        /\ cmd'.step = "resolved" => "verdicts" \in DOMAIN cmd'
    <3>1. ASSUME NEW r \in Roots, StartRun(r) PROVE cmd'.step = "planning"
      BY <3>1 DEF StartRun, BeginRun
    <3>2. ASSUME NEW r \in Roots, NEW merge \in BOOLEAN, StartAnalyze(r, merge)
          PROVE  cmd'.step = "resolving" /\ "merge" \in DOMAIN cmd'
      BY <3>2 DEF StartAnalyze
    <3>3. ASSUME Plan \/ ClearJobs \/ ClearAttempts PROVE cmd'.step \notin AnalyzeSteps
      BY <3>3 DEF Plan, ClearJobs, ClearAttempts
    <3>4. CASE Resolve
      BY <1>2, <3>4 DEF Resolve, Selected, Found, dirs
    <3>5. ASSUME Join PROVE cmd'.step = "joined" /\ "merge" \in DOMAIN cmd'
      BY <3>5 DEF Join
    <3>6. CASE Evaluate
      BY <1>1, <3>6 DEF OnFile
    <3>7. CASE cmd' = cmd /\ cmd.step \in AnalyzeSteps
      <4>1. ASSUME ClearJobs \/ ClearAttempts \/ \E k \in Keys : RecordAttempt(k) PROVE FALSE
        BY <3>7, <4>1 DEF ClearJobs, ClearAttempts, RecordAttempt
      <4>2. attempts' = attempts
        BY <4>1, Frames
      <4> QED BY <1>2, <3>7, <4>2 DEF OnFile
    <3>8. CASE cmd'.step = "idle"
      BY <3>8
    <3> QED BY <3>1, <3>2, <3>3, <3>4, <3>5, <3>6, <3>7, <3>8, Moves
  <2> QED BY <2>1, <2>2, <2>3 DEF OnFile
<1> QED
  BY <1>1, <1>2, Frames

LEMMA JoinsAreTraced ==
  ASSUME OneSeed, IInv, Attempts, OnFile, Join
  PROVE  StrayVerdictIsStale'
<1>1. /\ cmd.step = "resolved" /\ cmd.verdicts.present /\ attempts' = attempts
      /\ cmd'.merge = cmd.merge /\ cmd'.root = cmd.root
      /\ cmd'.rows = {Joined(a) : a \in cmd.rows}
  BY DEF Join, dirs, At
<1>2. cmd.root \in Roots
  BY <1>1 DEF IInv, Types, AnalyzeSteps
<1> SUFFICES ASSUME ~cmd.merge, NEW a \in cmd.rows,
                    NEW b \in Joined(a).judged \ {Joined(a).attempt}
             PROVE  /\ PairOf[b.key] = PairOf[a.key]
                    /\ b \notin attempts[cmd.root] /\ b.run < a.run
  <2>1. \A x \in cmd.rows : Joined(x).attempt = x
    BY DEF Joined
  <2> QED BY <1>1, <2>1 DEF StrayVerdictIsStale
<1> DEFINE p == PairOf[a.key]
           by == results[cmd.root].by
<1>3. a \in attempts[cmd.root] /\ cmd.verdicts = results[cmd.root]
  BY <1>1 DEF OnFile
<1>4. p \in DOMAIN by /\ b = by[p].attempt /\ b # a
  BY <1>3 DEF Joined
<1>5. Traced(b, p, cmd.root)
  BY <1>1, <1>2, <1>3, <1>4 DEF OnFile, AllTraced
<1>6. b \notin attempts[cmd.root]
  <2>1. ASSUME b \in attempts[cmd.root] PROVE FALSE
    <3>1. PairOf[b.key] = PairOf[a.key]
      BY <1>5 DEF Traced
    <3> QED BY <1>2, <1>3, <1>4, <2>1, <3>1 DEF Attempts, OneSeed
  <2> QED BY <2>1
<1> QED
  BY <1>3, <1>5, <1>6 DEF Traced, Bygone

(***************************************************************************)
(* Whoever runs a root again, and whenever: with one job per pair, the     *)
(* report of a root gives an attempt its own verdict, none, or that of an  *)
(* attempt at the same pair which an earlier execution made and run threw  *)
(* away (_run_command clears the ledgers, join_attempt_rows).              *)
(***************************************************************************)
THEOREM StrayVerdictsAreStale == ASSUME OneSeed PROVE Spec => []StrayVerdictIsStale
<1>1. Init => StrayInv
  <2> SUFFICES ASSUME Init PROVE StrayInv
    OBVIOUS
  <2> USE FamilyAssumption DEF Init, Idle, RunSteps, AnalyzeSteps, Untouched, Roots
  <2>1. IInv
    BY DEF At, Statuses, IInv, Types, Unvouched, SkipIsSound, NoRows
  <2>2. Attempts
    BY DEF Attempts
  <2>3. OnFile
    BY DEF OnFile, NoResults
  <2>4. StrayVerdictIsStale
    BY DEF StrayVerdictIsStale, At
  <2> QED BY <2>1, <2>2, <2>3, <2>4 DEF StrayInv
<1>2. StrayInv /\ [Next]_vars => StrayInv'
  <2> SUFFICES ASSUME StrayInv, [Next]_vars PROVE StrayInv'
    OBVIOUS
  <2>1. IInv /\ Attempts /\ OnFile /\ Types
    BY DEF StrayInv, IInv
  <2>2. IInv' /\ Attempts' /\ OnFile'
    BY <2>1, SkipStep, AttemptsStep, OnFileStep
  <2>3. StrayVerdictIsStale'
    <3> USE DEF Types, RunSteps, AnalyzeSteps, At
    <3>1. CASE Join
      BY <2>1, <3>1, JoinsAreTraced
    <3>2. CASE cmd'.step # "joined"
      BY <3>2 DEF StrayVerdictIsStale
    <3>3. CASE cmd'.step = "joined" /\ ~Join
      <4>1. ASSUME Plan \/ ClearJobs \/ ClearAttempts \/ Resolve PROVE FALSE
        <5>1. ASSUME Plan \/ ClearJobs PROVE FALSE
          BY <2>1, <3>3, <5>1 DEF Plan, ClearJobs
        <5>2. ASSUME ClearAttempts \/ Resolve PROVE FALSE
          BY <2>1, <3>3, <5>2 DEF ClearAttempts, Resolve
        <5> QED BY <4>1, <5>1, <5>2
      <4>2. ASSUME Evaluate PROVE FALSE
        BY <2>1, <3>3, <4>2, EvaluateJudges
      <4>3. ASSUME NEW r \in Roots, StartRun(r) PROVE FALSE
        BY <3>3, <4>3 DEF StartRun, BeginRun
      <4>4. ASSUME NEW r \in Roots, NEW merge \in BOOLEAN, StartAnalyze(r, merge) PROVE FALSE
        BY <3>3, <4>4 DEF StartAnalyze
      <4>5. cmd' = cmd
        BY <2>1, <3>3, <4>1, <4>2, <4>3, <4>4, Moves
      <4>6. ASSUME NEW k \in Keys, RecordAttempt(k) PROVE FALSE
        BY <3>3, <4>5, <4>6 DEF RecordAttempt
      <4>7. attempts' = attempts
        BY <2>1, <4>1, <4>6, Frames
      <4> QED BY <4>5, <4>7 DEF StrayInv, StrayVerdictIsStale
    <3> QED BY <3>1, <3>2, <3>3
  <2> QED BY <2>2, <2>3 DEF StrayInv
<1>3. StrayInv => StrayVerdictIsStale
  BY DEF StrayInv
<1> QED
  BY <1>1, <1>2, <1>3, PTL DEF Spec

-----------------------------------------------------------------------------
(***************************************************************************)
(* From here on no root was run again after it was judged or retried.  run *)
(* does not see to that.                                                   *)
(***************************************************************************)
LEMMA NewestStep ==
  ASSUME IInv, Attempts, Newest, [Next]_vars
  PROVE  Newest'
<1> SUFFICES ASSUME cmd'.step \in Untouched, NEW r \in Roots \ {cmd'.root},
                    NEW a \in attempts'[r]
             PROVE  a.run < begun'
  BY DEF Newest
<1> USE DEF IInv, Types, Attempts, Untouched, RunSteps, AnalyzeSteps, At
<1>1. CASE ClearJobs
  <2>1. attempts' = attempts /\ begun' = begun + 1
    BY <1>1 DEF ClearJobs
  <2> QED BY <2>1
<1>2. CASE ClearAttempts
  <2>1. begun' = begun /\ a \in attempts[r] /\ r # cmd.root
    BY <1>2 DEF ClearAttempts, hist
  <2>2. cmd.step \in Untouched
    BY <1>2 DEF ClearAttempts
  <2> QED BY <2>1, <2>2 DEF Newest
<1>3. ASSUME NEW k \in Keys, RecordAttempt(k) PROVE a.run < begun'
  <2>1. begun' = begun /\ cmd' = cmd
    BY <1>3 DEF RecordAttempt, hist
  <2>2. a \in attempts[r]
    BY <2>1, <1>3 DEF RecordAttempt
  <2> QED BY <2>1, <2>2 DEF Newest
<1>4. CASE UNCHANGED <<attempts, begun>> /\ ~ClearJobs /\ ~ClearAttempts
  <2>1. cmd' = cmd
    <3>1. ASSUME NEW q \in Roots, StartRun(q) PROVE FALSE
      BY <3>1 DEF StartRun, BeginRun
    <3>2. ASSUME NEW q \in Roots, NEW merge \in BOOLEAN, StartAnalyze(q, merge) PROVE FALSE
      BY <3>2 DEF StartAnalyze
    <3>3. CASE Plan
      BY <3>3 DEF Plan
    <3>4. CASE Resolve \/ Join
      BY <3>4 DEF Resolve, Join
    <3>5. CASE Evaluate
      BY <3>5, EvaluateJudges
    <3> QED BY <1>4, <3>1, <3>2, <3>3, <3>4, <3>5, Moves
  <2> QED BY <1>4, <2>1 DEF Newest
<1> QED
  BY <1>1, <1>2, <1>3, <1>4, Frames

LEMMA UnjudgedStep ==
  ASSUME ~careless', IInv, Unjudged, [Next]_vars
  PROVE  Unjudged'
<1> SUFFICES ASSUME cmd'.step \in RunSteps
             PROVE  /\ ~results'[cmd'.root].present
                    /\ \A q \in Roots : q > cmd'.root =>
                         rows'[q] = NoRows /\ attempts'[q] = {}
  BY DEF Unjudged, NoRows
<1> USE FamilyAssumption DEF IInv, Types, Unjudged, RunSteps, AnalyzeSteps, At, Roots
<1>1. ASSUME NEW r \in Roots, StartRun(r)
      PROVE  /\ ~results'[cmd'.root].present
             /\ \A q \in Roots : q > cmd'.root =>
                  rows'[q] = NoRows /\ attempts'[q] = {}
  <2>1. cmd'.root = r
    BY <1>1 DEF StartRun, BeginRun
  <2> QED BY <1>1, <2>1 DEF StartRun, BeginRun, Used, dirs
<1>2. ASSUME NEW r \in Roots, NEW merge \in BOOLEAN, StartAnalyze(r, merge) PROVE FALSE
  BY <1>2 DEF StartAnalyze
<1>3. CASE Resolve \/ Join
  BY <1>3 DEF Resolve, Join
<1>4. CASE Evaluate
  BY <1>4, EvaluateJudges
<1>5. CASE /\ cmd.step \in RunSteps
           /\ cmd'.root = cmd.root
  <2>1. results' = results
    BY <1>5, EvaluateJudges, Frames
  <2>2. \A q \in Roots \ {cmd.root} : rows'[q] = rows[q]
    <3>1. CASE ClearJobs
      BY <3>1 DEF ClearJobs
    <3>2. CASE FailRun
      BY <3>2 DEF FailRun
    <3>3. ASSUME NEW k \in Keys, OpenJob(k) \/ CloseJob(k)
          PROVE  \A q \in Roots \ {cmd.root} : rows'[q] = rows[q]
      BY <3>3 DEF OpenJob, CloseJob
    <3> QED BY <3>1, <3>2, <3>3, Frames
  <2>3. \A q \in Roots \ {cmd.root} : attempts'[q] = attempts[q]
    <3>1. CASE ClearJobs
      BY <3>1 DEF ClearJobs
    <3>2. CASE ClearAttempts
      BY <3>2 DEF ClearAttempts
    <3>3. ASSUME NEW k \in Keys, RecordAttempt(k)
          PROVE  \A q \in Roots \ {cmd.root} : attempts'[q] = attempts[q]
      BY <3>3 DEF RecordAttempt
    <3> QED BY <3>1, <3>2, <3>3, Frames
  <2> QED
    BY <1>5, <2>1, <2>2, <2>3 DEF NoRows
<1>6. CASE Plan \/ ClearJobs \/ ClearAttempts
  <2>1. cmd.step \in RunSteps /\ cmd'.root = cmd.root
    BY <1>6 DEF Plan, ClearJobs, ClearAttempts
  <2> QED BY <2>1, <1>5
<1> QED
  BY <1>1, <1>2, <1>3, <1>4, <1>5, <1>6, Moves

LEMMA OrderedStep ==
  ASSUME IInv, Attempts, Ordered, Newest, Unjudged, [Next]_vars
  PROVE  Ordered'
<1> USE FamilyAssumption DEF IInv, Types, Roots
<1>1. CASE UNCHANGED <<attempts, begun>> \/ ClearJobs
  BY <1>1 DEF Ordered, ClearJobs
<1>2. CASE ClearAttempts
  BY <1>2 DEF Ordered, ClearAttempts
<1>3. ASSUME NEW k \in Keys, RecordAttempt(k) PROVE Ordered'
  <2>1. PICK s \in {"succeeded", "failed", "skipped"} :
          attempts' = [attempts EXCEPT ![cmd.root] =
                         @ \cup {[key |-> k, run |-> begun, state |-> s]}]
    BY <1>3 DEF RecordAttempt
  <2> DEFINE new == [key |-> k, run |-> begun, state |-> s]
  <2>2. new.run = begun
    OBVIOUS
  <2>3. cmd.root \in Roots /\ cmd.step = "working"
    BY <1>3 DEF RecordAttempt, At, RunSteps
  <2> HIDE DEF new
  <2>4. \A r \in Roots : \A a \in attempts'[r] :
          a \in attempts[r] \/ (a = new /\ r = cmd.root)
    BY <2>1 DEF new
  <2>5. \A q \in Roots : q < cmd.root => \A a \in attempts[q] : a.run < begun
    BY <2>3 DEF Newest, Untouched
  <2>6. \A q \in Roots : q > cmd.root => attempts[q] = {}
    BY <2>3 DEF Unjudged, RunSteps
  <2> SUFFICES ASSUME NEW q \in Roots, NEW r \in Roots, q < r,
                      NEW a \in attempts'[q], NEW b \in attempts'[r], a.key = b.key
               PROVE  a.run < b.run
    BY DEF Ordered
  <2>7. CASE a \in attempts[q] /\ b \in attempts[r]
    BY <2>7 DEF Ordered
  <2>8. CASE b = new /\ r = cmd.root
    <3>1. a \in attempts[q]
      BY <2>4, <2>8
    <3> QED BY <2>2, <2>5, <2>8, <3>1
  <2>9. CASE a = new /\ q = cmd.root
    <3>1. b \in attempts[r]
      BY <2>4, <2>9
    <3> QED BY <2>6, <2>9, <3>1, <2>3
  <2> QED BY <2>4, <2>7, <2>8, <2>9
<1> QED
  BY <1>1, <1>2, <1>3, Frames

\* Roots that nothing is written to go on agreeing.
LEMMA AgreeingKept ==
  ASSUME Agreeing, complete' \subseteq complete,
         \A r \in complete' : rows'[r] = rows[r] /\ attempts'[r] \subseteq attempts[r],
         cmd'.step \in Untouched => cmd'.root \notin complete',
         cmd'.step = "working" =>
           \A a \in attempts'[cmd'.root] : rows'[cmd'.root][a.key] \in {"open", a.state}
  PROVE  Agreeing'
<1>1. complete' \subseteq Roots
  BY DEF Agreeing
<1>2. ASSUME NEW r \in complete', NEW a \in attempts'[r]
      PROVE  rows'[r][a.key] = a.state
  <2>1. r \in complete /\ a \in attempts[r] /\ rows'[r] = rows[r]
    BY <1>2
  <2> QED BY <2>1 DEF Agreeing
<1> QED
  BY <1>1, <1>2 DEF Agreeing

LEMMA AgreeingStep ==
  ASSUME IInv, Attempts, Agreeing, [Next]_vars
  PROVE  Agreeing'
<1> USE DEF IInv, Types, Untouched, RunSteps, AnalyzeSteps, At
<1> DEFINE Here(r) == \A a \in attempts[r] : rows[r][a.key] = a.state
           Open(r) == \A a \in attempts[r] : rows[r][a.key] \in {"open", a.state}
<1>1. CASE ClearJobs
  <2>1. complete' = complete \ {cmd.root} /\ cmd'.step = "clearing_attempts"
          /\ cmd'.root = cmd.root /\ attempts' = attempts
    BY <1>1 DEF ClearJobs
  <2>2. \A r \in Roots \ {cmd.root} : rows'[r] = rows[r]
    BY <1>1 DEF ClearJobs
  <2>3. /\ complete' \subseteq complete /\ cmd'.root \notin complete'
        /\ complete' \subseteq Roots \ {cmd.root}
    BY <2>1 DEF Agreeing
  <2> QED BY <2>1, <2>2, <2>3, AgreeingKept
<1>2. CASE ClearAttempts
  <2>1. complete' = complete /\ cmd.root \notin complete /\ cmd'.root = cmd.root
          /\ rows' = rows /\ cmd'.step = "working" /\ cmd.root \in Roots
    BY <1>2 DEF ClearAttempts, hist, Agreeing
  <2>2. \A r \in Roots \ {cmd.root} : attempts'[r] = attempts[r]
    BY <1>2 DEF ClearAttempts
  <2>3. attempts'[cmd.root] = {}
    BY <1>2, <2>1 DEF ClearAttempts
  <2> QED BY <2>1, <2>2, <2>3 DEF Agreeing
<1>3. CASE FinishRun
  <2>1. /\ cmd.step = "working" /\ rows' = rows /\ attempts' = attempts
        /\ complete' = complete \cup {cmd.root} /\ cmd'.step = "idle"
        /\ cmd.root \in Roots
    BY <1>3 DEF FinishRun, dirs, Idle
  <2>2. \A k \in Keys : rows[cmd.root][k] # "open"
    BY <1>3, <2>1 DEF FinishRun, Unvouched
  <2>3. \A a \in attempts[cmd.root] : rows[cmd.root][a.key] = a.state
    BY <2>1, <2>2 DEF Agreeing, Attempts
  <2> QED BY <2>1, <2>3 DEF Agreeing
<1>4. CASE FailRun
  <2>1. /\ attempts' = attempts /\ complete' = complete /\ cmd'.step = "idle"
        /\ \A r \in Roots \ {cmd.root} : rows'[r] = rows[r]
        /\ cmd.step = "working" => cmd.root \notin complete
        /\ cmd.step = "planning" => rows' = rows
        /\ cmd.step \in {"planning", "working"}
    BY <1>4 DEF FailRun, Agreeing, hist, Idle
  <2>2. \A r \in complete' : rows'[r] = rows[r]
    BY <2>1 DEF Agreeing
  <2> QED BY <2>1, <2>2, AgreeingKept
<1>5. ASSUME NEW k \in Keys, OpenJob(k) PROVE Agreeing'
  <2>1. /\ cmd' = cmd /\ attempts' = attempts /\ complete' = complete
        /\ cmd.step = "working" /\ cmd.root \in Roots
        /\ rows[cmd.root][k] = "none"
        /\ rows' = [rows EXCEPT ![cmd.root][k] = "open"]
    BY <1>5 DEF OpenJob, hist
  <2>2. \A a \in attempts[cmd.root] : a.key # k
    BY <2>1 DEF Agreeing, Attempts, Outcomes
  <2>3. \A r \in Roots \ {cmd.root} : rows'[r] = rows[r]
    BY <2>1
  <2>4. \A j \in Keys \ {k} : rows'[cmd.root][j] = rows[cmd.root][j]
    BY <2>1
  <2>5. \A a \in attempts[cmd.root] : rows'[cmd.root][a.key] \in {"open", a.state}
    BY <2>1, <2>2, <2>4 DEF Agreeing, Attempts
  <2>6. cmd.root \notin complete /\ complete \subseteq Roots
    BY <2>1 DEF Agreeing
  <2> QED BY <2>1, <2>3, <2>5, <2>6, AgreeingKept
<1>6. ASSUME NEW k \in Keys, CloseJob(k) PROVE Agreeing'
  <2>1. /\ cmd' = cmd /\ attempts' = attempts /\ complete' = complete
        /\ cmd.step = "working" /\ cmd.root \in Roots
    BY <1>6 DEF CloseJob, hist
  <2>2. PICK b \in attempts[cmd.root] :
          b.key = k /\ rows' = [rows EXCEPT ![cmd.root][k] = b.state]
    BY <1>6 DEF CloseJob, Recorded
  <2>3. \A r \in Roots \ {cmd.root} : rows'[r] = rows[r]
    BY <2>2
  <2>4. \A j \in Keys \ {k} : rows'[cmd.root][j] = rows[cmd.root][j]
    BY <2>2
  <2>5. rows'[cmd.root][k] = b.state
    BY <2>1, <2>2
  <2>6. \A a \in attempts[cmd.root] : a.key = k => a = b
    BY <2>1, <2>2 DEF Attempts
  <2>7. \A a \in attempts[cmd.root] : rows'[cmd.root][a.key] \in {"open", a.state}
    BY <2>1, <2>4, <2>5, <2>6 DEF Agreeing, Attempts
  <2>8. cmd.root \notin complete /\ complete \subseteq Roots
    BY <2>1 DEF Agreeing
  <2> QED BY <2>1, <2>3, <2>7, <2>8, AgreeingKept
<1>7. ASSUME NEW k \in Keys, RecordAttempt(k) PROVE Agreeing'
  <2>1. PICK s \in {"succeeded", "failed", "skipped"} :
          attempts' = [attempts EXCEPT ![cmd.root] =
                         @ \cup {[key |-> k, run |-> begun, state |-> s]}]
    BY <1>7 DEF RecordAttempt
  <2> DEFINE new == [key |-> k, run |-> begun, state |-> s]
  <2>2. /\ cmd' = cmd /\ rows' = rows /\ complete' = complete
        /\ cmd.step = "working" /\ cmd.root \in Roots
        /\ rows[cmd.root][k] = "open"
    BY <1>7 DEF RecordAttempt, hist
  <2>3. new.key = k
    OBVIOUS
  <2> HIDE DEF new
  <2>4. \A r \in Roots : \A a \in attempts'[r] :
          a \in attempts[r] \/ (a = new /\ r = cmd.root)
    BY <2>1 DEF new
  <2> QED BY <2>2, <2>3, <2>4 DEF Agreeing
<1>8. CASE UNCHANGED <<rows, attempts, complete>> /\ ~ClearJobs /\ ~ClearAttempts
  <2>1. CASE cmd'.step \in Untouched
    <3>1. ASSUME NEW q \in Roots, StartRun(q) PROVE FALSE
      BY <2>1, <3>1 DEF StartRun, BeginRun
    <3>2. ASSUME NEW q \in Roots, NEW merge \in BOOLEAN, StartAnalyze(q, merge) PROVE FALSE
      BY <2>1, <3>2 DEF StartAnalyze
    <3>3. ASSUME Plan PROVE FALSE
      BY <2>1, <3>3 DEF Plan
    <3>4. ASSUME Resolve \/ Join PROVE FALSE
      BY <2>1, <3>4 DEF Resolve, Join
    <3>5. ASSUME Evaluate PROVE FALSE
      BY <2>1, <3>5, EvaluateJudges
    <3>6. cmd' = cmd
      BY <1>8, <2>1, <3>1, <3>2, <3>3, <3>4, <3>5, Moves
    <3> QED BY <1>8, <3>6 DEF Agreeing
  <2>2. CASE cmd'.step \notin Untouched
    BY <1>8, <2>2 DEF Agreeing
  <2> QED BY <2>1, <2>2
<1> QED
  BY <1>1, <1>2, <1>3, <1>4, <1>5, <1>6, <1>7, <1>8, Frames

\* Verdicts hold of a root as long as its attempts stay.
LEMMA JudgementsStep ==
  ASSUME IInv, Attempts, Unjudged, Judgements, Analysing, [Next]_vars
  PROVE  Judgements'
<1> USE DEF IInv, Types, RunSteps, AnalyzeSteps, At
<1>1. CASE Evaluate
  <2>1. PICK v : /\ v.present /\ VerdictsOf(v.by, cmd.rows)
                 /\ results' = IF cmd.merge THEN results
                               ELSE [results EXCEPT ![cmd.root] = v]
    BY <1>1, EvaluateJudges
  <2>2. cmd.step = "resolved" /\ cmd.root \in Roots
    BY <1>1 DEF Evaluate
  <2>3. attempts' = attempts
    BY <1>1 DEF Evaluate
  <2>4. CASE cmd.merge
    BY <2>1, <2>3, <2>4 DEF Judgements
  <2>5. CASE ~cmd.merge
    <3>1. cmd.rows = attempts[cmd.root]
      BY <2>2, <2>5 DEF Analysing, Selected
    <3>2. DOMAIN results' = Roots
      BY <2>1, <2>5 DEF Judgements
    <3>3. results'[cmd.root] = v /\ \A r \in Roots \ {cmd.root} : results'[r] = results[r]
      BY <2>1, <2>2, <2>5 DEF Judgements
    <3> QED BY <2>1, <2>3, <3>1, <3>2, <3>3 DEF Judgements
  <2> QED BY <2>4, <2>5
<1>2. CASE UNCHANGED <<results, attempts>> \/ (ClearJobs /\ UNCHANGED results)
  BY <1>2 DEF ClearJobs, Judgements
<1>3. CASE results' = results /\ (ClearAttempts \/ \E k \in Keys : RecordAttempt(k))
  <2>1. cmd.step \in RunSteps
    BY <1>3 DEF ClearAttempts, RecordAttempt
  <2>2. ~results[cmd.root].present
    BY <2>1 DEF Unjudged
  <2>3. \A r \in Roots \ {cmd.root} : attempts'[r] = attempts[r]
    BY <1>3 DEF ClearAttempts, RecordAttempt
  <2> QED BY <1>3, <2>2, <2>3 DEF Judgements
<1> QED
  BY <1>1, <1>2, <1>3, Frames

\* What a command under way on a root writes, by step.
LEMMA RunWrites ==
  ASSUME IInv, cmd.step \in RunSteps, [Next]_vars, NEW c \in Roots, c = cmd.root
  PROVE  /\ results' = results
         /\ \A r \in Roots \ {c} : rows'[r] = rows[r] /\ attempts'[r] = attempts[r]
         /\ cmd.step = "planning" => rows' = rows /\ attempts' = attempts
         /\ \A k \in Keys : Retried(k, c)' =>
              Retried(k, c) \/ (cmd.step # "planning" /\ k \in cmd.keys)
<1> USE DEF IInv, Types, RunSteps, AnalyzeSteps, At
<1>1. results' = results
  BY Frames, EvaluateJudges
<1>2. CASE ClearJobs
  BY <1>1, <1>2 DEF ClearJobs, NoRows, Retried
<1>3. CASE ClearAttempts
  <2>1. rows' = rows /\ cmd.step = "clearing_attempts" /\ cmd.root \in Roots
    BY <1>3 DEF ClearAttempts
  <2>2. attempts'[cmd.root] = {} /\ \A r \in Roots \ {c} : attempts'[r] = attempts[r]
    BY <1>3, <2>1 DEF ClearAttempts
  <2> QED BY <1>1, <2>1, <2>2 DEF Retried
<1>4. CASE FailRun
  <2>1. attempts' = attempts /\ (cmd.step = "planning" => rows' = rows)
    BY <1>4 DEF FailRun
  <2>2. \A r \in Roots \ {c} : rows'[r] = rows[r]
    BY <1>4 DEF FailRun
  <2>3. \A k \in Keys : rows[cmd.root][k] = "none" => rows'[cmd.root][k] = "none"
    BY <1>4 DEF FailRun
  <2> QED BY <1>1, <2>1, <2>2, <2>3 DEF Retried
<1>5. ASSUME NEW k \in Keys, OpenJob(k)
      PROVE  /\ attempts' = attempts /\ cmd.step = "working" /\ k \in cmd.keys
             /\ \A r \in Roots \ {c} : rows'[r] = rows[r]
             /\ \A j \in Keys \ {k} : rows'[cmd.root][j] = rows[cmd.root][j]
  BY <1>5 DEF OpenJob
<1>6. ASSUME NEW k \in Keys, CloseJob(k)
      PROVE  /\ attempts' = attempts /\ cmd.step = "working" /\ k \in cmd.keys
             /\ \A r \in Roots \ {c} : rows'[r] = rows[r]
             /\ \A j \in Keys \ {k} : rows'[cmd.root][j] = rows[cmd.root][j]
  BY <1>6 DEF CloseJob, Unvouched, Untouched
<1>7. ASSUME NEW k \in Keys, RecordAttempt(k)
      PROVE  /\ rows' = rows /\ cmd.step = "working" /\ k \in cmd.keys
             /\ \A r \in Roots \ {c} : attempts'[r] = attempts[r]
             /\ \A a \in attempts'[cmd.root] : a \in attempts[cmd.root] \/ a.key = k
  <2>1. PICK s \in {"succeeded", "failed", "skipped"} :
          attempts' = [attempts EXCEPT ![cmd.root] =
                         @ \cup {[key |-> k, run |-> begun, state |-> s]}]
    BY <1>7 DEF RecordAttempt
  <2>2. rows' = rows /\ cmd.step = "working" /\ k \in cmd.keys
    BY <1>7 DEF RecordAttempt, Unvouched, Untouched
  <2> QED BY <2>1, <2>2
<1>8. CASE UNCHANGED <<rows, attempts>>
  BY <1>1, <1>8 DEF Retried
<1>9. CASE \E k \in Keys : OpenJob(k) \/ CloseJob(k)
  BY <1>1, <1>5, <1>6, <1>9 DEF Retried
<1>10. CASE \E k \in Keys : RecordAttempt(k)
  BY <1>1, <1>7, <1>10 DEF Retried
<1> QED
  BY <1>2, <1>3, <1>4, <1>8, <1>9, <1>10, Frames

LEMMA ChainedStep ==
  ASSUME IInv, Attempts, Unjudged, Judgements, Analysing, Chained, [Next]_vars
  PROVE  Chained'
<1> USE FamilyAssumption DEF IInv, Types, RunSteps, AnalyzeSteps, At, Roots
<1>1. CASE cmd.step \in RunSteps
  <2> PICK c \in Roots : c = cmd.root
    BY <1>1
  <2>1. ASSUME NEW q \in Roots \ {c}, NEW k \in Keys, Unsettled(k, q)
        PROVE  Unsettled(k, q)'
    BY <1>1, <2>1, RunWrites DEF Unsettled, Unresolved
  <2>2. ASSUME NEW q \in Roots, NEW r \in Roots, q < r, NEW k \in Keys, Retried(k, r)'
        PROVE  Unsettled(k, q)'
    <3>1. CASE r > c
      <4>1. rows'[r] = NoRows /\ attempts'[r] = {}
        BY <1>1, <3>1, RunWrites DEF Unjudged
      <4> QED BY <2>2, <4>1 DEF Retried, NoRows
    <3>2. CASE r = c
      <4>1. Unsettled(k, q)
        BY <1>1, <2>2, <3>2, RunWrites DEF Chained
      <4> QED BY <2>1, <2>2, <3>2, <4>1
    <3>3. CASE r < c
      <4>1. Retried(k, r)
        BY <1>1, <2>2, <3>3, RunWrites DEF Retried
      <4>2. Unsettled(k, q)
        BY <2>2, <4>1 DEF Chained
      <4> QED BY <2>1, <2>2, <3>3, <4>2
    <3> QED BY <1>1, <3>1, <3>2, <3>3
  <2>3. ASSUME cmd'.step \in RunSteps \ {"planning"}
        PROVE  \A q \in Roots : q < cmd'.root => \A k \in cmd'.keys : Unsettled(k, q)'
    <3> SUFFICES ASSUME NEW q \in Roots, q < cmd'.root, NEW k \in cmd'.keys
                 PROVE  Unsettled(k, q)'
      OBVIOUS
    <3>1. CASE Plan
      <4>1. cmd'.root = c /\ k \in PlannedKeys(c) /\ UNCHANGED <<rows, results>>
        BY <3>1 DEF Plan, dirs
      <4>2. c - 1 \in Roots /\ k \in FailureKeys(c - 1)
        BY <1>1, <4>1 DEF PlannedKeys
      <4>3. CASE q = c - 1
        BY <4>1, <4>2, <4>3 DEF FailureKeys, Retriable, Unsettled, Unresolved
      <4>4. CASE q < c - 1
        <5>1. k \in Keys /\ Retried(k, c - 1)
          BY <4>2 DEF FailureKeys, Known, Retried
        <5>2. Unsettled(k, q)
          BY <4>2, <4>4, <5>1 DEF Chained
        <5> QED BY <4>1, <5>2 DEF Unsettled, Unresolved
      <4> QED BY <1>1, <4>1, <4>3, <4>4
    <3>2. CASE cmd'.root = c /\ cmd'.keys = cmd.keys /\ cmd.step # "planning"
      <4>1. Unsettled(k, q)
        BY <1>1, <3>2 DEF Chained
      <4>2. rows'[q] = rows[q] /\ results' = results
        BY <1>1, <3>2, RunWrites
      <4> QED BY <4>1, <4>2 DEF Unsettled, Unresolved
    <3>3. CASE ClearJobs \/ ClearAttempts
      <4>1. cmd'.root = c /\ cmd'.keys = cmd.keys /\ cmd.step # "planning"
        BY <3>3 DEF ClearJobs, ClearAttempts
      <4> QED BY <4>1, <3>2
    <3>4. ASSUME NEW r \in Roots, StartRun(r) PROVE FALSE
      BY <2>3, <3>4 DEF StartRun, BeginRun
    <3>5. ASSUME NEW r \in Roots, NEW merge \in BOOLEAN, StartAnalyze(r, merge) PROVE FALSE
      BY <2>3, <3>5 DEF StartAnalyze
    <3>6. ASSUME Resolve \/ Evaluate \/ Join PROVE FALSE
      BY <1>1, <3>6 DEF Resolve, Evaluate, Join
    <3> QED BY <2>3, <3>1, <3>2, <3>3, <3>4, <3>5, <3>6, Moves
  <2>4. ASSUME cmd'.step = "clearing" PROVE cmd'.keys = PlannedKeys(cmd.root)'
    <3>1. CASE Plan
      BY <3>1 DEF Plan, dirs, PlannedKeys, FailureKeys, Known, Unresolved
    <3>2. CASE ClearJobs \/ ClearAttempts
      BY <2>4, <3>2 DEF ClearJobs, ClearAttempts
    <3>3. CASE cmd' = cmd
      <4>1. UNCHANGED <<rows, results>>
        <5>1. ASSUME ClearJobs \/ FailRun PROVE FALSE
          BY <2>4, <3>3, <5>1 DEF ClearJobs, FailRun, Idle
        <5>2. ASSUME NEW k \in Keys, OpenJob(k) \/ CloseJob(k) PROVE FALSE
          BY <2>4, <3>3, <5>2 DEF OpenJob, CloseJob
        <5> QED BY <1>1, <5>1, <5>2, Frames, RunWrites
      <4> QED BY <2>4, <3>3, <4>1 DEF Chained, PlannedKeys, FailureKeys, Known, Unresolved
    <3>4. ASSUME NEW r \in Roots, StartRun(r) PROVE FALSE
      BY <2>4, <3>4 DEF StartRun, BeginRun
    <3>5. ASSUME NEW r \in Roots, NEW merge \in BOOLEAN, StartAnalyze(r, merge) PROVE FALSE
      BY <2>4, <3>5 DEF StartAnalyze
    <3>6. ASSUME Resolve \/ Evaluate \/ Join PROVE FALSE
      BY <1>1, <3>6 DEF Resolve, Evaluate, Join
    <3> QED BY <2>4, <3>1, <3>2, <3>3, <3>4, <3>5, <3>6, Moves
  <2> QED BY <2>2, <2>3, <2>4 DEF Chained
<1>2. CASE cmd.step \notin RunSteps
  <2>1. UNCHANGED <<rows, attempts>>
    <3>1. ASSUME ClearJobs \/ ClearAttempts \/ FailRun PROVE FALSE
      BY <1>2, <3>1 DEF ClearJobs, ClearAttempts, FailRun
    <3>2. ASSUME NEW k \in Keys, OpenJob(k) \/ RecordAttempt(k) \/ CloseJob(k) PROVE FALSE
      BY <1>2, <3>2 DEF OpenJob, RecordAttempt, CloseJob
    <3> QED BY <3>1, <3>2, Frames
  <2>2. ASSUME NEW q \in Roots, NEW k \in Keys, Unsettled(k, q)
        PROVE  Unsettled(k, q)'
    <3>1. CASE results' = results
      BY <2>1, <2>2, <3>1 DEF Unsettled, Unresolved
    <3>2. CASE Evaluate
      <4>1. CASE rows[q][k] = "failed"
        BY <2>1, <4>1 DEF Unsettled
      <4>2. CASE PairOf[k] \in Unresolved(q)
        <5>1. results[q].present
          BY <4>2 DEF Unresolved
        <5>2. results'[q] = results[q]
          <6>1. ~cmd.merge => ~results[cmd.root].present
            BY <3>2, EvaluateJudges DEF Analysing
          <6> QED BY <3>2, <5>1, <6>1, EvaluateJudges DEF Judgements
        <5> QED BY <4>2, <5>2 DEF Unsettled, Unresolved
      <4> QED BY <2>2, <4>1, <4>2 DEF Unsettled
    <3> QED BY <3>1, <3>2, Frames
  <2>3. \A q, r \in Roots : q < r => \A k \in Keys : Retried(k, r)' => Unsettled(k, q)'
    BY <2>1, <2>2 DEF Chained, Retried
  <2>4. cmd'.step \in RunSteps => cmd'.step = "planning"
    <3>1. ASSUME Plan \/ ClearJobs \/ ClearAttempts PROVE FALSE
      BY <1>2, <3>1 DEF Plan, ClearJobs, ClearAttempts
    <3>2. ASSUME NEW r \in Roots, StartRun(r) PROVE cmd'.step = "planning"
      BY <3>2 DEF StartRun, BeginRun
    <3>3. ASSUME NEW r \in Roots, NEW merge \in BOOLEAN, StartAnalyze(r, merge)
          PROVE  cmd'.step = "resolving"
      BY <3>3 DEF StartAnalyze
    <3>4. CASE Resolve \/ Join
      BY <3>4 DEF Resolve, Join
    <3>5. CASE Evaluate
      BY <3>5, EvaluateJudges
    <3> QED BY <1>2, <3>1, <3>2, <3>3, <3>4, <3>5, Moves
  <2> QED BY <2>3, <2>4 DEF Chained
<1> QED
  BY <1>1, <1>2

LEMMA AnalysingStep ==
  ASSUME IInv, Analysing, [Next]_vars
  PROVE  Analysing'
<1> USE DEF IInv, Types, RunSteps, AnalyzeSteps, At
<1>1. CASE cmd'.step \notin AnalyzeSteps
  BY <1>1 DEF Analysing
<1>2. ASSUME NEW r \in Roots, NEW merge \in BOOLEAN, StartAnalyze(r, merge)
      PROVE  Analysing'
  BY <1>2 DEF StartAnalyze, Analysing
<1>3. ASSUME Plan \/ ClearJobs \/ ClearAttempts PROVE cmd'.step \in RunSteps
  BY <1>3 DEF Plan, ClearJobs, ClearAttempts
<1>4. ASSUME NEW r \in Roots, StartRun(r) PROVE cmd'.step \in RunSteps
  BY <1>4 DEF StartRun, BeginRun
<1>5. CASE Resolve
  <2>1. /\ cmd'.step = "resolved" /\ cmd'.root = cmd.root /\ cmd'.merge = cmd.merge
        /\ cmd'.rows = Selected /\ cmd'.verdicts = Found /\ "verdicts" \in DOMAIN cmd'
        /\ attempts' = attempts /\ results' = results
        /\ cmd.step = "resolving"
    BY <1>5 DEF Resolve, dirs
  <2>2. Selected' = Selected /\ Found' = Found
    BY <2>1 DEF Selected, Found, MergedAttempts, MergedResults, Family, Judging
  <2>3. ~cmd.merge => Found = results[cmd.root]
    BY DEF Found
  <2> QED BY <2>1, <2>2, <2>3 DEF Analysing
<1>6. CASE Evaluate
  <2>1. PICK v : /\ v.present /\ VerdictsOf(v.by, cmd.rows)
                 /\ cmd' = [cmd EXCEPT !.verdicts = v]
    BY <1>6, EvaluateJudges
  <2>2. cmd.step = "resolved" /\ attempts' = attempts
    BY <1>6 DEF Evaluate
  <2>3. /\ cmd'.step = "resolved" /\ cmd'.root = cmd.root /\ cmd'.merge = cmd.merge
        /\ cmd'.rows = cmd.rows /\ cmd'.verdicts = v /\ "verdicts" \in DOMAIN cmd'
    BY <2>1, <2>2 DEF Analysing
  <2>4. Selected' = Selected
    BY <2>2, <2>3 DEF Selected, MergedAttempts, Family
  <2>5. cmd.rows = Selected /\ cmd.merge \in BOOLEAN
    BY <2>2 DEF Analysing
  <2>6. VerdictsOf(cmd'.verdicts.by, Selected)
    BY <2>1, <2>3, <2>5
  <2>7. VerdictsOf(cmd.verdicts.by, Selected)'
    BY <2>4, <2>6 DEF VerdictsOf
  <2> QED BY <2>1, <2>3, <2>4, <2>5, <2>7 DEF Analysing
<1>7. CASE Join
  <2>1. /\ cmd.step = "resolved" /\ cmd'.step = "joined" /\ attempts' = attempts
        /\ cmd'.root = cmd.root /\ cmd'.merge = cmd.merge
        /\ cmd'.rows = {Joined(a) : a \in cmd.rows}
    BY <1>7 DEF Join, dirs
  <2>2. \A a \in cmd.rows : Joined(a).attempt = a
    BY DEF Joined
  <2>3. {row.attempt : row \in cmd'.rows} = cmd.rows
    BY <2>1, <2>2
  <2>4. Selected' = Selected
    BY <2>1 DEF Selected, MergedAttempts, Family
  <2> QED BY <2>1, <2>3, <2>4 DEF Analysing
<1>8. CASE cmd' = cmd /\ cmd.step \in AnalyzeSteps /\ ~Evaluate
  <2>1. attempts' = attempts /\ results' = results
    <3>1. ASSUME ClearJobs \/ ClearAttempts PROVE FALSE
      BY <1>8, <3>1 DEF ClearJobs, ClearAttempts
    <3>2. ASSUME NEW k \in Keys, RecordAttempt(k) PROVE FALSE
      BY <1>8, <3>2 DEF RecordAttempt
    <3> QED BY <1>8, <3>1, <3>2, Frames
  <2>2. Selected' = Selected /\ Found' = Found
    BY <1>8, <2>1 DEF Selected, Found, MergedAttempts, MergedResults, Family, Judging
  <2>3. VerdictsOf(cmd.verdicts.by, Selected) => VerdictsOf(cmd.verdicts.by, Selected)'
    BY <1>8, <2>2 DEF VerdictsOf
  <2> QED BY <1>8, <2>1, <2>2, <2>3 DEF Analysing
<1> QED
  BY <1>1, <1>2, <1>3, <1>4, <1>5, <1>6, <1>7, <1>8, Moves

\* Who was careless remains so.
LEMMA CarelessStays == Types /\ [Next]_vars /\ careless => careless'
<1> SUFFICES ASSUME Types, [Next]_vars, careless PROVE careless'
  OBVIOUS
<1>1. ASSUME NEW r \in Roots, StartRun(r) PROVE careless'
  BY <1>1 DEF StartRun, BeginRun
<1>2. CASE Plan \/ ClearJobs \/ ClearAttempts \/ FinishRun \/ FailRun
  BY <1>2 DEF Plan, ClearJobs, ClearAttempts, FinishRun, FailRun, hist
<1>3. ASSUME NEW k \in Keys, OpenJob(k) \/ RecordAttempt(k) \/ CloseJob(k) PROVE careless'
  BY <1>3 DEF OpenJob, RecordAttempt, CloseJob, hist
<1>4. ASSUME NEW r \in Roots, NEW merge \in BOOLEAN, StartAnalyze(r, merge) PROVE careless'
  BY <1>4 DEF StartAnalyze, hist
<1>5. CASE Evaluate
  BY <1>5 DEF Evaluate, hist
<1>6. CASE Resolve \/ Join \/ FinishAnalyze \/ FailAnalyze \/ Kill
  BY <1>6 DEF Resolve, Join, FinishAnalyze, FailAnalyze, Kill, hist
<1>7. CASE UNCHANGED vars
  BY <1>7 DEF vars, hist
<1> QED
  BY <1>1, <1>2, <1>3, <1>4, <1>5, <1>6, <1>7 DEF Next

\* FInv holds as long as nobody is.
Cared == IInv /\ (careless \/ FInv)

LEMMA CaredHolds == Spec => []Cared
<1> USE DEF FInv, FamilyInv
<1>1. Init => FInv
  <2> SUFFICES ASSUME Init PROVE FInv
    OBVIOUS
  <2> USE FamilyAssumption DEF Init, Idle, RunSteps, AnalyzeSteps, Untouched, Roots
  <2>1. IInv
    BY DEF At, Statuses, IInv, Types, Unvouched, SkipIsSound, NoRows
  <2>2. Attempts /\ Ordered /\ Newest /\ Unjudged /\ Agreeing
    BY DEF Attempts, Ordered, Newest, Unjudged, Agreeing
  <2>3. Judgements
    BY DEF Judgements, NoResults
  <2>4. Chained
    BY DEF Chained, Retried, NoRows
  <2>5. Analysing
    BY DEF Analysing
  <2> QED BY <2>1, <2>2, <2>3, <2>4, <2>5 DEF IInv
<1>2. Cared /\ [Next]_vars => Cared'
  <2> SUFFICES ASSUME Cared, [Next]_vars PROVE Cared'
    OBVIOUS
  <2>1. IInv /\ IInv'
    BY SkipStep DEF Cared
  <2>2. ASSUME ~careless' PROVE FInv'
    <3>1. FInv
      BY <2>1, <2>2, CarelessStays DEF Cared, IInv
    <3> QED
      BY <2>1, <2>2, <3>1, AttemptsStep, OrderedStep, NewestStep, UnjudgedStep, AgreeingStep,
         JudgementsStep, ChainedStep, AnalysingStep DEF IInv
  <2> QED BY <2>1, <2>2 DEF Cared
<1>3. FInv => IInv
  BY DEF IInv
<1> QED
  BY <1>1, <1>2, <1>3, PTL DEF Spec, Cared

-----------------------------------------------------------------------------
LEMMA GreatestRoot ==
  ASSUME NEW S \in SUBSET Roots, S # {}
  PROVE  /\ Max(S) \in S
         /\ \A r \in S : r <= Max(S)
<1> USE FamilyAssumption DEF Roots
<1> DEFINE Far == {NumRoots - r : r \in S}
<1>1. \A r \in S : r \in Int /\ NumRoots - r \in Nat
  OBVIOUS
<1>2. Far \subseteq Nat /\ Far # {}
  BY <1>1
<1>3. PICK x \in Far : \A y \in Far : ~(<<y, x>> \in OpToRel(<, Nat))
  <2> HIDE DEF Far
  <2> QED BY <1>2, WFMin, NatLessThanWellFounded
<1>4. \A y \in Far : x <= y
  <2> SUFFICES ASSUME NEW y \in Far PROVE x <= y
    OBVIOUS
  <2>1. x \in Nat /\ y \in Nat
    BY <1>2
  <2> HIDE DEF Far
  <2>2. ~(y < x)
    BY <1>3, <2>1 DEF OpToRel
  <2> QED BY <2>1, <2>2
<1>5. PICK m \in S : x = NumRoots - m
  OBVIOUS
<1>6. \A r \in S : m >= r
  <2> SUFFICES ASSUME NEW r \in S PROVE m >= r
    OBVIOUS
  <2>1. NumRoots - m <= NumRoots - r
    BY <1>4, <1>5
  <2> QED BY <1>1, <2>1
<1> QED
  BY <1>1, <1>6 DEF Max

\* Each job is merged from the last root that has an attempt of it.
LEMMA MergedFrom ==
  /\ \A a \in MergedAttempts : \E r \in Roots :
       a \in attempts[r] /\ \A q \in Roots : q > r => \A b \in attempts[q] : b.key # a.key
  /\ \A r \in Roots : \A a \in attempts[r] :
       (\A q \in Roots : q > r => \A b \in attempts[q] : b.key # a.key) => a \in MergedAttempts
<1>1. \A q \in Roots : attempts[q] # {} => q \in Family
  BY DEF Family
<1>2. \A r \in Family : r \in Roots
  BY DEF Family
<1> QED
  BY <1>1, <1>2 DEF MergedAttempts

(***************************************************************************)
(* Whatever was run, retried, killed and run again before it was judged or *)
(* retried, a merged report has each job once, by the attempt of the last  *)
(* execution that made one (_merge_retry_family_artifacts).                *)
(***************************************************************************)
THEOREM MergesAreLatest == Spec => []MergedIsLatest
<1>1. FInv => MergedIsLatest
  <2> SUFFICES ASSUME FInv, At("joined"), cmd.merge
               PROVE  MergedIsLatest
    BY DEF MergedIsLatest
  <2> USE FamilyAssumption DEF FInv, FamilyInv, Roots
  <2> DEFINE all == UNION {attempts[r] : r \in Roots}
  <2>1. {row.attempt : row \in cmd.rows} = MergedAttempts
    BY DEF Analysing, At, Selected
  <2>2. ASSUME NEW a \in MergedAttempts, NEW b \in all, b.key = a.key
        PROVE  b.run <= a.run
    <3>1. PICK r \in Roots : a \in attempts[r] /\ \A q \in Roots : q > r =>
                               \A c \in attempts[q] : c.key # a.key
      BY MergedFrom
    <3>2. PICK q \in Roots : b \in attempts[q]
      OBVIOUS
    <3>3. a.run \in Nat /\ b.run \in Nat
      BY <3>1, <3>2 DEF Attempts
    <3>4. q <= r
      BY <2>2, <3>1, <3>2
    <3>5. CASE q = r
      BY <2>2, <3>1, <3>2, <3>3, <3>5 DEF Attempts
    <3>6. CASE q < r
      BY <2>2, <3>1, <3>2, <3>3, <3>6 DEF Ordered
    <3> QED BY <3>4, <3>5, <3>6
  <2>3. ASSUME NEW a \in all, \A b \in all : b.key = a.key => b.run <= a.run
        PROVE  a \in MergedAttempts
    <3>1. PICK r \in Roots : a \in attempts[r]
      OBVIOUS
    <3>2. ASSUME NEW q \in Roots, q > r, NEW b \in attempts[q], b.key = a.key
          PROVE  FALSE
      <4>1. a.run < b.run
        BY <3>1, <3>2 DEF Ordered
      <4>2. b.run <= a.run
        BY <2>3, <3>2
      <4>3. a.run \in Nat /\ b.run \in Nat
        BY <3>1, <3>2 DEF Attempts
      <4> QED BY <4>1, <4>2, <4>3
    <3> QED BY <3>1, <3>2, MergedFrom
  <2>4. MergedAttempts \subseteq all
    BY MergedFrom
  <2> HIDE DEF all
  <2>5. MergedAttempts = {a \in all : \A b \in all : b.key = a.key => b.run <= a.run}
    BY <2>2, <2>3, <2>4
  <2> QED BY <2>1, <2>5 DEF MergedIsLatest, all
<1>2. Cared => MergedIsLatest
  BY <1>1 DEF Cared, MergedIsLatest
<1> QED
  BY <1>2, CaredHolds, PTL

(***************************************************************************)
(* A retry of a root whose run finished plans every job of it that failed  *)
(* or was judged and lost, and none that was judged a success, when each   *)
(* pair has one seed (_load_retry_failure_keys).                           *)
(***************************************************************************)
THEOREM RetriesAreExact == ASSUME OneSeed PROVE Spec => []RetryIsExact
<1>1. FInv => RetryIsExact
  <2> SUFFICES ASSUME FInv, At("clearing"), cmd.root - 1 \in complete,
                      NEW a \in attempts[cmd.root - 1]
               PROVE  LET source == results[cmd.root - 1]
                          Won(p) == source.present /\ p \in DOMAIN source.by
                                      /\ source.by[p].resolved
                          Lost(p) == source.present /\ p \in DOMAIN source.by
                                      /\ ~source.by[p].resolved
                      IN  /\ a.state = "failed" \/ Lost(PairOf[a.key]) => a.key \in cmd.keys
                          /\ a.key \in cmd.keys => ~Won(PairOf[a.key])
    BY DEF RetryIsExact
  <2> USE FamilyAssumption DEF FInv, FamilyInv
  <2> DEFINE s == cmd.root - 1
             p == PairOf[a.key]
  <2>1. s \in Roots /\ cmd.root # 1
    <3>1. s \in Roots
      BY DEF Agreeing
    <3> QED BY <3>1 DEF Roots
  <2>2. a.key \in Keys /\ a.state \in Outcomes /\ rows[s][a.key] = a.state
    BY <2>1 DEF Agreeing, Attempts
  <2>3. cmd.keys = FailureKeys(s)
    BY <2>1 DEF Chained, PlannedKeys, At
  <2>4. a.key \in Known(s)
    BY <2>2 DEF Known, Outcomes
  <2>5. a.key \in cmd.keys <=> a.state = "failed" \/ p \in Unresolved(s)
    BY <2>2, <2>3, <2>4 DEF FailureKeys, Retriable
  <2>6. ASSUME a.state = "failed", results[s].present, p \in DOMAIN results[s].by
        PROVE  FALSE
    <3>1. PICK b \in attempts[s] : b.state = "succeeded" /\ PairOf[b.key] = p
      BY <2>1, <2>6 DEF Judgements, VerdictsOf
    <3>2. b.key = a.key
      BY <2>1, <2>2, <3>1 DEF OneSeed, Attempts
    <3> QED BY <2>1, <2>6, <3>1, <3>2 DEF Attempts
  <2> QED BY <2>5, <2>6 DEF Unresolved
<1>2. Cared => RetryIsExact
  BY <1>1 DEF Cared, RetryIsExact
<1> QED
  BY <1>2, CaredHolds, PTL

-----------------------------------------------------------------------------
\* With one seed per pair, the verdict on a pair is on its one success.
LEMMA OwnVerdict ==
  ASSUME OneSeed, NEW by, NEW S, VerdictsOf(by, S),
         \A x \in S : x.key \in Keys,
         \A x, y \in S : x.key = y.key => x = y,
         NEW a \in S, PairOf[a.key] \in DOMAIN by \/ a.state = "succeeded"
  PROVE  /\ PairOf[a.key] \in DOMAIN by
         /\ by[PairOf[a.key]].attempt = a /\ a.state = "succeeded"
<1>1. PairOf[a.key] \in DOMAIN by
  BY DEF VerdictsOf
<1> DEFINE w == by[PairOf[a.key]].attempt
<1>2. w \in S /\ w.state = "succeeded" /\ PairOf[w.key] = PairOf[a.key]
  BY <1>1 DEF VerdictsOf
<1>3. w = a
  BY <1>2 DEF OneSeed
<1> QED
  BY <1>1, <1>2, <1>3

\* A merged verdict is the last root's that has one on the pair.
LEMMA MergedVerdict ==
  ASSUME Judgements, MergedResults.present, NEW p
  PROVE  /\ \A r \in Roots : attempts[r] # {} => results[r].present
         /\ \A r \in Roots : attempts[r] # {} /\ p \in DOMAIN results[r].by =>
              p \in DOMAIN MergedResults.by
         /\ p \in DOMAIN MergedResults.by =>
              \E m \in Roots :
                /\ results[m].present /\ p \in DOMAIN results[m].by
                /\ MergedResults.by[p] = results[m].by[p]
                /\ \A r \in Roots : attempts[r] # {} /\ p \in DOMAIN results[r].by => r <= m
<1> DEFINE judged == UNION {DOMAIN results[r].by : r \in Family}
<1>1. \A r \in Family : results[r].present
  BY DEF MergedResults, NoResults
<1>2. MergedResults.by = [q \in judged |-> results[Max(Judging(q))].by[q]]
  BY <1>1 DEF MergedResults
<1>3. DOMAIN MergedResults.by = judged
  BY <1>2
<1>4. Judging(p) \in SUBSET Roots
  BY DEF Judging, Family
<1>5. ASSUME p \in judged
      PROVE  \E m \in Roots :
               /\ results[m].present /\ p \in DOMAIN results[m].by
               /\ MergedResults.by[p] = results[m].by[p]
               /\ \A r \in Roots : attempts[r] # {} /\ p \in DOMAIN results[r].by => r <= m
  <2>1. Judging(p) # {}
    BY <1>5 DEF Judging
  <2> DEFINE m == Max(Judging(p))
  <2>2. m \in Judging(p) /\ \A r \in Judging(p) : r <= m
    BY <1>4, <2>1, GreatestRoot
  <2>3. MergedResults.by[p] = results[m].by[p]
    BY <1>2, <1>5
  <2>4. m \in Roots /\ results[m].present /\ p \in DOMAIN results[m].by
    BY <1>1, <2>2 DEF Judging, Family
  <2> HIDE DEF m
  <2>5. \A r \in Roots : attempts[r] # {} /\ p \in DOMAIN results[r].by => r <= m
    BY <2>2 DEF Judging, Family
  <2> QED BY <2>3, <2>4, <2>5
<1> QED
  BY <1>1, <1>3, <1>5 DEF Family

LEMMA JoinsAreOwn ==
  ASSUME OneSeed, FInv, Join
  PROVE  VerdictIsOwn'
<1> USE FamilyAssumption DEF FInv, FamilyInv
<1> DEFINE by == cmd.verdicts.by
<1>1. /\ cmd.step = "resolved" /\ cmd.verdicts.present
      /\ cmd'.merge = cmd.merge /\ cmd'.rows = {Joined(a) : a \in cmd.rows}
      /\ attempts' = attempts /\ rows' = rows
  BY DEF Join, dirs, At
<1>2. /\ cmd.rows = Selected
      /\ cmd.verdicts = Found \/ VerdictsOf(by, Selected)
      /\ cmd.merge \in BOOLEAN /\ cmd.root \in Roots
  BY <1>1 DEF Analysing, Types, AnalyzeSteps
<1>3. /\ \A x \in Selected : x.key \in Keys
      /\ \A x, y \in Selected : x.key = y.key => x = y
  <2>1. CASE cmd.merge
    <3>1. Selected = MergedAttempts
      BY <2>1 DEF Selected
    <3>2. \A x \in MergedAttempts : x.key \in Keys
      BY MergedFrom DEF Attempts
    <3> SUFFICES ASSUME NEW x \in MergedAttempts, NEW y \in MergedAttempts, x.key = y.key
                 PROVE  x = y
      BY <3>1, <3>2
    <3>3. PICK r \in Roots : x \in attempts[r] /\ \A q \in Roots : q > r =>
                               \A b \in attempts[q] : b.key # x.key
      BY MergedFrom
    <3>4. PICK q \in Roots : y \in attempts[q] /\ \A u \in Roots : u > q =>
                               \A b \in attempts[u] : b.key # y.key
      BY MergedFrom
    <3>5. q = r
      BY <3>3, <3>4 DEF Roots
    <3> QED BY <3>3, <3>4, <3>5 DEF Attempts
  <2>2. CASE ~cmd.merge
    BY <1>2, <2>2 DEF Selected, Attempts
  <2> QED BY <1>2, <2>1, <2>2
<1> SUFFICES ASSUME NEW a \in Selected,
                    a.state = "succeeded"
                      \/ (cmd.merge /\ Joined(a).resolved /\ LedgersMatch)
             PROVE  Joined(a).judged = {a}
  <2>1. \A x \in cmd.rows : Joined(x).attempt = x
    BY DEF Joined
  <2>2. LedgersMatch' = LedgersMatch
    BY <1>1 DEF LedgersMatch
  <2> QED BY <1>1, <1>2, <2>1, <2>2 DEF VerdictIsOwn
<1> DEFINE p == PairOf[a.key]
<1>4. Joined(a).resolved => p \in DOMAIN by /\ by[p].resolved
  BY DEF Joined
<1>5. p \in DOMAIN by /\ by[p].attempt = a => Joined(a).judged = {a}
  BY DEF Joined
<1>6. CASE VerdictsOf(by, Selected)
  <2>1. p \in DOMAIN by \/ a.state = "succeeded"
    BY <1>4
  <2> QED BY <1>3, <1>5, <1>6, <2>1, OwnVerdict
<1>7. CASE cmd.verdicts = Found /\ ~cmd.merge
  <2>1. Found = results[cmd.root] /\ Selected = attempts[cmd.root]
    BY <1>7 DEF Found, Selected
  <2>2. VerdictsOf(by, Selected)
    BY <1>1, <1>2, <1>7, <2>1 DEF Judgements
  <2> QED BY <2>2, <1>6
<1>8. CASE cmd.verdicts = Found /\ cmd.merge
  <2>1. Found = MergedResults /\ Selected = MergedAttempts
    BY <1>8 DEF Found, Selected
  <2>2. MergedResults.present /\ by = MergedResults.by
    BY <1>1, <1>8, <2>1
  <2>3. PICK r \in Roots : a \in attempts[r] /\ \A q \in Roots : q > r =>
                             \A b \in attempts[q] : b.key # a.key
    BY <2>1, MergedFrom
  <2>4. results[r].present /\ VerdictsOf(results[r].by, attempts[r])
    BY <2>2, <2>3, MergedVerdict DEF Judgements
  <2>5. a.key \in Keys
    BY <2>3 DEF Attempts
  <2>6. p \in DOMAIN by
    <3>1. CASE a.state = "succeeded"
      <4>1. p \in DOMAIN results[r].by
        BY <2>3, <2>4, <3>1 DEF VerdictsOf
      <4> QED BY <2>2, <2>3, <4>1, MergedVerdict
    <3> QED BY <3>1, <1>4
  <2>7. PICK m \in Roots :
          /\ results[m].present /\ p \in DOMAIN results[m].by
          /\ by[p] = results[m].by[p]
          /\ \A q \in Roots : attempts[q] # {} /\ p \in DOMAIN results[q].by => q <= m
    BY <2>2, <2>6, MergedVerdict
  <2> DEFINE w == by[p].attempt
  <2>8. w \in attempts[m] /\ w.state = "succeeded" /\ PairOf[w.key] = p
    BY <2>7 DEF Judgements, VerdictsOf
  <2>9. w.key = a.key
    BY <2>5, <2>8 DEF Attempts, OneSeed
  <2>10. m <= r
    BY <2>3, <2>8, <2>9 DEF Roots
  <2>11. CASE m = r
    <3>1. w = a
      BY <2>3, <2>8, <2>9, <2>11 DEF Attempts
    <3> QED BY <1>5, <2>6, <3>1
  <2>12. CASE m < r
    <3>1. a.state # "succeeded"
      <4>1. ASSUME a.state = "succeeded" PROVE FALSE
        <5>1. p \in DOMAIN results[r].by
          BY <2>3, <2>4, <4>1 DEF VerdictsOf
        <5> QED BY <2>3, <2>7, <2>12, <5>1 DEF Roots
      <4> QED BY <4>1
    <3>2. LedgersMatch /\ by[p].resolved
      BY <1>4, <3>1
    <3>3. Unsettled(a.key, m)
      BY <2>3, <2>5, <2>12 DEF Chained, Retried
    <3>4. rows[m][a.key] = "failed"
      BY <2>7, <3>2, <3>3 DEF Unsettled, Unresolved
    <3>5. rows[m][w.key] \in {"succeeded", "open"}
      BY <2>8, <3>2 DEF LedgersMatch
    <3> QED BY <2>9, <3>4, <3>5
  <2> QED BY <2>10, <2>11, <2>12 DEF Roots
<1> QED
  BY <1>2, <1>6, <1>7, <1>8

(***************************************************************************)
(* As long as no root is run again after it was judged or retried, which   *)
(* run would let happen, and when each pair has one seed: an attempt with  *)
(* a patch is reported with the verdict on that patch, of one root or of a *)
(* merged family, and no merged report calls another attempt resolved      *)
(* while the two ledgers of a root agree (join_attempt_rows,               *)
(* _merge_retry_family_artifacts).                                         *)
(***************************************************************************)
THEOREM VerdictsAreOwn == ASSUME OneSeed PROVE Spec => []VerdictIsOwn
<1>1. Init => VerdictIsOwn
  BY DEF Init, Idle, At, VerdictIsOwn
<1>2. Cared /\ VerdictIsOwn /\ [Next]_vars => VerdictIsOwn'
  <2> SUFFICES ASSUME Cared, VerdictIsOwn, [Next]_vars, ~careless'
               PROVE  VerdictIsOwn'
    BY DEF VerdictIsOwn
  <2>0. FInv /\ ~careless
    BY CarelessStays DEF Cared, IInv
  <2> USE <2>0 DEF FInv, FamilyInv
  <2>1. CASE Join
    BY <2>1, JoinsAreOwn
  <2>2. CASE cmd'.step # "joined"
    BY <2>2 DEF VerdictIsOwn, At
  <2>3. CASE cmd'.step = "joined" /\ ~Join
    <3> USE DEF Types, RunSteps, AnalyzeSteps, At
    <3>1. ASSUME Plan \/ ClearJobs \/ ClearAttempts \/ Resolve PROVE FALSE
      <4>1. CASE Plan
        BY <2>3, <4>1 DEF Plan
      <4>2. CASE ClearJobs \/ ClearAttempts
        BY <2>3, <4>2 DEF ClearJobs, ClearAttempts
      <4>3. CASE Resolve
        BY <2>3, <4>3 DEF Resolve
      <4> QED BY <3>1, <4>1, <4>2, <4>3
    <3>2. ASSUME Evaluate PROVE FALSE
      BY <2>3, <3>2, EvaluateJudges
    <3>3. ASSUME NEW r \in Roots, StartRun(r) PROVE FALSE
      BY <2>3, <3>3 DEF StartRun, BeginRun
    <3>4. ASSUME NEW r \in Roots, NEW merge \in BOOLEAN, StartAnalyze(r, merge) PROVE FALSE
      BY <2>3, <3>4 DEF StartAnalyze
    <3>5. cmd' = cmd
      BY <2>3, <3>1, <3>2, <3>3, <3>4, Moves
    <3>6. UNCHANGED <<rows, attempts>>
      <4>1. ASSUME FailRun PROVE FALSE
        BY <2>3, <3>5, <4>1 DEF FailRun
      <4>2. ASSUME NEW k \in Keys, OpenJob(k) \/ RecordAttempt(k) \/ CloseJob(k) PROVE FALSE
        BY <2>3, <3>5, <4>2 DEF OpenJob, RecordAttempt, CloseJob
      <4> QED BY <3>1, <4>1, <4>2, Frames
    <3> QED BY <3>5, <3>6 DEF VerdictIsOwn, LedgersMatch
  <2> QED BY <2>1, <2>2, <2>3
<1> QED
  BY <1>1, <1>2, CaredHolds, PTL DEF Spec

=============================================================================
