------------------------------- MODULE Analysis -------------------------------
(***************************************************************************)
(* repogauge/cli.py: analyze, from the moment its input files are known    *)
(* (RunFamily finds and merges them), and train-router, over the files     *)
(* they leave: the judgements, the report, the routing table, the model    *)
(* and its scores.  Reports, DiffJudge and Router say what is in them.     *)
(* Between commands the run may be judged again or run again; a command    *)
(* may fail, or be killed, between any two files.                          *)
(***************************************************************************)
EXTENDS DiffJudge, Router

CONSTANTS
  Worlds,         \* the sets of attempts a run may have left
  Datasets,       \* the instances of the data sets that --dataset may name
  Fractions,      \* <<training, validation>> shares, in percent
  MaxAttempts,    \* bound: attempts of a run that is followed over several commands
  MaxChanges,     \* bound: times the run changes under the reports
  MaxFaults       \* bound: commands that fail or are killed

\* What run leaves: only an attempt that failed or timed out, and so has no
\* patch, is followed by another of its job.
World(w) ==
  /\ w \subseteq Attempt /\ w # {} /\ IsFiniteSet(w)
  /\ \A a, b \in w : a.id = b.id => a = b
  /\ \A a, b \in w : JobOf(a) = JobOf(b) /\ a.id < b.id => a.patch = NoPatch

ASSUME AnalysisAssumption ==
  /\ \A w \in Worlds : World(w)
  /\ Fractions \subseteq Nat \X Nat
  /\ \A f \in Fractions : f[1] > 0 /\ f[2] >= 0 /\ f[1] + f[2] < 100
  /\ {MaxAttempts, MaxChanges, MaxFaults} \subseteq Nat

VARIABLES
  attempts,   \* attempts.jsonl
  results,    \* instance_results.jsonl, by pair
  cmd,        \* the command under way
  page,       \* summary.json, report.csv, report.parquet, report.html
  table,      \* router_train.parquet
  model,      \* router_model.json
  scores,     \* router_report.json
  succeeded,  \* commands whose manifest.json says "succeeded"
  changes, faults

files == <<page, table, model, scores>>
vars == <<attempts, results, cmd, files, succeeded, changes, faults, judgeVars>>

Idle   == [step |-> "idle"]
NoFile == [present |-> FALSE]
At(s)  == cmd.step = s

\* The harness judges each pair that has a patch.
Verdicts(as) == [{PairOf(a) : a \in {x \in as : x.patch # NoPatch}} -> BOOLEAN]

Init ==
  /\ attempts \in Worlds
  /\ results \in Verdicts(attempts)
  /\ cmd = Idle
  /\ page = NoFile /\ table = NoFile /\ model = NoFile /\ scores = NoFile
  /\ succeeded = {}
  /\ changes = 0 /\ faults = 0
  /\ JudgeInit

\* The worlds in which what happens over several commands is followed.
Small == Cardinality(attempts) <= MaxAttempts

\* Bound: a run is judged, or has a router trained on it.  The routing table
\* holds nothing of the judgements, nor they of it.
MayJudge == Small /\ ~model.present
MayTrain == (Small \/ ~model.present) /\ judgements = {} /\ bought = <<>>

-----------------------------------------------------------------------------
(* Between commands                                                        *)

Change ==
  /\ At("idle") /\ Small /\ changes < MaxChanges
  /\ changes' = changes + 1
  /\ UNCHANGED <<cmd, files, succeeded, faults, judgeVars>>

\* evaluate, over the same attempts
JudgeAgain ==
  /\ Change
  /\ results' \in Verdicts(attempts) \ {results}
  /\ UNCHANGED attempts

\* run, into the same root: the same attempt has another patch
RunAgain(a) ==
  /\ Change
  /\ a.patch # NoPatch
  /\ attempts' = (attempts \ {a}) \cup {[a EXCEPT !.patch = @ + 1]}
  /\ UNCHANGED results

-----------------------------------------------------------------------------
(* analyze [--judge-diffs]                                                 *)

StartAnalyze ==
  /\ At("idle") /\ (Small \/ ~page.present)
  /\ succeeded' = succeeded \ {"analyze"}
  /\ UNCHANGED <<attempts, results, files, changes, faults>>

\* The judgements that happen to be on file are shown as they are.
AnalyzeOnly ==
  /\ StartAnalyze
  /\ cmd' = [step |-> "reporting", rows |-> Joined(attempts, results),
             judged |-> judgements, judging |-> FALSE]
  /\ UNCHANGED judgeVars

AnalyzeAndJudge(dataset) ==
  /\ StartAnalyze /\ MayJudge
  /\ cmd' = [step |-> "judging", rows |-> Joined(attempts, results)]
  /\ OpenSession(Joined(attempts, results), dataset)

JudgeOne ==
  /\ At("judging")
  /\ \E r \in session.pending :
       TakeFromFile(r) \/ \E reply \in Replies : Ask(r, reply) \/ AskInVain(r, reply)
  /\ UNCHANGED <<attempts, results, cmd, files, succeeded, changes, faults>>

EndJudging ==
  /\ At("judging")
  /\ cmd' = [step |-> "reporting", rows |-> cmd.rows, judged |-> session.judged, judging |-> TRUE]
  /\ WriteJudgements
  /\ UNCHANGED <<attempts, results, files, succeeded, changes, faults>>

WriteReport ==
  /\ At("reporting")
  /\ page' = [present |-> TRUE, rows |-> cmd.rows, judged |-> cmd.judged, judging |-> cmd.judging]
  /\ cmd' = [cmd EXCEPT !.step = "tabling"]
  /\ UNCHANGED <<attempts, results, table, model, scores, succeeded, changes, faults, judgeVars>>

WriteTable ==
  /\ At("tabling")
  /\ table' = [present |-> TRUE, rows |-> RouterTable(cmd.rows)]
  /\ cmd' = [step |-> "analyzed"]
  /\ UNCHANGED <<attempts, results, page, model, scores, succeeded, changes, faults, judgeVars>>

FinishAnalyze ==
  /\ At("analyzed")
  /\ cmd' = Idle
  /\ succeeded' = succeeded \cup {"analyze"}
  /\ UNCHANGED <<attempts, results, files, changes, faults, judgeVars>>

-----------------------------------------------------------------------------
(* train-router                                                            *)

StartTrain(f) ==
  /\ At("idle") /\ table.present /\ MayTrain
  /\ \E split \in Splits(table.rows, f[1], f[2]) :
       cmd' = [step |-> "fitting", split |-> split, table |-> table.rows]
  /\ succeeded' = succeeded \ {"train-router"}
  /\ UNCHANGED <<attempts, results, files, changes, faults, judgeVars>>

WriteModel ==
  /\ At("fitting")
  /\ \E tree \in Trees(FittedOn(cmd.split), cmd.table) :
       model' = [present |-> TRUE, fitted |-> FittedOn(cmd.split), tree |-> tree, table |-> cmd.table]
  /\ cmd' = [cmd EXCEPT !.step = "scoring"]
  /\ UNCHANGED <<attempts, results, page, table, scores, succeeded, changes, faults, judgeVars>>

WriteScores ==
  /\ At("scoring")
  /\ scores' = [present |-> TRUE, report |-> RouterReport(EvaluatedOn(cmd.split), model.tree),
                tree |-> model.tree]
  /\ cmd' = [step |-> "trained"]
  /\ UNCHANGED <<attempts, results, page, table, model, succeeded, changes, faults, judgeVars>>

FinishTrain ==
  /\ At("trained")
  /\ cmd' = Idle
  /\ succeeded' = succeeded \cup {"train-router"}
  /\ UNCHANGED <<attempts, results, files, changes, faults, judgeVars>>

-----------------------------------------------------------------------------
\* --judge-diffs with an instance the data set does not have: analyze fails.
FailJudging ==
  /\ At("judging") /\ faults < MaxFaults
  /\ \E r \in session.pending : MissingFromDataset(r)
  /\ cmd' = Idle
  /\ faults' = faults + 1
  /\ UNCHANGED <<attempts, results, files, succeeded, changes>>

\* The process is killed, or what it does next raises.
Abandon ==
  /\ ~At("idle") /\ Small /\ faults < MaxFaults
  /\ cmd' = Idle
  /\ session' = NoSession
  /\ faults' = faults + 1
  /\ UNCHANGED <<attempts, results, files, succeeded, changes, judgements, bought>>

Next ==
  \/ JudgeAgain
  \/ \E a \in attempts : RunAgain(a)
  \/ AnalyzeOnly
  \/ \E dataset \in Datasets : AnalyzeAndJudge(dataset)
  \/ JudgeOne \/ EndJudging \/ WriteReport \/ WriteTable \/ FinishAnalyze
  \/ \E f \in Fractions : StartTrain(f)
  \/ WriteModel \/ WriteScores \/ FinishTrain
  \/ FailJudging \/ Abandon

Spec == Init /\ [][Next]_vars

-----------------------------------------------------------------------------
(* Properties                                                              *)

(***************************************************************************)
(* A report that asked for judgements has exactly one of each patch, on    *)
(* the patch and the verdict of this report, however the run was changed   *)
(* since the judgements on file were bought; and the judgement it shows    *)
(* beside the patch of a pair with a single job is of that patch.  The     *)
(* jobs it lists as resolved yet worse than gold, and as unresolved yet    *)
(* promising, are those that it counts as worse and as better.             *)
(***************************************************************************)
JudgementsAreCurrent ==
  At("tabling") /\ page.judging =>
    /\ \A r \in Candidates(page.rows) :
         \E j \in page.judged :
           /\ {o \in page.judged : o.attempt = r.id} = {j}
           /\ j.question.patch = r.patch /\ j.resolved = r.resolved
    /\ \A b \in Browser(page.rows, page.judged) :
         LET own == {r \in page.rows : PairOf(r) = PairOf(b.row)}
         IN  (\A r \in own : r.seed = b.row.seed) =>
               {j.attempt : j \in b.judge} = {r.id : r \in Candidates({b.row})}
    /\ LET report == JudgeReport(page.judged)
       IN  /\ \A j \in report.resolvedButWorse : \E r \in page.rows : r.id = j.attempt /\ r.resolved
           /\ report.scored + report.errors = report.jobs
           /\ report.resolvedButWorse = {j \in report.worse : j.resolved}
           /\ report.unresolvedPromising = {j \in report.better : ~j.resolved}

(***************************************************************************)
(* The answer to a question is paid for again only where one was lost: by  *)
(* a command that did not get to write it, or by a change of the run.      *)
(***************************************************************************)
PaidOnce == \A q \in DOMAIN bought : bought[q] <= 1 + faults + changes

(***************************************************************************)
(* The parts of a report do not contradict one another.  Every unresolved  *)
(* attempt has one reason in the breakdown.  A larger budget never buys a  *)
(* lower resolution rate, and the largest buys the best solver.  A solver  *)
(* that is not on the frontier is dominated by one that is; the cheapest   *)
(* one is on it, and the best one if all tried as many instances.  The     *)
(* cost floor lies below what any solver spent, no difference is cut off   *)
(* at zero that should not be, and the oracle of the routing table cannot  *)
(* undercut the floor while every cost is known.                           *)
(***************************************************************************)
ReportIsCoherent ==
  At("tabling") =>
    LET rows     == page.rows
        sums     == Summaries(rows)
        breakdown == FailureBreakdown(rows)
        budgets  == BudgetFrontier(sums)
        frontier == ParetoFrontier(sums)
        costs    == CostOpportunity(rows)
        solved   == {t \in RouterTable(rows) : t.oracle.resolved}
    IN  /\ Total(breakdown) = Cardinality(Unresolved(rows))
        /\ \A b, c \in budgets :
             Less(b.budget, c.budget) =>
               ~Less(<<c.best.won, c.best.tried>>, <<b.best.won, b.best.tried>>)
        /\ budgets # {} => \E b \in budgets : b.best = BestSolver(sums)
        /\ \A s \in sums \ frontier : \E o \in frontier : Dominates(o, s)
        /\ CheapestSolver(sums) \in frontier
        /\ (\A s, o \in sums : s.tried = o.tried) => BestSolver(sums) \in frontier
        /\ \A s \in costs.savings :
             /\ s.avoidable = s.spend - s.floor
             /\ s.floor <= costs.floor
             /\ s.solver = costs.leader /\ s.floor = costs.floor => costs.gap = s.avoidable
        /\ (\A r \in rows : r.cost > 0) => costs.floor <= Total([t \in solved |-> t.oracle.cost])

(***************************************************************************)
(* No routing policy beats the oracle it is compared with: what one        *)
(* resolves the oracle resolves, for no more.  The label says which of the *)
(* two solvers is needed.  Escalation on failure resolves what either      *)
(* solver does, and escalation on a signal is a cheaper part of it.  A     *)
(* row's outcomes are those of the solvers it names where they were run.   *)
(***************************************************************************)
OracleIsBest ==
  At("analyzed") =>
    \A t \in table.rows :
      LET p == t.policies
      IN  /\ \A n \in DOMAIN p :
               p[n].resolved => t.oracle.resolved /\ t.oracle.cost <= p[n].cost
          /\ t.label = "cheap_is_enough" <=> p.always_cheap.resolved
          /\ t.label = "likely_unsolved" <=> ~p.on_failure.resolved
          /\ p.on_failure.resolved <=> p.always_cheap.resolved \/ p.always_expensive.resolved
          /\ p.on_signal.escalated => p.on_failure.escalated
          /\ p.on_signal.resolved => p.on_failure.resolved
          /\ p.on_signal.cost <= p.on_failure.cost
          /\ t.cheapSolver \in t.ran => t.cheap.solver = t.cheapSolver
          /\ t.expensiveSolver \in t.ran => t.expensive.solver = t.expensiveSolver

(***************************************************************************)
(* A router is scored on rows it was not fitted on as soon as a label has  *)
(* two rows, whatever the shares; it resolves no more than the oracle; and *)
(* scores that train-router left as its success are those of the model     *)
(* that lies beside them.  (Success is what its manifest says of its latest *)
(* call; without --out that manifest is one for all runs, cli.py:1026.)    *)
(***************************************************************************)
ScoresAreHonest ==
  /\ At("trained") =>
       LET report == scores.report
           of(l)  == {t \in model.table : t.label = l}
       IN  /\ (\E l \in Labels : Cardinality(of(l)) > 1) =>
                report.rows # {} /\ report.rows \cap model.fitted = {}
           /\ report.learned.resolved <= report.solvable
           /\ report.correct = Cardinality(report.rows) =>
                report.learned.resolved = report.baselines.on_failure.resolved
  /\ "train-router" \in succeeded => scores.present /\ model.present /\ scores.tree = model.tree
=============================================================================
