------------------------------ MODULE DiffJudge ------------------------------
(***************************************************************************)
(* repogauge/runner/diff_judge.py: analyze --judge-diffs has a model       *)
(* compare each candidate patch with the gold one.  What a model has said  *)
(* is kept in judge/llm_judge.jsonl under a hash of all that it was asked, *)
(* and taken from there when the same is to be asked again.                *)
(*                                                                         *)
(* A reply is the dimensions it rates the patch on; its wording, and what  *)
(* the providers' protocols differ in, are left out.                       *)
(***************************************************************************)
EXTENDS Reports

VARIABLES
  judgements,  \* the rows of judge/llm_judge.jsonl
  session,     \* the call of run_diff_judge under way, or NoSession
  bought       \* history: how often each question got a usable answer

judgeVars == <<judgements, session, bought>>

NoSession == [open |-> FALSE]

JudgeInit ==
  /\ judgements = {}
  /\ session = NoSession
  /\ bought = <<>>

\* Mutant: the question is known by the attempt and its patch only.
QuestionOfPatch(r) == [solver |-> r.solver, instance |-> r.instance, patch |-> r.patch]
\* All that _cache_key hashes and that differs between two questions: the same
\* provider, model and data set are used throughout.
Question(r) ==
  [solver |-> r.solver, instance |-> r.instance, patch |-> r.patch,
   state |-> r.state, resolved |-> r.resolved, outcome |-> r.outcome]

Candidates(rows) == {r \in rows : r.patch # NoPatch}

-----------------------------------------------------------------------------
(* What the model replies                                                  *)

\* The weight of each dimension, in percent.
Weight == [task_fit |-> 30, correctness_safety |-> 25, maintainability |-> 20,
           test_quality |-> 15, change_focus |-> 10]
Dimensions == DOMAIN Weight

Rated(S, n) == [d \in Dimensions |-> IF d \in S THEN n ELSE 0]

\* Bound: the replies told apart, each as the dimensions it rates.  None, for
\* want of a key, an answer in time or a JSON object in it; too few; a rating
\* that does not exist; and three usable ones, two of them next to a boundary.
Replies ==
  {<<>>, [task_fit |-> 1], Rated(Dimensions, 3),
   Rated({"correctness_safety", "change_focus"}, -1), Rated({"task_fit"}, 1), Rated(Dimensions, 2)}

\* Every dimension is rated, with a rating there is.
Usable(reply) == reply \in [Dimensions -> -2 .. 2]

\* In hundredths.
OverallDelta(reply) == Total([d \in Dimensions |-> Weight[d] * reply[d]])

LabelOf(delta) ==
  CASE delta <= -125 -> "much_worse"
    [] delta > -125 /\ delta <= -35 -> "worse"
    [] delta > -35 /\ delta < 35 -> "same"
    [] delta >= 35 /\ delta < 125 -> "better"
    [] delta >= 125 -> "much_better"

-----------------------------------------------------------------------------
(* run_diff_judge                                                          *)

Judgement(r, status, delta) ==
  [attempt |-> r.id, job |-> JobOf(r), index |-> r.index,
   solver |-> r.solver, instance |-> r.instance, resolved |-> r.resolved,
   question |-> Question(r), status |-> status, delta |-> delta, label |-> LabelOf(delta)]

\* Only what the model said is taken from the file; errors are asked again.
OnFile(r) ==
  {j \in judgements : j.attempt = r.id /\ j.question = Question(r) /\ j.status = "scored"}

OpenSession(rows, dataset) ==
  /\ ~session.open
  /\ session' = [open |-> TRUE, pending |-> Candidates(rows), judged |-> {},
                absent |-> {r.instance : r \in Candidates(rows)} \ dataset]
  /\ UNCHANGED <<judgements, bought>>

\* Candidates are judged in the order of attempts.jsonl.
IsNext(r) ==
  /\ session.open
  /\ r \in session.pending /\ \A o \in session.pending : r.id <= o.id

Judged(r, j) ==
  session' = [session EXCEPT !.pending = @ \ {r}, !.judged = @ \cup {j}]

\* Mutant: a judgement found on file is used and not written again.
TakeFromFileOnce(r) ==
  /\ IsNext(r) /\ r.instance \notin session.absent
  /\ OnFile(r) # {}
  /\ session' = [session EXCEPT !.pending = @ \ {r}]
  /\ UNCHANGED <<judgements, bought>>
TakeFromFile(r) ==
  /\ IsNext(r) /\ r.instance \notin session.absent
  /\ OnFile(r) # {}
  /\ \E j \in OnFile(r) : Judged(r, j)
  /\ UNCHANGED <<judgements, bought>>

Ask(r, reply) ==
  /\ IsNext(r) /\ r.instance \notin session.absent
  /\ OnFile(r) = {}
  /\ Usable(reply)
  /\ LET q == <<r.id, Question(r)>>
     IN  bought' = [k \in DOMAIN bought \cup {q} |->
                      (IF k \in DOMAIN bought THEN bought[k] ELSE 0) + (IF k = q THEN 1 ELSE 0)]
  /\ Judged(r, Judgement(r, "scored", OverallDelta(reply)))
  /\ UNCHANGED judgements

\* A row that says so.
AskInVain(r, reply) ==
  /\ IsNext(r) /\ r.instance \notin session.absent
  /\ OnFile(r) = {}
  /\ ~Usable(reply)
  /\ Judged(r, Judgement(r, "error", 0))
  /\ UNCHANGED <<judgements, bought>>

\* The file is replaced by the rows of this call, once, at its end.
WriteJudgements ==
  /\ session.open /\ session.pending = {}
  /\ judgements' = session.judged
  /\ session' = NoSession
  /\ UNCHANGED bought

\* An instance that the data set does not have ends the call; nothing that
\* was bought in it is written.
MissingFromDataset(r) ==
  /\ IsNext(r) /\ r.instance \in session.absent
  /\ session' = NoSession
  /\ UNCHANGED <<judgements, bought>>

-----------------------------------------------------------------------------
(* build_diff_judge_report                                                 *)

LatestByJob(judged) ==
  {j \in judged : \A o \in judged : o.job = j.job => o.index <= j.index}

JudgeReport(judged) ==
  LET latest == LatestByJob(judged)
      scored == {j \in latest : j.status = "scored"}
  IN  [attempts  |-> Cardinality(judged),
       jobs      |-> Cardinality(latest),
       scored    |-> Cardinality(scored),
       errors    |-> Cardinality(latest \ scored),
       better    |-> {j \in scored : j.label \in {"better", "much_better"}},
       worse     |-> {j \in scored : j.label \in {"worse", "much_worse"}},
       resolvedButWorse    |-> {j \in scored : j.resolved /\ j.delta <= -35},
       unresolvedPromising |-> {j \in scored : ~j.resolved /\ j.delta >= 35}]
=============================================================================
