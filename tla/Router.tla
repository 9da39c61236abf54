-------------------------------- MODULE Router --------------------------------
(***************************************************************************)
(* repogauge/runner/router.py: the routing table that analyze writes, one  *)
(* row per instance, and the split, the training and the comparison that   *)
(* train-router makes of it.  The features of a row and the search for a   *)
(* tree's thresholds are abstract: a tree predicts for every row some      *)
(* label that occurs among the rows it was fitted on.                      *)
(***************************************************************************)
EXTENDS Reports

Labels == {"cheap_is_enough", "needs_expensive", "likely_unsolved"}

Paid(r) == Positive(r.cost)   \* an unknown cost counts as nothing

\* The attempts of a pair as one row: all they cost, and how the last ended.
Aggregate(rows, p) ==
  LET own  == {r \in rows : PairOf(r) = p}
      last == FirstBy([r \in own |-> <<<<-r.index, 1>>, <<-r.id, 1>>>>])
  IN  [solver |-> p[1], instance |-> p[2],
       cost |-> Total([r \in own |-> Paid(r)]), ms |-> Total([r \in own |-> r.ms]),
       resolved |-> last.resolved, state |-> last.state, reason |-> last.reason, exit |-> last.exit]

Aggregates(rows) == {Aggregate(rows, p) : p \in {PairOf(r) : r \in rows}}

\* By average cost, then by average duration and name.
SolverKey(aggs, s) ==
  LET own == {g \in aggs : g.solver = s}
      n   == Cardinality(own)
  IN  <<<<Total([g \in own |-> g.cost]), n>>, <<Total([g \in own |-> g.ms]), n>>, <<s, 1>>>>
Cheap(aggs) ==
  LET ids == {g.solver : g \in aggs}
  IN  FirstBy([s \in ids |-> SolverKey(aggs, s)])
Expensive(aggs) ==
  LET ids == {g.solver : g \in aggs}
  IN  CHOOSE s \in ids : \A o \in ids \ {s} : Before(SolverKey(aggs, o), SolverKey(aggs, s))

\* The row of solver s, or that of another where s was not run.
Pick(own, s, preferLast) ==
  LET ids == {g.solver : g \in own}
  IN  CHOOSE g \in own :
        g.solver = (IF s \in ids THEN s ELSE IF preferLast THEN Max(ids) ELSE Min(ids))

Signals == {"invalid_patch", "timed_out", "timeout", "no_progress", "budget_exceeded"}
SignalTriggered(g) == ~g.resolved /\ {g.state, g.reason, g.exit} \cap Signals # {}

\* Mutant: the cheapest of all rows, resolved or not.
OracleCheapest(own) ==
  IF \E g \in own : g.resolved
  THEN FirstBy([g \in own |-> <<<<g.cost, 1>>, <<g.ms, 1>>, <<g.solver, 1>>>>])
  ELSE [resolved |-> FALSE]
Oracle(own) ==
  IF \E g \in own : g.resolved
  THEN FirstBy([g \in {x \in own : x.resolved} |-> <<<<g.cost, 1>>, <<g.ms, 1>>, <<g.solver, 1>>>>])
  ELSE [resolved |-> FALSE]

RouteLabel(cheap, expensive) ==
  IF cheap.resolved THEN "cheap_is_enough"
  ELSE IF expensive.resolved THEN "needs_expensive" ELSE "likely_unsolved"

Outcome(g) == [resolved |-> g.resolved, cost |-> g.cost, ms |-> g.ms, escalated |-> FALSE]
Escalate(cheap, expensive, when) ==
  [resolved  |-> cheap.resolved \/ (when /\ expensive.resolved),
   cost      |-> cheap.cost + (IF when THEN expensive.cost ELSE 0),
   ms        |-> cheap.ms + (IF when THEN expensive.ms ELSE 0),
   escalated |-> when]

Policies(cheap, expensive) ==
  [always_cheap     |-> Outcome(cheap),
   always_expensive |-> Outcome(expensive),
   on_failure       |-> Escalate(cheap, expensive, ~cheap.resolved),
   on_signal        |-> Escalate(cheap, expensive, SignalTriggered(cheap))]

TableRow(aggs, i) ==
  LET own       == {g \in aggs : g.instance = i}
      cheap     == Pick(own, Cheap(aggs), FALSE)
      expensive == Pick(own, Expensive(aggs), TRUE)
  IN  [instance |-> i, ran |-> {g.solver : g \in own},
       cheapSolver |-> Cheap(aggs), expensiveSolver |-> Expensive(aggs),
       cheap |-> cheap, expensive |-> expensive, oracle |-> Oracle(own),
       label |-> RouteLabel(cheap, expensive), policies |-> Policies(cheap, expensive)]

\* router_train.parquet
RouterTable(rows) ==
  LET aggs == Aggregates(rows)
  IN  {TableRow(aggs, i) : i \in {g.instance : g \in aggs}}

-----------------------------------------------------------------------------
(* train-router                                                            *)

\* round(count * percent / 100) of Python: a half goes to the even neighbour.
RoundedShare(count, percent) ==
  LET whole == (count * percent) \div 100
      rest  == (count * percent) % 100
  IN  IF rest > 50 \/ (rest = 50 /\ whole % 2 = 1) THEN whole + 1 ELSE whole

Clamp(n, low, high) == Max({low, Min({n, high})})

\* Mutant: the training share may take every row.
SplitCountsGreedy(count, train, validation) ==
  LET t == Clamp(RoundedShare(count, train), 1, count)
      v == Min({RoundedShare(count, validation), count - t})
  IN  [train |-> t, validation |-> v]
\* How many of a label's rows are for training and for validation; the rest
\* are held out for the test.  (Some are always left: what the code does where
\* none is never comes to pass.)
SplitCounts(count, train, validation) ==
  IF count = 1 THEN [train |-> 1, validation |-> 0]
  ELSE LET t    == Clamp(RoundedShare(count, train), 1, count - 1)
           left == count - t
           v    == RoundedShare(count, validation)
           some == IF validation > 0 /\ left > 1 /\ v = 0 THEN 1 ELSE v
       IN  [train |-> t, validation |-> Min({some, left - 1})]

\* A label's rows are ordered by a hash of the seed and of the row, so any of
\* them may come first.
Splits(table, train, validation) ==
  LET Of(l)     == {r.instance : r \in {x \in table : x.label = l}}
      Counts(l) == SplitCounts(Cardinality(Of(l)), train, validation)
      used      == {l \in Labels : Of(l) # {}}
      Parts(l)  == {p \in kSubset(Counts(l).train, Of(l)) \X kSubset(Counts(l).validation, Of(l)) :
                      p[1] \cap p[2] = {}}
      All       == {f \in [used -> UNION {Parts(l) : l \in used}] : \A l \in used : f[l] \in Parts(l)}
      Rows(f, n) == {r \in table : \E l \in used : r.instance \in f[l][n]}
  IN  {[train |-> Rows(f, 1), validation |-> Rows(f, 2),
        test |-> table \ (Rows(f, 1) \cup Rows(f, 2))] : f \in All}

\* The depth is chosen on the validation rows, and the tree then fitted on
\* them too.
FittedOn(split) == split.train \cup split.validation

\* _train_router_tree and _predict_router_label, whatever the features are.
Trees(fit, table) == [{r.instance : r \in table} -> {r.label : r \in fit}]

EvaluatedOn(split) ==
  IF split.test # {} THEN split.test
  ELSE IF split.validation # {} THEN split.validation ELSE split.train

\* The learned router sends a row to the expensive solver or to the cheap one.
LearnedOutcome(r, tree) ==
  [(IF tree[r.instance] = "needs_expensive" THEN r.policies.always_expensive ELSE r.policies.always_cheap)
     EXCEPT !.escalated = tree[r.instance] = "needs_expensive"]

Score(rows, Of(_)) ==
  [resolved  |-> Cardinality({r \in rows : Of(r).resolved}),
   cost      |-> Total([r \in rows |-> Of(r).cost]),
   escalated |-> Cardinality({r \in rows : Of(r).escalated})]

RouterReport(rows, tree) ==
  [baselines |-> [p \in {"always_cheap", "always_expensive", "on_failure", "on_signal"} |->
                    Score(rows, LAMBDA r : r.policies[p])],
   learned   |-> Score(rows, LAMBDA r : LearnedOutcome(r, tree)),
   correct   |-> Cardinality({r \in rows : tree[r.instance] = r.label}),
   solvable  |-> Cardinality({r \in rows : r.oracle.resolved}),
   rows      |-> rows]
=============================================================================
