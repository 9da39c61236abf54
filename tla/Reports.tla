------------------------------- MODULE Reports -------------------------------
(***************************************************************************)
(* repogauge/runner/analyze.py: what a report computes from the attempts   *)
(* of a run and the verdicts on them.                                      *)
(*                                                                         *)
(* Names are numbers, whose order is theirs.  A quotient is a pair         *)
(* <<n, d>>, with <<1, 0>> for the infinity that stands for a missing      *)
(* metric.  Tokens, tool calls, percentiles and the page's layout are left *)
(* out.                                                                    *)
(***************************************************************************)
EXTENDS Integers, FiniteSets, FiniteSetsExt, Functions

Unknown == -1
NoPatch == 0

\* A row of attempts.jsonl: id is its place there, the order in which attempts
\* ended, index which attempt of its job it is; exit and error are the causes
\* that its exit reason and its telemetry name, "" for none.
Attempt ==
  [id : Nat, solver : Nat, instance : Nat, seed : Nat, index : Nat,
   state : {"succeeded", "failed", "timed_out", "invalid_patch", "budget_exceeded", "skipped"},
   patch : Nat, cost : Nat \cup {Unknown}, ms : Nat, exit : STRING, error : STRING]

Total(f) == SumFunction(f)
Positive(n) == IF n > 0 THEN n ELSE 0

Less(a, b) == a[1] * b[2] < b[1] * a[2]
Equal(a, b) == a[1] * b[2] = b[1] * a[2]
Before(k, l) ==
  \E i \in DOMAIN k : Less(k[i], l[i]) /\ \A j \in 1 .. i - 1 : Equal(k[j], l[j])
\* key[x] is what x is ordered by.
FirstBy(key) == CHOOSE x \in DOMAIN key : \A y \in DOMAIN key \ {x} : Before(key[x], key[y])

-----------------------------------------------------------------------------
(* Attempts and verdicts                                                   *)

PairOf(a) == <<a.solver, a.instance>>
JobOf(a)  == <<a.solver, a.instance, a.seed>>

\* results[p]: whether the row of instance_results.jsonl on pair p resolves
\* it.  Every attempt of a pair is given its one verdict.
Joined(attempts, results) ==
  {LET judged == PairOf(a) \in DOMAIN results
       won    == judged /\ results[PairOf(a)]
   IN  [id |-> a.id, solver |-> a.solver, instance |-> a.instance, seed |-> a.seed,
        index |-> a.index, state |-> a.state, patch |-> a.patch, cost |-> a.cost, ms |-> a.ms,
        exit |-> a.exit, error |-> a.error,
        resolved |-> won,
        outcome  |-> IF won THEN "resolved" ELSE IF judged THEN "failed" ELSE "unknown",
        reason   |-> IF judged /\ ~won THEN "tests failed" ELSE ""] : a \in attempts}

Unresolved(rows) == {r \in rows : ~r.resolved}

FailureReason(r) ==
  IF \/ r.error = "model_not_found" /\ r.cost = Unknown
     \/ r.error # "" /\ r.exit = "invalid_patch"       THEN r.error
  ELSE IF r.reason # ""                                THEN r.reason
  ELSE IF r.exit # ""                                  THEN r.exit
  ELSE IF r.error # ""                                 THEN r.error
  ELSE IF r.state \in {"failed", "invalid_patch", "timed_out"} THEN r.state
  ELSE r.outcome

FailureBreakdown(rows) ==
  LET lost == Unresolved(rows)
  IN  [f \in {FailureReason(r) : r \in lost} |-> Cardinality({r \in lost : FailureReason(r) = f})]

-----------------------------------------------------------------------------
(* One summary per solver, and their ranking                               *)

Summary(rows, s) ==
  LET own        == {r \in rows : r.solver = s}
      won        == {r.instance : r \in own \ Unresolved(own)}
      priced     == {r \in own : r.cost > 0}
      Costs(i)   == {r.cost : r \in {x \in priced : x.instance = i}}
      Cheapest(i) == IF Costs(i) = {} THEN 0 ELSE Min(Costs(i))
  IN  [solver  |-> s,
       tried   |-> Cardinality({r.instance : r \in own}),
       won     |-> Cardinality(won),
       spent   |-> Total([r \in priced |-> r.cost]),
       wonCost |-> Total([i \in won |-> Cheapest(i)]),
       wonMs   |-> Total([r \in own \ Unresolved(own) |-> r.ms])]

Summaries(rows) == {Summary(rows, s) : s \in {r.solver : r \in rows}}

PerWin(n, s) == IF s.won > 0 THEN <<n, s.won>> ELSE <<1, 0>>
CostPerWin(s)    == PerWin(s.wonCost, s)
LatencyPerWin(s) == PerWin(s.wonMs, s)

RankingKey(s) ==
  <<<<-s.won, s.tried>>, <<-s.won, 1>>, CostPerWin(s), LatencyPerWin(s), <<s.spent, 1>>, <<s.solver, 1>>>>
CostKey(s) ==
  <<CostPerWin(s), <<-s.won, s.tried>>, LatencyPerWin(s), <<s.solver, 1>>>>

BestSolver(sums)     == FirstBy([s \in sums |-> RankingKey(s)])
CheapestSolver(sums) == FirstBy([s \in sums |-> CostKey(s)])

Dominates(a, b) ==
  LET As == <<<<-a.won, a.tried>>, CostPerWin(a), LatencyPerWin(a)>>
      Bs == <<<<-b.won, b.tried>>, CostPerWin(b), LatencyPerWin(b)>>
  IN  /\ \A i \in 1 .. 3 : ~Less(Bs[i], As[i])
      /\ \E i \in 1 .. 3 : Less(As[i], Bs[i])

ParetoFrontier(sums) == {s \in sums : ~\E o \in sums \ {s} : Dominates(o, s)}

\* Mutant: only the solvers at exactly this budget compete.
BudgetFrontierBucket(sums) ==
  LET eligible == {s \in sums : s.won > 0}
  IN  {[budget |-> CostPerWin(s),
        best   |-> BestSolver({o \in eligible : Equal(CostPerWin(o), CostPerWin(s))})] : s \in eligible}
\* For each cost that some solver has, the best that costs no more.
BudgetFrontier(sums) ==
  LET eligible == {s \in sums : s.won > 0}
  IN  {[budget |-> CostPerWin(s),
        best   |-> BestSolver({o \in eligible : ~Less(CostPerWin(s), CostPerWin(o))})] : s \in eligible}

-----------------------------------------------------------------------------
(* What the resolutions could have cost                                    *)

CostOpportunity(rows) ==
  LET offers      == {r \in rows \ Unresolved(rows) : r.cost > 0}
      At(i)       == {r \in offers : r.instance = i}
      Of(s, i)    == {r \in At(i) : r.solver = s}
      Least(S)    == Min({r.cost : r \in S})
      Won(s)      == {r.instance : r \in {x \in offers : x.solver = s}}
      Spend(s)    == Total([i \in Won(s) |-> Least(Of(s, i))])
      Share(s)    == Total([i \in Won(s) |-> Least(At(i))])
      solvers     == {m \in Summaries(rows) : Won(m.solver) # {}}
      floor       == Total([i \in {r.instance : r \in offers} |-> Least(At(i))])
  IN  [floor     |-> floor,
       savings   |-> {[solver |-> m.solver, won |-> Won(m.solver), spend |-> Spend(m.solver),
                       floor |-> Share(m.solver), avoidable |-> Positive(Spend(m.solver) - Share(m.solver))]
                        : m \in solvers},
       instances |-> {i \in {r.instance : r \in offers} :
                        \E a, b \in At(i) : a.cost < b.cost},
       leader    |-> IF solvers = {} THEN 0 ELSE BestSolver(solvers).solver,
       gap       |-> IF solvers = {} THEN 0 ELSE Positive(Spend(BestSolver(solvers).solver) - floor)]

-----------------------------------------------------------------------------
\* The attempt that the browser shows of each pair: the one that ended last.
LatestOf(rows, p) == CHOOSE r \in rows : PairOf(r) = p /\ \A o \in rows : PairOf(o) = p => o.id <= r.id

\* With it, what the diff judge said last of the pair.
Browser(rows, judged) ==
  {LET about == {j \in judged : <<j.solver, j.instance>> = p}
   IN  [row |-> LatestOf(rows, p),
        judge |-> {j \in about : \A o \in about : o.attempt <= j.attempt}] : p \in {PairOf(r) : r \in rows}}
=============================================================================
