---------------------------- MODULE MCJudgeBatches ----------------------------
(* Two solvers, instances of two versions, one (i4) not in the dataset; two *)
(* batches at once, or one at a time; the last file repeats a prediction.   *)
EXTENDS JudgeBatches
P(s, i) == [solver |-> s, inst |-> i]
MCVersionOf == [i1 |-> "v1", i2 |-> "v1", i3 |-> "v2", i4 |-> "v1"]
MCDataset   == {"i1", "i2", "i3"}
Evaluation(p, f) == [parallel |-> p, file |-> f]
MCTwo   == Evaluation(2, <<P("s", "i1"), P("t", "i1")>>)
MCClaim == {MCTwo}
MCSerial ==
  {<<P("s", "i1"), P("t", "i1"), P("s", "i2"), P("s", "i3")>>,
   <<P("s", "i2"), P("s", "i4"), P("s", "i1")>>,
   <<P("s", "i1"), P("s", "i2"), P("s", "i1"), P("t", "i1")>>}
MCEvaluations == {MCTwo} \cup {Evaluation(1, f) : f \in MCSerial}
===============================================================================
