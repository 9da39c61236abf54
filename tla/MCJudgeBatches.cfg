SPECIFICATION FairSpec
CONSTANTS
  Evaluations <- MCEvaluations
  Dataset <- MCDataset
  VersionOf <- MCVersionOf
  BatchSize = 2
  Verdicts = {"resolved", "not_resolved"}
  MaxFaults = 1
INVARIANTS SerialVerdictsKept NoForeignVerdict SurroundingsKept
PROPERTY EvaluationEnds
CHECK_DEADLOCK FALSE
