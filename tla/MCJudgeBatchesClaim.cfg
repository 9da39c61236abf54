SPECIFICATION Spec
CONSTANTS
  Evaluations <- MCClaim
  Dataset <- MCDataset
  VersionOf <- MCVersionOf
  BatchSize = 2
  Verdicts = {"resolved", "not_resolved"}
  MaxFaults = 0
INVARIANT VerdictsKept
CHECK_DEADLOCK FALSE
