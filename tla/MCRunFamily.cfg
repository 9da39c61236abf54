SPECIFICATION Spec
CONSTANTS
  k1 = k1
  k2 = k2
  Keys = {k1, k2}
  PairOf <- MCPairOf
  NumRoots = 2
  MaxRuns = 4
  MaxReruns = 2
SYMMETRY Symmetry
INVARIANTS VerdictIsOwn MergedIsLatest RetryIsExact StrayVerdictIsStale SkipIsSound
