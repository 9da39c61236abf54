SPECIFICATION FairSpec
CONSTANTS
  NumCalls = 4
  Parallelisms = {1, 2}
  PerMinute = 1
  Window = 2
  MaxTime = 5
INVARIANT OverrunBounded
PROPERTY EveryCallReturns
CHECK_DEADLOCK FALSE
