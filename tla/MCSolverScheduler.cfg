SPECIFICATION FairSpec
CONSTANTS
  NumJobs = 3
  MaxParallel = 2
  ProviderOf <- MCProviderOf
  ProviderLimit <- MCProviderLimit
  Fallback = fallback
  Budget <- MCBudget
  Adapterless = {}
  NeedsWorkspace = {1}
  Reported <- MCReported
  Retriable <- MCRetriable
  MaxFaults = 1
  MaxInterrupts = 0
INVARIANTS TypeOK PermitsConserved GlobalNeverBlocks ReturnIsComplete
  FailureClosesEveryJob
PROPERTIES LifecycleSpec RunEnds
