SPECIFICATION Spec
CONSTANTS
  NumJobs = 4
  MaxParallel = 2
  ProviderOf <- MCProviderOf4
  ProviderLimit <- MCProviderLimit
  Fallback = fallback
  Budget <- MCMisbudget4
  Adapterless = {4}
  NeedsWorkspace = {1}
  Reported <- MCReported
  Retriable <- MCRetriable
  MaxFaults = 1
  MaxInterrupts = 2
INVARIANTS OneInterruptLosesNothing  LedgersAgree
