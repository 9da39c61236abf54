SPECIFICATION FairSpec
CONSTANTS
  Threads <- MCThreads
  NoThread = NoThread
  BaseKey = "base"
  EnvKeys = {"e1", "e2"}
  Casts <- MCFilled
  Fallback = {"codex", "claude"}
  Commands = 2
  MaxFaults = 1
  MaxSweeps = 1
  Outputs <- MCOutputs
  Priced = TRUE
INVARIANTS ImageBuiltOnce NothingRunsOn StatusTellsTruth SpendIsKept
PROPERTY AttemptsEnd
