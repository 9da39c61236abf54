SPECIFICATION FairSpec
CONSTANTS
  InstanceOf <- MCInstances
  Unpredicted = {4}
  Workers = 2
  Files <- MCFiles
  MaxFaults = 1
INVARIANTS WrittenIsComplete NoneRunsUnseen 
PROPERTY EvalEnds
CHECK_DEADLOCK FALSE
