SPECIFICATION Spec
CONSTANTS
  Worlds <- AllWorlds
  Datasets <- AllDatasets
  Fractions <- AllFractions
  MaxAttempts = 2
  MaxChanges = 1
  MaxFaults = 1
INVARIANTS
  JudgementsAreCurrent
  PaidOnce
  ReportIsCoherent
  OracleIsBest
  ScoresAreHonest
CHECK_DEADLOCK FALSE
