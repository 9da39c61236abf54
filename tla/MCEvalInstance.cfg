SPECIFICATION EvalSpec
CONSTANTS
  Tests = {"t", "u"}
  Outcomes = {"pass", "skip", "absent"}
  Declared <- MCDeclared
  Pytest = TRUE
  Commands = 2
INVARIANTS PassesAreIsolated AcceptedIsProven RejectionsAreExplained
CHECK_DEADLOCK FALSE
