SPECIFICATION FairSpec
CONSTANTS
  Callers = {c1, c2, c3, c4}
  Max = 2
  Attempts = 2
  MaxCalls = 2
INVARIANTS WithinLimit NoLostWakeup
PROPERTY ServiceSpec
CHECK_DEADLOCK FALSE
