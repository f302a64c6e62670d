CONSTANTS
  Capacity = 2
  Chunk = 1
  Limit = 3
  MaxBytes = 5
SPECIFICATION FairSpec
INVARIANTS
  DiagnosticsComplete
  GuardianIsHeard
PROPERTIES
  FinishReturns
CHECK_DEADLOCK FALSE
