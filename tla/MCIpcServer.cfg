CONSTANTS
  Clients = {c1, c2, c3}
  Wake = Wake
  None = None
SYMMETRY Symmetry
SPECIFICATION Spec
INVARIANTS
  TypeOK
  CancelMissesNobody
  NothingLate
  OutcomeHonest
PROPERTIES
  QueueKept
CHECK_DEADLOCK FALSE
