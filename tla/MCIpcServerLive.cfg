CONSTANTS
  Clients = {c1, c2}
  Wake = Wake
  None = None
SPECIFICATION FairSpec
PROPERTIES
  StopReturns
  StopEndsWorker
  EveryClientServed
CHECK_DEADLOCK FALSE
