CONSTANTS
  Clients = {c1, c2}
  Wake = Wake
  None = None
  Indefinite = Indefinite
  Word = 40000000
  Typed <- Invocations
  Messages <- Others
  MaxFrame = 3
  Chunk = 2
  LineSize = 3
  Samples = {3541, 86340}
  ReplySizes = {3, 4}
SYMMETRY Symmetry
SPECIFICATION Spec
INVARIANTS
  RunsAsAsked
  ExitTruthful
CHECK_DEADLOCK FALSE
