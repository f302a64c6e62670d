CONSTANTS
  Instances = {p, q, r}
  Foreign = Foreign
  Listener = Listener
  None = None
SYMMETRY Symmetry
SPECIFICATION Spec
INVARIANTS
  ServerReachable
  StaleReclaimed
