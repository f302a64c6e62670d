CONSTANTS
  MaxDuration = 2
  NoLimit = NoLimit
  Invalid = Invalid
  JumpInStart = TRUE
SPECIFICATION Spec
INVARIANTS
  LidIsBounded
