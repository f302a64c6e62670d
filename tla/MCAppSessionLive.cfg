CONSTANTS
  MaxDuration = 2
  NoLimit = NoLimit
  Invalid = Invalid
  JumpInStart = FALSE
SPECIFICATION FairSpec
PROPERTIES
  LidEnds
  SessionsEnd
  QuitCompletes
