CONSTANTS
  MaxDuration = 2
  NoLimit = NoLimit
  Invalid = Invalid
  JumpInStart = FALSE
SPECIFICATION PopoverSpec
INVARIANTS
  TypeOK
  TimersMatch
  LidIsBounded
  LidHasEffect
  NoLostSuppression
  UiFresh
  NoUnlimitedLid
  NothingLeftBehind
  CountdownFollows
PROPERTIES
  AnswerTruthful
  NoticeRetained
  LidPromiseKept
  NoSilentLoss
