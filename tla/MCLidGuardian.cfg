CONSTANTS
  Guardians = {g1, g2, g3}
  None = None
SPECIFICATION FairCallerSpec
INVARIANTS
  TypeOK
  SuppressionOwned
  EveryGuardianHeld
PROPERTIES
  OwnResetsNeverOvertake
  StopRestores
  CallsReturn
  CrashRestores
  CallersServed
