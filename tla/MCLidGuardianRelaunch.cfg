CONSTANTS
  Guardians = {g1, g2}
  None = None
SPECIFICATION CallerSpec
PROPERTIES
  InstalledAfterPreviousReset
