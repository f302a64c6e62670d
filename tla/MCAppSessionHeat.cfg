CONSTANTS
  MaxDuration = 2
  NoLimit = NoLimit
  Invalid = Invalid
  JumpInStart = FALSE
SPECIFICATION ThermalSpec
PROPERTIES
  HeatEndsLid
