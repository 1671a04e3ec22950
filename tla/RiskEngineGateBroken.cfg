SPECIFICATION Spec
CHECK_DEADLOCK FALSE
CONSTANTS
  Students = {s1}
  Workers = {w1}
  Null = Null
  Grain = 1
  Signals <- MCSignals2
  NoSignals <- MCNoSignals
  Dobs <- OneBirthday
  DobChanges <- AnyCorrection
  ConfigChoices <- MCConfigs
  DefaultConfig <- MCDefaultConfig
  InterventionTypes <- MCInterventionTypes
  MaxImports = 3
  MaxManual = 1
  MaxConfigs = 1
  MaxCrashes = 0
  MaxDay = 1
SYMMETRY Symmetry
PROPERTY ConsentGate
