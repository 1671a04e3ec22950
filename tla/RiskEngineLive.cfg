SPECIFICATION FairSpec
CHECK_DEADLOCK FALSE
CONSTANTS
  Students = {s1, s2}
  Workers = {w1, w2}
  Null = Null
  Grain = 1
  Signals <- MCSignals1
  NoSignals <- MCNoSignals
  Dobs <- NoDobs
  DobChanges = {}
  ConfigChoices <- MCConfigs
  DefaultConfig <- MCDefaultConfig
  InterventionTypes = {}
  MaxImports = 2
  MaxManual = 0
  MaxConfigs = 2
  MaxCrashes = 0
  MaxDay = 0
INVARIANT RowsReproducible
PROPERTY RecomputesFinish
