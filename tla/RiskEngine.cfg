SPECIFICATION Spec
CHECK_DEADLOCK FALSE
CONSTANTS
  Students = {s1, s2}
  Workers = {w1, w2}
  Null = Null
  Grain = 1
  Signals <- MCSignals3
  NoSignals <- MCNoSignals
  Dobs <- OneBirthday
  DobChanges <- FirstRecording
  ConfigChoices <- ZeroWatchConfigs
  DefaultConfig <- MCDefaultConfig
  InterventionTypes <- MCInterventionTypes
  MaxImports = 2
  MaxManual = 1
  MaxConfigs = 2
  MaxCrashes = 1
  MaxDay = 1
SYMMETRY Symmetry
INVARIANT TypeOK
INVARIANT OneCurrent
INVARIANT SupersessionChain
INVARIANT AlertsMatchEscalations
INVARIANT FreshWhenSettled
INVARIANT LoneErrorsNeedZeroWatch
PROPERTY HistoryIsAppendOnly
PROPERTY ConsentGate
CONSTRAINT Focus
