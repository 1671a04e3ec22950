SPECIFICATION FairSpec
CHECK_DEADLOCK FALSE
CONSTANTS
  fp = fp
  fs = fs
  fa = fa
  fb = fb
  p = p
  a = a
  c = c
  Null = Null
  KindOf <- MCKindOf
  Supported = {"student"}
  RiskRelevant = {"student"}
  Keys = {p, a, c}
  Files = {fa, fb}
  Rows <- MCRows
  Kinds = {"student"}
  Uploaders = {u1}
  MaxBatches = 2
  MaxUploads = 2
  MaxVersion = 1
  MaxFaults = 2
  MaxCrashes = 1
INVARIANT NoAnomalyEscapes
INVARIANT StaleHasAnOwner
PROPERTY ImplementsLifecycle
PROPERTY EveryImportEnds
