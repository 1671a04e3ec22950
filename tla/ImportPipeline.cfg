SPECIFICATION Spec
CHECK_DEADLOCK FALSE
CONSTANTS
  fp = fp
  fs = fs
  fa = fa
  fb = fb
  p = p
  a = a
  c = c
  Null = Null
  KindOf <- MCKindOf
  Supported = {"programme", "student"}
  RiskRelevant = {"student"}
  Keys = {p, a, c}
  Files = {fp, fs}
  Rows <- MCRows
  Kinds = {"programme", "student", "timetable"}
  Uploaders = {u1, u2}
  MaxBatches = 3
  MaxUploads = 4
  MaxVersion = 2
  MaxFaults = 1
  MaxCrashes = 1
CONSTRAINT Focus
INVARIANT RowsConserved
INVARIANT AllOrNothing
INVARIANT NoOrphans
INVARIANT BatchesWithinRequests
