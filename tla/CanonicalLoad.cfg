SPECIFICATION Spec
CHECK_DEADLOCK FALSE
CONSTANTS
  m = m
  g = g
  c = c
  erp = erp
  csv = csv
  sheet = sheet
  Null = Null
  Keys = {m, c}
  TableOf <- MCTableOf
  Sources = {erp, csv, sheet}
  Precedence <- MCPrecedence
  Offers <- MCMarksAndEnrolment
  MaxImports = 3
  MaxOpen = 2
  MaxRows = 3
SYMMETRY MCSymmetry
INVARIANT MarksInRange
INVARIANT LatestFromOneSource
PROPERTY NeverErased
