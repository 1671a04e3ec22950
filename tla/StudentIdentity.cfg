SPECIFICATION Spec
CHECK_DEADLOCK FALSE
CONSTANTS
  erp = erp
  csv = csv
  r1 = r1
  r2 = r2
  r3 = r3
  anil = anil
  anill = anill
  meera = meera
  home = home
  Null = Null
  Sources = {erp, csv}
  Precedence <- MCPrecedence
  Rows <- MCRows
  Similar <- MCSimilar
  FirstTokenIn <- MCFirstTokenIn
  Limit = 1
  MaxImports = 3
  Imports = {i1, i2}
  MaxRows = 3
INVARIANT SameRollSameStudent
INVARIANT LikenessNeedsTheBirthday
INVARIANT OnlyUnsentTwinsMissed
SYMMETRY MCSymmetry
