SPECIFICATION Spec
CHECK_DEADLOCK FALSE
CONSTANTS
  m = m
  g = g
  c = c
  erp = erp
  csv = csv
  sheet = sheet
  Null = Null
  Keys = {g}
  TableOf <- MCTableOf
  Sources = {erp, csv}
  Precedence <- MCPrecedence
  Offers <- MCProgrammes
  MaxImports = 3
  MaxOpen = 1
  MaxRows = 3
INVARIANT NoSilentClobber
