SPECIFICATION Spec
CHECK_DEADLOCK FALSE
CONSTANTS
  Requests = {r1, r2}
  Null = Null
  MaxTokens = 4
  MaxRequests = 5
SYMMETRY MCSymmetry
INVARIANT EndedStaysEnded
INVARIANT LiveUntilEnded
INVARIANT SettledNotDenied
