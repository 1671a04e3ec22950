SPECIFICATION Spec
CHECK_DEADLOCK FALSE
CONSTANTS
  Tabs = {t1, t2}
  Requests = {p1, p2}
  Null = Null
  Never = Never
  Limit = 2
  Window = 2
  MaxTokens = 6
  MaxSends = 5
  MaxTime = 3
CONSTRAINT Focus
SYMMETRY MCSymmetry
INVARIANT SessionKept
INVARIANT SignOutEnds
INVARIANT RefreshesLimited
