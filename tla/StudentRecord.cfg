SPECIFICATION Spec
CONSTANTS
  Null = Null
  Grain = 3
  Config <- MCConfig
  Statuses = {"present", "leave"}
  Marks <- MCMarks
  DueDates = {1, 2}
  Amounts = {1, 2}
  MaxSessions = 7
  MaxMarks = 5
  MaxFees = 2
  MaxDay = 4
CONSTRAINT OneDomain
CHECK_DEADLOCK FALSE
INVARIANT FeeFlagNeedsADebt
INVARIANT AttendanceFlagsWithinRounding
INVARIANT DeclineIsAgainstEarlierMarks
PROPERTY TimeAndPayments
PROPERTY AttendingNeverFlags
