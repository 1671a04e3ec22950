SPECIFICATION CopilotSpec
CONSTANTS
  a = a
  f = f
  s1 = s1
  s2 = s2
  cs = cs
  me = me
  ba = ba
  m1 = m1
  q1 = q1
  q2 = q2
  d1 = d1
  Null = Null
  Users = {a, f}
  Students = {s1, s2}
  Courses = {m1}
  Programmes = {cs, me, ba}
  Departments = {cs}
  DeptOf <- MCDeptOf
  Founder = a
  RoleChoices = {"faculty", "student"}
  ScopeChoices <- MCScopes
  Placements <- MCPlacements
  Assessments <- MCAssessments
  MaxChanges = 4
  MaxInterventions = 1
  Asks = {r1, r2}
  Questions = {q1, q2}
  Documents = {d1}
  RelevantTo <- MCRelevant
  Intents <- MCIntents
  Narrations <- MCNarrations
  FiguresIn <- MCFiguresIn
  Attendance <- MCAttendance
  Marks <- MCMarks
  MaxTurns = 4
  MaxAsks = 3
INVARIANT FiguresAgree
INVARIANT DigitsGrounded
INVARIANT MemoryIsTheLog
PROPERTY EscalationsReachViewers
PROPERTY CountsWithinRights
CONSTRAINT Focus

SYMMETRY AsksAlike
