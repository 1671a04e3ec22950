------------------------------ MODULE MCCopilot ------------------------------
(* TLC instance of Copilot with StaffAccess: a department and a programme    *)
(* of one code, a programme of another department, and one of none.          *)
EXTENDS Copilot, TLC

CONSTANTS a, f, s1, s2, cs, me, ba, m1, q1, q2, d1

MCDeptOf == cs :> cs @@ ba :> Null @@ me :> cs
MCScopes == {<<"department", cs>>, <<"programme", cs>>, <<"section", m1>>}
Placed(p, courses) == [programme |-> p, courses |-> courses]
MCPlacements == {Placed(Null, {}), Placed(me, {m1}), Placed(ba, {m1})}

Assess(tier, findings, score) == [tier |-> tier, findings |-> findings, score |-> score]
MCAssessments == {Assess("low", {}, 0), Assess("watch", {"FEE_OVERDUE"}, 30),
  Assess("high", {"ATTENDANCE_BELOW_THRESHOLD", "ATTENDANCE_DECLINING"}, 60)}

Select(m, dims, filters) ==
  [sel |-> [metric |-> m, dimensions |-> dims, filters |-> filters, limit |-> 100], figures |-> {}]
Ungrouped == Select("student_count", <<>>, Filter("department", cs))
MCIntents == {
  Select("student_count", <<"department">>, Filter("department", cs)),
  Ungrouped,
  Select("student_count", <<"tier">>, <<>>),
  [sel |-> Null, figures |-> {}]}
\* 21 is a figure of the code cs, and 900k passes unseen
MCNarrations == {{Plain(200), Plain(2100), [value |-> 90000000, form |-> "thousands"]}}
MCFiguresIn == cs :> {Plain(2100)} @@ me :> {} @@ ba :> {}
MCRelevant == q1 :> {d1} @@ q2 :> {}
MCAttendance == [s \in Students |-> <<1, 0, 1>>]
MCMarks == [s \in Students |-> <<4000>>]

\* the more questions are asked, the fewer changes there are besides
Started == placed = s1 :> Placed(me, {m1}) @@ s2 :> Placed(Null, {})
Calm == alerts = {} /\ interventions = <<>>
AsCreated == role[a] = "admin" /\ \A u \in Users : role[u] # Null => is_active[u] /\ role[u] # "student"
Unassessed == assessment = [s \in Students |-> Null]
Focus ==
  /\ changes = 0 => Started
  /\ interventions # <<>> => changes <= 2 /\ Unassessed
  /\ indexed # {} => changes = 0 /\ asked < 2
  /\ asked # 0 => Calm /\ AsCreated /\ Unassessed /\ changes <= 3
  /\ asked = 1 /\ changes = 3 => Started /\ token = role
  /\ asked >= 2 => Started /\ token = role /\ changes <= 2
  /\ asked = 3 => \A e \in cache : e.task = "nl_intent" => e.response # Ungrouped
  /\ asked = 2 /\ changes # 0 => \E r \in Asks : ask[r] = Null
  /\ asked = 3 => changes = 0 /\ log[a] # <<>> /\ Cardinality(cache) <= 2

AsksAlike == Permutations(Asks)
=============================================================================
