----------------------------- MODULE StaffAccess -----------------------------
(* What a user of one tenant may read and write of the Student Success       *)
(* Engine: users and faculty scopes (services/user_service.py), the scoping  *)
(* of students in both directions (services/risk/scoping.py), the reads of   *)
(* repositories/risk_repository.py behind the routes of api/routes/risk.py,  *)
(* the recipients of alerts and the writes of interventions.                 *)
(*                                                                           *)
(* A request carries the role that was in its access token, which may be     *)
(* older than the role in the database.  Each request is one transaction and *)
(* one action here; what a recompute finds is RiskEngine's, what an import   *)
(* changes CanonicalLoad's: both are inputs.                                 *)
EXTENDS Integers, FiniteSetsExt, Sequences

CONSTANTS
  Users, Students, Courses,
  Programmes, Departments,  \* known by their codes, which may coincide
  DeptOf,          \* programmes.department_id, or Null
  Null,
  Founder,         \* the administrator that registered the tenant
  RoleChoices,     \* the roles an administrator gives
  ScopeChoices,    \* the <<scope_type, scope_ref>> an administrator assigns
  Placements,      \* the [programme, courses] an import leaves a student with
  Assessments,     \* the [tier, findings, score] a recompute finds
  MaxChanges, MaxInterventions  \* bounds

Privileged == {"admin", "principal", "registrar", "iqac"}
Roles == Privileged \cup {"faculty", "student"}
Tiers == {"low", "watch", "high"}
RiskTypes == {"attendance", "academic", "fee"}
\* the risk type of each rule: two findings of a student can have one type
TypeOf == [ATTENDANCE_BELOW_THRESHOLD |-> "attendance", ATTENDANCE_DECLINING |-> "attendance",
           ACADEMIC_FAILING_INTERNALS |-> "academic", ACADEMIC_DECLINE |-> "academic",
           FEE_OVERDUE |-> "fee"]
ScopeTypes == {"department", "programme", "course", "section"}
ActiveStatuses == {"suggested", "open", "in_progress"}
Statuses == ActiveStatuses \cup {"completed", "dismissed"}
Unassigned == "Unassigned"

ASSUME FounderAssumption == Founder \in Users
ASSUME DeptAssumption == DeptOf \in [Programmes -> Departments \cup {Null}]
ASSUME NullAssumption ==
  /\ Null \notin Programmes \cup Departments \cup Courses /\ Null \notin Assessments
  /\ Null \notin Roles \cup Tiers \cup RiskTypes \cup Statuses
ASSUME RolesAssumption == RoleChoices \subseteq Roles
ASSUME ScopesAssumption ==
  ScopeChoices \subseteq ScopeTypes \X (Programmes \cup Departments \cup Courses)
ASSUME PlacementsAssumption ==
  Placements \subseteq [programme : Programmes \cup {Null}, courses : SUBSET Courses]
ASSUME AssessmentsAssumption ==
  Assessments \subseteq [tier : Tiers, findings : SUBSET DOMAIN TypeOf, score : Nat]
ASSUME BoundsAssumption == {MaxChanges, MaxInterventions} \subseteq Nat

VARIABLES
  role,          \* users.role; Null before the user is created
  is_active,     \* users.is_active
  token,         \* the role in the access token a user holds, or Null
  scopes,        \* faculty_scopes: <<user, scope_type, scope_ref>>
  placed,        \* the programme and the enrolments of a student
  assessment,    \* the current assessment of a student, or Null
  alerts,        \* risk_alerts: [student, at, to, status]; at is the change that raised it
  interventions, \* [student, status, outcomes], outcomes is the number of its outcomes
  changes        \* administration, imports and recomputes so far, a bound
people == <<role, is_active, token, scopes>>
vars == <<people, placed, assessment, alerts, interventions, changes>>

Init ==
  /\ role = [u \in Users |-> IF u = Founder THEN "admin" ELSE Null]
  /\ is_active = [u \in Users |-> u = Founder]
  /\ token = [u \in Users |-> IF u = Founder THEN "admin" ELSE Null]
  /\ scopes = {} /\ alerts = {} /\ interventions = <<>> /\ changes = 0
  /\ placed \in [Students -> Placements]
  /\ assessment = [s \in Students |-> Null]

-----------------------------------------------------------------------------
(* Who sees whom.                                                            *)

Programme(s) == placed[s].programme
Department(s) == IF Programme(s) = Null THEN Null ELSE DeptOf[Programme(s)]

StudentsForScope(type, ref) ==
  {s \in Students :
     \/ type = "department" /\ Department(s) = ref
     \/ type = "programme" /\ Programme(s) = ref
     \/ type \in {"course", "section"} /\ ref \in placed[s].courses}

\* visible_student_ids; None, everyone, is the set of all students
VisibleIds(r, u) ==
  IF r \in Privileged THEN Students
  ELSE IF r # "faculty" THEN {}
  ELSE UNION {StudentsForScope(sc[2], sc[3]) : sc \in {x \in scopes : x[1] = u}}

\* Mutant: the department of a student is looked up under the code of the programme.
FacultyForByCode(s) ==
  {u \in Users :
     \/ Programme(s) # Null /\ \E t \in {"programme", "department"} : <<u, t, Programme(s)>> \in scopes
     \/ \E c \in placed[s].courses, t \in {"course", "section"} : <<u, t, c>> \in scopes}
\* faculty_user_ids_for_student: neither role nor is_active is asked for
FacultyFor(s) ==
  {u \in Users :
     \/ Programme(s) # Null /\ <<u, "programme", Programme(s)>> \in scopes
     \/ Department(s) # Null /\ <<u, "department", Department(s)>> \in scopes
     \/ \E c \in placed[s].courses, t \in {"course", "section"} : <<u, t, c>> \in scopes}

\* the role of the request's token
Staff(u) == token[u] \notin {Null, "student"}
Visible(u) == VisibleIds(token[u], u)

-----------------------------------------------------------------------------
(* The reads of /risk, for a set of visible students.                        *)

Assessed(ids) == {s \in ids : assessment[s] # Null}
RiskTypesOf(s) == {TypeOf[c] : c \in assessment[s].findings}
DepartmentLabel(s) == IF Department(s) = Null THEN Unassigned ELSE Department(s)

\* Mutant: departments are joined, not left-joined.
SummaryByDepartmentJoined(ids) ==
  [d \in {Department(s) : s \in Assessed(ids)} \ {Null} |->
     [t \in Tiers |-> Cardinality({s \in Assessed(ids) : Department(s) = d /\ assessment[s].tier = t})]]
SummaryByDepartment(ids) ==
  [d \in {DepartmentLabel(s) : s \in Assessed(ids)} |->
     [t \in Tiers |-> Cardinality({s \in Assessed(ids) : DepartmentLabel(s) = d /\ assessment[s].tier = t})]]

Summary(ids) ==
  [by_tier |-> [t \in Tiers |-> Cardinality({s \in Assessed(ids) : assessment[s].tier = t})],
   by_risk_type |-> [y \in RiskTypes |-> Cardinality({s \in Assessed(ids) : y \in RiskTypesOf(s)})]]

\* list_at_risk, all its pages; a parameter that is not given is Null
ListAtRisk(ids, tier, type, dept, min) ==
  {s \in Assessed(ids) :
     /\ IF tier = Null THEN assessment[s].tier # "low" ELSE assessment[s].tier = tier
     /\ min # Null => assessment[s].score >= min
     /\ type # Null => type \in RiskTypesOf(s)
     /\ dept # Null => Department(s) = dept}

\* get_student_risk: not found, not assessed, or the assessment with the open interventions
StudentRisk(ids, s) ==
  IF s \notin ids THEN "not found"
  ELSE IF assessment[s] = Null THEN [current |-> Null, active |-> {}]
  ELSE [current |-> assessment[s],
        active |-> {i \in DOMAIN interventions :
                      interventions[i].student = s /\ interventions[i].status \in ActiveStatuses}]

\* list_interventions of a student
ListInterventions(ids, s, status) ==
  {i \in DOMAIN interventions :
     /\ interventions[i].student \in ids /\ interventions[i].student = s
     /\ status # Null => interventions[i].status = status}

ListAlerts(u) == {a \in alerts : a.to = u}

-----------------------------------------------------------------------------
(* Users and their scopes.                                                   *)

\* a sign-in or a refresh, which read the user anew (RefreshTokens)
Reissue(u) ==
  /\ role[u] # Null /\ is_active[u] /\ token[u] # role[u]
  /\ token' = [token EXCEPT ![u] = role[u]]
  /\ UNCHANGED <<role, is_active, scopes, placed, assessment, alerts, interventions, changes>>

\* the 15 minutes of an access token pass
Expire(u) ==
  /\ token[u] # Null
  /\ token' = [token EXCEPT ![u] = Null]
  /\ UNCHANGED <<role, is_active, scopes, placed, assessment, alerts, interventions, changes>>

Change == changes < MaxChanges /\ changes' = changes + 1
Admin(a) == token[a] = "admin"

CreateUser(a, u, r) ==
  /\ Change /\ Admin(a) /\ role[u] = Null
  /\ role' = [role EXCEPT ![u] = r] /\ is_active' = [is_active EXCEPT ![u] = TRUE]
  /\ UNCHANGED <<token, scopes, placed, assessment, alerts, interventions>>

\* r or act is the one the payload leaves out when it is the current value
UpdateUser(a, u, r, act) ==
  /\ Change /\ Admin(a) /\ role[u] # Null
  /\ ~(a = u /\ act = FALSE)
  /\ role' = [role EXCEPT ![u] = r] /\ is_active' = [is_active EXCEPT ![u] = act]
  /\ <<role', is_active'>> # <<role, is_active>>
  /\ UNCHANGED <<token, scopes, placed, assessment, alerts, interventions>>

AddFacultyScope(a, u, sc) ==
  /\ Change /\ Admin(a) /\ role[u] = "faculty"
  /\ <<u, sc[1], sc[2]>> \notin scopes
  /\ scopes' = scopes \cup {<<u, sc[1], sc[2]>>}
  /\ UNCHANGED <<role, is_active, token, placed, assessment, alerts, interventions>>

RemoveFacultyScope(a, sc) ==
  /\ Change /\ Admin(a) /\ sc \in scopes
  /\ scopes' = scopes \ {sc}
  /\ UNCHANGED <<role, is_active, token, placed, assessment, alerts, interventions>>

-----------------------------------------------------------------------------
(* Imports and recomputes.                                                   *)

Import(s, p) ==
  /\ Change /\ p # placed[s] /\ placed[s].courses \subseteq p.courses
  /\ placed' = [placed EXCEPT ![s] = p]
  /\ UNCHANGED <<people, assessment, alerts, interventions>>

Tier(a) == IF a = Null THEN Null ELSE a.tier
Material(before, after) == after = "high" /\ before \in {Null, "low", "watch"}

Recipients(s) == FacultyFor(s) \cup {u \in Users : role[u] \in Privileged /\ is_active[u]}
NewAlertsTo(s, who) == {[student |-> s, at |-> changes + 1, to |-> u, status |-> "pending"] : u \in who}

\* the new current assessment of a student and generate_alert_if_material
Recompute(s, a) ==
  /\ Change /\ a # assessment[s]
  /\ assessment' = [assessment EXCEPT ![s] = a]
  /\ alerts' = alerts \cup
       IF Material(Tier(assessment[s]), a.tier)
       THEN NewAlertsTo(s, Recipients(s)) ELSE {}
  /\ UNCHANGED <<people, placed, interventions>>

-----------------------------------------------------------------------------
(* What staff write.                                                         *)

\* the parent-contact gate is RiskEngine's
CreateIntervention(u, s) ==
  /\ Staff(u) /\ s \in Visible(u) /\ Len(interventions) < MaxInterventions
  /\ interventions' = Append(interventions, [student |-> s, status |-> "suggested", outcomes |-> 0])
  /\ UNCHANGED <<people, placed, assessment, alerts, changes>>

UpdateIntervention(u, i, status) ==
  /\ Staff(u) /\ interventions[i].student \in Visible(u)
  /\ status # interventions[i].status
  /\ interventions' = [interventions EXCEPT ![i].status = status]
  /\ UNCHANGED <<people, placed, assessment, alerts, changes>>

\* outcomes can be recorded again and again; one is enough here
RecordOutcome(u, i) ==
  /\ Staff(u) /\ interventions[i].student \in Visible(u) /\ interventions[i].outcomes < 1
  /\ interventions' = [interventions EXCEPT ![i].outcomes = @ + 1]
  /\ UNCHANGED <<people, placed, assessment, alerts, changes>>

\* any role, a student's as well, but only the recipient
MarkAlertRead(u, a) ==
  /\ token[u] # Null /\ a \in ListAlerts(u) /\ a.status = "pending"
  /\ alerts' = (alerts \ {a}) \cup {[a EXCEPT !.status = "read"]}
  /\ UNCHANGED <<people, placed, assessment, interventions, changes>>

Administer ==
  \E a \in Users, u \in Users :
    \/ \E r \in RoleChoices : CreateUser(a, u, r)
    \/ \E r \in RoleChoices \cup {role[u]}, act \in BOOLEAN : UpdateUser(a, u, r, act)
    \/ \E sc \in ScopeChoices : AddFacultyScope(a, u, sc)

Next ==
  \/ \E u \in Users : Reissue(u) \/ Expire(u)
  \/ Administer
  \/ \E a \in Users, sc \in scopes : RemoveFacultyScope(a, sc)
  \/ \E s \in Students : (\E p \in Placements : Import(s, p)) \/ (\E a \in Assessments : Recompute(s, a))
  \/ \E u \in Users, s \in Students : CreateIntervention(u, s)
  \/ \E u \in Users, i \in DOMAIN interventions :
       (\E status \in Statuses : UpdateIntervention(u, i, status)) \/ RecordOutcome(u, i)
  \/ \E u \in Users, a \in alerts : MarkAlertRead(u, a)

Spec == Init /\ [][Next]_vars

-----------------------------------------------------------------------------
(* Properties.                                                               *)

SumOf(f) == MapThenSumSet(LAMBDA x : f[x], DOMAIN f)

\* When a student becomes high (alerts.py:26), every active user whose role and scopes let them
\* read that student gets a new unread alert, and nobody gets one who has neither a scope over
\* the student nor a privileged role.
NewAlerts(s) == {a \in alerts' \ alerts : a.student = s /\ a.status = "pending"}
EscalationReaches(s) ==
  Tier(assessment[s]) # "high" /\ Tier(assessment'[s]) = "high" =>
    /\ \A u \in Users : is_active[u] /\ s \in VisibleIds(role[u], u) => \E a \in NewAlerts(s) : a.to = u
    /\ \A a \in NewAlerts(s) : role[a.to] \in Privileged \/ s \in VisibleIds("faculty", a.to)
EscalationsReachViewers == [][\A s \in Students : EscalationReaches(s)]_vars

\* The dashboard's tiles, its departments, the at-risk list and the student page count the same
\* students for one caller, those without a department included (risk_repository.py).
ReadsAgreeFor(ids) ==
  LET tiles == Summary(ids)
      depts == SummaryByDepartment(ids)
      listed(tier, type, dept) == Cardinality(ListAtRisk(ids, tier, type, dept, Null))
  IN  /\ SumOf(tiles.by_tier) = Cardinality(Assessed(ids))
      /\ listed(Null, Null, Null) = tiles.by_tier["watch"] + tiles.by_tier["high"]
      /\ \A t \in Tiers :
           /\ tiles.by_tier[t] = SumOf([d \in DOMAIN depts |-> depts[d][t]])
           /\ \A d \in DOMAIN depts \ {Unassigned} : depts[d][t] = listed(t, Null, d)
      /\ \A y \in RiskTypes : tiles.by_risk_type[y] = SumOf([t \in Tiers |-> listed(t, y, Null)])
      /\ \A s \in Assessed(ids) :
           StudentRisk(ids, s).active = UNION {ListInterventions(ids, s, x) : x \in ActiveStatuses}
=============================================================================
