---------------------------- MODULE CopilotProofs ----------------------------
(* Proofs about StaffAccess and Copilot, for any users, scopes, students,    *)
(* provider and number of questions in progress: the two directions of       *)
(* scoping agree (ScopingAgrees), an escalation reaches exactly the staff    *)
(* who may read the student (EscalationsReachViewers); of the copilot, that  *)
(* the questions change nothing of StaffAccess (QuestionsOnlyRead), the whole *)
(* figures an answer has in digits are grounded (DigitsGrounded), no count in *)
(* it exceeds the students its asker reaches (CountsWithinRights), and the   *)
(* memory of a session is the end of the conversation (MemoryIsTheLog).      *)
EXTENDS Copilot, FiniteSetTheorems, FunctionTheorems, WellFoundedInduction, TLAPS

-----------------------------------------------------------------------------
(* StaffAccess.                                                              *)

Refs == Programmes \cup Departments \cup Courses
Alert == [student : Students, at : Nat, to : Users, status : {"pending", "read"}]

\* Null is nowhere a reference, and an alert is older than the next change
ScopesTyped == scopes \subseteq Users \X ScopeTypes \X Refs
AssessmentTyped == assessment \in [Students -> Assessments \cup {Null}]
AlertsDated == changes \in Nat /\ alerts \subseteq Alert /\ \A a \in alerts : a.at <= changes
IInv == ScopesTyped /\ AssessmentTyped /\ AlertsDated

-----------------------------------------------------------------------------
(* The two directions of scoping.                                            *)

\* faculty_user_ids_for_student finds a user if and only if visible_student_ids, for that user
\* as faculty, finds the student.
THEOREM ScopingAgrees ==
  ASSUME ScopesTyped, NEW s \in Students, NEW u \in Users
  PROVE  u \in FacultyFor(s) <=> s \in VisibleIds("faculty", u)
<1>1. VisibleIds("faculty", u) = UNION {StudentsForScope(sc[2], sc[3]) : sc \in {x \in scopes : x[1] = u}}
  BY DEF VisibleIds, Privileged
<1>2. ASSUME u \in FacultyFor(s) PROVE s \in VisibleIds("faculty", u)
  <2>1. CASE Programme(s) # Null /\ <<u, "programme", Programme(s)>> \in scopes
    <3>1. s \in StudentsForScope("programme", Programme(s))
      BY DEF StudentsForScope
    <3> QED BY <1>1, <2>1, <3>1
  <2>2. CASE Department(s) # Null /\ <<u, "department", Department(s)>> \in scopes
    <3>1. s \in StudentsForScope("department", Department(s))
      BY DEF StudentsForScope
    <3> QED BY <1>1, <2>2, <3>1
  <2>3. CASE \E c \in placed[s].courses, t \in {"course", "section"} : <<u, t, c>> \in scopes
    <3>1. PICK c \in placed[s].courses, t \in {"course", "section"} : <<u, t, c>> \in scopes
      BY <2>3
    <3>2. s \in StudentsForScope(t, c)
      BY <3>1 DEF StudentsForScope
    <3> QED BY <1>1, <3>1, <3>2
  <2> QED BY <1>2, <2>1, <2>2, <2>3 DEF FacultyFor
<1>3. ASSUME s \in VisibleIds("faculty", u) PROVE u \in FacultyFor(s)
  <2>1. PICK sc \in scopes : sc[1] = u /\ s \in StudentsForScope(sc[2], sc[3])
    BY <1>1, <1>3
  <2>2. sc \in Users \X ScopeTypes \X Refs
    BY DEF ScopesTyped
  <2>3. sc = <<u, sc[2], sc[3]>> /\ sc[3] \in Refs
    BY <2>1, <2>2
  <2>4. sc[3] # Null
    BY <2>3, NullAssumption DEF Refs
  <2> QED BY <2>1, <2>3, <2>4 DEF StudentsForScope, FacultyFor
<1> QED BY <1>2, <1>3

-----------------------------------------------------------------------------
(* The invariant.                                                            *)

LEMMA InitInv == Init => IInv
BY DEF Init, IInv, ScopesTyped, AssessmentTyped, AlertsDated

\* What raises no alert and changes no assessment only moves the clock or the scopes.
LEMMA NextInv == IInv /\ [Next]_vars => IInv'
<1> SUFFICES ASSUME IInv, [Next]_vars PROVE IInv'
  OBVIOUS
<1> USE DEF IInv
<1>1. ASSUME NEW a \in Users, NEW u \in Users, NEW sc \in ScopeChoices, AddFacultyScope(a, u, sc) PROVE IInv'
  <2>1. <<u, sc[1], sc[2]>> \in Users \X ScopeTypes \X Refs
    BY ScopesAssumption DEF Refs
  <2>2. ScopesTyped'
    BY <1>1, <2>1 DEF AddFacultyScope, ScopesTyped
  <2>3. AssessmentTyped' /\ AlertsDated'
    BY <1>1 DEF AddFacultyScope, Change, AssessmentTyped, AlertsDated, Alert
  <2> QED BY <2>2, <2>3
<1>2. ASSUME NEW a \in Users, NEW sc \in scopes, RemoveFacultyScope(a, sc) PROVE IInv'
  BY <1>2 DEF RemoveFacultyScope, Change, ScopesTyped, AssessmentTyped, AlertsDated, Alert
<1>3. ASSUME NEW s \in Students, NEW a \in Assessments, Recompute(s, a) PROVE IInv'
  <2>1. ScopesTyped'
    BY <1>3 DEF Recompute, people, ScopesTyped
  <2>2. AssessmentTyped'
    BY <1>3 DEF Recompute, AssessmentTyped
  <2>3. Recipients(s) \subseteq Users
    BY DEF Recipients, FacultyFor
  <2>4. changes' = changes + 1 /\ alerts' \subseteq alerts \cup NewAlertsTo(s, Recipients(s))
    BY <1>3 DEF Recompute, Change
  <2>5. \A n \in NewAlertsTo(s, Recipients(s)) : n \in Alert /\ n.at = changes + 1
    BY <2>3 DEF NewAlertsTo, Alert, AlertsDated
  <2>6. AlertsDated'
    BY <2>4, <2>5 DEF AlertsDated, Alert
  <2> QED BY <2>1, <2>2, <2>6
<1>4. ASSUME NEW u \in Users, NEW a \in alerts, MarkAlertRead(u, a) PROVE IInv'
  <2>1. [a EXCEPT !.status = "read"] \in Alert /\ [a EXCEPT !.status = "read"].at = a.at
    BY DEF AlertsDated, Alert
  <2>2. AlertsDated'
    BY <1>4, <2>1 DEF MarkAlertRead, AlertsDated
  <2>3. ScopesTyped' /\ AssessmentTyped'
    BY <1>4 DEF MarkAlertRead, people, ScopesTyped, AssessmentTyped
  <2> QED BY <2>2, <2>3
<1>5. ASSUME UNCHANGED <<scopes, assessment, alerts>>, changes' = changes \/ changes' = changes + 1 PROVE IInv'
  BY <1>5 DEF ScopesTyped, AssessmentTyped, AlertsDated, Alert
<1>6. CASE \E u \in Users : Reissue(u) \/ Expire(u)
  BY <1>5, <1>6 DEF Reissue, Expire
<1>7. CASE Administer
  BY <1>1, <1>5, <1>7 DEF Administer, CreateUser, UpdateUser, Change
<1>8. CASE \E s \in Students, p \in Placements : Import(s, p)
  BY <1>5, <1>8 DEF Import, Change, people
<1>9. CASE \E u \in Users, s \in Students : CreateIntervention(u, s)
  BY <1>5, <1>9 DEF CreateIntervention, people
<1>10. CASE \E u \in Users, i \in DOMAIN interventions :
              (\E status \in Statuses : UpdateIntervention(u, i, status)) \/ RecordOutcome(u, i)
  BY <1>5, <1>10 DEF UpdateIntervention, RecordOutcome, people
<1>11. CASE UNCHANGED vars
  BY <1>5, <1>11 DEF vars, people
<1> QED BY <1>2, <1>3, <1>4, <1>6, <1>7, <1>8, <1>9, <1>10, <1>11 DEF Next

-----------------------------------------------------------------------------
(* Escalations.                                                              *)

\* Only a recompute of the student changes the student's assessment.
LEMMA OnlyRecompute ==
  ASSUME [Next]_vars, NEW s \in Students, AssessmentTyped, assessment'[s] # assessment[s]
  PROVE  \E a \in Assessments : Recompute(s, a)
<1>1. PICK t \in Students, a \in Assessments : Recompute(t, a)
  BY DEF Next, Reissue, Expire, Administer, CreateUser, UpdateUser, AddFacultyScope, RemoveFacultyScope,
         Import, CreateIntervention, UpdateIntervention, RecordOutcome, MarkAlertRead, vars
<1>2. t = s
  BY <1>1 DEF Recompute, AssessmentTyped
<1> QED BY <1>1, <1>2

LEMMA EscalationStep ==
  ASSUME IInv, [Next]_vars, NEW s \in Students PROVE EscalationReaches(s)
<1> SUFFICES ASSUME Tier(assessment[s]) # "high", Tier(assessment'[s]) = "high"
             PROVE  /\ \A u \in Users : is_active[u] /\ s \in VisibleIds(role[u], u) =>
                                          \E a \in NewAlerts(s) : a.to = u
                    /\ \A a \in NewAlerts(s) : role[a.to] \in Privileged \/ s \in VisibleIds("faculty", a.to)
  BY DEF EscalationReaches
<1>0. IInv /\ ScopesTyped /\ AssessmentTyped /\ AlertsDated
  BY DEF IInv
<1>1. PICK a \in Assessments : Recompute(s, a)
  BY <1>0, OnlyRecompute
<1>2. assessment'[s] = a /\ a # Null
  BY <1>0, <1>1, NullAssumption DEF Recompute, AssessmentTyped
<1>3. Material(Tier(assessment[s]), a.tier)
  <2>1. a.tier = "high"
    BY <1>2 DEF Tier
  <2>2. Tier(assessment[s]) \in Tiers \cup {Null}
    BY <1>0, AssessmentsAssumption DEF Tier, AssessmentTyped
  <2> QED BY <2>1, <2>2 DEF Material, Tiers
<1>4. alerts' = alerts \cup NewAlertsTo(s, Recipients(s))
  BY <1>1, <1>3 DEF Recompute
<1>5. \A n \in NewAlertsTo(s, Recipients(s)) : n.at = changes + 1 /\ n.student = s /\ n.status = "pending"
                                                /\ n.to \in Recipients(s)
  BY DEF NewAlertsTo
<1>6. NewAlerts(s) = NewAlertsTo(s, Recipients(s))
  <2>1. \A n \in NewAlertsTo(s, Recipients(s)) : n \notin alerts
    BY <1>0, <1>5 DEF AlertsDated, Alert
  <2> QED BY <1>4, <1>5, <2>1 DEF NewAlerts
<1>7. ASSUME NEW u \in Users, is_active[u], s \in VisibleIds(role[u], u) PROVE \E n \in NewAlerts(s) : n.to = u
  <2>1. u \in Recipients(s)
    <3>1. CASE role[u] \in Privileged
      BY <1>7, <3>1 DEF Recipients
    <3>2. CASE role[u] \notin Privileged
      <4>1. role[u] = "faculty"
        BY <1>7, <3>2 DEF VisibleIds
      <4>2. u \in FacultyFor(s)
        BY <1>0, <1>7, <4>1, ScopingAgrees
      <4> QED BY <4>2 DEF Recipients
    <3> QED BY <3>1, <3>2
  <2>2. [student |-> s, at |-> changes + 1, to |-> u, status |-> "pending"] \in NewAlertsTo(s, Recipients(s))
    BY <2>1 DEF NewAlertsTo
  <2> QED BY <1>6, <2>2
<1>8. ASSUME NEW n \in NewAlerts(s) PROVE role[n.to] \in Privileged \/ s \in VisibleIds("faculty", n.to)
  <2>1. n.to \in Recipients(s)
    BY <1>5, <1>6, <1>8
  <2>2. n.to \in Users
    BY <2>1 DEF Recipients, FacultyFor
  <2>3. CASE n.to \in FacultyFor(s)
    BY <1>0, <2>2, <2>3, ScopingAgrees
  <2> QED BY <2>1, <2>3 DEF Recipients
<1> QED BY <1>7, <1>8

\* An escalation reaches every active user who may read the student, and nobody who has neither
\* a privileged role nor a scope over the student, for every value of the constants.
THEOREM EscalationsAlwaysReach == Spec => EscalationsReachViewers
<1>1. IInv /\ [Next]_vars => [\A s \in Students : EscalationReaches(s)]_vars
  BY EscalationStep
<1> QED BY <1>1, InitInv, NextInv, PTL DEF Spec, EscalationsReachViewers

-----------------------------------------------------------------------------
(* The inductive invariant.                                                  *)

Grounded(figures, rows) ==
  \A f \in figures : f.form \in Digits /\ f.value % 100 = 0 => f.value \in GroundedIn(rows)

\* A question has no rows before its query; after its narration its figures are grounded.
AskOk(a) ==
  a # Null =>
    /\ a = [at |-> a.at, user |-> a.user, role |-> a.role, question |-> a.question, turns |-> a.turns,
            evidence |-> a.evidence, sel |-> a.sel, rows |-> a.rows, figures |-> a.figures,
            loaded |-> a.loaded]
    /\ a.user \in Users
    /\ a.at \in {"intent", "query"} => a.rows = {}
    /\ a.at = "query" => a.sel.limit \in Int
    /\ a.at \in {"load", "store"} /\ a.rows # {} => Grounded(a.figures, a.rows)
AsksOk == ask = [r \in Asks |-> ask[r]] /\ \A r \in Asks : AskOk(ask[r])

\* What is cached is what the provider could have answered.
CacheOk ==
  \A e \in cache : /\ e.task = "nl_intent" => e.response \in Intents
                   /\ e.task = "narration" => e.response \in Narrations

QInv == AsksOk /\ CacheOk

-----------------------------------------------------------------------------
(* Questions only read.                                                      *)

LEMMA StaffStep == [CopilotNext]_copilotVars => [Next]_vars
BY DEF CopilotNext, copilotVars, AskStep, AskIntent, AskQuery, AskNarrate, AskLoad, AskStore, AskFails,
       AskStart, ExpireMemory, IndexDocument, ExpireCached, Others

\* With any number of questions in progress, the users, scopes, students, assessments, alerts and
\* interventions behave as they do without the copilot: it implements StaffAccess.
THEOREM QuestionsOnlyRead == CopilotSpec => Spec
<1>1. CopilotInit => Init
  BY DEF CopilotInit
<1> QED
  BY <1>1, StaffStep, PTL DEF CopilotSpec, Spec

-----------------------------------------------------------------------------
(* The guardrail.                                                            *)

\* The search sees what is written in digits, as it is written.
LEMMA DigitsFound ==
  ASSUME NEW raw, NEW f \in raw, f.form \in Digits
  PROVE  f \in Cited(raw)
<1>1. f.form \notin {"grouped", "thousands", "words"}
  BY DEF Digits
<1>2. Found(f) = {f}
  BY <1>1 DEF Found
<1> QED
  BY <1>2 DEF Cited

\* What leaves the guardrail in digits is grounded, whatever the provider wrote.
LEMMA ValidatedGrounded ==
  ASSUME NEW raw \in SUBSET Figure, NEW rows, rows # {}
  PROVE  Grounded(Validated(raw, rows), rows)
<1> DEFINE allowed == \A f \in Cited(raw) : f \in InRows(rows) \/ Harmless(f, rows)
<1>1. CASE allowed
  <2>1. Validated(raw, rows) = raw
    BY <1>1 DEF Validated
  <2>2. ASSUME NEW f \in raw, f.form \in Digits, f.value % 100 = 0
        PROVE  f.value \in GroundedIn(rows)
    <3>1. f \in InRows(rows) \/ Harmless(f, rows)
      BY <1>1, <2>2, DigitsFound
    <3>2. PICK v \in Nat : v = f.value
      BY DEF Figure
    <3>3. v = 100 * (v \div 100)
      BY <2>2, <3>2
    <3>4. Harmless(f, rows) => f.value = 100 * Cardinality(rows)
      BY <3>2, <3>3 DEF Harmless
    <3> QED
      BY <3>1, <3>4 DEF GroundedIn
  <2> QED
    BY <2>1, <2>2 DEF Grounded
<1>2. CASE ~allowed
  <2>1. Validated(raw, rows) = Fallback(rows)
    BY <1>2 DEF Validated
  <2>2. ASSUME NEW x \in rows PROVE Plain(x.value).value \in GroundedIn(rows)
    <3>1. Plain(x.value) \in InRows(rows)
      BY DEF InRows, InRow
    <3> QED
      BY <3>1 DEF GroundedIn
  <2>3. Plain(100 * Cardinality(rows)).value \in GroundedIn(rows)
    BY DEF GroundedIn, Plain
  <2>4. \A f \in Fallback(rows) : f.value \in GroundedIn(rows)
    BY <2>2, <2>3 DEF Fallback
  <2> QED
    BY <2>1, <2>4 DEF Grounded
<1> QED
  BY <1>1, <1>2

\* A response is one of the provider's, of now or of an earlier call.
LEMMA Completed ==
  ASSUME CacheOk, NEW task \in {"nl_intent", "narration"}, NEW key, NEW responses, NEW response,
         responses = IF task = "nl_intent" THEN Intents ELSE Narrations,
         Complete(task, key, responses, response)
  PROVE  response \in responses /\ CacheOk'
<1>1. CASE Entries(task, key) # {}
  BY <1>1 DEF Complete, Entries, CacheOk
<1>2. CASE Entries(task, key) = {}
  <2> PICK new : new = [task |-> task, key |-> key, response |-> response]
    OBVIOUS
  <2>1. response \in responses /\ cache' = cache \cup {new}
    BY <1>2 DEF Complete
  <2>2. new.task = task /\ new.response = response
    OBVIOUS
  <2> QED
    BY <2>1, <2>2 DEF CacheOk
<1> QED
  BY <1>1, <1>2

-----------------------------------------------------------------------------
(* The steps of a question.                                                  *)

LEMMA OneAsk ==
  ASSUME AsksOk, NEW r \in Asks, NEW n, AskOk(n), ask' = [ask EXCEPT ![r] = n]
  PROVE  AsksOk' /\ ask'[r] = n /\ \A q \in Asks \ {r} : ask'[q] = ask[q]
<1>1. ask' = [q \in Asks |-> IF q = r THEN n ELSE ask[q]]
  BY DEF AsksOk
<1>2. ask' = [q \in Asks |-> ask'[q]]
  BY <1>1
<1>3. \A q \in Asks : AskOk(ask'[q])
  BY <1>1 DEF AsksOk
<1> QED
  BY <1>1, <1>2, <1>3 DEF AsksOk, AskOk

LEMMA StartOk ==
  ASSUME QInv, NEW r \in Asks, NEW u \in Users, NEW q \in Questions, AskStart(r, u, q)
  PROVE  QInv' /\ \A p \in Asks \ {r} : ask'[p] = ask[p]
<1>1. AskOk(Asking(u, q))
  BY DEF AskOk, Asking
<1>2. ask' = [ask EXCEPT ![r] = Asking(u, q)] /\ cache' = cache
  BY DEF AskStart
<1> QED
  BY <1>1, <1>2, OneAsk DEF QInv, CacheOk

LEMMA IntentOk ==
  ASSUME QInv, NEW r \in Asks, AskIntent(r)
  PROVE  QInv' /\ \A p \in Asks \ {r} : ask'[p] = ask[p]
<1> PICK a : a = ask[r]
  OBVIOUS
<1>1. PICK intent \in Intents :
        /\ Complete("nl_intent", <<a.evidence, a.turns, a.question>>, Intents, intent)
        /\ ask' = [ask EXCEPT ![r].sel = intent.sel, ![r].figures = intent.figures,
                              ![r].at = IF intent.sel = Null THEN "load" ELSE "query"]
  BY DEF AskIntent
<1> PICK n : n = [a EXCEPT !.sel = intent.sel, !.figures = intent.figures,
                           !.at = IF intent.sel = Null THEN "load" ELSE "query"]
  OBVIOUS
<1>2. ask' = [ask EXCEPT ![r] = n]
  BY <1>1 DEF QInv, AsksOk
<1>3. AskOk(a) /\ a # Null /\ a.at = "intent"
  BY DEF QInv, AsksOk, AskIntent, At
<1>4. /\ n = [at |-> n.at, user |-> n.user, role |-> n.role, question |-> n.question, turns |-> n.turns,
              evidence |-> n.evidence, sel |-> n.sel, rows |-> n.rows, figures |-> n.figures,
              loaded |-> n.loaded]
      /\ n.user = a.user /\ n.rows = a.rows /\ n.sel = intent.sel
      /\ n.at = IF intent.sel = Null THEN "load" ELSE "query"
  BY <1>3 DEF AskOk
<1>5. intent.sel # Null => intent.sel.limit \in Int
  BY ProviderAssumption
<1>6. AskOk(n)
  BY <1>3, <1>4, <1>5 DEF AskOk
<1>7. CacheOk'
  BY <1>1, Completed DEF QInv
<1> QED
  BY <1>2, <1>6, <1>7, OneAsk DEF QInv

LEMMA QueryOk ==
  ASSUME QInv, NEW r \in Asks, AskQuery(r)
  PROVE  QInv' /\ \A p \in Asks \ {r} : ask'[p] = ask[p]
<1> PICK a : a = ask[r]
  OBVIOUS
<1> PICK result : result = Execute(a.role, a.user, a.sel)
  OBVIOUS
<1>1. /\ ask' = IF result.ok THEN [ask EXCEPT ![r].rows = result.rows, ![r].at = "narrate"]
                ELSE [ask EXCEPT ![r] = Null]
      /\ cache' = cache
  BY DEF AskQuery
<1> PICK n : n = [a EXCEPT !.rows = result.rows, !.at = "narrate"]
  OBVIOUS
<1>2. ask' = [ask EXCEPT ![r] = IF result.ok THEN n ELSE Null]
  BY <1>1 DEF QInv, AsksOk
<1>3. AskOk(a) /\ a # Null
  BY DEF QInv, AsksOk, AskQuery, At
<1>4. /\ n = [at |-> n.at, user |-> n.user, role |-> n.role, question |-> n.question, turns |-> n.turns,
              evidence |-> n.evidence, sel |-> n.sel, rows |-> n.rows, figures |-> n.figures,
              loaded |-> n.loaded]
      /\ n.user = a.user /\ n.at = "narrate"
  BY <1>3 DEF AskOk
<1>5. AskOk(n) /\ AskOk(Null)
  BY <1>3, <1>4 DEF AskOk
<1> QED
  BY <1>1, <1>2, <1>5, OneAsk DEF QInv, CacheOk

LEMMA NarrateOk ==
  ASSUME QInv, NEW r \in Asks, AskNarrate(r)
  PROVE  QInv' /\ \A p \in Asks \ {r} : ask'[p] = ask[p]
<1> PICK a : a = ask[r]
  OBVIOUS
<1>1. PICK raw \in Narrations :
        /\ Complete("narration", <<a.sel.metric, a.sel.dimensions, a.rows>>, Narrations, raw)
        /\ ask' = [ask EXCEPT ![r].figures = Validated(raw, a.rows), ![r].at = "load"]
  BY DEF AskNarrate
<1> PICK n : n = [a EXCEPT !.figures = Validated(raw, a.rows), !.at = "load"]
  OBVIOUS
<1>2. ask' = [ask EXCEPT ![r] = n]
  BY <1>1 DEF QInv, AsksOk
<1>3. AskOk(a) /\ a # Null
  BY DEF QInv, AsksOk, AskNarrate, At
<1>4. /\ n = [at |-> n.at, user |-> n.user, role |-> n.role, question |-> n.question, turns |-> n.turns,
              evidence |-> n.evidence, sel |-> n.sel, rows |-> n.rows, figures |-> n.figures,
              loaded |-> n.loaded]
      /\ n.user = a.user /\ n.at = "load" /\ n.rows = a.rows /\ n.figures = Validated(raw, a.rows)
  BY <1>3 DEF AskOk
<1>5. raw \in SUBSET Figure
  BY ProviderAssumption
<1>6. n.rows # {} => Grounded(n.figures, n.rows)
  BY <1>4, <1>5, ValidatedGrounded
<1>7. AskOk(n)
  BY <1>3, <1>4, <1>6 DEF AskOk
<1>8. CacheOk'
  BY <1>1, Completed DEF QInv
<1> QED
  BY <1>2, <1>7, <1>8, OneAsk DEF QInv

LEMMA LoadOk ==
  ASSUME QInv, NEW r \in Asks, AskLoad(r)
  PROVE  QInv' /\ \A p \in Asks \ {r} : ask'[p] = ask[p]
<1> PICK a : a = ask[r]
  OBVIOUS
<1> PICK turns : turns = memory[a.user]
  OBVIOUS
<1>1. ask' = [ask EXCEPT ![r].loaded = turns, ![r].at = "store"] /\ cache' = cache
  BY DEF AskLoad
<1> PICK n : n = [a EXCEPT !.loaded = turns, !.at = "store"]
  OBVIOUS
<1>2. ask' = [ask EXCEPT ![r] = n]
  BY <1>1 DEF QInv, AsksOk
<1>3. AskOk(a) /\ a # Null /\ a.at = "load"
  BY DEF QInv, AsksOk, AskLoad, At
<1>4. /\ n = [at |-> n.at, user |-> n.user, role |-> n.role, question |-> n.question, turns |-> n.turns,
              evidence |-> n.evidence, sel |-> n.sel, rows |-> n.rows, figures |-> n.figures,
              loaded |-> n.loaded]
      /\ n.user = a.user /\ n.at = "store" /\ n.rows = a.rows /\ n.figures = a.figures
  BY <1>3 DEF AskOk
<1>5. AskOk(n)
  BY <1>3, <1>4 DEF AskOk
<1> QED
  BY <1>1, <1>2, <1>5, OneAsk DEF QInv, CacheOk

LEMMA EndOk ==
  ASSUME QInv, NEW r \in Asks, AskStore(r) \/ AskFails(r)
  PROVE  QInv' /\ \A p \in Asks \ {r} : ask'[p] = ask[p]
<1>1. ask' = [ask EXCEPT ![r] = Null] /\ cache' = cache /\ AskOk(Null)
  BY DEF AskStore, AskFails, AskOk
<1> QED
  BY <1>1, OneAsk DEF QInv, CacheOk

\* Every other step leaves the questions alone, and the cache or all of it but what expires.
LEMMA OtherOk ==
  ASSUME QInv, ask' = ask, cache' \subseteq cache
  PROVE  QInv'
BY DEF QInv, AsksOk, AskOk, CacheOk

LEMMA Step ==
  ASSUME QInv, [CopilotNext]_copilotVars
  PROVE  /\ QInv'
         /\ \A r \in Asks : ask'[r] # ask[r] =>
              AskStep(r) \/ \E u \in Users, q \in Questions : AskStart(r, u, q)
<1>1. CASE \E r \in Asks : AskStep(r)
  BY <1>1, IntentOk, QueryOk, NarrateOk, LoadOk, EndOk DEF AskStep
<1>2. CASE \E r \in Asks, u \in Users, q \in Questions : AskStart(r, u, q)
  BY <1>2, StartOk
<1>3. ASSUME ask' = ask, cache' \subseteq cache
      PROVE  /\ QInv'
             /\ \A r \in Asks : ask'[r] # ask[r] =>
                  AskStep(r) \/ \E u \in Users, q \in Questions : AskStart(r, u, q)
  BY <1>3, OtherOk
<1>4. CASE (Next /\ UNCHANGED copilot) \/ UNCHANGED copilotVars
  BY <1>3, <1>4 DEF copilot, copilotVars
<1>5. CASE \E u \in Users : ExpireMemory(u) \/ \E d \in Documents : IndexDocument(u, d)
  BY <1>3, <1>5 DEF ExpireMemory, IndexDocument
<1>6. CASE \E e \in cache : ExpireCached(e)
  BY <1>3, <1>6 DEF ExpireCached
<1> QED
  BY <1>1, <1>2, <1>4, <1>5, <1>6 DEF CopilotNext

LEMMA InitOk == CopilotInit => QInv
BY DEF CopilotInit, QInv, AsksOk, AskOk, CacheOk

\* The whole figures that an answer with rows has in digits are in the rows or their codes, or are
\* their number, whatever else the provider writes and whatever was cached for other questions.
THEOREM AlwaysGrounded == CopilotSpec => []DigitsGrounded
<1>1. QInv => DigitsGrounded
  BY DEF QInv, AsksOk, AskOk, Grounded, DigitsGrounded
<1>2. QInv /\ [CopilotNext]_copilotVars => QInv'
  BY Step
<1> QED
  BY <1>1, <1>2, InitOk, PTL DEF CopilotSpec

-----------------------------------------------------------------------------
(* The figures a query counts.                                               *)

CountMetrics == {"student_count", "assessed_student_count", "risk_tier_count", "students_with_risk_type"}

\* A finite set has a subset of each smaller size.
LEMMA SomeSubset ==
  ASSUME NEW S, IsFiniteSet(S), NEW n \in Nat, n <= Cardinality(S)
  PROVE  kSubset(n, S) # {}
<1>1. Cardinality(S) \in Nat /\ ExistsBijection(1 .. Cardinality(S), S)
  BY FS_CardinalityType
<1>2. PICK f : f \in Bijection(1 .. Cardinality(S), S)
  BY <1>1 DEF ExistsBijection
<1>3. /\ f \in [1 .. Cardinality(S) -> S]
      /\ \A i, j \in 1 .. Cardinality(S) : f[i] = f[j] => i = j
  BY <1>2 DEF Bijection, Injection, IsInjective
<1> PICK R : R = {f[i] : i \in 1 .. n}
  OBVIOUS
<1> PICK g : g = [i \in 1 .. n |-> f[i]]
  OBVIOUS
<1>4. 1 .. n \subseteq 1 .. Cardinality(S)
  BY <1>1
<1>5. g \in [1 .. n -> R]
  OBVIOUS
<1>6. \A i, j \in 1 .. n : g[i] = g[j] => i = j
  BY <1>3, <1>4
<1>7. \A y \in R : \E i \in 1 .. n : g[i] = y
  OBVIOUS
<1>8. g \in Bijection(1 .. n, R)
  BY <1>5, <1>6, <1>7 DEF Bijection, Injection, IsInjective, Surjection
<1>9. IsFiniteSet(1 .. n) /\ Cardinality(1 .. n) = n
  BY FS_Interval
<1>10. Cardinality(R) = n
  BY <1>8, <1>9, FS_Bijection DEF ExistsBijection
<1>11. R \in SUBSET S
  BY <1>3, <1>4
<1> QED
  BY <1>10, <1>11 DEF kSubset

\* ORDER BY and LIMIT invent no row.
LEMMA FirstRowsFrom ==
  ASSUME NEW rows, IsFiniteSet(rows), NEW n \in Nat
  PROVE  FirstRows(rows, n) \subseteq rows
<1>1. CASE Cardinality(rows) <= n
  BY <1>1 DEF FirstRows
<1>2. CASE ~(Cardinality(rows) <= n)
  <2>1. Cardinality(rows) \in Nat
    BY FS_CardinalityType
  <2>2. kSubset(n, rows) # {}
    BY <1>2, <2>1, SomeSubset
  <2>3. FirstRows(rows, n) \in kSubset(n, rows)
    BY <1>2, <2>2 DEF FirstRows
  <2> QED
    BY <2>3 DEF kSubset
<1> QED
  BY <1>1, <1>2

\* What a count ranges over is about the visible students, and finite.
LEMMA FactsOfVisible ==
  ASSUME AssessmentTyped, NEW ids \in SUBSET Students, NEW m \in CountMetrics
  PROVE  /\ Facts(m, ids) \subseteq ids \X (DOMAIN TypeOf \cup {Null})
         /\ IsFiniteSet(ids \X (DOMAIN TypeOf \cup {Null}))
<1>1. Assessed(ids) \subseteq ids
  BY DEF Assessed
<1>2. \A s \in Assessed(ids) : assessment[s].findings \subseteq DOMAIN TypeOf
  <2> SUFFICES ASSUME NEW s \in Assessed(ids) PROVE assessment[s].findings \subseteq DOMAIN TypeOf
    OBVIOUS
  <2>1. assessment[s] \in Assessments
    BY <1>1 DEF Assessed, AssessmentTyped
  <2> QED
    BY <2>1, AssessmentsAssumption
<1>3. Facts(m, ids) \subseteq ids \X (DOMAIN TypeOf \cup {Null})
  <2>1. CASE m = "student_count"
    BY <2>1 DEF Facts
  <2>2. CASE m = "students_with_risk_type"
    <3>1. Facts(m, ids) = UNION {{<<s, c>> : c \in assessment[s].findings} : s \in Assessed(ids)}
      BY <2>2 DEF Facts
    <3>2. \A s \in Assessed(ids), c \in DOMAIN TypeOf : <<s, c>> \in ids \X (DOMAIN TypeOf \cup {Null})
      BY <1>1
    <3> QED
      BY <1>2, <3>1, <3>2
  <2>3. CASE m \in {"assessed_student_count", "risk_tier_count"}
    BY <1>1, <2>3 DEF Facts
  <2> QED
    BY <2>1, <2>2, <2>3 DEF CountMetrics
<1>4. IsFiniteSet(ids)
  BY StudentsAssumption, FS_Subset
<1>5. IsFiniteSet(DOMAIN TypeOf \cup {Null})
  <2> DEFINE attendance == ({} \cup {"ATTENDANCE_BELOW_THRESHOLD"}) \cup {"ATTENDANCE_DECLINING"}
             academic == (attendance \cup {"ACADEMIC_FAILING_INTERNALS"}) \cup {"ACADEMIC_DECLINE"}
             all == academic \cup {"FEE_OVERDUE"}
  <2>1. DOMAIN TypeOf = all
    BY DEF TypeOf
  <2>2. IsFiniteSet({} \cup {"ATTENDANCE_BELOW_THRESHOLD"})
    BY FS_EmptySet, FS_AddElement
  <2>3. IsFiniteSet(attendance)
    BY <2>2, FS_AddElement
  <2>4. IsFiniteSet(attendance \cup {"ACADEMIC_FAILING_INTERNALS"})
    BY <2>3, FS_AddElement
  <2>5. IsFiniteSet(academic)
    BY <2>4, FS_AddElement
  <2>6. IsFiniteSet(all)
    BY <2>5, FS_AddElement
  <2> HIDE DEF all
  <2> QED
    BY <2>1, <2>6, FS_AddElement
<1> QED
  BY <1>3, <1>4, <1>5, FS_Product

LEMMA ValueBounded ==
  ASSUME NEW ids, IsFiniteSet(ids), NEW T, NEW m \in CountMetrics, NEW F \in SUBSET (ids \X T)
  PROVE  Value(m, F) <= 100 * Cardinality(ids)
<1> PICK who : who = {x[1] : x \in F}
  OBVIOUS
<1>1. who \in SUBSET ids
  OBVIOUS
<1>2. /\ IsFiniteSet(who) /\ Cardinality(who) <= Cardinality(ids)
      /\ Cardinality(who) \in Nat /\ Cardinality(ids) \in Nat
  BY <1>1, FS_Subset, FS_CardinalityType
<1>3. Value(m, F) = 100 * Cardinality(who)
  BY DEF Value, CountMetrics
<1> QED
  BY <1>2, <1>3

\* No figure of a counting query exceeds the number of students it is restricted to.
LEMMA RowsBounded ==
  ASSUME AssessmentTyped, NEW ids \in SUBSET Students, NEW sel, sel.metric \in CountMetrics,
         sel.limit \in Int, sel.limit >= 1, NEW x \in Rows(ids, sel)
  PROVE  x.value <= 100 * Cardinality(ids)
<1> PICK m : m = sel.metric
  OBVIOUS
<1> PICK dims : dims = ToSet(sel.dimensions) \cup
                  (CASE m = "risk_tier_count" -> {"tier"}
                     [] m = "students_with_risk_type" -> {"risk_type"}
                     [] OTHER -> {})
  OBVIOUS
<1> PICK F : F = {y \in Facts(m, ids) : \A d \in DOMAIN sel.filters : Column(d, y) = sel.filters[d]}
  OBVIOUS
<1> PICK T : T = DOMAIN TypeOf \cup {Null}
  OBVIOUS
<1> PICK n : n = Min({sel.limit, 500})
  OBVIOUS
<1>1. Rows(ids, sel) =
        IF dims # {} THEN FirstRows(Grouped(m, dims, F), n)
        ELSE {[labels |-> <<>>,
               value |-> IF m = "student_count" THEN UngroupedStudentCount(ids, sel.filters)
                         ELSE Value(m, F)]}
  BY DEF Rows
<1>2. F \in SUBSET (ids \X T) /\ IsFiniteSet(F) /\ IsFiniteSet(ids) /\ Cardinality(ids) \in Nat
  <2>1. Facts(m, ids) \subseteq ids \X T /\ IsFiniteSet(ids \X T)
    BY FactsOfVisible
  <2>2. F \in SUBSET (ids \X T)
    BY <2>1
  <2> QED
    BY <2>1, <2>2, FS_Subset, FS_CardinalityType, StudentsAssumption
<1>3. CASE dims # {}
  <2> PICK rows : rows = Grouped(m, dims, F)
    OBVIOUS
  <2> PICK row : row = [y \in F |->
        [labels |-> [d \in dims |-> Label(d, y)],
         value |-> Value(m, {z \in F : \A d \in dims : Label(d, z) = Label(d, y)})]]
    OBVIOUS
  <2>1. (\A y \in F : row[y] \in rows) /\ (\A z \in rows : \E y \in F : row[y] = z)
    BY ZenonT(60) DEF Grouped
  <2>2. row \in Surjection(F, rows)
    BY <2>1, ZenonT(30) DEF Surjection
  <2>3. IsFiniteSet(rows)
    BY <1>2, <2>2, FS_Surjection
  <2>4. n \in Nat
    <3>1. \E w \in {sel.limit, 500} : \A y \in {sel.limit, 500} : w <= y
      OBVIOUS
    <3>2. n \in {sel.limit, 500}
      BY <3>1 DEF Min
    <3> QED
      BY <3>2
  <2>5. x \in rows
    <3>1. x \in FirstRows(rows, n)
      BY <1>1, <1>3
    <3>2. FirstRows(rows, n) \subseteq rows
      BY ONLY <2>3, <2>4, FirstRowsFrom
    <3> QED
      BY <3>1, <3>2, ZenonT(60)
  <2>6. PICK y \in F : x = row[y]
    <3>1. \E y \in F : row[y] = x
      BY ONLY <2>1, <2>5, ZenonT(30)
    <3> QED
      BY <3>1
  <2>7. x.value = Value(m, {z \in F : \A d \in dims : Label(d, z) = Label(d, y)})
    BY <2>6
  <2>8. {z \in F : \A d \in dims : Label(d, z) = Label(d, y)} \in SUBSET (ids \X T)
    BY <1>2
  <2> QED
    BY <1>2, <2>7, <2>8, ValueBounded, SMTT(30)
<1>4. CASE dims = {}
  <2>1. x.value = IF m = "student_count" THEN UngroupedStudentCount(ids, sel.filters) ELSE Value(m, F)
    BY <1>1, <1>4
  <2>2. UngroupedStudentCount(ids, sel.filters) \in {0, 100 * Cardinality(ids)}
    BY DEF UngroupedStudentCount
  <2>3. UngroupedStudentCount(ids, sel.filters) <= 100 * Cardinality(ids)
    BY <1>2, <2>2
  <2>4. Value(m, F) <= 100 * Cardinality(ids)
    BY <1>2, ValueBounded
  <2> QED
    BY <2>1, <2>3, <2>4
<1> QED
  BY <1>3, <1>4

\* The students a query is restricted to are those the asker reaches, counted from the other side.
LEMMA ReachedIsVisible ==
  ASSUME ScopesTyped, NEW u \in Users, NEW r \in Privileged \cup {"faculty"}
  PROVE  VisibleIds(r, u) = Reached(r, u) /\ VisibleIds(r, u) \in SUBSET Students
<1>1. CASE r \in Privileged
  BY <1>1 DEF VisibleIds, Reached
<1>2. CASE r = "faculty" /\ r \notin Privileged
  <2>1. VisibleIds(r, u) \subseteq Students
    BY <1>2 DEF VisibleIds, StudentsForScope
  <2>2. \A s \in Students : u \in FacultyFor(s) <=> s \in VisibleIds(r, u)
    BY <1>2, ScopingAgrees
  <2>3. Reached(r, u) = {s \in Students : u \in FacultyFor(s)}
    BY <1>2 DEF Reached
  <2> QED
    BY <2>1, <2>2, <2>3
<1> QED
  BY <1>1, <1>2

LEMMA ExecuteBounded ==
  ASSUME ScopesTyped, AssessmentTyped, NEW u \in Users, NEW role_, NEW sel,
         sel.metric \in CountMetrics, sel.limit \in Int, Execute(role_, u, sel).ok,
         NEW x \in Execute(role_, u, sel).rows
  PROVE  x.value <= 100 * Cardinality(Reached(role_, u))
<1>1. Valid(role_, sel)
  BY DEF Execute
<1>2. role_ \in Privileged \cup {"faculty"} /\ sel.limit >= 1
  BY <1>1 DEF Valid
<1>3. VisibleIds(role_, u) # {} /\ x \in Rows(VisibleIds(role_, u), sel)
  BY <1>1 DEF Execute
<1>4. VisibleIds(role_, u) = Reached(role_, u) /\ VisibleIds(role_, u) \in SUBSET Students
  BY <1>2, ReachedIsVisible
<1> QED
  BY <1>2, <1>3, <1>4, RowsBounded

\* No count in an answer exceeds the number of students its asker reaches when the query runs,
\* whatever selection was cached for somebody else and whatever scopes were given or taken since.
THEOREM AlwaysWithinRights == CopilotSpec => CountsWithinRights
<1>1. ASSUME QInv, IInv, [CopilotNext]_copilotVars, NEW r \in Asks, At(r, "query"), ask'[r] # Null,
             ask[r].sel.metric \in CountMetrics, NEW x \in ask'[r].rows
      PROVE  x.value <= 100 * Cardinality(Reached(ask[r].role, ask[r].user))
  <2> PICK a : a = ask[r]
    OBVIOUS
  <2>1. /\ AskOk(a) /\ a # Null /\ a.at = "query" /\ a.rows = {} /\ a.user \in Users
        /\ a.sel.limit \in Int
    BY <1>1 DEF QInv, AsksOk, AskOk, At
  <2>2. ask'[r] # ask[r]
    BY <1>1, <2>1
  <2>3. AskQuery(r)
    <3>1. AskStep(r) \/ \E u \in Users, q \in Questions : AskStart(r, u, q)
      BY <1>1, <2>2, Step
    <3>2. \A u \in Users, q \in Questions : ~AskStart(r, u, q)
      BY <2>1 DEF AskStart
    <3>3. ~AskIntent(r) /\ ~AskNarrate(r) /\ ~AskLoad(r) /\ ~AskStore(r)
      BY <2>1 DEF AskIntent, AskNarrate, AskLoad, AskStore, At
    <3>4. ~AskFails(r)
      BY <1>1 DEF AskFails, QInv, AsksOk
    <3> QED
      BY <3>1, <3>2, <3>3, <3>4 DEF AskStep
  <2> PICK result : result = Execute(a.role, a.user, a.sel)
    OBVIOUS
  <2>4. ask' = IF result.ok THEN [ask EXCEPT ![r].rows = result.rows, ![r].at = "narrate"]
               ELSE [ask EXCEPT ![r] = Null]
    BY <2>3 DEF AskQuery
  <2>5. result.ok
    BY <1>1, <2>4 DEF QInv, AsksOk
  <2>6. ask'[r].rows = result.rows
    <3>1. a = [at |-> a.at, user |-> a.user, role |-> a.role, question |-> a.question, turns |-> a.turns,
               evidence |-> a.evidence, sel |-> a.sel, rows |-> a.rows, figures |-> a.figures,
               loaded |-> a.loaded]
      BY <2>1 DEF AskOk
    <3>2. ask'[r] = [a EXCEPT !.rows = result.rows, !.at = "narrate"]
      BY <1>1, <2>4, <2>5 DEF QInv, AsksOk
    <3> QED
      BY <3>1, <3>2
  <2>7. ScopesTyped /\ AssessmentTyped
    BY <1>1 DEF IInv
  <2> QED
    BY <1>1, <2>1, <2>5, <2>6, <2>7, ExecuteBounded
<1>2. QInv /\ IInv /\ [CopilotNext]_copilotVars =>
        [\A r \in Asks : At(r, "query") /\ ask'[r] # Null =>
           (ask[r].sel.metric \in {"student_count", "assessed_student_count", "risk_tier_count",
                                   "students_with_risk_type"}
            => \A x \in ask'[r].rows :
                 x.value <= 100 * Cardinality(Reached(ask[r].role, ask[r].user)))]_copilotVars
  BY <1>1 DEF CountMetrics
<1>3. QInv /\ [CopilotNext]_copilotVars => QInv'
  BY Step
<1>4. IInv /\ [CopilotNext]_copilotVars => IInv'
  BY StaffStep, NextInv
<1>5. CopilotInit => IInv
  BY InitInv DEF CopilotInit
<1> QED
  BY <1>2, <1>3, <1>4, <1>5, InitOk, PTL DEF CopilotSpec, CountsWithinRights

\* An escalation reaches the staff who may read the student also while questions are in progress.
THEOREM EscalationsReachAmongQuestions == CopilotSpec => EscalationsReachViewers
BY QuestionsOnlyRead, EscalationsAlwaysReach, PTL
-----------------------------------------------------------------------------
(* The memory of a session.                                                  *)

\* The setting is even, as its default is: an odd one would cut a question from its answer.
EvenTurns == MaxTurns % 2 = 0

IsSeq(s) == s \in Seq({s[i] : i \in 1 .. Len(s)})

\* What is kept of a session, and what each append that is under way has loaded of it.
StoredOk(u) ==
  /\ IsSeq(memory[u]) /\ IsSeq(log[u]) /\ Len(log[u]) % 2 = 0
  /\ Len(memory[u]) <= MaxTurns /\ SomeQuestionsOf(memory[u], log[u])
  /\ u \notin disturbed => memory[u] = LastTurns(log[u], MaxTurns)
LoadedOk(r) ==
  LET u == ask[r].user
  IN  At(r, "store") =>
        /\ IsSeq(ask[r].loaded) /\ SomeQuestionsOf(ask[r].loaded, log[u])
        /\ u \notin disturbed => ask[r].loaded = memory[u] /\ Appending(u) = {r}
MInv ==
  /\ memory = [u \in Users |-> memory[u]] /\ log = [u \in Users |-> log[u]]
  /\ \A u \in Users : StoredOk(u)
  /\ \A r \in Asks : LoadedOk(r)

\* Whatever set its elements are in.
LEMMA TypedSeq == ASSUME NEW S, NEW s \in Seq(S) PROVE IsSeq(s)
<1> PICK T : T = {s[i] : i \in 1 .. Len(s)}
  OBVIOUS
<1>1. Len(s) \in Nat /\ DOMAIN s = 1 .. Len(s)
  OBVIOUS
<1>2. s \in [1 .. Len(s) -> T]
  BY <1>1
<1>3. s \in Seq(T)
  BY <1>1, <1>2
<1> QED
  BY <1>3 DEF IsSeq

LEMMA SeqIs ==
  ASSUME NEW s, IsSeq(s)
  PROVE  \E S : /\ s \in Seq(S) /\ Len(s) \in Nat /\ DOMAIN s = 1 .. Len(s)
                /\ s = [i \in 1 .. Len(s) |-> s[i]]
<1> PICK S : S = {s[i] : i \in 1 .. Len(s)}
  OBVIOUS
<1>1. s \in Seq(S)
  BY DEF IsSeq
<1> QED
  BY <1>1

\* t is s without its first d elements.
IsTail(t, s, d) ==
  /\ IsSeq(t) /\ d \in 0 .. Len(s) /\ Len(t) = Len(s) - d
  /\ \A i \in 1 .. Len(t) : t[i] = s[d + i]
Cut(s, n) == IF Len(s) > n THEN Len(s) - n ELSE 0

LEMMA LastTurnsTail ==
  ASSUME NEW s, IsSeq(s), NEW n \in Nat \ {0} PROVE IsTail(LastTurns(s, n), s, Cut(s, n))
<1> PICK S : s \in Seq(S)
  BY SeqIs
<1> PICK d : d = Cut(s, n)
  OBVIOUS
<1>1. Len(s) \in Nat /\ d \in 0 .. Len(s) /\ ((d = 0 /\ Len(s) <= n) \/ d = Len(s) - n)
  BY DEF Cut
<1>2. Max({1, Len(s) - n + 1}) = d + 1
  <2>1. d + 1 \in {1, Len(s) - n + 1} /\ \A y \in {1, Len(s) - n + 1} : d + 1 >= y
    BY <1>1
  <2>2. \A x \in {1, Len(s) - n + 1} : (\A y \in {1, Len(s) - n + 1} : x >= y) => x = d + 1
    BY <1>1, <2>1
  <2> QED
    BY <2>1, <2>2 DEF Max
<1> PICK t : t = SubSeq(s, d + 1, Len(s))
  OBVIOUS
<1>3. LastTurns(s, n) = t
  BY <1>2 DEF LastTurns
<1>4. t \in Seq(S) /\ Len(t) = Len(s) - d /\ \A i \in 1 .. Len(s) - d : t[i] = s[d + i]
  BY <1>1, SMTT(30)
<1>5. IsSeq(t)
  BY <1>4, TypedSeq
<1> QED
  BY <1>1, <1>3, <1>4, <1>5 DEF IsTail

\* t is s with two more.
TwoMore(t, s, a, b) ==
  /\ IsSeq(t) /\ Len(t) = Len(s) + 2
  /\ \A i \in 1 .. Len(s) : t[i] = s[i]
  /\ t[Len(s) + 1] = a /\ t[Len(s) + 2] = b

LEMMA AppendIs == ASSUME NEW s, IsSeq(s), NEW a, NEW b PROVE TwoMore(s \o <<a, b>>, s, a, b)
<1> PICK t : t = s \o <<a, b>>
  OBVIOUS
<1> PICK S : s \in Seq(S)
  BY SeqIs
<1> PICK T : T = S \cup {a, b}
  OBVIOUS
<1>0. Len(s) \in Nat /\ s \in [1 .. Len(s) -> S]
  OBVIOUS
<1>1. s \in Seq(T) /\ <<a, b>> \in Seq(T)
  <2>1. s \in [1 .. Len(s) -> T]
    BY <1>0
  <2> QED
    BY <1>0, <2>1
<1>2. /\ t \in Seq(T) /\ Len(t) = Len(s) + 2
      /\ \A i \in 1 .. Len(s) : t[i] = s[i]
      /\ t[Len(s) + 1] = a /\ t[Len(s) + 2] = b
  BY <1>1
<1>3. IsSeq(t)
  BY <1>2, TypedSeq
<1> QED
  BY <1>2, <1>3 DEF TwoMore

LEMMA AppendTail ==
  ASSUME NEW s, NEW t, NEW d, IsSeq(s), IsTail(t, s, d), NEW a, NEW b
  PROVE  IsTail(t \o <<a, b>>, s \o <<a, b>>, d)
<1>sa. PICK sa : sa = s \o <<a, b>>
  OBVIOUS
<1>ta. PICK ta : ta = t \o <<a, b>>
  OBVIOUS
<1> PICK l : l = Len(s)
  OBVIOUS
<1> PICK k : k = Len(t)
  OBVIOUS
<1>1. l \in Nat /\ k \in Nat /\ d \in Nat /\ l = k + d /\ IsSeq(t) /\ \A i \in 1 .. k : t[i] = s[d + i]
  BY SeqIs DEF IsTail
<1>2. /\ Len(sa) = l + 2 /\ \A i \in 1 .. l : sa[i] = s[i]
      /\ sa[l + 1] = a /\ sa[l + 2] = b
  <2>1. TwoMore(sa, s, a, b)
    BY <1>sa, AppendIs
  <2> QED
    BY <2>1 DEF TwoMore
<1>3. /\ IsSeq(ta) /\ Len(ta) = k + 2 /\ \A i \in 1 .. k : ta[i] = t[i]
      /\ ta[k + 1] = a /\ ta[k + 2] = b
  <2>1. TwoMore(ta, t, a, b)
    BY <1>ta, <1>1, AppendIs
  <2> QED
    BY <2>1 DEF TwoMore
<1>4. ASSUME NEW i \in 1 .. k + 2 PROVE ta[i] = sa[d + i]
  <2>1. CASE i \in 1 .. k
    <3>1. d + i \in 1 .. l
      BY <1>1, <2>1
    <3> QED
      BY <1>1, <1>2, <1>3, <2>1, <3>1
  <2>2. CASE i = k + 1
    <3>1. d + i = l + 1
      BY <1>1, <2>2
    <3> QED
      BY <1>2, <1>3, <2>2, <3>1
  <2>3. CASE i = k + 2
    <3>1. d + i = l + 2
      BY <1>1, <2>3
    <3> QED
      BY <1>2, <1>3, <2>3, <3>1
  <2>4. i \in 1 .. k \/ i = k + 1 \/ i = k + 2
    BY <1>1
  <2> QED
    BY <2>1, <2>2, <2>3, <2>4
<1>5. IsTail(ta, sa, d)
  BY <1>1, <1>2, <1>3, <1>4 DEF IsTail
<1> QED
  BY <1>sa, <1>ta, <1>5

LEMMA TailTail ==
  ASSUME NEW x, NEW y, NEW z, NEW d, NEW e, IsTail(x, y, e), IsTail(y, z, d), IsSeq(z)
  PROVE  IsTail(x, z, d + e)
<1> PICK l : l = Len(z)
  OBVIOUS
<1>1. /\ l \in Nat /\ d \in 0 .. l /\ Len(y) = l - d /\ e \in 0 .. (l - d) /\ Len(x) = l - d - e
      /\ IsSeq(x) /\ \A i \in 1 .. l - d : y[i] = z[d + i]
      /\ \A i \in 1 .. l - d - e : x[i] = y[e + i]
  BY SeqIs DEF IsTail
<1>2. ASSUME NEW i \in 1 .. l - d - e PROVE x[i] = z[d + e + i]
  <2>1. e + i \in 1 .. l - d /\ d + (e + i) = d + e + i
    BY <1>1
  <2> QED
    BY <1>1, <2>1
<1>3. d + e \in 0 .. l /\ l - d - e = l - (d + e)
  BY <1>1
<1> QED
  BY <1>1, <1>2, <1>3 DEF IsTail

LEMMA SameTail ==
  ASSUME NEW x, NEW y, NEW z, NEW d, IsTail(x, z, d), IsTail(y, z, d) PROVE x = y
<1>1. IsSeq(x) /\ IsSeq(y) /\ Len(x) = Len(y) /\ \A i \in 1 .. Len(x) : x[i] = y[i]
  BY DEF IsTail
<1>2. /\ x = [i \in 1 .. Len(x) |-> x[i]]
      /\ y = [i \in 1 .. Len(y) |-> y[i]]
  BY <1>1, SeqIs
<1> QED
  BY <1>1, <1>2

\* Cut or not before an append, the last turns are the same after it.
LEMMA TailOfTail ==
  ASSUME NEW s, IsSeq(s), NEW n \in Nat \ {0}, NEW a, NEW b
  PROVE  LastTurns(LastTurns(s, n) \o <<a, b>>, n) = LastTurns(s \o <<a, b>>, n)
<1>t. PICK t : t = LastTurns(s, n)
  OBVIOUS
<1>ta. PICK ta : ta = t \o <<a, b>>
  OBVIOUS
<1>sa. PICK sa : sa = s \o <<a, b>>
  OBVIOUS
<1>1. IsTail(t, s, Cut(s, n))
  BY <1>t, LastTurnsTail
<1>2. TwoMore(sa, s, a, b) /\ TwoMore(ta, t, a, b) /\ IsTail(ta, sa, Cut(s, n))
  <2>1. IsSeq(t)
    BY <1>1 DEF IsTail
  <2> QED
    BY <1>sa, <1>ta, <1>1, <2>1, AppendTail, AppendIs
<1>3. IsTail(LastTurns(ta, n), ta, Cut(ta, n)) /\ IsTail(LastTurns(sa, n), sa, Cut(sa, n)) /\ IsSeq(sa)
  BY <1>2, LastTurnsTail DEF TwoMore
<1>4. IsTail(LastTurns(ta, n), sa, Cut(s, n) + Cut(ta, n))
  BY <1>2, <1>3, TailTail
<1>5. Cut(s, n) + Cut(ta, n) = Cut(sa, n)
  <2> PICK l \in Nat : l = Len(s)
    BY SeqIs
  <2>1. Len(sa) = l + 2 /\ Len(ta) = l - Cut(s, n) + 2
    BY <1>1, <1>2 DEF TwoMore, IsTail
  <2>2. CASE l > n
    BY <2>1, <2>2 DEF Cut
  <2>3. CASE ~(l > n)
    BY <2>1, <2>3 DEF Cut
  <2> QED
    BY <2>2, <2>3
<1>6. LastTurns(ta, n) = LastTurns(sa, n)
  BY <1>3, <1>4, <1>5, SameTail
<1> QED
  BY <1>t, <1>sa, <1>ta, <1>6

-----------------------------------------------------------------------------
(* What is some of the questions stays it.                                   *)

LEMMA Halves == ASSUME NEW p \in Nat, NEW n, n = 2 * p PROVE n % 2 = 0 /\ n \div 2 = p
OBVIOUS
LEMMA Half == ASSUME NEW n \in Nat, n % 2 = 0 PROVE n \div 2 \in Nat /\ n = 2 * (n \div 2)
OBVIOUS

\* Which p of the q questions of told m is.
Chosen(kept, p, q, m, told) ==
  /\ kept \in [1 .. p -> 1 .. q]
  /\ \A i \in 1 .. p :
       /\ m[2 * i - 1] = told[2 * kept[i] - 1] /\ m[2 * i] = told[2 * kept[i]]
       /\ \A j \in 1 .. p : i < j => kept[i] < kept[j]

LEMMA Choose ==
  ASSUME NEW m, NEW told, NEW p \in Nat, NEW q \in Nat, Len(m) = 2 * p, Len(told) = 2 * q
  PROVE  SomeQuestionsOf(m, told) <=> \E kept : Chosen(kept, p, q, m, told)
<1>1. Len(m) % 2 = 0 /\ Len(m) \div 2 = p /\ Len(told) \div 2 = q
  BY Halves
<1>2. \A kept \in [1 .. p -> 1 .. q] : DOMAIN kept = 1 .. p
  OBVIOUS
<1> QED
  BY <1>1, <1>2 DEF SomeQuestionsOf, Chosen

LEMMA ChosenTail ==
  ASSUME NEW p \in Nat, NEW q \in Nat, NEW e \in 0 .. p, NEW kept, NEW m, NEW told, NEW t,
         Chosen(kept, p, q, m, told), \A i \in 1 .. 2 * (p - e) : t[i] = m[2 * e + i]
  PROVE  Chosen([i \in 1 .. p - e |-> kept[e + i]], p - e, q, t, told)
<1> PICK left : left = [i \in 1 .. p - e |-> kept[e + i]]
  OBVIOUS
<1>1. \A i \in 1 .. p - e : e + i \in 1 .. p
  OBVIOUS
<1>2. left \in [1 .. p - e -> 1 .. q]
  BY <1>1 DEF Chosen
<1>3. ASSUME NEW i \in 1 .. p - e
      PROVE  /\ t[2 * i - 1] = told[2 * left[i] - 1] /\ t[2 * i] = told[2 * left[i]]
             /\ \A j \in 1 .. p - e : i < j => left[i] < left[j]
  <2>1. 2 * i - 1 \in 1 .. 2 * (p - e) /\ 2 * i \in 1 .. 2 * (p - e)
    OBVIOUS
  <2>2. 2 * e + (2 * i - 1) = 2 * (e + i) - 1 /\ 2 * e + 2 * i = 2 * (e + i)
    OBVIOUS
  <2>3. t[2 * i - 1] = m[2 * (e + i) - 1] /\ t[2 * i] = m[2 * (e + i)]
    BY <2>1, <2>2
  <2>4. \A j \in 1 .. p - e : i < j => e + i < e + j
    OBVIOUS
  <2>5. left[i] = kept[e + i] /\ \A j \in 1 .. p - e : left[j] = kept[e + j]
    OBVIOUS
  <2> QED
    BY <1>1, <2>3, <2>4, <2>5 DEF Chosen
<1> QED
  BY <1>2, <1>3 DEF Chosen

LEMMA ChosenMore ==
  ASSUME NEW p \in Nat, NEW q \in Nat, NEW kept, NEW m, NEW told, NEW more,
         Chosen(kept, p, q, m, told), \A i \in 1 .. 2 * q : more[i] = told[i]
  PROVE  Chosen(kept, p, q + 1, m, more)
<1>1. \A k \in 1 .. q : 2 * k - 1 \in 1 .. 2 * q /\ 2 * k \in 1 .. 2 * q
  OBVIOUS
<1>2. \A k \in 1 .. q : more[2 * k - 1] = told[2 * k - 1] /\ more[2 * k] = told[2 * k]
  BY <1>1
<1>3. \A i \in 1 .. p : kept[i] \in 1 .. q
  BY DEF Chosen
<1>4. kept \in [1 .. p -> 1 .. q + 1]
  BY DEF Chosen
<1> QED
  BY <1>2, <1>3, <1>4 DEF Chosen

LEMMA ChosenNext ==
  ASSUME NEW p \in Nat, NEW q \in Nat, NEW kept, NEW m, NEW told, NEW ma, NEW more,
         Chosen(kept, p, q, m, told), \A i \in 1 .. 2 * q : more[i] = told[i],
         \A i \in 1 .. 2 * p : ma[i] = m[i],
         ma[2 * p + 1] = more[2 * q + 1], ma[2 * p + 2] = more[2 * q + 2]
  PROVE  \E now : Chosen(now, p + 1, q + 1, ma, more)
<1> PICK now : now = [i \in 1 .. p + 1 |-> IF i = p + 1 THEN q + 1 ELSE kept[i]]
  OBVIOUS
<1>1. \A i \in 1 .. p : kept[i] \in 1 .. q
  BY DEF Chosen
<1>2. /\ now[p + 1] = q + 1 /\ \A i \in 1 .. p : now[i] = kept[i]
      /\ \A i \in 1 .. p + 1 : i \in 1 .. p \/ i = p + 1
  OBVIOUS
<1>3. now \in [1 .. p + 1 -> 1 .. q + 1]
  BY <1>1, <1>2
<1>4. ASSUME NEW i \in 1 .. p
      PROVE  /\ ma[2 * i - 1] = more[2 * now[i] - 1] /\ ma[2 * i] = more[2 * now[i]]
             /\ \A j \in 1 .. p + 1 : i < j => now[i] < now[j]
  <2>k. PICK k \in 1 .. q : k = kept[i] /\ k = now[i]
    BY <1>1, <1>2
  <2>1. 2 * i - 1 \in 1 .. 2 * p /\ 2 * i \in 1 .. 2 * p
    OBVIOUS
  <2>2. 2 * k - 1 \in 1 .. 2 * q /\ 2 * k \in 1 .. 2 * q
    OBVIOUS
  <2>3. ma[2 * i - 1] = more[2 * now[i] - 1] /\ ma[2 * i] = more[2 * now[i]]
    <3>1. m[2 * i - 1] = told[2 * k - 1] /\ m[2 * i] = told[2 * k]
      BY <2>k DEF Chosen
    <3> QED
      BY <2>k, <2>1, <2>2, <3>1
  <2>4. ASSUME NEW j \in 1 .. p + 1, i < j PROVE now[i] < now[j]
    <3>1. CASE j \in 1 .. p
      BY <1>2, <2>4, <3>1 DEF Chosen
    <3>2. CASE j = p + 1
      BY <2>k, <1>2, <3>2
    <3> QED
      BY <1>2, <3>1, <3>2
  <2> QED
    BY <2>3, <2>4
<1>5. /\ ma[2 * (p + 1) - 1] = more[2 * now[p + 1] - 1] /\ ma[2 * (p + 1)] = more[2 * now[p + 1]]
      /\ \A j \in 1 .. p + 1 : ~(p + 1 < j)
  <2>1. /\ 2 * (p + 1) - 1 = 2 * p + 1 /\ 2 * (p + 1) = 2 * p + 2
        /\ 2 * (q + 1) - 1 = 2 * q + 1 /\ 2 * (q + 1) = 2 * q + 2
    OBVIOUS
  <2>2. now[p + 1] = q + 1
    BY <1>2
  <2>3. \A j \in 1 .. p + 1 : ~(p + 1 < j)
    OBVIOUS
  <2> QED
    BY <2>1, <2>2, <2>3
<1>6. \A i \in 1 .. p + 1 :
        /\ ma[2 * i - 1] = more[2 * now[i] - 1] /\ ma[2 * i] = more[2 * now[i]]
        /\ \A j \in 1 .. p + 1 : i < j => now[i] < now[j]
  BY <1>2, <1>4, <1>5, ZenonT(30)
<1> QED
  BY <1>3, <1>6, ZenonT(30) DEF Chosen

\* The sequences halved.
LEMMA Halved ==
  ASSUME NEW s, IsSeq(s), Len(s) % 2 = 0 PROVE \E p \in Nat : Len(s) = 2 * p
BY SeqIs, Half

\* Cutting off whole questions.
LEMMA TailOfQuestions ==
  ASSUME NEW m, NEW t, NEW d, NEW told, IsSeq(m), IsSeq(told), Len(told) % 2 = 0,
         IsTail(t, m, d), d % 2 = 0, SomeQuestionsOf(m, told)
  PROVE  SomeQuestionsOf(t, told)
<1>1. Len(m) % 2 = 0
  BY DEF SomeQuestionsOf
<1> PICK p \in Nat : Len(m) = 2 * p
  BY <1>1, Halved
<1> PICK q \in Nat : Len(told) = 2 * q
  BY Halved
<1>2. d \in 0 .. 2 * p /\ Len(t) = 2 * p - d /\ \A i \in 1 .. Len(t) : t[i] = m[d + i]
  BY DEF IsTail
<1> PICK e \in 0 .. p : d = 2 * e
  BY <1>2, Half
<1>3. Len(t) = 2 * (p - e) /\ p - e \in Nat
  BY <1>2
<1>4. \A i \in 1 .. 2 * (p - e) : t[i] = m[2 * e + i]
  BY <1>2, <1>3
<1> PICK kept : Chosen(kept, p, q, m, told)
  BY Choose
<1>5. \E left : Chosen(left, p - e, q, t, told)
  BY <1>4, ChosenTail
<1> QED
  BY <1>3, <1>5, Choose

\* More is said, of which it is still some.
LEMMA QuestionsOfMore ==
  ASSUME NEW m, NEW told, IsSeq(m), IsSeq(told), Len(told) % 2 = 0, SomeQuestionsOf(m, told), NEW a, NEW b
  PROVE  SomeQuestionsOf(m, told \o <<a, b>>)
<1>more. PICK more : more = told \o <<a, b>>
  OBVIOUS
<1>1. Len(m) % 2 = 0
  BY DEF SomeQuestionsOf
<1> PICK p \in Nat : Len(m) = 2 * p
  BY <1>1, Halved
<1> PICK q \in Nat : Len(told) = 2 * q
  BY Halved
<1>2. Len(more) = 2 * (q + 1) /\ \A i \in 1 .. 2 * q : more[i] = told[i]
  <2>1. TwoMore(more, told, a, b)
    BY <1>more, AppendIs
  <2> QED
    BY <2>1 DEF TwoMore
<1> PICK kept : Chosen(kept, p, q, m, told)
  BY Choose
<1>3. Chosen(kept, p, q + 1, m, more)
  BY <1>2, ChosenMore
<1>4. SomeQuestionsOf(m, more)
  BY <1>2, <1>3, Choose
<1> QED
  BY <1>more, <1>4

\* The new question is appended to both.
LEMMA QuestionsAppended ==
  ASSUME NEW m, NEW told, IsSeq(m), IsSeq(told), Len(told) % 2 = 0, SomeQuestionsOf(m, told), NEW a, NEW b
  PROVE  SomeQuestionsOf(m \o <<a, b>>, told \o <<a, b>>)
<1>more. PICK more : more = told \o <<a, b>>
  OBVIOUS
<1>ma. PICK ma : ma = m \o <<a, b>>
  OBVIOUS
<1>1. Len(m) % 2 = 0
  BY DEF SomeQuestionsOf
<1> PICK p \in Nat : Len(m) = 2 * p
  BY <1>1, Halved
<1> PICK q \in Nat : Len(told) = 2 * q
  BY Halved
<1>2. /\ Len(more) = 2 * (q + 1) /\ \A i \in 1 .. 2 * q : more[i] = told[i]
      /\ more[2 * q + 1] = a /\ more[2 * q + 2] = b
  <2>1. TwoMore(more, told, a, b)
    BY <1>more, AppendIs
  <2> QED
    BY <2>1 DEF TwoMore
<1>3. /\ Len(ma) = 2 * (p + 1) /\ \A i \in 1 .. 2 * p : ma[i] = m[i]
      /\ ma[2 * p + 1] = a /\ ma[2 * p + 2] = b
  <2>1. TwoMore(ma, m, a, b)
    BY <1>ma, AppendIs
  <2> QED
    BY <2>1 DEF TwoMore
<1> PICK kept : Chosen(kept, p, q, m, told)
  BY Choose
<1>4. \E now : Chosen(now, p + 1, q + 1, ma, more)
  BY <1>2, <1>3, ChosenNext
<1>5. SomeQuestionsOf(ma, more)
  BY <1>2, <1>3, <1>4, Choose
<1> QED
  BY <1>more, <1>ma, <1>5

LEMMA EvenCut ==
  ASSUME NEW s, IsSeq(s), Len(s) % 2 = 0, NEW n \in Nat, n % 2 = 0
  PROVE  Cut(s, n) % 2 = 0
<1>1. PICK p \in Nat : Len(s) = 2 * p
  BY Halved
<1>2. PICK k \in Nat : n = 2 * k
  BY Half
<1>3. CASE p > k
  <2>1. PICK h \in Nat : h = p - k
    BY <1>3
  <2>2. Cut(s, n) = 2 * h
    BY <1>1, <1>2, <1>3, <2>1 DEF Cut
  <2>3. Cut(s, n) % 2 = 0
    BY ONLY <2>2, h \in Nat, Halves
  <2> QED
    BY <2>3
<1>4. CASE ~(p > k)
  <2>1. Cut(s, n) = 0
    BY <1>1, <1>2, <1>4 DEF Cut
  <2> QED
    BY <2>1
<1> QED
  BY <1>3, <1>4

-----------------------------------------------------------------------------
(* The steps that touch the memory.                                          *)

\* No append begins or goes on, though one may fail.
LEMMA QuietInv ==
  ASSUME MInv, UNCHANGED <<memory, log, disturbed>>,
         \A r \in Asks : ask'[r] = ask[r] \/ ask'[r] = Null \/ ask'[r].at # "store"
  PROVE  MInv'
<1>1. \A r \in Asks : At(r, "store")' => ask'[r] = ask[r] /\ At(r, "store")
  BY DEF At
<1>2. \A u \in Users : StoredOk(u)'
  BY DEF MInv, StoredOk
<1>3. ASSUME NEW r \in Asks, At(r, "store")' PROVE LoadedOk(r)'
  <2> PICK u : u = ask[r].user
    OBVIOUS
  <2>1. ask'[r] = ask[r] /\ At(r, "store") /\ LoadedOk(r)
    BY <1>1, <1>3 DEF MInv
  <2>2. u \notin disturbed => Appending(u) = {r}
    BY <2>1 DEF LoadedOk
  <2>3. Appending(u)' \subseteq Appending(u) /\ r \in Appending(u)'
    BY <1>1, <1>3, <2>1 DEF Appending
  <2>4. u \notin disturbed => Appending(u)' = {r}
    BY <2>2, <2>3
  <2> QED
    BY <2>1, <2>4 DEF LoadedOk
<1>4. \A r \in Asks : LoadedOk(r)'
  BY <1>3 DEF LoadedOk
<1> QED
  BY <1>2, <1>4 DEF MInv

\* Loading: what is loaded is the memory, and two appends at once are disturbed.
LEMMA LoadInv ==
  ASSUME QInv, MInv, NEW r \in Asks, AskLoad(r) PROVE MInv'
<1> PICK a : a = ask[r]
  OBVIOUS
<1> PICK u : u = a.user
  OBVIOUS
<1>1. a # Null /\ u \in Users /\ a.at = "load"
  BY DEF QInv, AsksOk, AskOk, AskLoad, At
<1>2. ask' = [ask EXCEPT ![r].loaded = memory[u], ![r].at = "store"] /\ UNCHANGED <<memory, log>>
  BY DEF AskLoad
<1>3. ask'[r].user = u /\ ask'[r].loaded = memory[u]
  <2> PICK n : n = [a EXCEPT !.loaded = memory[u], !.at = "store"]
    OBVIOUS
  <2>1. n.user = u /\ n.loaded = memory[u]
    BY <1>1 DEF QInv, AsksOk, AskOk
  <2>2. ask'[r] = n
    BY <1>2 DEF QInv, AsksOk
  <2> QED
    BY <2>1, <2>2
<1>4. \A p \in Asks \ {r} : ask'[p] = ask[p]
  BY LoadOk
<1>5. disturbed' = disturbed \cup (IF Appending(u) # {} THEN {u} ELSE {})
  BY DEF AskLoad, Overlap
<1>6. \A v \in Users : StoredOk(v)'
  BY <1>2, <1>5 DEF MInv, StoredOk
<1>7. LoadedOk(r)'
  <2>1. IsSeq(memory[u]) /\ SomeQuestionsOf(memory[u], log[u])
    BY <1>1 DEF MInv, StoredOk
  <2>2. ASSUME u \notin disturbed', At(r, "store")' PROVE Appending(u)' = {r}
    <3>1. Appending(u) = {}
      BY <1>5, <2>2
    <3>2. \A p \in Asks \ {r} : ~(At(p, "store")' /\ ask'[p].user = u)
      BY <1>4, <3>1 DEF Appending, At
    <3> QED
      BY <1>3, <2>2, <3>2 DEF Appending
  <2> QED
    BY <1>2, <1>3, <2>1, <2>2 DEF LoadedOk
<1>8. ASSUME NEW p \in Asks \ {r}, At(p, "store")' PROVE LoadedOk(p)'
  <2> PICK v : v = ask[p].user
    OBVIOUS
  <2>1. ask'[p] = ask[p] /\ At(p, "store") /\ LoadedOk(p)
    BY <1>4, <1>8 DEF MInv, At
  <2>2. CASE v = u
    <3>1. p \in Appending(u)
      BY <2>1, <2>2 DEF Appending
    <3>2. u \in disturbed'
      BY <1>5, <3>1
    <3> QED
      BY <1>2, <2>1, <2>2, <3>2 DEF LoadedOk
  <2>3. CASE v # u
    <3>1. Appending(v)' \subseteq Appending(v)
      BY <1>3, <1>4, <2>3 DEF Appending, At
    <3>2. p \in Appending(v)'
      BY <1>8, <2>1 DEF Appending
    <3>3. v \notin disturbed' => Appending(v) = {p} /\ ask[p].loaded = memory[v]
      BY <1>5, <2>1 DEF LoadedOk
    <3>4. v \notin disturbed' => Appending(v)' = {p}
      BY <3>1, <3>2, <3>3
    <3> QED
      BY <1>2, <2>1, <3>3, <3>4 DEF LoadedOk
  <2> QED
    BY <2>2, <2>3
<1>9. \A p \in Asks : LoadedOk(p)'
  BY <1>7, <1>8 DEF LoadedOk
<1> QED
  BY <1>2, <1>6, <1>9 DEF MInv

\* Storing: what was loaded, and then the question; nothing else was stored since, or it is disturbed.
LEMMA StoreInv ==
  ASSUME EvenTurns, QInv, MInv, NEW r \in Asks, AskStore(r) PROVE MInv'
<1> PICK u : u = ask[r].user
  OBVIOUS
<1> PICK m : m = ask[r].loaded
  OBVIOUS
<1> PICK l : l = log[u]
  OBVIOUS
<1>1. ask[r] # Null /\ u \in Users /\ At(r, "store")
  BY DEF QInv, AsksOk, AskOk, AskStore, At
<1>2. /\ IsSeq(m) /\ IsSeq(l) /\ Len(l) % 2 = 0 /\ SomeQuestionsOf(m, l) /\ Len(m) % 2 = 0
      /\ u \notin disturbed => m = LastTurns(l, MaxTurns) /\ Appending(u) = {r}
  <2>1. StoredOk(u) /\ LoadedOk(r)
    BY <1>1 DEF MInv
  <2>2. IsSeq(l) /\ Len(l) % 2 = 0 /\ (u \notin disturbed => memory[u] = LastTurns(l, MaxTurns))
    BY <2>1 DEF StoredOk
  <2>3. /\ IsSeq(m) /\ SomeQuestionsOf(m, l)
        /\ u \notin disturbed => m = memory[u] /\ Appending(u) = {r}
    BY <1>1, <2>1 DEF LoadedOk
  <2>4. Len(m) % 2 = 0
    BY <2>3 DEF SomeQuestionsOf
  <2> QED
    BY <2>2, <2>3, <2>4
<1>n. PICK x, y : NewTurns(r) = <<x, y>>
  BY DEF NewTurns
<1>ma. PICK ma : ma = m \o <<x, y>>
  OBVIOUS
<1>la. PICK la : la = l \o <<x, y>>
  OBVIOUS
<1>c. PICK c : c = LastTurns(ma, MaxTurns)
  OBVIOUS
<1>3. /\ \A v \in Users \ {u} : memory'[v] = memory[v] /\ log'[v] = log[v]
      /\ memory'[u] = c /\ log'[u] = la
      /\ memory' = [v \in Users |-> memory'[v]] /\ log' = [v \in Users |-> log'[v]]
      /\ disturbed' = disturbed
  BY <1>1, <1>n, <1>ma, <1>la, <1>c DEF AskStore, MInv
<1>4. ask'[r] = Null /\ \A p \in Asks \ {r} : ask'[p] = ask[p]
  BY DEF AskStore, QInv, AsksOk
<1>5. /\ IsSeq(ma) /\ IsSeq(la) /\ Len(ma) % 2 = 0 /\ Len(la) % 2 = 0
      /\ SomeQuestionsOf(ma, la)
  <2>1. TwoMore(ma, m, x, y) /\ TwoMore(la, l, x, y)
    BY <1>2, <1>ma, <1>la, AppendIs
  <2>2. SomeQuestionsOf(ma, la)
    BY <1>2, <1>ma, <1>la, QuestionsAppended
  <2>3. Len(la) = Len(l) + 2
    BY <2>1 DEF TwoMore
  <2>4. Len(la) % 2 = 0
    <3>1. PICK p \in Nat : Len(l) = 2 * p
      BY <1>2, Halved
    <3>2. Len(la) = 2 * (p + 1) /\ p + 1 \in Nat
      BY <2>3, <3>1
    <3> QED
      BY <3>2, Halves
  <2> QED
    BY <2>1, <2>2, <2>4 DEF TwoMore, SomeQuestionsOf
<1>6. MaxTurns \in Nat \ {0} /\ MaxTurns \in Nat /\ MaxTurns % 2 = 0
  BY TurnsAssumption DEF EvenTurns
<1>7. IsTail(c, ma, Cut(ma, MaxTurns)) /\ Cut(ma, MaxTurns) % 2 = 0
  BY <1>5, <1>6, <1>c, LastTurnsTail, EvenCut
<1>8. StoredOk(u)'
  <2>1. IsSeq(c) /\ SomeQuestionsOf(c, la)
    BY <1>5, <1>7, TailOfQuestions DEF IsTail
  <2>2. Len(c) <= MaxTurns
    <3>1. Len(ma) \in Nat /\ Len(c) = Len(ma) - Cut(ma, MaxTurns)
      BY <1>5, <1>7, SeqIs DEF IsTail
    <3> QED
      BY <1>6, <3>1 DEF Cut
  <2>3. u \notin disturbed => c = LastTurns(la, MaxTurns)
    BY <1>2, <1>6, <1>ma, <1>la, <1>c, TailOfTail
  <2> QED
    BY <1>3, <1>5, <2>1, <2>2, <2>3 DEF StoredOk
<1>9. \A v \in Users : StoredOk(v)'
  BY <1>3, <1>8 DEF MInv, StoredOk
<1>10. ASSUME NEW p \in Asks, At(p, "store")' PROVE LoadedOk(p)'
  <2> PICK v : v = ask[p].user
    OBVIOUS
  <2>1. p # r /\ ask'[p] = ask[p] /\ At(p, "store") /\ LoadedOk(p) /\ v \in Users
    BY <1>4, <1>10 DEF MInv, At, QInv, AsksOk, AskOk
  <2>2. CASE v = u
    <3>1. u \in disturbed
      BY <1>2, <2>1, <2>2 DEF Appending
    <3>2. IsSeq(ask[p].loaded) /\ SomeQuestionsOf(ask[p].loaded, la)
      <4>1. IsSeq(ask[p].loaded) /\ SomeQuestionsOf(ask[p].loaded, l)
        BY <2>1, <2>2 DEF LoadedOk
      <4> QED
        BY <1>2, <1>la, <4>1, QuestionsOfMore
    <3> QED
      BY <1>3, <2>1, <2>2, <3>1, <3>2 DEF LoadedOk
  <2>3. CASE v # u
    <3>1. Appending(v)' \subseteq Appending(v) /\ p \in Appending(v)'
      BY <1>4, <1>10, <2>1 DEF Appending, At
    <3>2. v \notin disturbed => Appending(v) = {p} /\ ask[p].loaded = memory[v]
      BY <2>1 DEF LoadedOk
    <3>3. v \notin disturbed => Appending(v)' = {p}
      BY <3>1, <3>2
    <3> QED
      BY <1>3, <2>1, <2>3, <3>2, <3>3 DEF LoadedOk
  <2> QED
    BY <2>2, <2>3
<1>11. \A p \in Asks : LoadedOk(p)'
  BY <1>10 DEF LoadedOk
<1> QED
  BY <1>3, <1>9, <1>11 DEF MInv

LEMMA EmptySome == ASSUME NEW told, IsSeq(told), Len(told) % 2 = 0 PROVE SomeQuestionsOf(<<>>, told)
<1> PICK none : none = <<>>
  OBVIOUS
<1>1. Len(none) = 2 * 0 /\ 0 \in Nat
  OBVIOUS
<1> PICK q \in Nat : Len(told) = 2 * q
  BY Halved
<1> PICK kept : kept = [i \in 1 .. 0 |-> 1]
  OBVIOUS
<1>2. 1 .. 0 = {}
  OBVIOUS
<1>3. Chosen(kept, 0, q, none, told)
  BY <1>2 DEF Chosen
<1> QED
  BY <1>1, <1>3, Choose

LEMMA EmptyTold ==
  ASSUME NEW none, none = <<>>
  PROVE  /\ IsSeq(none) /\ Len(none) = 0 /\ SomeQuestionsOf(none, none)
         /\ LastTurns(none, MaxTurns) = none
<1>1. IsSeq(none) /\ Len(none) = 0
  <2>1. none \in Seq({})
    OBVIOUS
  <2> QED
    BY <2>1, TypedSeq
<1>2. SomeQuestionsOf(none, none)
  BY <1>1, EmptySome
<1>3. LastTurns(none, MaxTurns) = none
  <2>1. IsTail(LastTurns(none, MaxTurns), none, Cut(none, MaxTurns))
    BY <1>1, TurnsAssumption, LastTurnsTail
  <2>2. Cut(none, MaxTurns) = 0
    BY <1>1, TurnsAssumption DEF Cut
  <2>3. IsTail(none, none, 0)
    BY <1>1 DEF IsTail
  <2> QED
    BY <2>1, <2>2, <2>3, SameTail
<1> QED
  BY <1>1, <1>2, <1>3

\* Expiring: the memory is empty, and so is what it is the end of, unless an append is under way.
LEMMA ExpireInv ==
  ASSUME MInv, NEW u \in Users, ExpireMemory(u) PROVE MInv'
<1>1. /\ memory' = [memory EXCEPT ![u] = <<>>] /\ ask' = ask
      /\ log' = IF Appending(u) = {} THEN [log EXCEPT ![u] = <<>>] ELSE log
      /\ disturbed' = disturbed \cup (IF Appending(u) # {} THEN {u} ELSE {})
  BY DEF ExpireMemory, Overlap
<1>2. /\ memory'[u] = <<>> /\ \A v \in Users \ {u} : memory'[v] = memory[v] /\ log'[v] = log[v]
      /\ memory' = [v \in Users |-> memory'[v]] /\ log' = [v \in Users |-> log'[v]]
      /\ log'[u] = IF Appending(u) = {} THEN <<>> ELSE log[u]
  BY <1>1 DEF MInv
<1>3. StoredOk(u)'
  <2>1. CASE Appending(u) = {}
    <3>0. PICK none : none = <<>>
      OBVIOUS
    <3>1. memory'[u] = none /\ log'[u] = none
      BY <1>2, <2>1, <3>0
    <3>2. /\ IsSeq(none) /\ Len(none) = 0 /\ SomeQuestionsOf(none, none)
          /\ LastTurns(none, MaxTurns) = none
      BY <3>0, EmptyTold
    <3>3. 0 % 2 = 0 /\ 0 <= MaxTurns
      BY TurnsAssumption
    <3> QED
      BY <3>1, <3>2, <3>3 DEF StoredOk
  <2>2. CASE Appending(u) # {}
    <3>1. log'[u] = log[u] /\ u \in disturbed'
      BY <1>1, <1>2, <2>2
    <3>2. IsSeq(log[u]) /\ Len(log[u]) % 2 = 0
      BY DEF MInv, StoredOk
    <3>3. PICK none : none = <<>>
      OBVIOUS
    <3>4. SomeQuestionsOf(none, log[u]) /\ IsSeq(none) /\ Len(none) = 0
      BY <3>2, <3>3, EmptySome, EmptyTold
    <3>5. memory'[u] = none /\ 0 <= MaxTurns
      BY <1>2, <3>3, TurnsAssumption
    <3> QED
      BY <3>1, <3>2, <3>4, <3>5 DEF StoredOk
  <2> QED
    BY <2>1, <2>2
<1>4. \A v \in Users : StoredOk(v)'
  BY <1>1, <1>2, <1>3 DEF MInv, StoredOk
<1>5. ASSUME NEW p \in Asks, At(p, "store")' PROVE LoadedOk(p)'
  <2> PICK v : v = ask[p].user
    OBVIOUS
  <2>1. ask'[p] = ask[p] /\ At(p, "store") /\ LoadedOk(p) /\ Appending(v)' = Appending(v) /\ p \in Appending(v)
    BY <1>1, <1>5 DEF MInv, At, Appending
  <2>2. v = u => log'[v] = log[v] /\ v \in disturbed'
    BY <1>1, <1>2, <2>1
  <2>3. v # u => log'[v] = log[v] /\ memory'[v] = memory[v]
    BY <1>1 DEF MInv
  <2> QED
    BY <1>1, <2>1, <2>2, <2>3 DEF LoadedOk
<1>6. \A p \in Asks : LoadedOk(p)'
  BY <1>5 DEF LoadedOk
<1> QED
  BY <1>2, <1>4, <1>6 DEF MInv

LEMMA MemoryStep == EvenTurns /\ QInv /\ MInv /\ [CopilotNext]_copilotVars => MInv'
<1> SUFFICES ASSUME EvenTurns, QInv, MInv, [CopilotNext]_copilotVars PROVE MInv'
  OBVIOUS
<1>1. ASSUME ask' = ask, UNCHANGED <<memory, log, disturbed>> PROVE MInv'
  BY <1>1, QuietInv
<1>2. CASE (Next /\ UNCHANGED copilot) \/ UNCHANGED copilotVars
  BY <1>1, <1>2 DEF copilot, copilotVars
<1>3. ASSUME NEW u \in Users, NEW d \in Documents, IndexDocument(u, d) PROVE MInv'
  BY <1>1, <1>3 DEF IndexDocument
<1>4. ASSUME NEW e \in cache, ExpireCached(e) PROVE MInv'
  BY <1>1, <1>4 DEF ExpireCached
<1>5. ASSUME NEW r \in Asks, UNCHANGED <<memory, log, disturbed>>,
             \A p \in Asks \ {r} : ask'[p] = ask[p], ask'[r] = Null \/ ask'[r].at # "store"
      PROVE  MInv'
  BY <1>5, QuietInv
<1>6. ASSUME NEW r \in Asks, NEW u \in Users, NEW q \in Questions, AskStart(r, u, q) PROVE MInv'
  <2>1. ask'[r].at = "intent"
    BY <1>6 DEF AskStart, Asking, QInv, AsksOk
  <2> QED
    BY <1>5, <1>6, <2>1, StartOk DEF AskStart
<1>7. ASSUME NEW r \in Asks, AskIntent(r) PROVE MInv'
  <2>1. PICK intent : ask' = [ask EXCEPT ![r].sel = intent.sel, ![r].figures = intent.figures,
                                         ![r].at = IF intent.sel = Null THEN "load" ELSE "query"]
    BY <1>7 DEF AskIntent
  <2>2. ask[r] # Null /\ "at" \in DOMAIN ask[r]
    BY <1>7 DEF AskIntent, At, QInv, AsksOk, AskOk
  <2>3. ask'[r].at \in {"load", "query"}
    BY <2>1, <2>2 DEF QInv, AsksOk
  <2> QED
    BY <1>5, <1>7, <2>3, IntentOk DEF AskIntent
<1>8. ASSUME NEW r \in Asks, AskQuery(r) PROVE MInv'
  <2>1. PICK rows : ask' = [ask EXCEPT ![r].rows = rows, ![r].at = "narrate"] \/ ask' = [ask EXCEPT ![r] = Null]
    BY <1>8 DEF AskQuery
  <2>2. ask[r] # Null /\ "at" \in DOMAIN ask[r]
    BY <1>8 DEF AskQuery, At, QInv, AsksOk, AskOk
  <2>3. ask'[r] = Null \/ ask'[r].at = "narrate"
    BY <2>1, <2>2 DEF QInv, AsksOk
  <2> QED
    BY <1>5, <1>8, <2>3, QueryOk DEF AskQuery
<1>9. ASSUME NEW r \in Asks, AskNarrate(r) PROVE MInv'
  <2>1. PICK figures : ask' = [ask EXCEPT ![r].figures = figures, ![r].at = "load"]
    BY <1>9 DEF AskNarrate
  <2>2. ask[r] # Null /\ "at" \in DOMAIN ask[r]
    BY <1>9 DEF AskNarrate, At, QInv, AsksOk, AskOk
  <2>3. ask'[r].at = "load"
    BY <2>1, <2>2 DEF QInv, AsksOk
  <2> QED
    BY <1>5, <1>9, <2>3, NarrateOk DEF AskNarrate
<1>10. ASSUME NEW r \in Asks, AskFails(r) PROVE MInv'
  <2>1. ask'[r] = Null
    BY <1>10 DEF AskFails, QInv, AsksOk
  <2> QED
    BY <1>5, <1>10, <2>1, EndOk DEF AskFails
<1>11. ASSUME NEW r \in Asks, AskStep(r) PROVE MInv'
  BY <1>7, <1>8, <1>9, <1>10, <1>11, LoadInv, StoreInv DEF AskStep
<1> QED
  BY <1>2, <1>3, <1>4, <1>6, <1>11, ExpireInv DEF CopilotNext

\* With the limit even, the memory of a session is some of the questions answered in it with their
\* answers, in their order, however many are in progress and whenever it expires; and it is the last
\* of them unless appends met.
THEOREM AlwaysTheLog == EvenTurns => (CopilotSpec => []MemoryIsTheLog)
<1> SUFFICES ASSUME EvenTurns PROVE CopilotSpec => []MemoryIsTheLog
  OBVIOUS
<1>1. ASSUME CopilotInit PROVE MInv
  <2>1. PICK none : none = <<>>
    OBVIOUS
  <2>2. /\ IsSeq(none) /\ Len(none) = 0 /\ SomeQuestionsOf(none, none)
        /\ LastTurns(none, MaxTurns) = none
    BY <2>1, EmptyTold
  <2>3. 0 % 2 = 0 /\ 0 <= MaxTurns
    BY TurnsAssumption
  <2>4. memory = [u \in Users |-> none] /\ log = [u \in Users |-> none] /\ \A r \in Asks : ask[r] = Null
    BY <1>1, <2>1 DEF CopilotInit
  <2>5. \A u \in Users : StoredOk(u)
    BY <2>2, <2>3, <2>4 DEF StoredOk
  <2> QED
    BY <2>4, <2>5 DEF MInv, LoadedOk, At
<1>2. QInv /\ MInv /\ [CopilotNext]_copilotVars => QInv' /\ MInv'
  BY Step, MemoryStep
<1>3. MInv => MemoryIsTheLog
  BY DEF MInv, StoredOk, MemoryIsTheLog
<1> QED
  BY <1>1, <1>2, <1>3, InitOk, PTL DEF CopilotSpec

-----------------------------------------------------------------------------
(* The figures agree.  They are counts of students, and sums of counts over  *)
(* tiers, departments and rows: a set is the sum of its fibres (Fibres), by  *)
(* induction on the number of parts, for a sum whose recursion first has to  *)
(* be shown to exist (SumFromExists).                                        *)

LEMMA LeastElement ==
  ASSUME NEW T, T \subseteq Nat, T # {}
  PROVE  \E x \in T : \A y \in T : x <= y
<1> DEFINE R == StrictSubsetOrdering(Nat)
           F == FiniteSubsetsOf(Nat)
           U == {0 .. x : x \in T}
<1>1. U \subseteq F /\ U # {}
  <2>1. \A x \in T : 0 .. x \in F
    BY FS_Interval DEF FiniteSubsetsOf
  <2> QED BY <2>1
<1>2. IsWellFoundedOn(R, F)
  BY FS_StrictSubsetOrderingWellFounded
<1> HIDE DEF R, F
<1>3. PICK u \in U : \A v \in U : ~(<<v, u>> \in R)
  BY <1>1, <1>2, WFMin
<1>4. PICK x \in T : u = 0 .. x
  OBVIOUS
<1>5. ASSUME NEW y \in T, ~(x <= y) PROVE FALSE
  <2>1. 0 .. y \subseteq 0 .. x /\ 0 .. y # 0 .. x /\ 0 .. y \in U
    <3>1. x \in 0 .. x /\ x \notin 0 .. y /\ 0 .. y \subseteq 0 .. x
      BY <1>5
    <3> QED BY <3>1
  <2>2. <<0 .. y, 0 .. x>> \in R
    BY <2>1 DEF R, StrictSubsetOrdering
  <2> QED BY <1>3, <1>4, <2>1, <2>2
<1> QED BY <1>5

\* the recursion behind SumOf
Some(E) == CHOOSE x \in E : TRUE
SumFrom(f, it) == [E \in SUBSET DOMAIN f |-> IF E = {} THEN 0 ELSE f[Some(E)] + it[E \ {Some(E)}]]

LEMMA SumOfUnfolds ==
  ASSUME NEW f
  PROVE  SumOf(f) = (CHOOSE it : it = SumFrom(f, it))[DOMAIN f]
BY DEF SumOf, MapThenSumSet, MapThenFoldSet, SumFrom, Some

LEMMA SumFromExists ==
  ASSUME NEW f, IsFiniteSet(DOMAIN f)
  PROVE  \E it : it = SumFrom(f, it)
<1> DEFINE D == DOMAIN f
           Upto(n, it) == \A E \in SUBSET D : Cardinality(E) <= n => it[E] = SumFrom(f, it)[E]
           Bad == {n \in Nat : ~\E it : Upto(n, it)}
<1>1. ASSUME Bad # {} PROVE FALSE
  <2>1. PICK n \in Bad : \A m \in Bad : n <= m
    BY <1>1, LeastElement
  <2>2. n \in Nat /\ ~\E it : Upto(n, it)
    OBVIOUS
  <2>3. \E it : \A E \in SUBSET D : Cardinality(E) < n => it[E] = SumFrom(f, it)[E]
    <3>1. CASE n = 0
      <4>1. \A E \in SUBSET D : Cardinality(E) \in Nat
        BY FS_Subset, FS_CardinalityType
      <4> QED BY <3>1, <4>1
    <3>2. CASE n # 0
      <4>1. n - 1 \in Nat /\ n - 1 \notin Bad
        BY <2>1, <2>2, <3>2
      <4>2. PICK it : Upto(n - 1, it)
        BY <4>1
      <4>3. \A E \in SUBSET D : Cardinality(E) \in Nat
        BY FS_Subset, FS_CardinalityType
      <4>4. \A E \in SUBSET D : Cardinality(E) < n => Cardinality(E) <= n - 1
        BY <2>2, <4>3
      <4> QED BY <4>2, <4>4
    <3> QED BY <3>1, <3>2
  <2>4. PICK it : \A E \in SUBSET D : Cardinality(E) < n => it[E] = SumFrom(f, it)[E]
    BY <2>3
  <2> DEFINE more == SumFrom(f, it)
  <2>5. ASSUME NEW E \in SUBSET D, Cardinality(E) <= n PROVE more[E] = SumFrom(f, more)[E]
    <3>1. CASE E = {}
      BY <3>1 DEF SumFrom
    <3>2. CASE E # {}
      <4> DEFINE x == Some(E)
                 L == E \ {x}
      <4>1. x \in E
        BY <3>2 DEF Some
      <4>2. L \in SUBSET D /\ Cardinality(L) < n
        <5>1. IsFiniteSet(E) /\ Cardinality(E) \in Nat
          BY FS_Subset, FS_CardinalityType
        <5>2. Cardinality(L) = Cardinality(E) - 1
          BY <4>1, <5>1, FS_RemoveElement
        <5> QED BY <2>2, <2>5, <5>1, <5>2
      <4>3. it[L] = more[L]
        BY <2>4, <4>2
      <4> QED BY <3>2, <4>3 DEF SumFrom
    <3> QED BY <3>1, <3>2
  <2> QED BY <2>2, <2>5
<1>2. PICK it : Upto(Cardinality(D), it)
  BY <1>1, FS_CardinalityType
<1> DEFINE whole == [E \in SUBSET D |-> it[E]]
<1>3. ASSUME NEW E \in SUBSET D PROVE whole[E] = SumFrom(f, whole)[E]
  <2>1. it[E] = SumFrom(f, it)[E]
    BY <1>2, FS_Subset
  <2>2. E # {} => Some(E) \in E
    BY DEF Some
  <2> QED BY <2>1, <2>2 DEF SumFrom
<1>4. whole = [E \in SUBSET D |-> SumFrom(f, whole)[E]]
  <2> HIDE DEF whole
  <2>1. whole = [E \in SUBSET D |-> whole[E]]
    BY DEF whole
  <2> QED BY <1>3, <2>1
<1>5. SumFrom(f, whole) = [E \in SUBSET D |-> SumFrom(f, whole)[E]]
  BY DEF SumFrom
<1> QED BY <1>4, <1>5

\* of a finite sum, one element is taken after the other
LEMMA SumRecursion ==
  ASSUME NEW f, IsFiniteSet(DOMAIN f)
  PROVE  \E it : /\ SumOf(f) = it[DOMAIN f] /\ it[{}] = 0
                 /\ \A E \in SUBSET DOMAIN f : E # {} => \E x \in E : it[E] = f[x] + it[E \ {x}]
<1> DEFINE it == CHOOSE i : i = SumFrom(f, i)
<1>1. it = SumFrom(f, it)
  BY SumFromExists
<1>2. SumOf(f) = it[DOMAIN f]
  BY SumOfUnfolds
<1> HIDE DEF it
<1>3. it[{}] = 0
  BY <1>1 DEF SumFrom
<1>4. ASSUME NEW E \in SUBSET DOMAIN f, E # {} PROVE \E x \in E : it[E] = f[x] + it[E \ {x}]
  <2>1. Some(E) \in E
    BY <1>4 DEF Some
  <2>2. it[E] = f[Some(E)] + it[E \ {Some(E)}]
    BY <1>1, <1>4 DEF SumFrom
  <2> QED BY <2>1, <2>2
<1> QED BY <1>2, <1>3, <1>4

\* a set is the sum of its fibres
LEMMA Fibres ==
  ASSUME NEW S, IsFiniteSet(S), NEW f, IsFiniteSet(DOMAIN f), NEW g \in [S -> DOMAIN f],
         \A d \in DOMAIN f : f[d] = Cardinality({s \in S : g[s] = d})
  PROVE  SumOf(f) = Cardinality(S)
<1> DEFINE D == DOMAIN f
           Over(E) == {s \in S : g[s] \in E}
<1>1. PICK it : /\ SumOf(f) = it[DOMAIN f] /\ it[{}] = 0
                /\ \A E \in SUBSET DOMAIN f : E # {} => \E x \in E : it[E] = f[x] + it[E \ {x}]
  BY SumRecursion
<1> DEFINE Bad == {n \in Nat : \E E \in SUBSET D : Cardinality(E) = n /\ it[E] # Cardinality(Over(E))}
<1>2. ASSUME Bad # {} PROVE FALSE
  <2>1. PICK n \in Bad : \A m \in Bad : n <= m
    BY <1>2, LeastElement
  <2>2. PICK E \in SUBSET D : Cardinality(E) = n /\ it[E] # Cardinality(Over(E))
    OBVIOUS
  <2>3. E # {}
    <3>1. Over({}) = {}
      OBVIOUS
    <3> QED BY <1>1, <2>2, <3>1, FS_EmptySet
  <2>4. PICK x \in E : it[E] = f[x] + it[E \ {x}]
    BY <1>1, <2>3
  <2> DEFINE L == E \ {x}
             A == {s \in S : g[s] = x}
             B == Over(L)
  <2>5. L \in SUBSET D /\ it[L] = Cardinality(B)
    <3>1. IsFiniteSet(E) /\ Cardinality(E) \in Nat
      BY FS_Subset, FS_CardinalityType
    <3>2. Cardinality(L) = Cardinality(E) - 1 /\ IsFiniteSet(L)
      BY <3>1, FS_RemoveElement
    <3>3. Cardinality(L) \in Nat
      BY <3>2, FS_CardinalityType
    <3>4. Cardinality(L) \notin Bad
      <4>1. Cardinality(L) < n
        BY <2>2, <3>1, <3>2
      <4>2. n \in Nat /\ ~(n <= Cardinality(L))
        BY <3>3, <4>1
      <4> HIDE DEF Bad
      <4> QED BY <2>1, <4>2
    <3> QED BY <3>3, <3>4
  <2>6. Cardinality(Over(E)) = Cardinality(A) + Cardinality(B)
    <3>1. IsFiniteSet(A) /\ IsFiniteSet(B)
      BY FS_Subset
    <3>2. A \cup B = Over(E) /\ A \cap B = {}
      OBVIOUS
    <3>3. Cardinality(A \cup B) = Cardinality(A) + Cardinality(B) - Cardinality(A \cap B)
      BY <3>1, FS_Union
    <3>4. Cardinality(A) \in Nat /\ Cardinality(B) \in Nat /\ Cardinality({}) = 0
      BY <3>1, FS_CardinalityType, FS_EmptySet
    <3>5. Cardinality(Over(E)) = Cardinality(A) + Cardinality(B) - Cardinality({})
      BY <3>2, <3>3
    <3> HIDE DEF A, B, Over
    <3> QED BY <3>4, <3>5
  <2> QED BY <2>2, <2>4, <2>5, <2>6
<1>3. it[D] = Cardinality(Over(D))
  <2>1. Cardinality(D) \in Nat /\ Cardinality(D) \notin Bad
    BY <1>2, FS_CardinalityType
  <2> QED BY <2>1
<1>4. Over(D) = S
  OBVIOUS
<1> QED BY <1>1, <1>3, <1>4

-----------------------------------------------------------------------------
LabelsOf(dims, x) == [d \in dims |-> Label(d, x)]
\* the students of the facts with some labels
Behind(dims, F, l) == {y[1] : y \in {z \in F : LabelsOf(dims, z) = l}}

LEMMA FiniteImage ==
  ASSUME NEW S, IsFiniteSet(S), NEW h, DOMAIN h = S, h = [x \in S |-> h[x]]
  PROVE  IsFiniteSet({h[x] : x \in S})
<1> DEFINE T == {h[x] : x \in S}
<1>1. h \in [S -> T]
  OBVIOUS
<1>2. \A t \in T : \E s \in S : h[s] = t
  OBVIOUS
<1> HIDE DEF T
<1>3. h \in Surjection(S, T)
  BY <1>1, <1>2, Fun_IsSurj
<1>4. IsFiniteSet(T)
  BY <1>3, FS_Surjection
<1> QED BY <1>4 DEF T

LEMMA GroupedIs ==
  ASSUME NEW m \in CountMetrics, NEW dims, NEW F
  PROVE  Grouped(m, dims, F) =
           {[labels |-> LabelsOf(dims, x), value |-> 100 * Cardinality(Behind(dims, F, LabelsOf(dims, x)))] : x \in F}
<1>1. ASSUME NEW x \in F
      PROVE  Value(m, {y \in F : \A d \in dims : Label(d, y) = Label(d, x)})
               = 100 * Cardinality(Behind(dims, F, LabelsOf(dims, x)))
  <2>1. \A y \in F : (\A d \in dims : Label(d, y) = Label(d, x)) <=> LabelsOf(dims, y) = LabelsOf(dims, x)
    BY DEF LabelsOf
  <2>2. {y \in F : \A d \in dims : Label(d, y) = Label(d, x)} = {y \in F : LabelsOf(dims, y) = LabelsOf(dims, x)}
    BY <2>1
  <2> DEFINE G == {y \in F : LabelsOf(dims, y) = LabelsOf(dims, x)}
  <2>3. Value(m, G) = 100 * Cardinality({y[1] : y \in G})
    BY DEF Value, CountMetrics
  <2> QED BY <2>2, <2>3 DEF Behind
<1> QED BY <1>1 DEF Grouped, LabelsOf

\* a row is known by its labels
LEMMA RowOfLabels ==
  ASSUME NEW m \in CountMetrics, NEW dims, NEW F, NEW r \in Grouped(m, dims, F)
  PROVE  /\ \E x \in F : r.labels = LabelsOf(dims, x)
         /\ r.value = 100 * Cardinality(Behind(dims, F, r.labels))
         /\ \A q \in Grouped(m, dims, F) : q.labels = r.labels => q = r
<1>1. PICK x \in F :
        r = [labels |-> LabelsOf(dims, x), value |-> 100 * Cardinality(Behind(dims, F, LabelsOf(dims, x)))]
  BY GroupedIs
<1>2. ASSUME NEW q \in Grouped(m, dims, F), q.labels = r.labels PROVE q = r
  <2>1. PICK y \in F :
          q = [labels |-> LabelsOf(dims, y), value |-> 100 * Cardinality(Behind(dims, F, LabelsOf(dims, y)))]
    BY GroupedIs
  <2>2. LabelsOf(dims, x) = LabelsOf(dims, y)
    BY <1>1, <1>2, <2>1
  <2> QED BY <1>1, <2>1, <2>2
<1> QED BY <1>1, <1>2

LEMMA RowOfFact ==
  ASSUME NEW m \in CountMetrics, NEW dims, NEW F, NEW x \in F
  PROVE  \E r \in Grouped(m, dims, F) : r.labels = LabelsOf(dims, x)
<1> DEFINE row == [labels |-> LabelsOf(dims, x), value |-> 100 * Cardinality(Behind(dims, F, LabelsOf(dims, x)))]
<1>1. row \in Grouped(m, dims, F)
  BY GroupedIs
<1>2. row.labels = LabelsOf(dims, x)
  OBVIOUS
<1> QED BY <1>1, <1>2

\* rows of a grouped count add up to the students behind them
Listed(dims, R, x) == \E r \in R : r.labels = LabelsOf(dims, x)
Counted(dims, R, F) == {y[1] : y \in {z \in F : Listed(dims, R, z)}}

LEMMA RowsAddUp ==
  ASSUME NEW m \in CountMetrics, NEW dims, NEW F, IsFiniteSet(F), NEW R, R \subseteq Grouped(m, dims, F),
         \A x \in F, y \in F : x[1] = y[1] /\ Listed(dims, R, x) /\ Listed(dims, R, y)
           => LabelsOf(dims, x) = LabelsOf(dims, y)
  PROVE  Total(R) = Cardinality(Counted(dims, R, F))
<1> DEFINE S == Counted(dims, R, F)
           f == [r \in R |-> r.value \div 100]
           Of(s, r) == \E z \in F : z[1] = s /\ r.labels = LabelsOf(dims, z)
           g == [s \in S |-> CHOOSE r \in R : Of(s, r)]
<1>1. IsFiniteSet(R)
  <2> DEFINE h == [x \in F |-> [labels |-> LabelsOf(dims, x), value |-> 100 * Cardinality(Behind(dims, F, LabelsOf(dims, x)))]]
  <2>1. Grouped(m, dims, F) = {h[x] : x \in F}
    BY GroupedIs
  <2>2. DOMAIN h = F /\ h = [x \in F |-> h[x]]
    OBVIOUS
  <2> HIDE DEF h
  <2>3. IsFiniteSet({h[x] : x \in F})
    BY <2>2, FiniteImage
  <2> QED BY <2>1, <2>3, FS_Subset
<1>2. IsFiniteSet(S)
  <2> DEFINE G == {z \in F : Listed(dims, R, z)}
             h == [z \in G |-> z[1]]
  <2>1. IsFiniteSet(G)
    BY FS_Subset
  <2>2. S = {h[z] : z \in G}
    BY DEF Counted
  <2> HIDE DEF G
  <2>3. IsFiniteSet({h[z] : z \in G})
    BY <2>1, FiniteImage
  <2> QED BY <2>2, <2>3
<1>3. ASSUME NEW s \in S PROVE g[s] \in R /\ Of(s, g[s])
  <2>1. \E r \in R : Of(s, r)
    BY DEF Listed, Counted
  <2> QED BY <2>1
<1>4. ASSUME NEW r \in R PROVE f[r] = Cardinality({s \in S : g[s] = r})
  <2>1. Behind(dims, F, r.labels) = {s \in S : g[s] = r}
    <3>1. ASSUME NEW s \in S, g[s] = r PROVE s \in Behind(dims, F, r.labels)
      <4>1. Of(s, r)
        BY <1>3, <3>1
      <4> QED BY <4>1 DEF Behind
    <3>2. ASSUME NEW s \in Behind(dims, F, r.labels) PROVE s \in S /\ g[s] = r
      <4>1. PICK z \in F : LabelsOf(dims, z) = r.labels /\ s = z[1]
        BY DEF Behind
      <4>2. Listed(dims, R, z)
        BY <4>1 DEF Listed
      <4>3. s \in S
        BY <4>1, <4>2 DEF Counted
      <4>4. PICK y \in F : y[1] = s /\ g[s].labels = LabelsOf(dims, y)
        BY <1>3, <4>3
      <4>5. g[s] \in R
        BY <1>3, <4>3
      <4> HIDE DEF g
      <4>6. Listed(dims, R, y)
        BY <4>4, <4>5 DEF Listed
      <4>7. g[s].labels = r.labels
        BY <4>1, <4>2, <4>4, <4>6
      <4>8. g[s] = r
        BY <4>5, <4>7, RowOfLabels
      <4> QED BY <4>3, <4>8
    <3> HIDE DEF g
    <3> QED BY <3>1, <3>2
  <2>2. r.value = 100 * Cardinality(Behind(dims, F, r.labels))
    BY RowOfLabels
  <2>3. Cardinality(Behind(dims, F, r.labels)) \in Nat
    <3>1. IsFiniteSet({s \in S : g[s] = r})
      BY <1>2, FS_Subset
    <3> HIDE DEF g
    <3> QED BY <2>1, <3>1, FS_CardinalityType
  <2>4. \A n \in Nat : (100 * n) \div 100 = n
    OBVIOUS
  <2>5. f[r] = Cardinality(Behind(dims, F, r.labels))
    BY <2>2, <2>3, <2>4
  <2> QED BY <2>1, <2>5
<1>5. g \in [S -> R]
  BY <1>3
<1>6. DOMAIN f = R
  OBVIOUS
<1>7. SumOf(f) = Cardinality(S)
  <2> HIDE DEF f, g
  <2> QED BY <1>1, <1>2, <1>4, <1>5, <1>6, Fibres
<1> QED BY <1>7 DEF Total

\* at most a hundred groups are not cut off
LEMMA FewRows ==
  ASSUME NEW m \in CountMetrics, NEW dims, NEW F,
         NEW K, IsFiniteSet(K), Cardinality(K) <= 100, NEW k \in [F -> K],
         \A x \in F, y \in F : k[x] = k[y] => LabelsOf(dims, x) = LabelsOf(dims, y)
  PROVE  FirstRows(Grouped(m, dims, F), 100) = Grouped(m, dims, F)
<1> DEFINE G == Grouped(m, dims, F)
           x(r) == CHOOSE y \in F : r.labels = LabelsOf(dims, y)
           h == [r \in G |-> k[x(r)]]
<1>1. ASSUME NEW r \in G PROVE x(r) \in F /\ r.labels = LabelsOf(dims, x(r))
  BY RowOfLabels
<1>2. h \in [G -> K]
  BY <1>1
<1>3. ASSUME NEW q \in G, NEW r \in G, h[q] = h[r] PROVE q = r
  <2>1. LabelsOf(dims, x(q)) = LabelsOf(dims, x(r))
    BY <1>1, <1>3
  <2>2. q.labels = r.labels
    BY <1>1, <2>1
  <2> QED BY <2>2, RowOfLabels
<1> HIDE DEF G, h, x
<1>4. h \in Injection(G, K)
  BY <1>2, <1>3, Fun_IsInj
<1>5. IsFiniteSet(G) /\ Cardinality(G) <= Cardinality(K)
  BY <1>4, FS_Injection
<1>6. Cardinality(G) \in Nat /\ Cardinality(K) \in Nat
  BY <1>5, FS_CardinalityType
<1>7. Cardinality(G) <= 100
  BY <1>5, <1>6
<1> QED BY <1>7 DEF FirstRows, G

-----------------------------------------------------------------------------
\* what the figures are computed from
PlacedTyped == placed \in [Students -> Placements]
RolesTyped == {role, token} \subseteq [Users -> Roles \cup {Null}]
FInv == AssessmentTyped /\ PlacedTyped /\ RolesTyped

LEMMA InitTyped == Init => FInv
<1> USE FounderAssumption
<1> QED BY DEF Init, FInv, AssessmentTyped, PlacedTyped, RolesTyped, Roles, Privileged

LEMMA NextTyped == FInv /\ [Next]_vars => FInv'
<1> SUFFICES ASSUME FInv, [Next]_vars PROVE FInv'
  OBVIOUS
<1> USE DEF FInv, AssessmentTyped, PlacedTyped, RolesTyped
<1>1. CASE UNCHANGED vars
  BY <1>1 DEF vars, people
<1>2. ASSUME NEW u \in Users, Reissue(u) \/ Expire(u) PROVE FInv'
  BY <1>2 DEF Reissue, Expire
<1>3. CASE Administer
  <2>1. PICK a \in Users, u \in Users :
          \/ \E r \in RoleChoices : CreateUser(a, u, r)
          \/ \E r \in RoleChoices \cup {role[u]}, act \in BOOLEAN : UpdateUser(a, u, r, act)
          \/ \E sc \in ScopeChoices : AddFacultyScope(a, u, sc)
    BY <1>3 DEF Administer
  <2>2. ASSUME NEW r \in RoleChoices, CreateUser(a, u, r) PROVE FInv'
    BY <2>2, RolesAssumption DEF CreateUser
  <2>3. ASSUME NEW r \in RoleChoices \cup {role[u]}, NEW act \in BOOLEAN, UpdateUser(a, u, r, act) PROVE FInv'
    <3>1. r \in Roles \cup {Null}
      BY RolesAssumption
    <3> QED BY <2>3, <3>1 DEF UpdateUser
  <2>4. ASSUME NEW sc \in ScopeChoices, AddFacultyScope(a, u, sc) PROVE FInv'
    BY <2>4 DEF AddFacultyScope
  <2> QED BY <2>1, <2>2, <2>3, <2>4
<1>4. ASSUME NEW a \in Users, NEW sc \in scopes, RemoveFacultyScope(a, sc) PROVE FInv'
  BY <1>4 DEF RemoveFacultyScope
<1>5. ASSUME NEW s \in Students, NEW p \in Placements, Import(s, p) PROVE FInv'
  BY <1>5 DEF Import, people
<1>6. ASSUME NEW s \in Students, NEW a \in Assessments, Recompute(s, a) PROVE FInv'
  BY <1>6 DEF Recompute, people
<1>7. ASSUME NEW u \in Users, NEW s \in Students, CreateIntervention(u, s) PROVE FInv'
  BY <1>7 DEF CreateIntervention, people
<1>8. ASSUME NEW u \in Users, NEW i \in DOMAIN interventions, NEW status \in Statuses,
             UpdateIntervention(u, i, status) PROVE FInv'
  BY <1>8 DEF UpdateIntervention, people
<1>9. ASSUME NEW u \in Users, NEW i \in DOMAIN interventions, RecordOutcome(u, i) PROVE FInv'
  BY <1>9 DEF RecordOutcome, people
<1>10. ASSUME NEW u \in Users, NEW a \in alerts, MarkAlertRead(u, a) PROVE FInv'
  BY <1>10 DEF MarkAlertRead, people
<1> QED BY <1>1, <1>2, <1>3, <1>4, <1>5, <1>6, <1>7, <1>8, <1>9, <1>10 DEF Next

LEMMA AssessedTyped ==
  ASSUME AssessmentTyped, NEW ids \in SUBSET Students
  PROVE  /\ Assessed(ids) \subseteq Students /\ IsFiniteSet(Assessed(ids)) /\ IsFiniteSet(ids)
         /\ \A s \in Assessed(ids) : assessment[s].tier \in Tiers /\ assessment[s].findings \subseteq DOMAIN TypeOf
<1>1. Assessed(ids) \subseteq ids
  BY DEF Assessed
<1>2. \A s \in Assessed(ids) : assessment[s] \in Assessments
  BY DEF Assessed, AssessmentTyped
<1> QED BY <1>1, <1>2, StudentsAssumption, FS_Subset, AssessmentsAssumption

LEMMA DepartmentTyped ==
  ASSUME PlacedTyped, NEW s \in Students
  PROVE  Department(s) \in Departments \cup {Null} /\ Programme(s) \in Programmes \cup {Null}
BY PlacementsAssumption, DeptAssumption DEF PlacedTyped, Department, Programme

LEMMA TiersFinite == IsFiniteSet(Tiers) /\ Cardinality(Tiers) = 3
<1>1. IsFiniteSet({"low"}) /\ Cardinality({"low"}) = 1
  BY FS_Singleton
<1>2. IsFiniteSet({"low"} \cup {"watch"}) /\ Cardinality({"low"} \cup {"watch"}) = 2
  BY <1>1, FS_AddElement
<1>3. IsFiniteSet(({"low"} \cup {"watch"}) \cup {"high"}) /\ Cardinality(({"low"} \cup {"watch"}) \cup {"high"}) = 3
  BY <1>2, FS_AddElement
<1>4. Tiers = ({"low"} \cup {"watch"}) \cup {"high"}
  BY DEF Tiers
<1> QED BY <1>3, <1>4

\* the tiers split any set of assessed students
LEMMA ByTier ==
  ASSUME AssessmentTyped, NEW ids \in SUBSET Students, NEW S \in SUBSET Assessed(ids)
  PROVE  SumOf([t \in Tiers |-> Cardinality({s \in S : assessment[s].tier = t})]) = Cardinality(S)
<1> DEFINE f == [t \in Tiers |-> Cardinality({s \in S : assessment[s].tier = t})]
           g == [s \in S |-> assessment[s].tier]
<1>1. IsFiniteSet(S)
  BY AssessedTyped, FS_Subset
<1>2. DOMAIN f = Tiers /\ g \in [S -> Tiers]
  BY AssessedTyped
<1>3. ASSUME NEW t \in Tiers PROVE f[t] = Cardinality({s \in S : g[s] = t})
  <2>1. {s \in S : g[s] = t} = {s \in S : assessment[s].tier = t}
    OBVIOUS
  <2> QED BY <2>1
<1> HIDE DEF f, g
<1>4. SumOf(f) = Cardinality(S)
  BY <1>1, <1>2, <1>3, TiersFinite, Fibres
<1> QED BY <1>4 DEF f

LEMMA ReadsAgree ==
  ASSUME AssessmentTyped, PlacedTyped, NEW ids \in SUBSET Students
  PROVE  ReadsAgreeFor(ids)
<1> DEFINE A == Assessed(ids)
           tiles == Summary(ids)
           depts == SummaryByDepartment(ids)
           listed(tier, type, dept) == Cardinality(ListAtRisk(ids, tier, type, dept, Null))
<1>1. IsFiniteSet(A) /\ \A s \in A : s \in Students /\ assessment[s].tier \in Tiers
  BY AssessedTyped
<1>2. tiles.by_tier = [t \in Tiers |-> Cardinality({s \in A : assessment[s].tier = t})]
  BY DEF Summary
<1>3. depts = [d \in {DepartmentLabel(s) : s \in A} |->
                [t \in Tiers |-> Cardinality({s \in A : DepartmentLabel(s) = d /\ assessment[s].tier = t})]]
  BY DEF SummaryByDepartment
<1>4. Null \notin Tiers /\ Null \notin RiskTypes /\ Null \notin Statuses /\ Null \notin Departments
  BY NullAssumption
<1>5. SumOf(tiles.by_tier) = Cardinality(A)
  BY <1>2, ByTier
<1>6. listed(Null, Null, Null) = tiles.by_tier["watch"] + tiles.by_tier["high"]
  <2> DEFINE W == {s \in A : assessment[s].tier = "watch"}
             H == {s \in A : assessment[s].tier = "high"}
  <2>1. ListAtRisk(ids, Null, Null, Null, Null) = W \cup H
    BY <1>1 DEF ListAtRisk, Tiers
  <2>2. IsFiniteSet(W) /\ IsFiniteSet(H) /\ W \cap H = {}
    BY <1>1, FS_Subset
  <2>3. Cardinality(W \cup H) = Cardinality(W) + Cardinality(H) - Cardinality({})
    BY <2>2, FS_Union
  <2>4. tiles.by_tier["watch"] = Cardinality(W) /\ tiles.by_tier["high"] = Cardinality(H)
    BY <1>2 DEF Tiers
  <2>5. Cardinality(W) \in Nat /\ Cardinality(H) \in Nat /\ Cardinality({}) = 0
    BY <2>2, FS_CardinalityType, FS_EmptySet
  <2> HIDE DEF W, H, tiles
  <2> QED BY <2>1, <2>3, <2>4, <2>5
<1>7. ASSUME NEW t \in Tiers PROVE tiles.by_tier[t] = SumOf([d \in DOMAIN depts |-> depts[d][t]])
  <2> DEFINE S == {s \in A : assessment[s].tier = t}
             D == {DepartmentLabel(s) : s \in A}
             f == [d \in DOMAIN depts |-> depts[d][t]]
             g == [s \in S |-> DepartmentLabel(s)]
  <2>1. IsFiniteSet(S)
    BY <1>1, FS_Subset
  <2>2. DOMAIN f = D
    BY <1>3
  <2>3. IsFiniteSet(D)
    <3> DEFINE h == [s \in A |-> DepartmentLabel(s)]
    <3>1. D = {h[s] : s \in A}
      OBVIOUS
    <3>2. DOMAIN h = A /\ h = [s \in A |-> h[s]]
      OBVIOUS
    <3> HIDE DEF h
    <3>3. IsFiniteSet({h[s] : s \in A})
      BY <1>1, <3>2, FiniteImage
    <3> QED BY <3>1, <3>3
  <2>4. g \in [S -> D]
    OBVIOUS
  <2>5. ASSUME NEW d \in D PROVE f[d] = Cardinality({s \in S : g[s] = d})
    <3>1. {s \in S : g[s] = d} = {s \in A : DepartmentLabel(s) = d /\ assessment[s].tier = t}
      OBVIOUS
    <3>2. f[d] = Cardinality({s \in A : DepartmentLabel(s) = d /\ assessment[s].tier = t})
      BY <1>3
    <3> QED BY <3>1, <3>2
  <2>6. SumOf(f) = Cardinality(S)
    <3> HIDE DEF f, g, S, D
    <3> QED BY <2>1, <2>2, <2>3, <2>4, <2>5, Fibres
  <2> QED BY <1>2, <2>6
<1>8. ASSUME NEW t \in Tiers, NEW d \in DOMAIN depts \ {Unassigned} PROVE depts[d][t] = listed(t, Null, d)
  <2>1. PICK x \in A : d = DepartmentLabel(x)
    BY <1>3
  <2>2. d = Department(x) /\ d \in Departments
    BY <1>1, <1>8, <2>1, DepartmentTyped DEF DepartmentLabel
  <2>3. \A s \in A : DepartmentLabel(s) = d <=> Department(s) = d
    BY <1>4, <1>8, <2>2 DEF DepartmentLabel
  <2>4. ListAtRisk(ids, t, Null, d, Null) = {s \in A : DepartmentLabel(s) = d /\ assessment[s].tier = t}
    BY <1>4, <2>2, <2>3 DEF ListAtRisk
  <2> QED BY <1>3, <1>8, <2>4
<1>9. ASSUME NEW y \in RiskTypes PROVE tiles.by_risk_type[y] = SumOf([t \in Tiers |-> listed(t, y, Null)])
  <2> DEFINE S == {s \in A : y \in RiskTypesOf(s)}
  <2>1. tiles.by_risk_type[y] = Cardinality(S)
    BY DEF Summary
  <2>2. ASSUME NEW t \in Tiers PROVE listed(t, y, Null) = Cardinality({s \in S : assessment[s].tier = t})
    <3>1. ListAtRisk(ids, t, y, Null, Null) = {s \in S : assessment[s].tier = t}
      BY <1>4 DEF ListAtRisk
    <3> QED BY <3>1
  <2>3. [t \in Tiers |-> listed(t, y, Null)] = [t \in Tiers |-> Cardinality({s \in S : assessment[s].tier = t})]
    BY <2>2
  <2> QED BY <2>1, <2>3, ByTier
<1>10. ASSUME NEW s \in A
       PROVE  StudentRisk(ids, s).active = UNION {ListInterventions(ids, s, x) : x \in ActiveStatuses}
  <2>1. s \in ids /\ assessment[s] # Null
    BY DEF Assessed
  <2>2. \A x \in ActiveStatuses : x # Null
    BY <1>4 DEF Statuses
  <2> QED BY <2>1, <2>2 DEF StudentRisk, ListInterventions
<1> QED BY <1>5, <1>6, <1>7, <1>8, <1>9, <1>10 DEF ReadsAgreeFor

-----------------------------------------------------------------------------
\* No governed metric has more than a hundred groups, and no department has the code that stands
\* for the students without one: what the questions of GovernedAgreesFor assume of a tenant.
FewGroups ==
  /\ IsFiniteSet(Departments) /\ Cardinality(Departments) <= 32
  /\ IsFiniteSet(Programmes) /\ Cardinality(Programmes) <= 99
NamesApart == Unassigned \notin Departments

AllDims(m, dims) ==
  ToSet(dims) \cup CASE m = "risk_tier_count" -> {"tier"}
                     [] m = "students_with_risk_type" -> {"risk_type"}
                     [] OTHER -> {}
Selected(m, ids, filters) == {x \in Facts(m, ids) : \A d \in DOMAIN filters : Column(d, x) = filters[d]}
Answer(u, m, dims, filters) == GovernedQuery(u, Selection(m, dims, filters)).rows

LEMMA VisibleStudents == ASSUME NEW u \in Users PROVE Visible(u) \in SUBSET Students
BY DEF Visible, VisibleIds, StudentsForScope

LEMMA Answered ==
  ASSUME RolesTyped, NEW u \in Users, Staff(u), NEW m \in CountMetrics, NEW dims, NEW filters,
         IsInjective(dims), ToSet(dims) \subseteq Dimensions[m], DOMAIN filters \subseteq FiltersOf(m)
  PROVE  Answer(u, m, dims, filters) =
           IF Visible(u) = {} THEN {}
           ELSE IF AllDims(m, dims) # {}
           THEN FirstRows(Grouped(m, AllDims(m, dims), Selected(m, Visible(u), filters)), 100)
           ELSE {[labels |-> <<>>,
                  value |-> IF m = "student_count" THEN UngroupedStudentCount(Visible(u), filters)
                            ELSE Value(m, Selected(m, Visible(u), filters))]}
<1> DEFINE sel == Selection(m, dims, filters)
           ids == Visible(u)
<1>1. /\ sel.metric = m /\ sel.dimensions = dims /\ sel.filters = filters /\ sel.limit = 100
  BY DEF Selection
<1>2. token[u] \in Privileged \cup {"faculty"}
  BY DEF RolesTyped, Staff, Roles
<1>3. m \in Metrics
  BY DEF CountMetrics, Metrics, Dimensions
<1>4. Valid(token[u], sel)
  BY <1>1, <1>2, <1>3 DEF Valid
<1>5. Min({100, 500}) = 100
  BY DEF Min
<1>6. Rows(ids, sel) = IF AllDims(m, dims) # {}
                       THEN FirstRows(Grouped(m, AllDims(m, dims), Selected(m, ids, filters)), 100)
                       ELSE {[labels |-> <<>>,
                              value |-> IF m = "student_count" THEN UngroupedStudentCount(ids, filters)
                                        ELSE Value(m, Selected(m, ids, filters))]}
  <2> HIDE DEF sel, ids
  <2> QED BY <1>1, <1>5 DEF Rows, AllDims, Selected
<1>7. Answer(u, m, dims, filters) = IF ids = {} THEN {} ELSE Rows(ids, sel)
  BY <1>4 DEF Answer, GovernedQuery, Execute, Visible
<1> QED BY <1>6, <1>7

LEMMA NoFacts == ASSUME NEW m \in CountMetrics, NEW filters PROVE Selected(m, {}, filters) = {}
<1>1. Assessed({}) = {}
  BY DEF Assessed
<1> QED BY <1>1 DEF Selected, Facts, CountMetrics

\* a question for few groups is answered with all of them
LEMMA AnsweredInFull ==
  ASSUME RolesTyped, NEW u \in Users, Staff(u), NEW m \in CountMetrics, NEW dims, NEW filters,
         IsInjective(dims), ToSet(dims) \subseteq Dimensions[m], DOMAIN filters \subseteq FiltersOf(m),
         AllDims(m, dims) # {},
         NEW K, IsFiniteSet(K), Cardinality(K) <= 100, NEW k \in [Selected(m, Visible(u), filters) -> K],
         \A x \in Selected(m, Visible(u), filters), y \in Selected(m, Visible(u), filters) :
           k[x] = k[y] => LabelsOf(AllDims(m, dims), x) = LabelsOf(AllDims(m, dims), y)
  PROVE  Answer(u, m, dims, filters) = Grouped(m, AllDims(m, dims), Selected(m, Visible(u), filters))
<1> DEFINE G == AllDims(m, dims)
           F == Selected(m, Visible(u), filters)
<1>1. FirstRows(Grouped(m, G, F), 100) = Grouped(m, G, F)
  BY FewRows
<1>2. CASE Visible(u) = {}
  <2>1. F = {}
    BY <1>2, NoFacts
  <2>2. Grouped(m, G, F) = {}
    BY <2>1 DEF Grouped
  <2> QED BY <1>2, <2>2, Answered
<1>3. CASE Visible(u) # {}
  BY <1>1, <1>3, Answered
<1> QED BY <1>2, <1>3

LEMMA OneRow ==
  ASSUME NEW n \in Nat
  PROVE  Total({[labels |-> <<>>, value |-> 100 * n]}) = n
<1> DEFINE row == [labels |-> <<>>, value |-> 100 * n]
           f == [x \in {row} |-> x.value \div 100]
<1>1. f[row] = n
  <2>1. (100 * n) \div 100 = n
    OBVIOUS
  <2> QED BY <2>1
<1>2. DOMAIN f = {row} /\ IsFiniteSet({row})
  BY FS_Singleton
<1>3. SumOf(f) = n
  <2> HIDE DEF f, row
  <2>1. PICK it : /\ SumOf(f) = it[{row}] /\ it[{}] = 0
                  /\ \A E \in SUBSET {row} : E # {} => \E x \in E : it[E] = f[x] + it[E \ {x}]
    <3>1. IsFiniteSet(DOMAIN f)
      BY <1>2
    <3>2. \E it : /\ SumOf(f) = it[DOMAIN f] /\ it[{}] = 0
                  /\ \A E \in SUBSET DOMAIN f : E # {} => \E x \in E : it[E] = f[x] + it[E \ {x}]
      BY <3>1, SumRecursion
    <3> QED BY <1>2, <3>2
  <2>2. it[{row}] = f[row] + it[{row} \ {row}]
    BY <2>1
  <2>3. {row} \ {row} = {}
    OBVIOUS
  <2> QED BY <1>1, <2>1, <2>2, <2>3
<1> QED BY <1>3 DEF Total

LEMMA NoRows == Total({}) = 0
<1> DEFINE f == [x \in {} |-> x.value \div 100]
<1>1. DOMAIN f = {}
  OBVIOUS
<1> HIDE DEF f
<1>2. SumOf(f) = 0
  BY <1>1, SumRecursion, FS_EmptySet
<1> QED BY <1>2 DEF Total, f

\* one row per set of labels, and all of the rows, where each student is one fact
LEMMA CountOfLabels ==
  ASSUME NEW m \in CountMetrics, NEW dims, NEW P, IsFiniteSet(P), NEW F, F = {<<s, Null>> : s \in P}, NEW l
  PROVE  CountOf(Grouped(m, dims, F), l) = Cardinality({s \in P : LabelsOf(dims, <<s, Null>>) = l})
<1> DEFINE R == {r \in Grouped(m, dims, F) : r.labels = l}
           S == {s \in P : LabelsOf(dims, <<s, Null>>) = l}
<1>1. CountOf(Grouped(m, dims, F), l) = Total(R)
  BY DEF CountOf, Total
<1>2. IsFiniteSet(F)
  <2> DEFINE h == [s \in P |-> <<s, Null>>]
  <2>1. F = {h[s] : s \in P} /\ DOMAIN h = P /\ h = [s \in P |-> h[s]]
    OBVIOUS
  <2> HIDE DEF h
  <2> QED BY <2>1, FiniteImage
<1>3. \A x \in F : Listed(dims, R, x) <=> LabelsOf(dims, x) = l
  <2>1. ASSUME NEW x \in F, LabelsOf(dims, x) = l PROVE Listed(dims, R, x)
    BY <2>1, RowOfFact DEF Listed
  <2>2. ASSUME NEW x \in F, Listed(dims, R, x) PROVE LabelsOf(dims, x) = l
    BY <2>2 DEF Listed
  <2> QED BY <2>1, <2>2
<1>4. S = Counted(dims, R, F)
  <2> HIDE DEF R
  <2> QED BY <1>3 DEF Counted
<1>5. Total(R) = Cardinality(S)
  <2>1. R \subseteq Grouped(m, dims, F)
    OBVIOUS
  <2> HIDE DEF R, S
  <2>2. \A x \in F, y \in F : x[1] = y[1] /\ Listed(dims, R, x) /\ Listed(dims, R, y)
          => LabelsOf(dims, x) = LabelsOf(dims, y)
    BY <1>3
  <2>3. Total(R) = Cardinality(Counted(dims, R, F))
    BY <1>2, <2>1, <2>2, RowsAddUp
  <2> QED BY <1>4, <2>3
<1> QED BY <1>1, <1>5

LEMMA TotalOfAll ==
  ASSUME NEW m \in CountMetrics, NEW dims, NEW P, IsFiniteSet(P), NEW F, F = {<<s, Null>> : s \in P}
  PROVE  Total(Grouped(m, dims, F)) = Cardinality(P)
<1> DEFINE R == Grouped(m, dims, F)
<1>1. IsFiniteSet(F)
  <2> DEFINE h == [s \in P |-> <<s, Null>>]
  <2>1. F = {h[s] : s \in P} /\ DOMAIN h = P /\ h = [s \in P |-> h[s]]
    OBVIOUS
  <2> HIDE DEF h
  <2> QED BY <2>1, FiniteImage
<1>2. \A x \in F : Listed(dims, R, x)
  BY RowOfFact DEF Listed
<1> HIDE DEF R
<1>3. P = Counted(dims, R, F)
  <2>1. {z \in F : Listed(dims, R, z)} = F
    BY <1>2
  <2>2. \A s \in P : <<s, Null>> \in F /\ <<s, Null>>[1] = s
    OBVIOUS
  <2>3. \A y \in F : y[1] \in P
    OBVIOUS
  <2>4. P = {y[1] : y \in F}
    BY <2>2, <2>3, Zenon
  <2> QED BY <2>1, <2>4 DEF Counted
<1>4. \A x \in F, y \in F : x[1] = y[1] /\ Listed(dims, R, x) /\ Listed(dims, R, y)
        => LabelsOf(dims, x) = LabelsOf(dims, y)
  <2>1. \A x \in F, y \in F : x[1] = y[1] => x = y
    OBVIOUS
  <2> QED BY <2>1
<1>5. R \subseteq Grouped(m, dims, F)
  BY DEF R
<1>6. Total(R) = Cardinality(Counted(dims, R, F))
  BY <1>1, <1>4, <1>5, RowsAddUp
<1> QED BY <1>3, <1>6 DEF R

Pairs(P) == {<<s, Null>> : s \in P}

LEMMA StudentsOfPairs == ASSUME NEW P PROVE {y[1] : y \in Pairs(P)} = P
<1>1. \A s \in P : <<s, Null>> \in Pairs(P) /\ <<s, Null>>[1] = s
  BY DEF Pairs
<1>2. \A y \in Pairs(P) : y[1] \in P
  BY DEF Pairs
<1> QED BY <1>1, <1>2, Zenon

LEMMA DimensionSets ==
  /\ ToSet(<<>>) = {} /\ IsInjective(<<>>)
  /\ \A d : ToSet(<<d>>) = {d} /\ IsInjective(<<d>>)
  /\ \A d, e : ToSet(<<d, e>>) = {d, e} /\ (d # e => IsInjective(<<d, e>>))
BY DEF ToSet, IsInjective

LEMMA FilterIs ==
  /\ DOMAIN <<>> = {}
  /\ \A d, v : DOMAIN Filter(d, v) = {d} /\ Filter(d, v)[d] = v
BY DEF Filter

LEMMA SelectedIs ==
  ASSUME NEW ids \in SUBSET Students
  PROVE  /\ \A m \in {"risk_tier_count", "assessed_student_count"} :
              /\ Selected(m, ids, <<>>) = Pairs(Assessed(ids))
              /\ \A t : Selected(m, ids, Filter("tier", t)) = Pairs({s \in Assessed(ids) : assessment[s].tier = t})
              /\ \A d : Selected(m, ids, Filter("department", d)) = Pairs({s \in Assessed(ids) : Department(s) = d})
         /\ Selected("student_count", ids, <<>>) = Pairs(ids)
         /\ Selected("students_with_risk_type", ids, <<>>)
              = UNION {{<<s, c>> : c \in assessment[s].findings} : s \in Assessed(ids)}
<1>1. ASSUME NEW m \in {"risk_tier_count", "assessed_student_count"} PROVE Facts(m, ids) = Pairs(Assessed(ids))
  BY DEF Facts, Pairs
<1>2. \A m : Selected(m, ids, <<>>) = Facts(m, ids)
  BY FilterIs DEF Selected
<1>3. ASSUME NEW m \in {"risk_tier_count", "assessed_student_count"}, NEW t
      PROVE  Selected(m, ids, Filter("tier", t)) = Pairs({s \in Assessed(ids) : assessment[s].tier = t})
  <2>1. \A x : Column("tier", x) = assessment[x[1]].tier
    BY DEF Column
  <2>2. DOMAIN Filter("tier", t) = {"tier"} /\ Filter("tier", t)["tier"] = t
    BY FilterIs
  <2>3. Selected(m, ids, Filter("tier", t)) = {x \in Pairs(Assessed(ids)) : assessment[x[1]].tier = t}
    BY <1>1, <2>1, <2>2 DEF Selected
  <2> QED BY <2>3 DEF Pairs
<1>4. ASSUME NEW m \in {"risk_tier_count", "assessed_student_count"}, NEW d
      PROVE  Selected(m, ids, Filter("department", d)) = Pairs({s \in Assessed(ids) : Department(s) = d})
  <2>1. \A x : Column("department", x) = Department(x[1])
    BY DEF Column
  <2>2. DOMAIN Filter("department", d) = {"department"} /\ Filter("department", d)["department"] = d
    BY FilterIs
  <2>3. Selected(m, ids, Filter("department", d)) = {x \in Pairs(Assessed(ids)) : Department(x[1]) = d}
    BY <1>1, <2>1, <2>2 DEF Selected
  <2> QED BY <2>3 DEF Pairs
<1>5. Facts("student_count", ids) = Pairs(ids)
  BY DEF Facts, Pairs
<1>6. Facts("students_with_risk_type", ids) = UNION {{<<s, c>> : c \in assessment[s].findings} : s \in Assessed(ids)}
  BY DEF Facts
<1> QED BY <1>1, <1>2, <1>3, <1>4, <1>5, <1>6

LEMMA LabelsAre ==
  /\ \A x, t : LabelsOf({"tier"}, x) = Filter("tier", t) <=> assessment[x[1]].tier = t
  /\ \A x, y : LabelsOf({"risk_type"}, x) = Filter("risk_type", y) <=> TypeOf[x[2]] = y
  /\ \A x, d, t : LabelsOf({"department", "tier"}, x) = [department |-> d, tier |-> t]
                    <=> DepartmentLabel(x[1]) = d /\ assessment[x[1]].tier = t
<1>1. ASSUME NEW x, NEW t PROVE LabelsOf({"tier"}, x) = Filter("tier", t) <=> assessment[x[1]].tier = t
  <2>1. LabelsOf({"tier"}, x) = [d \in {"tier"} |-> assessment[x[1]].tier]
    BY DEF LabelsOf, Label, Column
  <2>2. LabelsOf({"tier"}, x)["tier"] = assessment[x[1]].tier
    BY <2>1
  <2> QED BY <2>1, <2>2 DEF Filter
<1>2. ASSUME NEW x, NEW y PROVE LabelsOf({"risk_type"}, x) = Filter("risk_type", y) <=> TypeOf[x[2]] = y
  <2>1. LabelsOf({"risk_type"}, x) = [d \in {"risk_type"} |-> TypeOf[x[2]]]
    BY DEF LabelsOf, Label, Column
  <2>2. LabelsOf({"risk_type"}, x)["risk_type"] = TypeOf[x[2]]
    BY <2>1
  <2> QED BY <2>1, <2>2 DEF Filter
<1>3. ASSUME NEW x, NEW d, NEW t
      PROVE  LabelsOf({"department", "tier"}, x) = [department |-> d, tier |-> t]
               <=> DepartmentLabel(x[1]) = d /\ assessment[x[1]].tier = t
  <2>1. LabelsOf({"department", "tier"}, x) = [department |-> DepartmentLabel(x[1]), tier |-> assessment[x[1]].tier]
    BY DEF LabelsOf, Label, Column
  <2> HIDE DEF LabelsOf
  <2>2. /\ LabelsOf({"department", "tier"}, x).department = DepartmentLabel(x[1])
        /\ LabelsOf({"department", "tier"}, x).tier = assessment[x[1]].tier
    BY <2>1
  <2> QED BY <2>1, <2>2
<1> QED BY <1>1, <1>2, <1>3

LEMMA TypesFinite == IsFiniteSet(RiskTypes) /\ Cardinality(RiskTypes) = 3
<1>1. IsFiniteSet({"attendance"}) /\ Cardinality({"attendance"}) = 1
  BY FS_Singleton
<1>2. IsFiniteSet({"attendance"} \cup {"academic"}) /\ Cardinality({"attendance"} \cup {"academic"}) = 2
  BY <1>1, FS_AddElement
<1>3. /\ IsFiniteSet(({"attendance"} \cup {"academic"}) \cup {"fee"})
      /\ Cardinality(({"attendance"} \cup {"academic"}) \cup {"fee"}) = 3
  BY <1>2, FS_AddElement
<1>4. RiskTypes = ({"attendance"} \cup {"academic"}) \cup {"fee"}
  BY DEF RiskTypes
<1> QED BY <1>3, <1>4

\* the keys of the groups by department, by department and tier, and by programme
LEMMA FewKeys ==
  ASSUME FewGroups
  PROVE  /\ IsFiniteSet(Departments \cup {Unassigned}) /\ Cardinality(Departments \cup {Unassigned}) <= 33
         /\ IsFiniteSet((Departments \cup {Unassigned}) \X Tiers)
         /\ Cardinality((Departments \cup {Unassigned}) \X Tiers) <= 99
         /\ IsFiniteSet(Programmes \cup {Null}) /\ Cardinality(Programmes \cup {Null}) <= 100
<1> DEFINE D == Departments \cup {Unassigned}
           P == Programmes \cup {Null}
<1>1. IsFiniteSet(Departments) /\ Cardinality(Departments) <= 32 /\ Cardinality(Departments) \in Nat
  BY FS_CardinalityType DEF FewGroups
<1>2. IsFiniteSet(D) /\ Cardinality(D) = IF Unassigned \in Departments THEN Cardinality(Departments) ELSE Cardinality(Departments) + 1
  BY <1>1, FS_AddElement
<1>3. IsFiniteSet(Programmes) /\ Cardinality(Programmes) <= 99 /\ Cardinality(Programmes) \in Nat
  BY FS_CardinalityType DEF FewGroups
<1>4. IsFiniteSet(P) /\ Cardinality(P) = IF Null \in Programmes THEN Cardinality(Programmes) ELSE Cardinality(Programmes) + 1
  BY <1>3, FS_AddElement
<1> HIDE DEF D, P
<1>5. IsFiniteSet(D \X Tiers) /\ Cardinality(D \X Tiers) = Cardinality(D) * Cardinality(Tiers)
  BY <1>2, TiersFinite, FS_Product
<1>6. Cardinality(D) \in Nat /\ Cardinality(D) <= 33
  BY <1>1, <1>2
<1>7. Cardinality(D \X Tiers) = Cardinality(D) * 3
  BY <1>5, TiersFinite
<1>8. Cardinality(D \X Tiers) <= 99
  BY <1>6, <1>7
<1>9. Cardinality(P) <= 100
  BY <1>3, <1>4
<1> QED BY <1>2, <1>4, <1>5, <1>6, <1>8, <1>9 DEF D, P

\* counts without dimensions
LEMMA AllStudents ==
  ASSUME RolesTyped, NEW u \in Users, Staff(u)
  PROVE  Total(Answer(u, "student_count", <<>>, <<>>)) = Cardinality(Visible(u))
<1>1. Cardinality(Visible(u)) \in Nat
  BY VisibleStudents, StudentsAssumption, FS_Subset, FS_CardinalityType
<1>2. /\ "student_count" \in CountMetrics /\ AllDims("student_count", <<>>) = {}
      /\ UngroupedStudentCount(Visible(u), <<>>) = 100 * Cardinality(Visible(u))
  BY DimensionSets, FilterIs DEF CountMetrics, AllDims, UngroupedStudentCount
<1>3. CASE Visible(u) = {}
  <2>1. Answer(u, "student_count", <<>>, <<>>) = {}
    BY <1>2, <1>3, DimensionSets, FilterIs, Answered
  <2> QED BY <1>3, <2>1, NoRows, FS_EmptySet
<1>4. CASE Visible(u) # {}
  <2>1. Answer(u, "student_count", <<>>, <<>>) = {[labels |-> <<>>, value |-> 100 * Cardinality(Visible(u))]}
    BY <1>2, <1>4, DimensionSets, FilterIs, Answered
  <2> QED BY <1>1, <2>1, OneRow
<1> QED BY <1>3, <1>4

LEMMA SomeAssessed ==
  ASSUME RolesTyped, NEW u \in Users, Staff(u), NEW P \in SUBSET Visible(u), NEW filters,
         DOMAIN filters \subseteq FiltersOf("assessed_student_count"),
         Selected("assessed_student_count", Visible(u), filters) = Pairs(P)
  PROVE  Total(Answer(u, "assessed_student_count", <<>>, filters)) = Cardinality(P)
<1> DEFINE m == "assessed_student_count"
<1>1. Cardinality(P) \in Nat
  BY VisibleStudents, StudentsAssumption, FS_Subset, FS_CardinalityType
<1>2. m \in CountMetrics /\ AllDims(m, <<>>) = {} /\ Value(m, Pairs(P)) = 100 * Cardinality(P)
  <2>1. AllDims(m, <<>>) = {}
    BY DimensionSets DEF AllDims
  <2>2. Value(m, Pairs(P)) = 100 * Cardinality({x[1] : x \in Pairs(P)})
    BY DEF Value
  <2> QED BY <2>1, <2>2, StudentsOfPairs DEF CountMetrics
<1>3. CASE Visible(u) = {}
  <2>1. P = {} /\ Answer(u, m, <<>>, filters) = {}
    BY <1>2, <1>3, DimensionSets, Answered
  <2> QED BY <2>1, NoRows, FS_EmptySet
<1>4. CASE Visible(u) # {}
  <2>1. Answer(u, m, <<>>, filters) = {[labels |-> <<>>, value |-> 100 * Cardinality(P)]}
    BY <1>2, <1>4, DimensionSets, Answered
  <2> QED BY <1>1, <2>1, OneRow
<1> QED BY <1>3, <1>4

\* counts by tier
LEMMA GroupedByTier ==
  ASSUME AssessmentTyped, RolesTyped, NEW u \in Users, Staff(u), NEW dims \in {<<>>, <<"tier">>}, NEW filters,
         NEW P \in SUBSET Assessed(Visible(u)), DOMAIN filters \subseteq FiltersOf("risk_tier_count"),
         Selected("risk_tier_count", Visible(u), filters) = Pairs(P)
  PROVE  Answer(u, "risk_tier_count", dims, filters) = Grouped("risk_tier_count", {"tier"}, Pairs(P))
<1> DEFINE m == "risk_tier_count"
           k == [x \in Pairs(P) |-> assessment[x[1]].tier]
<1>1. m \in CountMetrics /\ AllDims(m, dims) = {"tier"} /\ IsInjective(dims) /\ ToSet(dims) \subseteq Dimensions[m]
  BY DimensionSets DEF CountMetrics, AllDims, Dimensions
<1>2. k \in [Pairs(P) -> Tiers]
  BY VisibleStudents, AssessedTyped DEF Pairs
<1>3. \A x \in Pairs(P), y \in Pairs(P) : k[x] = k[y] => LabelsOf({"tier"}, x) = LabelsOf({"tier"}, y)
  BY DEF LabelsOf, Label, Column
<1> HIDE DEF k
<1>4. \A x \in Pairs(P), y \in Pairs(P) : k[x] = k[y] => LabelsOf(AllDims(m, dims), x) = LabelsOf(AllDims(m, dims), y)
  BY <1>1, <1>3
<1>5. AllDims(m, dims) # {} /\ IsFiniteSet(Tiers) /\ Cardinality(Tiers) <= 100
  BY <1>1, TiersFinite
<1> HIDE DEF m
<1>6. Answer(u, m, dims, filters) = Grouped(m, AllDims(m, dims), Selected(m, Visible(u), filters))
  BY <1>1, <1>2, <1>4, <1>5, AnsweredInFull DEF m
<1> QED BY <1>1, <1>6 DEF m

\* counts by department, and by department and tier
LEMMA GroupedByDepartment ==
  ASSUME FewGroups, AssessmentTyped, PlacedTyped, RolesTyped, NEW u \in Users, Staff(u)
  PROVE  /\ Answer(u, "risk_tier_count", <<"department", "tier">>, <<>>)
              = Grouped("risk_tier_count", {"department", "tier"}, Pairs(Assessed(Visible(u))))
         /\ Answer(u, "assessed_student_count", <<"department">>, <<>>)
              = Grouped("assessed_student_count", {"department"}, Pairs(Assessed(Visible(u))))
         /\ Answer(u, "student_count", <<"department">>, <<>>)
              = Grouped("student_count", {"department"}, Pairs(Visible(u)))
<1> DEFINE ids == Visible(u)
           D == Departments \cup {Unassigned}
<1>1. ids \in SUBSET Students /\ Assessed(ids) \subseteq ids
  BY VisibleStudents DEF Assessed
<1>2. \A s \in ids : DepartmentLabel(s) \in D
  BY <1>1, DepartmentTyped DEF DepartmentLabel
<1>3. \A x \in Pairs(ids) : DepartmentLabel(x[1]) \in D
  BY <1>2 DEF Pairs
<1>4. \A x \in Pairs(Assessed(ids)) : DepartmentLabel(x[1]) \in D /\ assessment[x[1]].tier \in Tiers
  BY <1>1, <1>2, AssessedTyped DEF Pairs
<1>5. \A x, y : DepartmentLabel(x[1]) = DepartmentLabel(y[1]) =>
        LabelsOf({"department"}, x) = LabelsOf({"department"}, y)
  BY DEF LabelsOf, Label
<1>6. \A x, y : DepartmentLabel(x[1]) = DepartmentLabel(y[1]) /\ assessment[x[1]].tier = assessment[y[1]].tier =>
        LabelsOf({"department", "tier"}, x) = LabelsOf({"department", "tier"}, y)
  BY DEF LabelsOf, Label, Column
<1>9. /\ AllDims("risk_tier_count", <<"department", "tier">>) = {"department", "tier"}
      /\ AllDims("assessed_student_count", <<"department">>) = {"department"}
      /\ AllDims("student_count", <<"department">>) = {"department"}
  BY DimensionSets DEF AllDims
<1>10. /\ Selected("risk_tier_count", ids, <<>>) = Pairs(Assessed(ids))
       /\ Selected("assessed_student_count", ids, <<>>) = Pairs(Assessed(ids))
       /\ Selected("student_count", ids, <<>>) = Pairs(ids)
  BY <1>1, SelectedIs
<1>11. /\ {"risk_tier_count", "assessed_student_count", "student_count"} \subseteq CountMetrics
       /\ ToSet(<<"department", "tier">>) \subseteq Dimensions["risk_tier_count"]
       /\ ToSet(<<"department">>) \subseteq Dimensions["assessed_student_count"]
       /\ ToSet(<<"department">>) \subseteq Dimensions["student_count"]
       /\ IsInjective(<<"department", "tier">>) /\ IsInjective(<<"department">>)
       /\ \A m : DOMAIN <<>> \subseteq FiltersOf(m)
  BY DimensionSets, FilterIs DEF CountMetrics, Dimensions
<1>12. IsFiniteSet(D) /\ Cardinality(D) <= 100 /\ IsFiniteSet(D \X Tiers) /\ Cardinality(D \X Tiers) <= 100
  <2>1. IsFiniteSet(D) /\ Cardinality(D) <= 33 /\ IsFiniteSet(D \X Tiers) /\ Cardinality(D \X Tiers) <= 99
    BY FewKeys
  <2>2. Cardinality(D) \in Nat /\ Cardinality(D \X Tiers) \in Nat
    BY <2>1, FS_CardinalityType
  <2> HIDE DEF D
  <2> QED BY <2>1, <2>2
<1>13. Answer(u, "risk_tier_count", <<"department", "tier">>, <<>>)
         = Grouped("risk_tier_count", {"department", "tier"}, Pairs(Assessed(ids)))
  <2> DEFINE m == "risk_tier_count"
             dims == <<"department", "tier">>
             none == <<>>
             G == AllDims(m, dims)
             F == Selected(m, ids, none)
             k == [x \in F |-> <<DepartmentLabel(x[1]), assessment[x[1]].tier>>]
             K == D \X Tiers
  <2>1. G = {"department", "tier"} /\ F = Pairs(Assessed(ids))
    BY <1>9, <1>10
  <2>2. k \in [F -> K] /\ IsFiniteSet(K) /\ Cardinality(K) <= 100
    BY <1>3, <1>4, <1>12, <2>1
  <2>3. /\ m \in CountMetrics /\ IsInjective(dims) /\ ToSet(dims) \subseteq Dimensions[m]
        /\ DOMAIN none \subseteq FiltersOf(m) /\ G # {}
    BY <1>11, <2>1
  <2>4. \A x \in F, y \in F : k[x] = k[y] => LabelsOf(G, x) = LabelsOf(G, y)
    BY <1>5, <1>6, <2>1
  <2> HIDE DEF m, dims, none, k, K, ids
  <2>5. Answer(u, m, dims, none) = Grouped(m, G, F)
    BY <2>2, <2>3, <2>4, AnsweredInFull DEF ids
  <2> QED BY <2>1, <2>5 DEF m, dims, none
<1>14. Answer(u, "assessed_student_count", <<"department">>, <<>>)
         = Grouped("assessed_student_count", {"department"}, Pairs(Assessed(ids)))
  <2> DEFINE m == "assessed_student_count"
             dims == <<"department">>
             none == <<>>
             G == AllDims(m, dims)
             F == Selected(m, ids, none)
             k == [x \in F |-> DepartmentLabel(x[1])]
             K == D
  <2>1. G = {"department"} /\ F = Pairs(Assessed(ids))
    BY <1>9, <1>10
  <2>2. k \in [F -> K] /\ IsFiniteSet(K) /\ Cardinality(K) <= 100
    BY <1>3, <1>4, <1>12, <2>1
  <2>3. /\ m \in CountMetrics /\ IsInjective(dims) /\ ToSet(dims) \subseteq Dimensions[m]
        /\ DOMAIN none \subseteq FiltersOf(m) /\ G # {}
    BY <1>11, <2>1
  <2>4. \A x \in F, y \in F : k[x] = k[y] => LabelsOf(G, x) = LabelsOf(G, y)
    BY <1>5, <1>6, <2>1
  <2> HIDE DEF m, dims, none, k, K, ids
  <2>5. Answer(u, m, dims, none) = Grouped(m, G, F)
    BY <2>2, <2>3, <2>4, AnsweredInFull DEF ids
  <2> QED BY <2>1, <2>5 DEF m, dims, none
<1>15. Answer(u, "student_count", <<"department">>, <<>>)
         = Grouped("student_count", {"department"}, Pairs(ids))
  <2> DEFINE m == "student_count"
             dims == <<"department">>
             none == <<>>
             G == AllDims(m, dims)
             F == Selected(m, ids, none)
             k == [x \in F |-> DepartmentLabel(x[1])]
             K == D
  <2>1. G = {"department"} /\ F = Pairs(ids)
    BY <1>9, <1>10
  <2>2. k \in [F -> K] /\ IsFiniteSet(K) /\ Cardinality(K) <= 100
    BY <1>3, <1>4, <1>12, <2>1
  <2>3. /\ m \in CountMetrics /\ IsInjective(dims) /\ ToSet(dims) \subseteq Dimensions[m]
        /\ DOMAIN none \subseteq FiltersOf(m) /\ G # {}
    BY <1>11, <2>1
  <2>4. \A x \in F, y \in F : k[x] = k[y] => LabelsOf(G, x) = LabelsOf(G, y)
    BY <1>5, <1>6, <2>1
  <2> HIDE DEF m, dims, none, k, K, ids
  <2>5. Answer(u, m, dims, none) = Grouped(m, G, F)
    BY <2>2, <2>3, <2>4, AnsweredInFull DEF ids
  <2> QED BY <2>1, <2>5 DEF m, dims, none
<1> QED BY <1>13, <1>14, <1>15

\* counts of students by programme, with or without its department
LEMMA GroupedByProgramme ==
  ASSUME FewGroups, PlacedTyped, RolesTyped, NEW u \in Users, Staff(u),
         NEW dims \in {<<"programme">>, <<"programme", "department">>}
  PROVE  Answer(u, "student_count", dims, <<>>) = Grouped("student_count", ToSet(dims), Pairs(Visible(u)))
<1> DEFINE ids == Visible(u)
           m == "student_count"
           none == <<>>
           G == AllDims(m, dims)
           F == Selected(m, ids, none)
           k == [x \in F |-> Programme(x[1])]
           K == Programmes \cup {Null}
<1>1. G = ToSet(dims) /\ F = Pairs(ids)
  BY VisibleStudents, SelectedIs DEF AllDims
<1>2. ToSet(dims) = {"programme"} \/ ToSet(dims) = {"programme", "department"}
  BY DimensionSets
<1>3. k \in [F -> K]
  BY <1>1, VisibleStudents, DepartmentTyped DEF Pairs
<1>4. IsFiniteSet(K) /\ Cardinality(K) <= 100
  BY FewKeys
<1>5. /\ m \in CountMetrics /\ IsInjective(dims) /\ ToSet(dims) \subseteq Dimensions[m]
      /\ DOMAIN none \subseteq FiltersOf(m) /\ G # {}
  BY <1>1, <1>2, DimensionSets, FilterIs DEF CountMetrics, Dimensions
<1>6. \A x, y : Programme(x[1]) = Programme(y[1]) =>
        \A d \in {"programme", "department"} : Label(d, x) = Label(d, y)
  BY DEF Label, Column, DepartmentLabel, Department
<1>7. \A x \in F, y \in F : k[x] = k[y] => LabelsOf(G, x) = LabelsOf(G, y)
  <2>1. \A d \in G : d \in {"programme", "department"}
    BY <1>1, <1>2
  <2> HIDE DEF G, F
  <2> QED BY <1>6, <2>1 DEF LabelsOf
<1> HIDE DEF m, none, k, K, ids
<1>8. Answer(u, m, dims, none) = Grouped(m, G, F)
  BY <1>3, <1>4, <1>5, <1>7, AnsweredInFull DEF ids
<1> QED BY <1>1, <1>8 DEF m, none, ids

\* counts by risk type: a student is counted once, however many findings have the type
LEMMA CountOfType ==
  ASSUME AssessmentTyped, RolesTyped, NEW u \in Users, Staff(u), NEW y \in RiskTypes
  PROVE  CountOf(Answer(u, "students_with_risk_type", <<>>, <<>>), Filter("risk_type", y))
           = Cardinality({s \in Assessed(Visible(u)) : y \in RiskTypesOf(s)})
<1> DEFINE ids == Visible(u)
           A == Assessed(ids)
           m == "students_with_risk_type"
           none == <<>>
           G == AllDims(m, none)
           F == Selected(m, ids, none)
           l == Filter("risk_type", y)
<1>1. G = {"risk_type"} /\ F = UNION {{<<s, c>> : c \in assessment[s].findings} : s \in A}
  BY VisibleStudents, SelectedIs, DimensionSets DEF AllDims
<1>2. \A s \in A : assessment[s].findings \subseteq DOMAIN TypeOf
  BY VisibleStudents, AssessedTyped
<1>3. \A x \in F : x[1] \in A /\ x[2] \in assessment[x[1]].findings /\ x[2] \in DOMAIN TypeOf /\ x = <<x[1], x[2]>>
  BY <1>1, <1>2
<1>4. \A c \in DOMAIN TypeOf : TypeOf[c] \in RiskTypes
  BY DEF TypeOf, RiskTypes
<1>5. Answer(u, m, none, none) = Grouped(m, G, F)
  <2> DEFINE k == [x \in F |-> TypeOf[x[2]]]
  <2>1. k \in [F -> RiskTypes]
    BY <1>3, <1>4
  <2>2. IsFiniteSet(RiskTypes) /\ Cardinality(RiskTypes) <= 100
    BY TypesFinite
  <2>3. /\ m \in CountMetrics /\ IsInjective(none) /\ ToSet(none) \subseteq Dimensions[m]
        /\ DOMAIN none \subseteq FiltersOf(m) /\ G # {}
    BY <1>1, DimensionSets, FilterIs DEF CountMetrics
  <2>4. \A x, z : TypeOf[x[2]] = TypeOf[z[2]] => LabelsOf({"risk_type"}, x) = LabelsOf({"risk_type"}, z)
    BY DEF LabelsOf, Label, Column
  <2>5. \A x \in F, z \in F : k[x] = k[z] => LabelsOf(G, x) = LabelsOf(G, z)
    BY <1>1, <2>4
  <2> HIDE DEF m, none, k, ids
  <2> QED BY <2>1, <2>2, <2>3, <2>5, AnsweredInFull DEF ids
<1> DEFINE R == {r \in Grouped(m, G, F) : r.labels = l}
<1>6. CountOf(Grouped(m, G, F), l) = Total(R)
  BY DEF CountOf, Total
<1>7. IsFiniteSet(F)
  <2>1. IsFiniteSet(A)
    BY VisibleStudents, AssessedTyped
  <2>2. IsFiniteSet(DOMAIN TypeOf)
    <3>1. IsFiniteSet({"ATTENDANCE_BELOW_THRESHOLD"})
      BY FS_Singleton
    <3>2. IsFiniteSet({"ATTENDANCE_BELOW_THRESHOLD"} \cup {"ATTENDANCE_DECLINING"})
      BY <3>1, FS_AddElement
    <3>3. IsFiniteSet(({"ATTENDANCE_BELOW_THRESHOLD"} \cup {"ATTENDANCE_DECLINING"}) \cup {"ACADEMIC_FAILING_INTERNALS"})
      BY <3>2, FS_AddElement
    <3> DEFINE three == ({"ATTENDANCE_BELOW_THRESHOLD"} \cup {"ATTENDANCE_DECLINING"}) \cup {"ACADEMIC_FAILING_INTERNALS"}
    <3>4. DOMAIN TypeOf = (three \cup {"ACADEMIC_DECLINE"}) \cup {"FEE_OVERDUE"}
      BY DEF TypeOf
    <3> HIDE DEF three
    <3>5. IsFiniteSet(three \cup {"ACADEMIC_DECLINE"})
      BY <3>3, FS_AddElement DEF three
    <3>6. IsFiniteSet((three \cup {"ACADEMIC_DECLINE"}) \cup {"FEE_OVERDUE"})
      BY <3>5, FS_AddElement
    <3> QED BY <3>4, <3>6
  <2>3. IsFiniteSet(A \X DOMAIN TypeOf)
    BY <2>1, <2>2, FS_Product
  <2>4. F \subseteq A \X DOMAIN TypeOf
    BY <1>3
  <2> QED BY <2>3, <2>4, FS_Subset
<1>8. m \in CountMetrics
  BY DEF CountMetrics
<1>9. \A x \in F : LabelsOf(G, x) = l <=> TypeOf[x[2]] = y
  BY <1>1, LabelsAre
<1> HIDE DEF m, none, l
<1>10. \A x \in F : Listed(G, R, x) <=> LabelsOf(G, x) = l
  <2>1. ASSUME NEW x \in F, LabelsOf(G, x) = l PROVE Listed(G, R, x)
    BY <1>8, <2>1, RowOfFact DEF Listed
  <2>2. ASSUME NEW x \in F, Listed(G, R, x) PROVE LabelsOf(G, x) = l
    BY <2>2 DEF Listed
  <2> QED BY <2>1, <2>2
<1>11. R \subseteq Grouped(m, G, F)
  OBVIOUS
<1> HIDE DEF R, A
<1>12. Counted(G, R, F) = {s \in A : y \in RiskTypesOf(s)}
  <2>1. ASSUME NEW s \in Counted(G, R, F) PROVE s \in A /\ y \in RiskTypesOf(s)
    <3>1. PICK x \in F : Listed(G, R, x) /\ s = x[1]
      BY DEF Counted
    <3>2. TypeOf[x[2]] = y
      BY <1>9, <1>10, <3>1
    <3> QED BY <1>3, <3>1, <3>2 DEF RiskTypesOf
  <2>2. ASSUME NEW s \in A, y \in RiskTypesOf(s) PROVE s \in Counted(G, R, F)
    <3>1. PICK c \in assessment[s].findings : TypeOf[c] = y
      BY <2>2 DEF RiskTypesOf
    <3>2. <<s, c>> \in F
      BY <1>1
    <3>3. Listed(G, R, <<s, c>>)
      BY <1>9, <1>10, <3>1, <3>2
    <3> QED BY <3>2, <3>3 DEF Counted
  <2> QED BY <2>1, <2>2
<1>13. \A x \in F, z \in F : x[1] = z[1] /\ Listed(G, R, x) /\ Listed(G, R, z) => LabelsOf(G, x) = LabelsOf(G, z)
  BY <1>10
<1>14. Total(R) = Cardinality(Counted(G, R, F))
  BY <1>7, <1>8, <1>11, <1>13, RowsAddUp
<1> QED BY <1>5, <1>6, <1>12, <1>14 DEF m, none, l, A

LEMMA GovernedAgrees ==
  ASSUME FewGroups, NamesApart, AssessmentTyped, PlacedTyped, RolesTyped, NEW u \in Users, Staff(u)
  PROVE  GovernedAgreesFor(u)
<1> DEFINE ids == Visible(u)
           A == Assessed(ids)
           tiles == Summary(ids)
           depts == SummaryByDepartment(ids)
<1>1. /\ ids \in SUBSET Students /\ A \subseteq ids /\ IsFiniteSet(A) /\ IsFiniteSet(ids)
      /\ \A s \in A : assessment[s].tier \in Tiers
  BY VisibleStudents, AssessedTyped DEF Assessed
<1>2. \A t \in Tiers : tiles.by_tier[t] = Cardinality({s \in A : assessment[s].tier = t})
  BY DEF Summary
<1>3. \A y \in RiskTypes : tiles.by_risk_type[y] = Cardinality({s \in A : y \in RiskTypesOf(s)})
  BY DEF Summary
<1>4. depts = [d \in {DepartmentLabel(s) : s \in A} |->
                [t \in Tiers |-> Cardinality({s \in A : DepartmentLabel(s) = d /\ assessment[s].tier = t})]]
  BY DEF SummaryByDepartment
<1>5. {"risk_tier_count", "assessed_student_count", "student_count"} \subseteq CountMetrics
  BY DEF CountMetrics
<1>6. /\ \A v : DOMAIN Filter("tier", v) \subseteq FiltersOf("assessed_student_count")
      /\ \A v : DOMAIN Filter("department", v) \subseteq FiltersOf("risk_tier_count")
      /\ DOMAIN <<>> \subseteq FiltersOf("risk_tier_count")
  <2>1. \A m \in {"risk_tier_count", "assessed_student_count"} : FiltersOf(m) = {"department", "tier"}
    BY DEF FiltersOf, Dimensions
  <2>2. ASSUME NEW v PROVE DOMAIN Filter("tier", v) = {"tier"} /\ DOMAIN Filter("department", v) = {"department"}
    BY FilterIs
  <2>3. ASSUME NEW v PROVE DOMAIN Filter("tier", v) \subseteq FiltersOf("assessed_student_count")
    BY <2>1, <2>2
  <2>4. ASSUME NEW v PROVE DOMAIN Filter("department", v) \subseteq FiltersOf("risk_tier_count")
    BY <2>1, <2>2
  <2>5. DOMAIN <<>> \subseteq FiltersOf("risk_tier_count")
    BY FilterIs
  <2> QED BY <2>3, <2>4, <2>5
<1> HIDE DEF ids, A, tiles, depts
<1>7. ASSUME NEW t \in Tiers
      PROVE  CountOf(Answer(u, "risk_tier_count", <<>>, <<>>), Filter("tier", t)) = tiles.by_tier[t]
  <2>1. Selected("risk_tier_count", ids, <<>>) = Pairs(A)
    BY <1>1, SelectedIs DEF A
  <2>2. Answer(u, "risk_tier_count", <<>>, <<>>) = Grouped("risk_tier_count", {"tier"}, Pairs(A))
    BY <1>1, <1>6, <2>1, GroupedByTier DEF ids, A
  <2>3. CountOf(Grouped("risk_tier_count", {"tier"}, Pairs(A)), Filter("tier", t))
          = Cardinality({s \in A : LabelsOf({"tier"}, <<s, Null>>) = Filter("tier", t)})
    BY <1>1, <1>5, CountOfLabels DEF Pairs
  <2>4. {s \in A : LabelsOf({"tier"}, <<s, Null>>) = Filter("tier", t)} = {s \in A : assessment[s].tier = t}
    BY LabelsAre
  <2> QED BY <1>2, <2>2, <2>3, <2>4
<1>8. ASSUME NEW t \in Tiers
      PROVE  Total(Answer(u, "assessed_student_count", <<>>, Filter("tier", t))) = tiles.by_tier[t]
  <2> DEFINE P == {s \in A : assessment[s].tier = t}
  <2>1. Selected("assessed_student_count", ids, Filter("tier", t)) = Pairs(P)
    BY <1>1, SelectedIs DEF A
  <2>2. P \in SUBSET ids
    BY <1>1
  <2> HIDE DEF P
  <2>3. Total(Answer(u, "assessed_student_count", <<>>, Filter("tier", t))) = Cardinality(P)
    BY <1>6, <2>1, <2>2, SomeAssessed DEF ids
  <2> QED BY <1>2, <2>3 DEF P
<1>9. ASSUME NEW t \in Tiers, NEW d \in DOMAIN depts
      PROVE  CountOf(Answer(u, "risk_tier_count", <<"department", "tier">>, <<>>), [department |-> d, tier |-> t])
               = depts[d][t]
  <2> DEFINE l == [department |-> d, tier |-> t]
             G == {"department", "tier"}
  <2>1. Answer(u, "risk_tier_count", <<"department", "tier">>, <<>>) = Grouped("risk_tier_count", G, Pairs(A))
    BY GroupedByDepartment DEF ids, A
  <2>2. {s \in A : LabelsOf(G, <<s, Null>>) = l} = {s \in A : DepartmentLabel(s) = d /\ assessment[s].tier = t}
    BY LabelsAre
  <2> HIDE DEF l, G
  <2>3. CountOf(Grouped("risk_tier_count", G, Pairs(A)), l) = Cardinality({s \in A : LabelsOf(G, <<s, Null>>) = l})
    BY <1>1, <1>5, CountOfLabels DEF Pairs
  <2>4. depts[d][t] = Cardinality({s \in A : DepartmentLabel(s) = d /\ assessment[s].tier = t})
    BY <1>4
  <2> QED BY <2>1, <2>2, <2>3, <2>4 DEF l
<1>10. ASSUME NEW y \in RiskTypes
       PROVE  CountOf(Answer(u, "students_with_risk_type", <<>>, <<>>), Filter("risk_type", y)) = tiles.by_risk_type[y]
  BY <1>3, CountOfType DEF ids, A
<1>11. ASSUME NEW d \in Departments
       PROVE  Total(Answer(u, "risk_tier_count", <<"tier">>, Filter("department", d)))
                = IF d \in DOMAIN depts THEN SumOf(depts[d]) ELSE 0
  <2> DEFINE P == {s \in A : Department(s) = d}
  <2>1. \A s \in A : Department(s) = d <=> DepartmentLabel(s) = d
    BY NullAssumption DEF DepartmentLabel, NamesApart
  <2>2. Selected("risk_tier_count", ids, Filter("department", d)) = Pairs(P)
    BY <1>1, SelectedIs DEF A
  <2>3. P \in SUBSET A /\ IsFiniteSet(P)
    BY <1>1, FS_Subset
  <2> HIDE DEF P
  <2>4. Answer(u, "risk_tier_count", <<"tier">>, Filter("department", d)) = Grouped("risk_tier_count", {"tier"}, Pairs(P))
    BY <1>6, <2>2, <2>3, GroupedByTier DEF ids, A
  <2>5. Total(Grouped("risk_tier_count", {"tier"}, Pairs(P))) = Cardinality(P)
    BY <1>5, <2>3, TotalOfAll DEF Pairs
  <2>6. CASE d \in DOMAIN depts
    <3>1. ASSUME NEW t \in Tiers PROVE depts[d][t] = Cardinality({s \in P : assessment[s].tier = t})
      <4>1. {s \in P : assessment[s].tier = t} = {s \in A : DepartmentLabel(s) = d /\ assessment[s].tier = t}
        BY <2>1 DEF P
      <4> QED BY <1>4, <2>6, <4>1
    <3>2. depts[d] = [t \in Tiers |-> depts[d][t]]
      BY <1>4, <2>6
    <3>3. depts[d] = [t \in Tiers |-> Cardinality({s \in P : assessment[s].tier = t})]
      BY <3>1, <3>2
    <3>4. SumOf([t \in Tiers |-> Cardinality({s \in P : assessment[s].tier = t})]) = Cardinality(P)
      BY <1>1, <2>3, ByTier DEF A
    <3> QED BY <2>4, <2>5, <2>6, <3>3, <3>4
  <2>7. CASE d \notin DOMAIN depts
    <3>1. P = {}
      BY <1>4, <2>1, <2>7 DEF P
    <3> QED BY <2>4, <2>5, <2>7, <3>1, FS_EmptySet
  <2> QED BY <2>6, <2>7
<1>12. ASSUME NEW dims \in {<<>>, <<"department">>, <<"programme">>, <<"programme", "department">>}
       PROVE  Total(Answer(u, "student_count", dims, <<>>)) = Cardinality(ids)
  <2>1. \A G : Total(Grouped("student_count", G, Pairs(ids))) = Cardinality(ids)
    BY <1>1, <1>5, TotalOfAll DEF Pairs
  <2>2. CASE dims = <<>>
    BY <2>2, AllStudents DEF ids
  <2>3. CASE dims = <<"department">>
    BY <2>1, <2>3, GroupedByDepartment DEF ids
  <2>4. CASE dims \in {<<"programme">>, <<"programme", "department">>}
    BY <2>1, <2>4, GroupedByProgramme DEF ids
  <2> QED BY <2>2, <2>3, <2>4
<1>13. Total(Answer(u, "assessed_student_count", <<"department">>, <<>>)) = Cardinality(A)
  <2>1. Answer(u, "assessed_student_count", <<"department">>, <<>>) = Grouped("assessed_student_count", {"department"}, Pairs(A))
    BY GroupedByDepartment DEF ids, A
  <2> QED BY <1>1, <1>5, <2>1, TotalOfAll DEF Pairs
<1> QED BY <1>7, <1>8, <1>9, <1>10, <1>11, <1>12, <1>13 DEF GovernedAgreesFor, Answer, ids, A, tiles, depts

\* For any number of students, users, scopes and questions, all of the figures a member of staff
\* can read agree (FiguresAgree): the tiles of the dashboard, its departments, the at-risk list and
\* the student page of repositories/risk_repository.py, and the governed metrics of the copilot -
\* as long as no metric has more groups than an answer has rows, and no department is called as
\* the students without one are.
THEOREM FiguresAlwaysAgree == FewGroups /\ NamesApart => (CopilotSpec => []FiguresAgree)
<1> SUFFICES ASSUME FewGroups, NamesApart PROVE CopilotSpec => []FiguresAgree
  OBVIOUS
<1>1. CopilotInit => FInv
  BY InitTyped DEF CopilotInit
<1>2. FInv /\ [CopilotNext]_copilotVars => FInv'
  BY StaffStep, NextTyped
<1>3. FInv => FiguresAgree
  BY VisibleStudents, ReadsAgree, GovernedAgrees DEF FInv, FiguresAgree
<1> QED BY <1>1, <1>2, <1>3, PTL DEF CopilotSpec
=============================================================================
