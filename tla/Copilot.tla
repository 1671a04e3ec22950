------------------------------- MODULE Copilot -------------------------------
(* The AI plane over StaffAccess: governed metrics of services/ai/semantic   *)
(* and the questions of services/ai/orchestrator.py.  A question reads the   *)
(* memory of its session, has the provider choose a metric, executes it with *)
(* the rights of the asker, has the provider narrate the rows, validates the *)
(* narration and appends to the memory.  Several questions are in progress   *)
(* at once, and everything of StaffAccess happens between their steps.       *)
(* Both answers of the provider go through a cache of the tenant.            *)
(*                                                                           *)
(* Values are hundredths.  A figure of a text is a value as it is written.   *)
(* The order of rows is left out.                                            *)
EXTENDS StaffAccess, SequencesExt

CONSTANTS
  Asks,               \* requests that can be in progress at once
  Questions, Documents,
  RelevantTo,         \* the documents that score ai_rag_min_score for a question
  Intents,            \* [sel, figures]: a selection, or Null and a text with figures
  Narrations,         \* the sets of figures a provider may write into a narration
  FiguresIn,          \* the figures in the code of a programme or department
  Attendance, Marks,  \* per student, the records: 0 or 1, and percentages in hundredths
  MaxTurns,           \* ai_session_memory_max_turns
  MaxAsks             \* bound

ASSUME RecordsAssumption ==
  Attendance \in [Students -> Seq({0, 1})] /\ Marks \in [Students -> Seq(0 .. 10000)]
ASSUME DocumentsAssumption == RelevantTo \in [Questions -> SUBSET Documents]
ASSUME StudentsAssumption == IsFiniteSet(Students)
\* How a value is written: as str() writes it (2, 66.7), with leading zeros (02, 002),
\* with one more decimal (2.0), with a comma before its last three digits (1,200), in thousands with
\* a letter (1.2k), in words.
Forms == {"plain", "zero", "zeros", "decimal", "grouped", "thousands", "words"}
Digits == Forms \ {"grouped", "thousands", "words"}
Figure == [value : Nat, form : Forms]
\* a selection is parsed with an integer limit, and a narration is searched for figures
ASSUME ProviderAssumption ==
  /\ \A i \in Intents : i.sel # Null => i.sel.limit \in Int
  /\ Narrations \subseteq SUBSET Figure
ASSUME CodesAssumption ==
  FiguresIn \in [Programmes \cup Departments -> SUBSET {x \in Figure : x.form \in Digits}]
ASSUME TurnsAssumption == MaxTurns \in Nat \ {0} /\ MaxAsks \in Nat

VARIABLES
  indexed,    \* governed_document_chunks: the documents they are of
  cache,      \* ai:gateway:*: [task, key, response]
  memory,     \* ai:memory:*: the turns of the one session of each user
  ask,        \* the questions in progress
  asked,      \* a bound
  log,        \* history: the turns appended since the memory was last empty, per user
  disturbed   \* history: users whose memory two appends, or an append and its expiry, met at
copilot == <<indexed, cache, memory, ask, asked, log, disturbed>>
copilotVars == <<vars, copilot>>

CopilotInit ==
  /\ Init
  /\ indexed = {} /\ cache = {} /\ asked = 0 /\ disturbed = {}
  /\ memory = [u \in Users |-> <<>>] /\ log = [u \in Users |-> <<>>]
  /\ ask = [r \in Asks |-> Null]

-----------------------------------------------------------------------------
(* The catalogue and the executor.                                           *)

Dimensions ==
  [student_count |-> {"department", "programme"},
   assessed_student_count |-> {"department", "tier"},
   risk_tier_count |-> {"department", "tier"},
   avg_risk_score |-> {"department"},
   students_with_risk_type |-> {"risk_type", "department"},
   attendance_present_rate |-> {"department", "programme"},
   avg_internal_mark_pct |-> {"department", "programme"}]
Metrics == DOMAIN Dimensions
FiltersOf(m) == IF m = "avg_risk_score" THEN {"department", "tier"} ELSE Dimensions[m]

\* _resolve_metric and _validate_selection
Valid(r, sel) ==
  /\ sel.metric \in Metrics /\ r \in Privileged \cup {"faculty"}
  /\ sel.limit >= 1
  /\ ToSet(sel.dimensions) \subseteq Dimensions[sel.metric]
  /\ DOMAIN sel.filters \subseteq FiltersOf(sel.metric)
  /\ IsInjective(sel.dimensions)

\* the rows a metric ranges over: a student, and what of the student
Facts(m, ids) ==
  CASE m = "student_count" -> {<<s, Null>> : s \in ids}
    [] m = "students_with_risk_type" -> UNION {{<<s, c>> : c \in assessment[s].findings} : s \in Assessed(ids)}
    [] m = "attendance_present_rate" -> UNION {{<<s, k>> : k \in DOMAIN Attendance[s]} : s \in ids}
    [] m = "avg_internal_mark_pct" -> UNION {{<<s, k>> : k \in DOMAIN Marks[s]} : s \in ids}
    [] OTHER -> {<<s, Null>> : s \in Assessed(ids)}

Column(d, x) ==
  CASE d = "department" -> Department(x[1])
    [] d = "programme" -> Programme(x[1])
    [] d = "tier" -> assessment[x[1]].tier
    [] d = "risk_type" -> TypeOf[x[2]]
Label(d, x) == IF d = "department" THEN DepartmentLabel(x[1]) ELSE Column(d, x)

\* an average, rounded to hundredths; 0 where SQL gives NULL
Mean(sample) ==
  LET n == Cardinality(DOMAIN sample)
  IN  IF n = 0 THEN 0 ELSE (2 * SumOf(sample) + n) \div (2 * n)
Value(m, F) ==
  CASE m = "avg_risk_score" -> Mean([x \in F |-> 100 * assessment[x[1]].score])
    [] m = "attendance_present_rate" -> Mean([x \in F |-> 10000 * Attendance[x[1]][x[2]]])
    [] m = "avg_internal_mark_pct" -> Mean([x \in F |-> Marks[x[1]][x[2]]])
    [] OTHER -> 100 * Cardinality({x[1] : x \in F})

Grouped(m, dims, F) ==
  {[labels |-> [d \in dims |-> Label(d, x)],
    value |-> Value(m, {y \in F : \A d \in dims : Label(d, y) = Label(d, x)})] : x \in F}
\* ORDER BY the labels LIMIT n
FirstRows(rows, n) == IF Cardinality(rows) <= n THEN rows ELSE CHOOSE R \in kSubset(n, rows) : TRUE

\* count(Student.id) over students, the programmes and the departments named by the filters: none
\* of them is joined to the students
UngroupedStudentCount(ids, filters) ==
  LET named(d) == filters[d] \in IF d = "programme" THEN Programmes ELSE Departments
  IN  IF \A d \in DOMAIN filters : named(d) THEN 100 * Cardinality(ids) ELSE 0

Rows(ids, sel) ==
  LET added == CASE sel.metric = "risk_tier_count" -> {"tier"}
                 [] sel.metric = "students_with_risk_type" -> {"risk_type"}
                 [] OTHER -> {}
      dims == ToSet(sel.dimensions) \cup added
      F == {x \in Facts(sel.metric, ids) : \A d \in DOMAIN sel.filters : Column(d, x) = sel.filters[d]}
  IN  IF dims # {} THEN FirstRows(Grouped(sel.metric, dims, F), Min({sel.limit, 500}))
      ELSE {[labels |-> <<>>,
             value |-> IF sel.metric = "student_count" THEN UngroupedStudentCount(ids, sel.filters)
                       ELSE Value(sel.metric, F)]}

AskedType(sel) == IF "risk_type" \in DOMAIN sel.filters THEN {sel.filters["risk_type"]} ELSE {}

\* Mutant: a filtered query is not restricted to the visible students.
ExecuteFilteredForAll(r, u, sel) ==
  IF ~Valid(r, sel) THEN [ok |-> FALSE, rows |-> {}]
  ELSE IF VisibleIds(r, u) = {} THEN [ok |-> TRUE, rows |-> {}]
  ELSE [ok |-> AskedType(sel) \subseteq RiskTypes,
        rows |-> Rows(IF DOMAIN sel.filters = {} THEN VisibleIds(r, u) ELSE Students, sel)]
\* execute_semantic_query
Execute(r, u, sel) ==
  IF ~Valid(r, sel) THEN [ok |-> FALSE, rows |-> {}]
  ELSE IF VisibleIds(r, u) = {} THEN [ok |-> TRUE, rows |-> {}]
  ELSE [ok |-> AskedType(sel) \subseteq RiskTypes, rows |-> Rows(VisibleIds(r, u), sel)]
\* POST /ai/semantic/query
GovernedQuery(u, sel) == Execute(token[u], u, sel)

-----------------------------------------------------------------------------
(* The provider behind the gateway, and the guardrail on what it writes.     *)

Entries(task, key) == {e \in cache : e.task = task /\ e.key = key}
\* complete: the cached response, or one of the provider's, which is cached; a read that misses
\* and the write are one step here, so of two responses to one miss the later is kept
Complete(task, key, responses, response) ==
  IF Entries(task, key) # {}
  THEN (\E e \in Entries(task, key) : response = e.response) /\ UNCHANGED cache
  ELSE /\ response \in responses
       /\ cache' = cache \cup {[task |-> task, key |-> key, response |-> response]}

Plain(v) == [value |-> v, form |-> "plain"]
\* t tenths, with one decimal
OneDecimal(t) == [value |-> 10 * t, form |-> IF t % 10 = 0 THEN "decimal" ELSE "plain"]

\* _numbers_from_rows: each value, the value with one decimal, where a tie goes the way the float
\* leans, and the figures in the codes that label the row
InRow(x) ==
  {Plain(x.value), OneDecimal((x.value + 4) \div 10), OneDecimal((x.value + 5) \div 10)}
  \cup UNION {FiguresIn[x.labels[d]] : d \in {e \in DOMAIN x.labels : x.labels[e] \in DOMAIN FiguresIn}}
InRows(rows) == UNION {InRow(x) : x \in rows}
\* _is_harmless_count truncates
Harmless(f, rows) == f.value \div 100 = Cardinality(rows)

\* _NUMBER_RE, which ends a figure at a comma and finds none that ends at a letter: of 1,002 it finds
\* 1 and 002, of 1.2k the 1, and of 900k nothing
ThreeDigits(v) ==
  [value |-> v, form |-> IF v < 1000 THEN "zeros" ELSE IF v < 10000 THEN "zero" ELSE "plain"]
Found(f) ==
  CASE f.form = "grouped" -> {Plain(100 * (f.value \div 100000)), ThreeDigits(f.value % 100000)}
    [] f.form = "thousands" -> IF f.value % 100000 = 0 THEN {} ELSE {Plain(100 * (f.value \div 100000))}
    [] f.form = "words" -> {}
    [] OTHER -> {f}
Cited(figures) == UNION {Found(f) : f \in figures}

\* the text that stands in for a narration with a figure that is not allowed
Fallback(rows) ==
  IF Cardinality(rows) = 1 THEN {Plain(x.value) : x \in rows} ELSE {Plain(100 * Cardinality(rows))}

\* Mutant: a header is taken for one more row.
ValidatedWithHeader(figures, rows) ==
  IF rows = {} \/ \A f \in Cited(figures) : f \in InRows(rows) \/ f.value \div 100 = Cardinality(rows) + 1
  THEN figures ELSE Fallback(rows)
\* validate_narration
Validated(figures, rows) ==
  IF rows = {} \/ \A f \in Cited(figures) : f \in InRows(rows) \/ Harmless(f, rows)
  THEN figures ELSE Fallback(rows)

-----------------------------------------------------------------------------
(* A question.                                                               *)

At(r, at) == ask[r] # Null /\ ask[r].at = at
Others == UNCHANGED <<vars, indexed, asked>>

\* retrieve_evidence and ContextBuilder.build
Evidence(q) == indexed \cap RelevantTo[q]
\* ask_question up to the gateway: the memory and the evidence are read when the question starts;
\* the tools are those of every role but student
Asking(u, q) ==
  [at |-> "intent", user |-> u, role |-> token[u], question |-> q, turns |-> memory[u],
   evidence |-> Evidence(q), sel |-> Null, rows |-> {}, figures |-> {}, loaded |-> <<>>]

\* POST /ai/ask
AskStart(r, u, q) ==
  /\ ask[r] = Null /\ asked < MaxAsks /\ Staff(u)
  /\ asked' = asked + 1
  /\ ask' = [ask EXCEPT ![r] = Asking(u, q)]
  /\ UNCHANGED <<vars, indexed, cache, memory, log, disturbed>>

\* nl_intent; without a tool call the text of the provider is the answer
AskIntent(r) ==
  /\ At(r, "intent")
  /\ \E intent \in Intents :
       /\ Complete("nl_intent", <<ask[r].evidence, ask[r].turns, ask[r].question>>, Intents, intent)
       /\ ask' = [ask EXCEPT ![r].sel = intent.sel, ![r].figures = intent.figures,
                             ![r].at = IF intent.sel = Null THEN "load" ELSE "query"]
  /\ UNCHANGED <<memory, log, disturbed>> /\ Others

\* the governed query; a selection that is not allowed ends the question with an error
AskQuery(r) ==
  /\ At(r, "query")
  /\ LET result == Execute(ask[r].role, ask[r].user, ask[r].sel)
     IN  ask' = IF result.ok THEN [ask EXCEPT ![r].rows = result.rows, ![r].at = "narrate"]
                ELSE [ask EXCEPT ![r] = Null]
  /\ UNCHANGED <<cache, memory, log, disturbed>> /\ Others

AskNarrate(r) ==
  /\ At(r, "narrate")
  /\ \E raw \in Narrations :
       /\ Complete("narration", <<ask[r].sel.metric, ask[r].sel.dimensions, ask[r].rows>>, Narrations, raw)
       /\ ask' = [ask EXCEPT ![r].figures = Validated(raw, ask[r].rows), ![r].at = "load"]
  /\ UNCHANGED <<memory, log, disturbed>> /\ Others

Appending(u) == {r \in Asks : At(r, "store") /\ ask[r].user = u}
Overlap(u) == disturbed' = disturbed \cup IF Appending(u) # {} THEN {u} ELSE {}

\* Mutant: the new turns are appended to those the question started with.
AskLoadFromStart(r) ==
  /\ At(r, "load")
  /\ ask' = [ask EXCEPT ![r].loaded = ask[r].turns, ![r].at = "store"]
  /\ Overlap(ask[r].user)
  /\ UNCHANGED <<cache, memory, log>> /\ Others
\* SessionMemoryStore.append, which loads the turns anew
AskLoad(r) ==
  /\ At(r, "load")
  /\ ask' = [ask EXCEPT ![r].loaded = memory[ask[r].user], ![r].at = "store"]
  /\ Overlap(ask[r].user)
  /\ UNCHANGED <<cache, memory, log>> /\ Others

LastTurns(turns, n) == SubSeq(turns, Max({1, Len(turns) - n + 1}), Len(turns))
NewTurns(r) == <<[by |-> "user", question |-> ask[r].question, figures |-> {}],
                 [by |-> "assistant", question |-> Null, figures |-> ask[r].figures]>>

\* and writes them back, the oldest cut off; the question is answered
AskStore(r) ==
  /\ At(r, "store")
  /\ memory' = [memory EXCEPT ![ask[r].user] = LastTurns(ask[r].loaded \o NewTurns(r), MaxTurns)]
  /\ log' = [log EXCEPT ![ask[r].user] = @ \o NewTurns(r)]
  /\ ask' = [ask EXCEPT ![r] = Null]
  /\ UNCHANGED <<cache, disturbed>> /\ Others

\* the provider or a store raises
AskFails(r) ==
  /\ ask[r] # Null
  /\ ask' = [ask EXCEPT ![r] = Null]
  /\ UNCHANGED <<cache, memory, log, disturbed>> /\ Others

\* POST /ai/documents
IndexDocument(u, d) ==
  /\ token[u] = "admin" /\ d \notin indexed
  /\ indexed' = indexed \cup {d}
  /\ UNCHANGED <<vars, cache, memory, ask, asked, log, disturbed>>

\* the lifetimes of a cached response and of a session's memory
ExpireCached(e) ==
  /\ cache' = cache \ {e}
  /\ UNCHANGED <<vars, indexed, memory, ask, asked, log, disturbed>>
ExpireMemory(u) ==
  /\ memory[u] # <<>>
  /\ memory' = [memory EXCEPT ![u] = <<>>]
  /\ log' = IF Appending(u) = {} THEN [log EXCEPT ![u] = <<>>] ELSE log
  /\ Overlap(u)
  /\ UNCHANGED <<vars, indexed, cache, ask, asked>>

AskStep(r) == AskIntent(r) \/ AskQuery(r) \/ AskNarrate(r) \/ AskLoad(r) \/ AskStore(r) \/ AskFails(r)

CopilotNext ==
  \/ Next /\ UNCHANGED copilot
  \/ \E r \in Asks : AskStep(r) \/ \E u \in Users, q \in Questions : AskStart(r, u, q)
  \/ \E u \in Users : ExpireMemory(u) \/ \E d \in Documents : IndexDocument(u, d)
  \/ \E e \in cache : ExpireCached(e)

CopilotSpec == CopilotInit /\ [][CopilotNext]_copilotVars

-----------------------------------------------------------------------------
(* Properties.                                                               *)

Selection(m, dims, filters) == [metric |-> m, dimensions |-> dims, filters |-> filters, limit |-> 100]
Filter(d, v) == [x \in {d} |-> v]
CountOf(rows, labels) == SumOf([x \in {y \in rows : y.labels = labels} |-> x.value \div 100])
Total(rows) == SumOf([x \in rows |-> x.value \div 100])

\* The governed metrics give a caller the figures of the dashboard, and of its departments: a
\* metric by tier, by department and tier, by risk type, and under each filter is the tile it
\* names, and a metric that is broken down adds up to the one that is not.  The one exception is
\* a filtered student_count that is not broken down (UngroupedStudentCount).
GovernedAgreesFor(u) ==
  LET ids == Visible(u)
      rows(m, dims, filters) == GovernedQuery(u, Selection(m, dims, filters)).rows
      tiles == Summary(ids)
      depts == SummaryByDepartment(ids)
      perTier == rows("risk_tier_count", <<"department", "tier">>, <<>>)
      perType == rows("students_with_risk_type", <<>>, <<>>)
  IN  /\ \A t \in Tiers :
           /\ CountOf(rows("risk_tier_count", <<>>, <<>>), Filter("tier", t)) = tiles.by_tier[t]
           /\ Total(rows("assessed_student_count", <<>>, Filter("tier", t))) = tiles.by_tier[t]
           /\ \A d \in DOMAIN depts :
                CountOf(perTier, [department |-> d, tier |-> t]) = depts[d][t]
      /\ \A y \in RiskTypes : CountOf(perType, Filter("risk_type", y)) = tiles.by_risk_type[y]
      /\ \A d \in Departments :
           LET under == rows("risk_tier_count", <<"tier">>, Filter("department", d))
           IN  Total(under) = IF d \in DOMAIN depts THEN SumOf(depts[d]) ELSE 0
      /\ \A dims \in {<<>>, <<"department">>, <<"programme">>, <<"programme", "department">>} :
           Total(rows("student_count", dims, <<>>)) = Cardinality(ids)
      /\ Total(rows("assessed_student_count", <<"department">>, <<>>)) = Cardinality(Assessed(ids))

\* All of the figures a member of staff can read agree, those of the routes of /risk and those of
\* the copilot.  A question changes nothing they are computed from, so they are compared before the
\* first one.
FiguresAgree ==
  asked = 0 =>
    \A u \in Users : Staff(u) => ReadsAgreeFor(Visible(u)) /\ GovernedAgreesFor(u)

\* No count in an answer is larger than the number of students the asker reaches when the query
\* runs, counted from the students' side as alerts are: neither a selection that was cached for
\* somebody with other rights nor scopes taken away meanwhile let one through.
Reached(r, u) == IF r \in Privileged THEN Students ELSE {s \in Students : r = "faculty" /\ u \in FacultyFor(s)}
CountsWithinRights ==
  [][\A r \in Asks : At(r, "query") /\ ask'[r] # Null =>
       (ask[r].sel.metric \in {"student_count", "assessed_student_count", "risk_tier_count", "students_with_risk_type"}
        => \A x \in ask'[r].rows : x.value <= 100 * Cardinality(Reached(ask[r].role, ask[r].user)))]_copilotVars

\* What a whole figure may be in an answer with these rows: a value, one rounded to a decimal, a
\* figure of a code, or the number of rows.
GroundedIn(rows) == {f.value : f \in InRows(rows)} \cup {100 * Cardinality(rows)}

\* No whole figure written in digits alone is in an answer and absent from its rows ("narration must
\* not cite figures absent from grounded rows", output_validation.py), also when the narration was
\* cached for another question, stands beside figures the search does not see, or was replaced.  Of
\* a figure with a comma the search sees the parts, of one that ends in a letter or is a word nothing.
DigitsGrounded ==
  \A r \in Asks : ask[r] # Null /\ ask[r].at \in {"load", "store"} /\ ask[r].rows # {} =>
    \A f \in ask[r].figures :
      f.form \in Digits /\ f.value % 100 = 0 => f.value \in GroundedIn(ask[r].rows)

\* turns is some of the questions of told with their answers, in their order
SomeQuestionsOf(turns, told) ==
  /\ Len(turns) % 2 = 0
  /\ \E kept \in [1 .. Len(turns) \div 2 -> 1 .. Len(told) \div 2] :
       \A i \in DOMAIN kept :
         /\ turns[2 * i - 1] = told[2 * kept[i] - 1] /\ turns[2 * i] = told[2 * kept[i]]
         /\ \A j \in DOMAIN kept : i < j => kept[i] < kept[j]

\* The memory of a session is made of whole questions with their answers, at most as many turns as
\* the setting says, in the order in which they were answered; it is exactly the end of what was
\* answered unless two appends met, in which case questions can be missing but nothing else.
MemoryIsTheLog ==
  \A u \in Users :
    /\ Len(memory[u]) <= MaxTurns /\ SomeQuestionsOf(memory[u], log[u])
    /\ u \notin disturbed => memory[u] = LastTurns(log[u], MaxTurns)
=============================================================================
