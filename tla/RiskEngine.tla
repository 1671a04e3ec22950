----------------------------- MODULE RiskEngine -----------------------------
(***************************************************************************)
(* The recompute orchestrator of the Student Success Engine                *)
(* (apps/api/app/services/risk/engine.py), with the alerts and the         *)
(* parent-contact gate that hang off the assessments it writes.            *)
(*                                                                         *)
(* Every recompute is one PostgreSQL READ COMMITTED transaction run by a   *)
(* request thread or by an import's background task; several run at once   *)
(* for one tenant.  A worker's writes stay private (wrote) until Commit.   *)
(* Each student is handled in a SAVEPOINT, so an error costs one student.  *)
(* The unique index on (tenant, student) WHERE is_current makes a writer   *)
(* wait for an uncommitted rival and fail if the rival's row survives.     *)
(***************************************************************************)
EXTENDS RiskScoring

CONSTANTS
  Students,         \* student ids a request or a batch can name
  Workers,          \* concurrent recompute transactions
  Signals,          \* the signal records an import can leave a student with
  NoSignals,        \* the signals of a student without canonical rows
  Dobs,             \* the days on which a student can turn 18, and Null
  DobChanges,       \* the <<old, new>> corrections of dob that imports make
  ConfigChoices,    \* the configurations PUT /risk/config may carry
  DefaultConfig,    \* DEFAULT_RISK_CONFIG
  InterventionTypes,
  MaxImports, MaxManual, MaxConfigs, MaxCrashes, MaxDay   \* bounds for TLC

ParentContact == "parent_contact"

AlertReasons == {"tier_entered_high", "tier_escalated_to_high"}
Results ==
  {Evaluate(sig, c) : sig \in Signals \cup {NoSignals}, c \in ConfigChoices \cup {DefaultConfig}}

\* what a row of risk_assessments can hold
Rows ==
  [is_current : BOOLEAN, tier : Tiers, score : {r.score : r \in Results},
   findings : {r.findings : r \in Results}, signals : Signals \cup {NoSignals},
   minor : {"minor", "adult", "unknown"}, config_version : Nat, supersedes : SUBSET Nat,
   alert : AlertReasons \cup {Null}]

ASSUME NullAssumption ==
  Null \notin Students \cup Nat \cup Tiers \cup AlertReasons /\ Null \notin Rows
ASSUME ConfigsAssumption == \A c \in ConfigChoices \cup {DefaultConfig} : ValidConfig(c)
ASSUME DobsAssumption == Dobs \subseteq Nat \cup {Null}
ASSUME BoundsAssumption ==
  {MaxImports, MaxManual, MaxConfigs, MaxCrashes, MaxDay} \subseteq Nat

VARIABLES
  data,          \* canonical rows: [known, signals, dob] of each student
  today,
  configs,       \* risk_configs in version order; the last one is active
  hist,          \* risk_assessments of each student in commit order
  alerts,        \* risk_alerts: [student, assessment, reason]
  interventions, \* [student, type, consent]
  due,           \* committed import batches whose recompute has not begun
  used,          \* counters behind the bounds
  pc, ids, todo, \* a worker's place, its target students, those left
  snap, config,  \* what its bulk read phase saw
  head, seen,    \* the student in its savepoint; the current rows it selected
  wrote, errs,   \* its uncommitted rows; summary.errors
  lone, unsettled \* history: see FreshWhenSettled

worker == <<pc, ids, todo, snap, config, head, seen, wrote, errs>>
store == <<hist, alerts>>
world == <<data, today, configs, interventions, due, used>>
vars == <<world, store, worker, lone, unsettled>>

-----------------------------------------------------------------------------
ActiveConfig == configs[Len(configs)]

\* ids of the student's rows with is_current, as the unique index sees them
CurrentRows(s) == {i \in DOMAIN hist[s] : hist[s][i].is_current}

Signature(r) == [tier |-> r.tier, score |-> r.score, findings |-> r.findings]

\* compute_subject_minor_status; dob is the day of the eighteenth birthday
SubjectMinorStatus(dob) ==
  IF dob = Null THEN "unknown" ELSE IF today < dob THEN "minor" ELSE "adult"

\* Mutant: an alert for every result that is high, a change or not.
AlertEveryHigh(previous, tier) ==
  CASE tier # "high" -> Null
    [] tier = "high" /\ previous = "watch" -> "tier_escalated_to_high"
    [] OTHER -> "tier_entered_high"

\* _MATERIAL_TRANSITIONS and the reason: Null when no alert is due
AlertReason(previous, tier) ==
  CASE tier # "high" \/ previous = "high" -> Null
    [] tier = "high" /\ previous = "watch" -> "tier_escalated_to_high"
    [] OTHER -> "tier_entered_high"

PreviousTier(s, rows) == IF rows = {} THEN Null ELSE hist[s][CHOOSE i \in rows : TRUE].tier

\* Mutant: the row names the version that is active when it is written.
NewRowLateVersion(w, s) ==
  LET result == Evaluate(snap[w][s].signals, config[w].config)
  IN  [is_current |-> TRUE, tier |-> result.tier, score |-> result.score,
       findings |-> result.findings, signals |-> snap[w][s].signals,
       minor |-> SubjectMinorStatus(snap[w][s].dob),
       config_version |-> ActiveConfig.version, supersedes |-> seen[w],
       alert |-> AlertReason(PreviousTier(s, seen[w]), result.tier)]

NewRow(w, s) ==
  LET result == Evaluate(snap[w][s].signals, config[w].config)
  IN  [is_current |-> TRUE, tier |-> result.tier, score |-> result.score,
       findings |-> result.findings, signals |-> snap[w][s].signals,
       minor |-> SubjectMinorStatus(snap[w][s].dob),
       config_version |-> config[w].version, supersedes |-> seen[w],
       alert |-> AlertReason(PreviousTier(s, seen[w]), result.tier)]

NoData == [s \in Students |-> [known |-> FALSE, signals |-> NoSignals, dob |-> Null]]
NothingWritten == [s \in Students |-> Null]
Active(s) == {w \in Workers : s \in ids[w]}

\* the other transaction whose uncommitted row for the student blocks w
Blockers(w) == {v \in Workers \ {w} : pc[w] = "flush" /\ wrote[v][head[w]] # Null}
\* w waits in a cycle of transactions, each for the next
Deadlocked(w) ==
  \E C \in SUBSET Workers : w \in C /\ C = UNION {Blockers(v) : v \in C}
                            /\ \A v \in C : Blockers(v) # {}

-----------------------------------------------------------------------------
Init ==
  /\ data = NoData
  /\ today = 0
  /\ configs = <<[version |-> 1, config |-> DefaultConfig]>>
  /\ hist = [s \in Students |-> <<>>]
  /\ alerts = {} /\ interventions = {} /\ due = {}
  /\ used = [imports |-> 0, manual |-> 0, crashes |-> 0]
  /\ pc = [w \in Workers |-> "idle"]
  /\ ids = [w \in Workers |-> {}] /\ todo = [w \in Workers |-> {}]
  /\ snap = [w \in Workers |-> NoData]
  /\ config = [w \in Workers |-> configs[1]]
  /\ head = [w \in Workers |-> Null] /\ seen = [w \in Workers |-> {}]
  /\ wrote = [w \in Workers |-> NothingWritten]
  /\ errs = [w \in Workers |-> {}]
  /\ lone = [w \in Workers |-> {}] /\ unsettled = {}

-----------------------------------------------------------------------------
(* The surroundings: imports load canonical rows, admins change the        *)
(* configuration, days pass, staff create interventions.                   *)

\* the load phase of an import commits; its risk recompute is now due
ImportLoad ==
  /\ used.imports < MaxImports
  /\ \E B \in (SUBSET Students) \ {{}} :
       \E sig \in [B -> Signals], dob \in [B -> Dobs] :
         /\ \A s \in B : dob[s] # data[s].dob => <<data[s].dob, dob[s]>> \in DobChanges
         /\ data' = [s \in Students |->
              IF s \in B THEN [known |-> TRUE, signals |-> sig[s], dob |-> dob[s]]
              ELSE data[s]]
         /\ due' = due \cup {[batch |-> used.imports + 1, students |-> B]}
  /\ used' = [used EXCEPT !.imports = @ + 1]
  /\ UNCHANGED <<today, configs, interventions, store, worker, lone, unsettled>>

\* set_new_config: a new version replaces the active one; nothing is recomputed
SetConfig ==
  /\ Len(configs) < MaxConfigs
  /\ \E c \in ConfigChoices :
       configs' = Append(configs, [version |-> ActiveConfig.version + 1, config |-> c])
  /\ unsettled' = Students /\ lone' = [w \in Workers |-> {}]
  /\ UNCHANGED <<data, today, interventions, due, used, store, worker>>

NextDay ==
  /\ today < MaxDay
  /\ today' = today + 1
  /\ UNCHANGED <<data, configs, interventions, due, used, store, worker, lone, unsettled>>

\* _current_minor_status
CurrentMinorStatus(s) ==
  IF CurrentRows(s) = {} THEN "unknown"
  ELSE hist[s][CHOOSE i \in CurrentRows(s) : TRUE].minor

\* Mutant: an unknown date of birth passes the gate.
NeedsConsentMinorOnly(s, type) ==
  type = ParentContact /\ CurrentMinorStatus(s) = "minor"

NeedsConsent(s, type) ==
  type = ParentContact /\ CurrentMinorStatus(s) \in {"minor", "unknown"}

CreateIntervention ==
  \E s \in Students, type \in InterventionTypes, confirmed \in BOOLEAN :
    /\ data[s].known
    /\ NeedsConsent(s, type) => confirmed
    /\ interventions' = interventions \cup
         {[student |-> s, type |-> type, consent |-> NeedsConsent(s, type)]}
    /\ UNCHANGED <<data, today, configs, due, used, store, worker, lone, unsettled>>

-----------------------------------------------------------------------------
(* A recompute transaction.                                                *)

\* get_or_seed_config and the aggregate queries of _bulk_compute_signals
Begin(w, S) ==
  /\ pc[w] = "idle"
  /\ pc' = [pc EXCEPT ![w] = "reading"]
  /\ ids' = [ids EXCEPT ![w] = S]
  /\ config' = [config EXCEPT ![w] = ActiveConfig]
  /\ snap' = [snap EXCEPT ![w] = data]
  /\ LET rivals == {s \in S : Active(s) # {}}
     IN  /\ lone' = [v \in Workers |-> IF v = w THEN S \ rivals ELSE lone[v] \ S]
         /\ unsettled' = unsettled \cup rivals
  /\ UNCHANGED <<data, today, configs, interventions, store, todo, head, seen, wrote, errs>>

\* recompute_for_import_batch, from the hook at the end of a pipeline
BeginImport(w) ==
  \E b \in due : /\ Begin(w, b.students)
                 /\ due' = due \ {b}
                 /\ UNCHANGED used

\* POST /risk/recompute, which may name ids that are not students
BeginManual(w) ==
  /\ used.manual < MaxManual
  /\ \E S \in (SUBSET Students) \ {{}} : Begin(w, S)
  /\ used' = [used EXCEPT !.manual = @ + 1]
  /\ UNCHANGED due

\* the last query of the bulk read: who exists, and their dates of birth
ReadDobs(w) ==
  /\ pc[w] = "reading"
  /\ pc' = [pc EXCEPT ![w] = "loop"]
  /\ snap' = [snap EXCEPT ![w] = [s \in Students |->
       [known |-> data[s].known, signals |-> snap[w][s].signals, dob |-> data[s].dob]]]
  /\ todo' = [todo EXCEPT ![w] = {s \in ids[w] : data[s].known}]
  /\ UNCHANGED <<world, store, ids, config, head, seen, wrote, errs, lone, unsettled>>

\* Mutant: every result is written, changed or not.
EvaluatedAlwaysNew(w, s, outcome) ==
  outcome = IF Cardinality(CurrentRows(s)) > 1 THEN "error" ELSE "changed"

\* Mutant: a student with an assessment is taken for unchanged.
EvaluatedOnce(w, s, outcome) ==
  outcome = IF CurrentRows(s) # {} THEN "unchanged" ELSE "changed"

\* _persist_one up to its flush: evaluate, assert, select the current row
Evaluated(w, s, outcome) ==
  LET result == Evaluate(snap[w][s].signals, config[w].config)
      same == \E i \in CurrentRows(s) : Signature(hist[s][i]) = result
  IN  CASE ~Explainable(result) \/ Cardinality(CurrentRows(s)) > 1 -> outcome = "error"
        [] OTHER -> outcome = IF same THEN "unchanged" ELSE "changed"

SelectCurrent(w) ==
  /\ pc[w] = "loop"
  /\ \E s \in todo[w] :
       /\ todo' = [todo EXCEPT ![w] = @ \ {s}]
       /\ \/ /\ Evaluated(w, s, "changed")
             /\ pc' = [pc EXCEPT ![w] = "flush"]
             /\ head' = [head EXCEPT ![w] = s]
             /\ seen' = [seen EXCEPT ![w] = CurrentRows(s)]
             /\ UNCHANGED errs
          \/ /\ Evaluated(w, s, "unchanged")
             /\ UNCHANGED <<pc, head, seen, errs>>
          \/ /\ Evaluated(w, s, "error")
             /\ errs' = [errs EXCEPT ![w] = @ \cup {s}]
             /\ UNCHANGED <<pc, head, seen>>
  /\ UNCHANGED <<world, store, ids, snap, config, wrote, lone, unsettled>>

\* Mutant: no unique index; rivals neither wait nor fail.
FlushNoIndex(w) ==
  /\ pc[w] = "flush"
  /\ wrote' = [wrote EXCEPT ![w][head[w]] = NewRow(w, head[w])]
  /\ pc' = [pc EXCEPT ![w] = "loop"]
  /\ head' = [head EXCEPT ![w] = Null] /\ seen' = [seen EXCEPT ![w] = {}]
  /\ UNCHANGED <<world, store, ids, todo, snap, config, errs, lone, unsettled>>

\* UPDATE of the row seen, INSERT of the new one, its findings and alerts
Flush(w) ==
  /\ pc[w] = "flush" /\ Blockers(w) = {}
  /\ CurrentRows(head[w]) \subseteq seen[w]
  /\ wrote' = [wrote EXCEPT ![w][head[w]] = NewRow(w, head[w])]
  /\ pc' = [pc EXCEPT ![w] = "loop"]
  /\ head' = [head EXCEPT ![w] = Null] /\ seen' = [seen EXCEPT ![w] = {}]
  /\ UNCHANGED <<world, store, ids, todo, snap, config, errs, lone, unsettled>>

\* unique violation, or chosen as the victim of a deadlock
FlushFailure(w) ==
  /\ pc[w] = "flush"
  /\ \/ Blockers(w) = {} /\ ~(CurrentRows(head[w]) \subseteq seen[w])
     \/ Deadlocked(w)

\* Mutant: a student whose savepoint failed is tried again.
FlushFailsRetry(w) ==
  /\ FlushFailure(w)
  /\ todo' = [todo EXCEPT ![w] = @ \cup {head[w]}]
  /\ pc' = [pc EXCEPT ![w] = "loop"]
  /\ head' = [head EXCEPT ![w] = Null] /\ seen' = [seen EXCEPT ![w] = {}]
  /\ UNCHANGED <<world, store, ids, snap, config, wrote, errs, lone, unsettled>>

\* Mutant: the row of the failed savepoint stays in the session.
FlushFailsKeepsRow(w) ==
  /\ FlushFailure(w)
  /\ errs' = [errs EXCEPT ![w] = @ \cup {head[w]}]
  /\ pc' = [pc EXCEPT ![w] = "loop"]
  /\ UNCHANGED <<world, store, ids, todo, snap, config, head, seen, wrote, lone, unsettled>>

\* back to the SAVEPOINT
FlushFails(w) ==
  /\ FlushFailure(w)
  /\ errs' = [errs EXCEPT ![w] = @ \cup {head[w]}]
  /\ pc' = [pc EXCEPT ![w] = "loop"]
  /\ head' = [head EXCEPT ![w] = Null] /\ seen' = [seen EXCEPT ![w] = {}]
  /\ UNCHANGED <<world, store, ids, todo, snap, config, wrote, lone, unsettled>>

Retired(row) == [row EXCEPT !.is_current = FALSE]

\* Mutant: the current row is overwritten in place.
SupersededInPlace(rows, new) ==
  IF rows = <<>> THEN <<new>> ELSE [rows EXCEPT ![Len(rows)] = new]

\* Mutant: the row it replaces stays current.
SupersededKeepsOld(rows, new) == Append(rows, new)

\* the history with the row appended and the row its transaction saw retired
Superseded(rows, new) ==
  Append([i \in DOMAIN rows |->
            IF i \in new.supersedes THEN Retired(rows[i]) ELSE rows[i]], new)

Reset(w) ==
  /\ pc' = [pc EXCEPT ![w] = "idle"]
  /\ ids' = [ids EXCEPT ![w] = {}] /\ todo' = [todo EXCEPT ![w] = {}]
  /\ head' = [head EXCEPT ![w] = Null] /\ seen' = [seen EXCEPT ![w] = {}]
  /\ wrote' = [wrote EXCEPT ![w] = NothingWritten]
  /\ errs' = [errs EXCEPT ![w] = {}]
  /\ snap' = [snap EXCEPT ![w] = NoData]
  /\ config' = [config EXCEPT ![w] = configs[1]]
  /\ lone' = [lone EXCEPT ![w] = {}]

Commit(w) ==
  /\ pc[w] = "loop" /\ todo[w] = {}
  /\ hist' = [s \in Students |->
       IF wrote[w][s] = Null THEN hist[s] ELSE Superseded(hist[s], wrote[w][s])]
  /\ alerts' = alerts \cup
       {[student |-> s, assessment |-> Len(hist[s]) + 1, reason |-> wrote[w][s].alert] :
          s \in {t \in Students : wrote[w][t] # Null /\ wrote[w][t].alert # Null}}
  /\ unsettled' = (unsettled \ lone[w]) \cup errs[w]
  /\ Reset(w)
  /\ UNCHANGED world

\* the process dies or the connection is lost: the transaction rolls back
Crash(w) ==
  /\ used.crashes < MaxCrashes /\ pc[w] # "idle"
  /\ used' = [used EXCEPT !.crashes = @ + 1]
  /\ unsettled' = unsettled \cup ids[w]
  /\ Reset(w)
  /\ UNCHANGED <<data, today, configs, interventions, due, store>>

-----------------------------------------------------------------------------
Surroundings == ImportLoad \/ SetConfig \/ NextDay \/ CreateIntervention

Step(w) == ReadDobs(w) \/ SelectCurrent(w) \/ Flush(w) \/ FlushFails(w) \/ Commit(w)

Next == \/ Surroundings
        \/ \E w \in Workers : BeginImport(w) \/ BeginManual(w) \/ Step(w) \/ Crash(w)

Spec == Init /\ [][Next]_vars

\* a transaction that is running keeps running: threads are scheduled and
\* PostgreSQL breaks deadlocks; nothing forces a recompute to be requested
FairSpec == Spec /\ \A w \in Workers : WF_vars(Step(w))

-----------------------------------------------------------------------------
(* Properties.                                                             *)

StudentData == [known : BOOLEAN, signals : Signals \cup {NoSignals}, dob : Dobs \cup {Null}]
ConfigRow == [version : Nat, config : ConfigChoices \cup {DefaultConfig}]

IsSequence(q) == Len(q) \in Nat /\ q = [i \in 1..Len(q) |-> q[i]]

\* Every variable has its type; a worker outside a savepoint names no student.
TypeOK ==
  /\ data \in [Students -> StudentData] /\ today \in Nat
  /\ configs \in Seq(ConfigRow) /\ configs # <<>>
  /\ hist = [s \in Students |-> hist[s]] /\ \A s \in Students : IsSequence(hist[s])
  /\ \A s \in Students : \A i \in DOMAIN hist[s] :
       /\ hist[s][i].tier \in Tiers /\ hist[s][i].is_current \in BOOLEAN
       /\ hist[s][i].minor \in {"minor", "adult", "unknown"}
  /\ pc \in [Workers -> {"idle", "reading", "loop", "flush"}]
  /\ ids \in [Workers -> SUBSET Students]
  /\ todo \in [Workers -> SUBSET Students]
  /\ errs \in [Workers -> SUBSET Students]
  /\ snap \in [Workers -> [Students -> StudentData]]
  /\ config \in [Workers -> ConfigRow]
  /\ head \in [Workers -> Students \cup {Null}]
  /\ \A w \in Workers : pc[w] = "flush" <=> head[w] # Null

\* However recomputes interleave, a student that was ever assessed has exactly
\* one current assessment, and it is the newest (models/risk.py: "one current
\* assessment per student").
OneCurrent ==
  \A s \in Students : CurrentRows(s) = IF hist[s] = <<>> THEN {} ELSE {Len(hist[s])}

\* Each assessment superseded the one committed just before it, and differs from
\* it: no lost update, and no new row for an unchanged result (engine.py: "identical
\* inputs produce no new assessment row").
SupersessionChain ==
  \A s \in Students : \A i \in DOMAIN hist[s] :
    /\ hist[s][i].supersedes = IF i = 1 THEN {} ELSE {i - 1}
    /\ i > 1 => Signature(hist[s][i]) # Signature(hist[s][i - 1])

\* Alerts are exactly the entries into "high" of the committed history, with the
\* reason the preceding tier gives: none lost, none doubled, none for a result
\* whose transaction rolled back (alerts.py: "only for material change").
AlertsMatchEscalations ==
  alerts =
    UNION {{[student |-> s, assessment |-> i,
             reason |-> IF i > 1 /\ hist[s][i - 1].tier = "watch"
                        THEN "tier_escalated_to_high" ELSE "tier_entered_high"] :
              i \in {j \in DOMAIN hist[s] :
                       /\ hist[s][j].tier = "high"
                       /\ j = 1 \/ hist[s][j - 1].tier # "high"}} : s \in Students}

\* An assessment can be recomputed from its signals snapshot and the configuration
\* its config_version names, even if that version was replaced while the
\* transaction ran (config.py: "config_version still resolves to the config that
\* actually produced them").
RowsReproducible ==
  \A s \in Students : \A i \in DOMAIN hist[s] :
    LET r == hist[s][i]
    IN  Signature(r) = Evaluate(r.signals, configs[r.config_version].config)

\* A student whose last change has been recomputed to the end, by a transaction
\* that overlapped no other one for the student, recorded no error and ran under
\* the active configuration, is shown with the result of the present data.
FreshWhenSettled ==
  \A s \in Students :
    \/ ~data[s].known \/ s \in unsettled \/ Active(s) # {}
    \/ \E b \in due : s \in b.students
    \/ \E i \in CurrentRows(s) :
         Signature(hist[s][i]) = Evaluate(data[s].signals, ActiveConfig.config)

\* A recompute records an error for a student only when another recompute of that
\* student overlapped it, or when no rule fires under a watch cutoff of zero, which the
\* schema accepts and which makes every score a non-low tier (engine.py, _persist_one:
\* the assertion that a non-low tier carries a finding).
LoneErrorsNeedZeroWatch ==
  \A w \in Workers : \A s \in errs[w] \cap lone[w] :
    /\ config[w].config.tier_cutoffs.watch = 0
    /\ FiredCodes(snap[w][s].signals, config[w].config) = {}

HistoryStep ==
  \A s \in Students : \A i \in DOMAIN hist[s] :
    /\ i \in DOMAIN hist'[s]
    /\ Retired(hist'[s][i]) = Retired(hist[s][i])
    /\ hist'[s][i].is_current => hist[s][i].is_current

\* Committed assessments are immutable history: a step may retire one, never edit,
\* drop or revive one.
HistoryIsAppendOnly == [][HistoryStep]_vars

\* A parent_contact intervention without recorded guardian consent is created only
\* for a student whose recorded date of birth makes them an adult on that day
\* (interventions.py: "a minor or unknown-dob subject ... requires an explicit,
\* human-confirmed consent flag"), once the student's data has been recomputed.
ConsentGate ==
  [][\A i \in interventions' \ interventions :
       \/ i.type # ParentContact \/ i.consent \/ i.student \in unsettled
       \/ Active(i.student) # {} \/ \E b \in due : i.student \in b.students
       \/ SubjectMinorStatus(data[i.student].dob) = "adult"]_vars

\* Every recompute that has begun ends: rivals for the same students block each
\* other, in any order, but never forever.
RecomputesFinish == \A w \in Workers : pc[w] # "idle" ~> pc[w] = "idle"
=============================================================================
