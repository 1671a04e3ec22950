---------------------------- MODULE MCRiskEngine ----------------------------
(* TLC instances of RiskEngine: signal records that fire no rule, one rule   *)
(* (watch), two and three rules (high), the default configuration and one    *)
(* with lower cutoffs.                                                       *)
EXTENDS RiskEngine, TLC

Sig(pct, overdue) ==
  [overall_attendance_pct |-> pct, overall_sessions |-> 20,
   attendance_recent_pct |-> Null, attendance_prior_pct |-> Null,
   failing_internal_count |-> 0, academic_latest_pct |-> Null,
   academic_baseline_pct |-> Null, max_fee_overdue_days |-> overdue]

Fine == Sig(9000, 0)
Watch == Sig(6000, 0)
High == Sig(6000, 45)
StillHigh == [High EXCEPT !.failing_internal_count = 1]

MCNoSignals == [Fine EXCEPT !.overall_attendance_pct = Null, !.overall_sessions = 0]
MCSignals2 == {Watch, High, StillHigh}
MCSignals3 == MCSignals2 \cup {Fine}
MCSignals1 == {Watch}
MCInterventionTypes == {ParentContact, "mentor_meeting"}

Percent(x) == 100 * Grain * x

MCDefaultConfig ==
  [attendance_threshold_pct |-> Percent(75), attendance_min_sessions |-> 10,
   attendance_trend_window |-> 12, attendance_decline_points |-> Percent(15),
   academic_fail_pct |-> Percent(40), academic_decline_points |-> Percent(15),
   fee_overdue_days |-> 30,
   weights |-> [c \in Codes |-> Percent(
     CASE c = "ATTENDANCE_BELOW_THRESHOLD" -> 40 [] c = "ATTENDANCE_DECLINING" -> 20
       [] c = "ACADEMIC_FAILING_INTERNALS" -> 35 [] c = "ACADEMIC_DECLINE" -> 20
       [] OTHER -> 15)],
   tier_cutoffs |-> [watch |-> Percent(25), high |-> Percent(50)]]

StrictConfig ==
  [MCDefaultConfig EXCEPT !.tier_cutoffs = [watch |-> Percent(20), high |-> Percent(40)]]
MCConfigs == {StrictConfig}
\* accepted by TierCutoffs: 0 <= watch < high
ZeroWatchConfigs == {[StrictConfig EXCEPT !.tier_cutoffs.watch = 0]}

NoDobs == {Null}
OneBirthday == {Null, 0, 1}
\* corrections that cannot make a student younger than the record said
FirstRecording == {<<Null, 0>>, <<Null, 1>>}
AnyCorrection == OneBirthday \X {0, 1}

\* Two recomputes at a time over two students; or one over one student whose date of birth
\* gets recorded and for whom interventions are created; or two over one student, with a
\* change to a watch cutoff of zero and signals that fire no rule.
Racing ==
  /\ interventions = {} /\ today = 0 /\ Len(configs) = 1
  /\ \A s \in Students : data[s].dob = Null /\ data[s].signals # Fine
Gating ==
  /\ Cardinality({s \in Students : data[s].known}) <= 1
  /\ Cardinality({w \in Workers : pc[w] # "idle"}) <= 1
  /\ Len(configs) = 1 /\ used.crashes = 0
  /\ \A s \in Students : data[s].signals # Fine
Configuring ==
  /\ interventions = {} /\ today = 0 /\ used.crashes = 0 /\ used.imports + used.manual <= 2
  /\ Cardinality({s \in Students : data[s].known}) <= 1
  /\ \A s \in Students : data[s].dob = Null /\ data[s].signals # StillHigh
Focus == Racing \/ Gating \/ Configuring

Symmetry == Permutations(Students) \cup Permutations(Workers)
=============================================================================
