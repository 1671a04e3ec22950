--------------------------- MODULE StudentRecord ---------------------------
(***************************************************************************)
(* One student's canonical rows as imports write them, and what the        *)
(* signals and rules of RiskScoring make of them on each day: the code     *)
(* computes with running windows and rounded percentages, the properties   *)
(* speak of the rows themselves in exact arithmetic, in grains.            *)
(***************************************************************************)
EXTENDS RiskScoring

CONSTANTS
  Config,        \* the active risk configuration
  Statuses,      \* "present", "absent", "leave"
  Marks,         \* percentages, in grains
  DueDates, Amounts,
  MaxSessions, MaxMarks, MaxFees, MaxDay   \* bounds for TLC

ASSUME ConfigAssumption == ValidConfig(Config) /\ Null \notin Int
\* a validated mark is not negative, nor an amount, and a date is the number of its day
ASSUME RowsAssumption == Marks \cup DueDates \cup Amounts \subseteq Nat
ASSUME BoundsAssumption == {MaxSessions, MaxMarks, MaxFees, MaxDay} \subseteq Nat

VARIABLES
  sessions,   \* attendance statuses in the order of class_date, session_no
  marks,      \* internals in the order of their effective assessment dates
  fees,       \* [head, due_date, due, paid]
  today

vars == <<sessions, marks, fees, today>>

-----------------------------------------------------------------------------
Init == sessions = <<>> /\ marks = <<>> /\ fees = {} /\ today = 0

\* an import may bring a row dated before ones that are already there
Inserted(q, i, e) == SubSeq(q, 1, i) \o <<e>> \o SubSeq(q, i + 1, Len(q))

RecordSession ==
  /\ Len(sessions) < MaxSessions
  /\ \E i \in 0..Len(sessions), st \in Statuses : sessions' = Inserted(sessions, i, st)
  /\ UNCHANGED <<marks, fees, today>>

\* a later import corrects the status of a session it names by its natural key
CorrectSession ==
  /\ \E i \in DOMAIN sessions, st \in Statuses : sessions' = [sessions EXCEPT ![i] = st]
  /\ UNCHANGED <<marks, fees, today>>

RecordMark ==
  /\ Len(marks) < MaxMarks
  /\ \E i \in 0..Len(marks), m \in Marks : marks' = Inserted(marks, i, m)
  /\ UNCHANGED <<sessions, fees, today>>

RaiseFee ==
  /\ Cardinality(fees) < MaxFees
  /\ \E d \in DueDates, a \in Amounts \cup {Null} :
       fees' = fees \cup {[head |-> Cardinality(fees) + 1, due_date |-> d, due |-> a, paid |-> Null]}
  /\ UNCHANGED <<sessions, marks, today>>

\* a later import replaces the amount paid, by a payment or by a correction
UpdateFee ==
  /\ \E f \in fees, a \in Amounts : fees' = (fees \ {f}) \cup {[f EXCEPT !.paid = a]}
  /\ UNCHANGED <<sessions, marks, today>>

NextDay ==
  /\ today < MaxDay
  /\ today' = today + 1
  /\ UNCHANGED <<sessions, marks, fees>>

Next == RecordSession \/ CorrectSession \/ RecordMark \/ RaiseFee \/ UpdateFee \/ NextDay

Spec == Init /\ [][Next]_vars

-----------------------------------------------------------------------------
(* What a recompute of this day would find.                                *)

SignalsNow ==
  LET a == AttendanceSignals(sessions, Config)
      ac == AcademicSignals(marks, Config)
  IN  [overall_attendance_pct |-> a.overall_attendance_pct,
       overall_sessions       |-> a.overall_sessions,
       attendance_recent_pct  |-> a.attendance_recent_pct,
       attendance_prior_pct   |-> a.attendance_prior_pct,
       failing_internal_count |-> ac.failing_internal_count,
       academic_latest_pct    |-> ac.academic_latest_pct,
       academic_baseline_pct  |-> ac.academic_baseline_pct,
       max_fee_overdue_days   |-> FeeSignals(fees, today).max_fee_overdue_days]

Fired == FiredCodes(SignalsNow, Config)
Score == ScoreFindings(Fired, Config.weights)

-----------------------------------------------------------------------------
(* Properties.                                                             *)

\* sessions attended among the positions lo..hi, counted from the latest
Attended(lo, hi) ==
  Cardinality({k \in lo..hi : sessions[Len(sessions) + 1 - k] = Present})

\* For any configuration that validates, the two attendance flags err by no more than
\* the rounding of the percentages: half a hundredth of a percent for the share of
\* sessions attended, once there are min_sessions; a hundredth for the fall between the
\* two latest windows, which slicing by negative indices cuts out of the record without
\* loss.  A threshold of 66.67 does not flag two sessions of three, which is just below
\* it (signals/attendance.py, rules/attendance_rules.py).
AttendanceFlagsWithinRounding ==
  LET n == Len(sessions)
      w == Config.attendance_trend_window
      counted == n # 0 /\ n >= Config.attendance_min_sessions
      belowBy(slack) == 2 * Full * Attended(1, n)
                          < (2 * Config.attendance_threshold_pct + slack) * n
      fellBy(slack) == Full * (Attended(w + 1, 2 * w) - Attended(1, w))
                         >= (Config.attendance_decline_points + slack) * w
  IN  /\ "ATTENDANCE_BELOW_THRESHOLD" \in Fired => counted /\ belowBy(Grain)
      /\ counted /\ belowBy(-Grain) => "ATTENDANCE_BELOW_THRESHOLD" \in Fired
      /\ "ATTENDANCE_DECLINING" \in Fired => n >= 2 * w /\ fellBy(-Grain)
      /\ n >= 2 * w /\ fellBy(Grain) => "ATTENDANCE_DECLINING" \in Fired

\* ACADEMIC_DECLINE means that the latest internal lies decline_points below the mean of
\* all earlier ones, to within a hundredth of a percent: the latest percentage and the
\* mean are both rounded to two decimals before the rule subtracts them.  A student with
\* a single internal never declines (signals/academic.py, rules/academic_rules.py).
DeclineIsAgainstEarlierMarks ==
  LET k == Len(marks) - 1
      earlier[i \in 0..MaxMarks] == IF i = 0 THEN 0 ELSE marks[i] + earlier[i - 1]
      \* k times the drop beyond the configured points, in grains
      excess == earlier[k] - k * (marks[k + 1] + Config.academic_decline_points)
  IN  /\ "ACADEMIC_DECLINE" \in Fired => k >= 1 /\ excess >= -k * Grain
      /\ k >= 1 /\ excess >= k * Grain => "ACADEMIC_DECLINE" \in Fired

\* Once a student has min_sessions, a session marked present, however it is dated,
\* never raises the below-threshold flag, and correcting a session to present never
\* does (rules/attendance_rules.py, the confidence guard).
AttendingNeverFlags ==
  [][ /\ Len(sessions) >= Config.attendance_min_sessions
      /\ sessions' # sessions
      /\ \/ \E i \in 0..Len(sessions) : sessions' = Inserted(sessions, i, Present)
         \/ \E i \in DOMAIN sessions : sessions' = [sessions EXCEPT ![i] = Present]
      => ("ATTENDANCE_BELOW_THRESHOLD" \in Fired' => "ATTENDANCE_BELOW_THRESHOLD" \in Fired)]_vars

\* The passing of a day alone never lowers the score, and a higher payment never
\* raises it: the fee signal only ages (signals/fees.py).
TimeAndPayments ==
  [][ /\ today' # today => Score' >= Score
      /\ \A f \in fees \ fees' :
           (\A g \in fees' : g.head = f.head /\ f.paid # Null => g.paid > f.paid)
             => Score' <= Score ]_vars

\* A student whose fees are all paid in full, or not yet due, is never flagged for
\* fees, except where the configuration flags from zero days, which flags everybody; a
\* fee without an amount due is not settled by any payment (signals/fees.py).
FeeFlagNeedsADebt ==
  "FEE_OVERDUE" \in Fired <=>
    \/ Config.fee_overdue_days = 0
    \/ \E f \in fees : /\ today - f.due_date >= Config.fee_overdue_days
                       /\ f.due_date < today
                       /\ f.paid = Null \/ f.due = Null \/ f.paid < f.due
=============================================================================
