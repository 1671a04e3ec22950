-------------------------- MODULE MCStudentRecord --------------------------
(* TLC instances of StudentRecord: thresholds for which both attendance       *)
(* windows and the confidence guard fit the record, and a fee weight high     *)
(* enough for two findings to reach the clamp of the score.                   *)
EXTENDS StudentRecord

\* x percent, in grains
Percent(x) == 100 * Grain * x

\* A grain is a third of a hundredth of a percent.  The threshold of attendance is 66.67
\* percent, which two of three sessions round to from below; the cutoffs of marks are
\* 36.67 and 14.9966.. percent; the points of attendance and the weights are whole.
MCConfig ==
  [attendance_threshold_pct |-> 20001, attendance_min_sessions |-> 3,
   attendance_trend_window |-> 3, attendance_decline_points |-> Percent(33),
   academic_fail_pct |-> 11001, academic_decline_points |-> 4499,
   fee_overdue_days |-> 2,
   weights |-> [c \in Codes |-> Percent(
     CASE c = "ATTENDANCE_BELOW_THRESHOLD" -> 40 [] c = "ATTENDANCE_DECLINING" -> 20
       [] c = "ACADEMIC_FAILING_INTERNALS" -> 35 [] c = "ACADEMIC_DECLINE" -> 20
       [] OTHER -> 70)],
   tier_cutoffs |-> [watch |-> Percent(25), high |-> Percent(50)]]

\* 11/30 and 31/60 of the marks (36.666.. and 51.666.. percent), neighbours that round
\* the other way, and one whose fall to 11/30 no rounding hides
MCMarks == {11000, 11002, 15499, 15500, 15503}

\* The rules of the three domains read disjoint parts of the record: long records of one
\* domain at a time, and fees and days together with at most one mark, a failing one.
OneDomain ==
  /\ sessions = <<>> \/ (marks = <<>> /\ fees = {} /\ today = 0)
  /\ marks \in {<<>>, <<11000>>} \/ (fees = {} /\ today = 0)
=============================================================================
