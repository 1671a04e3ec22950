---------------------------- MODULE RiskScoring ----------------------------
(***************************************************************************)
(* The pure half of the Student Success Engine: signals, rules, score and  *)
(* tier (apps/api/app/services/risk/{signals,rules,scoring,evaluator}).    *)
(*                                                                         *)
(* A signal is an integer, in hundredths of a percent: round(x, 2) in the  *)
(* code.  Marks and configured percentages, weights and cutoffs have no    *)
(* such grid, the schema takes any float; they are counted in grains, of   *)
(* which Grain make a hundredth of a percent, and any finite set of        *)
(* rationals is exact for some Grain.  Sums, quotients and comparisons are *)
(* exact here: the last bit of a float is not modelled.  Null is None.     *)
(***************************************************************************)
EXTENDS Integers, Sequences, FiniteSets, FiniteSetsExt, SequencesExt

CONSTANTS
  Null,
  Grain   \* grains in a hundredth of a percent

ASSUME GrainAssumption == Grain \in Nat \ {0}

Full == 10000 * Grain   \* 100 percent

Tiers == {"low", "watch", "high"}
Present == "present"
Absent == "absent"

AttendanceCodes == {"ATTENDANCE_BELOW_THRESHOLD", "ATTENDANCE_DECLINING"}
AcademicCodes == {"ACADEMIC_FAILING_INTERNALS", "ACADEMIC_DECLINE"}
Codes == AttendanceCodes \cup AcademicCodes \cup {"FEE_OVERDUE"}

-----------------------------------------------------------------------------
(* Signals, computed from the canonical rows of one student.               *)

\* round(): x / d to the nearest integer, an exact tie to the even one (of a share of
\* sessions the double lies on the tie whenever the fraction does, below 4000 sessions)
Rounded(x, d) ==
  LET q == x \div d
      r == x % d
  IN  IF 2 * r < d \/ (2 * r = d /\ q % 2 = 0) THEN q ELSE q + 1

\* round(100 * p / n, 2)
Pct(p, n) == Rounded(10000 * p, n)

PresentIn(statuses) == Cardinality({i \in DOMAIN statuses : statuses[i] = Present})

\* Mutant: the prior window is everything before the recent one.
TrendWindowsAllPrior(statuses, window) ==
  LET n == Len(statuses)
      pct(chunk) == Pct(PresentIn(chunk), Len(chunk))
  IN  IF n < 2 * window
      THEN [recent |-> Null, prior |-> Null]
      ELSE [recent |-> pct(SubSeq(statuses, n - window + 1, n)),
            prior  |-> pct(SubSeq(statuses, 1, n - window))]

\* both windows need `window` sessions each, or both stay None
TrendWindows(statuses, window) ==
  LET n == Len(statuses)
      pct(chunk) == Pct(PresentIn(chunk), Len(chunk))
  IN  IF n < 2 * window
      THEN [recent |-> Null, prior |-> Null]
      ELSE [recent |-> pct(SubSeq(statuses, n - window + 1, n)),
            prior  |-> pct(SubSeq(statuses, n - 2 * window + 1, n - window))]

AttendanceSignals(statuses, cfg) ==
  LET n == Len(statuses)
      trend == TrendWindows(statuses, cfg.attendance_trend_window)
  IN  [overall_attendance_pct |->
         IF n = 0 THEN Null ELSE Pct(PresentIn(statuses), n),
       overall_sessions      |-> n,
       attendance_recent_pct |-> trend.recent,
       attendance_prior_pct  |-> trend.prior]

SumSeq(seq) == FoldLeft(LAMBDA a, b : a + b, 0, seq)

\* Mutant: the baseline includes the latest mark.
AcademicSignalsOwnBaseline(marks, cfg) ==
  LET n == Len(marks)
      total == SumSeq(marks)
  IN  [failing_internal_count |->
         Cardinality({i \in DOMAIN marks : marks[i] < cfg.academic_fail_pct}),
       academic_latest_pct    |-> IF n = 0 THEN Null ELSE Rounded(marks[n], Grain),
       academic_baseline_pct  |-> IF n = 0 THEN Null ELSE Rounded(total, Grain * n)]

\* marks: the percentages, in grains, of the internals with max_marks > 0, in the order
\* of their effective assessment dates; only the two signals of the trend are rounded
AcademicSignals(marks, cfg) ==
  LET n == Len(marks)
      prior == SubSeq(marks, 1, n - 1)
      total == SumSeq(prior)
  IN  [failing_internal_count |->
         Cardinality({i \in DOMAIN marks : marks[i] < cfg.academic_fail_pct}),
       academic_latest_pct    |-> IF n = 0 THEN Null ELSE Rounded(marks[n], Grain),
       academic_baseline_pct  |->
         IF n < 2 THEN Null ELSE Rounded(total, Grain * (n - 1))]

\* Mutant: a fee is settled until its amount is paid over.
FullyPaidBackwards(f) == f.paid = Null \/ f.due = Null \/ f.paid < f.due

\* Mutant: a fee without an amount due counts as settled by any payment.
FullyPaidWithoutDue(f) == f.paid # Null /\ (f.due # Null => f.paid >= f.due)

\* fees: a set of [due_date, due, paid] with a due_date; either amount may be Null
FullyPaid(f) == f.paid # Null /\ f.due # Null /\ f.paid >= f.due

OverdueDays(fees, today) ==
  {today - f.due_date : f \in {g \in fees : g.due_date < today /\ ~FullyPaid(g)}}

FeeSignals(fees, today) ==
  [max_fee_overdue_days |-> Max(OverdueDays(fees, today) \cup {0})]

-----------------------------------------------------------------------------
(* Rules: each yields at most one finding, of its configured weight.       *)

\* Mutant: the confidence guard wants one session more than configured.
BelowThresholdOffByOne(sig, cfg) ==
  /\ sig.overall_attendance_pct # Null
  /\ sig.overall_sessions > cfg.attendance_min_sessions
  /\ Grain * sig.overall_attendance_pct < cfg.attendance_threshold_pct

AttendanceBelowThreshold(sig, cfg) ==
  /\ sig.overall_attendance_pct # Null
  /\ sig.overall_sessions >= cfg.attendance_min_sessions
  /\ Grain * sig.overall_attendance_pct < cfg.attendance_threshold_pct

AttendanceDeclining(sig, cfg) ==
  /\ sig.attendance_recent_pct # Null
  /\ sig.attendance_prior_pct # Null
  /\ Grain * (sig.attendance_prior_pct - sig.attendance_recent_pct)
       >= cfg.attendance_decline_points

AcademicFailingInternals(sig) == sig.failing_internal_count >= 1

AcademicDecline(sig, cfg) ==
  /\ sig.academic_latest_pct # Null
  /\ sig.academic_baseline_pct # Null
  /\ Grain * (sig.academic_baseline_pct - sig.academic_latest_pct)
       >= cfg.academic_decline_points

FeeOverdue(sig, cfg) == sig.max_fee_overdue_days >= cfg.fee_overdue_days

FiredCodes(sig, cfg) ==
  {c \in Codes :
     \/ c = "ATTENDANCE_BELOW_THRESHOLD" /\ AttendanceBelowThreshold(sig, cfg)
     \/ c = "ATTENDANCE_DECLINING" /\ AttendanceDeclining(sig, cfg)
     \/ c = "ACADEMIC_FAILING_INTERNALS" /\ AcademicFailingInternals(sig)
     \/ c = "ACADEMIC_DECLINE" /\ AcademicDecline(sig, cfg)
     \/ c = "FEE_OVERDUE" /\ FeeOverdue(sig, cfg)}

-----------------------------------------------------------------------------
(* Score and tier.                                                         *)

\* the weights of the findings added up, a rule having yielded at most one of them
ScoreFindings(fired, weights) ==
  LET part(c) == IF c \in fired THEN weights[c] ELSE 0
  IN  Min({Full, part("ATTENDANCE_BELOW_THRESHOLD") + part("ATTENDANCE_DECLINING")
                + part("ACADEMIC_FAILING_INTERNALS") + part("ACADEMIC_DECLINE") + part("FEE_OVERDUE")})

TierForScore(score, cfg) ==
  IF score >= cfg.tier_cutoffs.high THEN "high"
  ELSE IF score >= cfg.tier_cutoffs.watch THEN "watch"
  ELSE "low"

\* RulesRiskEvaluator.evaluate
Evaluate(sig, cfg) ==
  LET fired == FiredCodes(sig, cfg)
      findings == {[code |-> c, weight |-> cfg.weights[c]] : c \in fired}
      score == ScoreFindings(fired, cfg.weights)
  IN  [tier |-> TierForScore(score, cfg), score |-> score, findings |-> findings]

\* the explainability assertion of _persist_one: no non-low tier without findings
Explainable(result) == result.tier # "low" => result.findings # {}

\* what RiskConfigModel / TierCutoffs accept on PUT /risk/config
ValidConfig(cfg) ==
  /\ cfg.attendance_threshold_pct \in 0..Full
  /\ cfg.attendance_decline_points \in 0..Full
  /\ cfg.academic_fail_pct \in 0..Full
  /\ cfg.academic_decline_points \in 0..Full
  /\ cfg.attendance_trend_window \in Nat \ {0}
  /\ {cfg.attendance_min_sessions, cfg.fee_overdue_days} \subseteq Nat
  /\ \A c \in Codes : cfg.weights[c] \in Nat
  /\ cfg.tier_cutoffs.watch \in 0..Full
  /\ cfg.tier_cutoffs.high \in 0..Full
  /\ cfg.tier_cutoffs.watch < cfg.tier_cutoffs.high
=============================================================================
