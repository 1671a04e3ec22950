------------------------ MODULE StudentRecordProofs ------------------------
(* Proofs about StudentRecord, for any configuration that validates, any        *)
(* statuses, marks, dates and amounts, and records of any length: the fee flag  *)
(* stands over a debt of the configured age (FeesFlagDebts), time and payments  *)
(* move the score one way (TimeAndPaymentsMoveTheScore), the attendance flags   *)
(* err by no more than their rounding (FlagsWithinRounding) and for whole       *)
(* percents not at all (FlagsSayWhatTheyClaim), attending raises no flag        *)
(* (AttendingIsSafe), and a decline is measured against all earlier internals   *)
(* (DeclinesAreReal).  The invariant is only the types of the rows: the         *)
(* properties relate the code's computations to the rows of one state.          *)
EXTENDS StudentRecord, FiniteSetTheorems, FunctionTheorems, SequenceTheorems, TLAPS

WholePercent(x) == x % (100 * Grain) = 0

\* Where the threshold and the points are whole percents, as in the default
\* configuration, the flags are exact: rounding loses nothing below 200 sessions and
\* for windows below 100.  Of more sessions a share just below the threshold rounds up
\* to it, and two shares can round apart (signals/attendance.py, rules/attendance_rules.py).
AttendanceFlagsExact ==
  LET n == Len(sessions)
      w == Config.attendance_trend_window
      below == /\ n # 0 /\ n >= Config.attendance_min_sessions
               /\ Full * Attended(1, n) < Config.attendance_threshold_pct * n
      declining == /\ n >= 2 * w
                   /\ Full * (Attended(w + 1, 2 * w) - Attended(1, w))
                        >= Config.attendance_decline_points * w
  IN  /\ WholePercent(Config.attendance_threshold_pct) /\ n < 200
           => ("ATTENDANCE_BELOW_THRESHOLD" \in Fired <=> below)
      /\ WholePercent(Config.attendance_decline_points) /\ w < 100
           => ("ATTENDANCE_DECLINING" \in Fired <=> declining)

-----------------------------------------------------------------------------
(* Natural numbers: least elements, greatest elements, rounded quotients.    *)

LEMMA LeastElement ==
  ASSUME NEW T, T \subseteq Nat, T # {}
  PROVE  \E x \in T : \A y \in T : x <= y
<1> DEFINE R == StrictSubsetOrdering(Nat)
           F == FiniteSubsetsOf(Nat)
           U == {0 .. x : x \in T}
<1>1. U \subseteq F /\ U # {}
  <2>1. \A x \in T : 0 .. x \in F
    BY FS_Interval DEF FiniteSubsetsOf
  <2> QED BY <2>1
<1>2. IsWellFoundedOn(R, F)
  BY FS_StrictSubsetOrderingWellFounded
<1> HIDE DEF R, F
<1>3. PICK u \in U : \A v \in U : ~(<<v, u>> \in R)
  BY <1>1, <1>2, WFMin
<1>4. PICK x \in T : u = 0 .. x
  OBVIOUS
<1>5. ASSUME NEW y \in T, ~(x <= y) PROVE FALSE
  <2>1. 0 .. y \subseteq 0 .. x /\ 0 .. y # 0 .. x /\ 0 .. y \in U
    <3>1. x \in 0 .. x /\ x \notin 0 .. y /\ 0 .. y \subseteq 0 .. x
      BY <1>5
    <3> QED BY <3>1
  <2>2. <<0 .. y, 0 .. x>> \in R
    BY <2>1 DEF R, StrictSubsetOrdering
  <2> QED BY <1>3, <1>4, <2>1, <2>2
<1> QED BY <1>5

LEMMA GreatestElement ==
  ASSUME NEW S, NEW n \in Nat, S \subseteq 0 .. n, S # {}
  PROVE  Max(S) \in S /\ \A y \in S : Max(S) >= y
<1> DEFINE T == {n - s : s \in S}
<1>1. T \subseteq Nat /\ T # {}
  <2> \A s \in S : n - s \in Nat
    OBVIOUS
  <2> QED OBVIOUS
<1>2. PICK d \in T : \A y \in T : d <= y
  BY <1>1, LeastElement
<1>3. PICK m \in S : d = n - m
  OBVIOUS
<1>4. \A y \in S : n - y \in T
  OBVIOUS
<1>5. \A y \in S : m >= y
  BY <1>2, <1>3, <1>4
<1> QED BY <1>5 DEF Max

LEMMA Division ==
  ASSUME NEW x \in Nat, NEW d \in Nat \ {0}
  PROVE  x \div d \in Nat /\ x % d \in 0 .. d - 1 /\ x = d * (x \div d) + (x % d)
  OBVIOUS

LEMMA Scaling ==
  ASSUME NEW g \in Nat \ {0}
  PROVE  \A i, j \in Int : (i >= j <=> g * i >= g * j) /\ (i <= j <=> g * i <= g * j)
  OBVIOUS

\* round() errs by at most a half, and breaks an exact tie to the even neighbour.
LEMMA RoundedIs ==
  ASSUME NEW x \in Nat, NEW d \in Nat \ {0}
  PROVE  /\ Rounded(x, d) \in Nat
         /\ 2 * (d * Rounded(x, d)) <= 2 * x + d
         /\ 2 * x <= 2 * (d * Rounded(x, d)) + d
         /\ 2 * (d * Rounded(x, d)) = 2 * x + d => Rounded(x, d) % 2 = 0
         /\ 2 * x = 2 * (d * Rounded(x, d)) + d => Rounded(x, d) % 2 = 0
<1> DEFINE q == x \div d
           r == x % d
<1>1. q \in Nat /\ r \in 0 .. d - 1 /\ x = d * q + r
  OBVIOUS
<1>2. Rounded(x, d) = IF 2 * r < d \/ (2 * r = d /\ q % 2 = 0) THEN q ELSE q + 1
  BY DEF Rounded
<1> HIDE DEF q, r
<1> PICK y \in Nat : y = d * q
  BY <1>1
<1>3. d * (q + 1) = y + d
  BY <1>1
<1>4. CASE 2 * r < d \/ (2 * r = d /\ q % 2 = 0)
  <2>1. Rounded(x, d) = q /\ d * Rounded(x, d) = y
    BY <1>2, <1>4
  <2> QED BY <1>1, <1>4, <2>1
<1>5. CASE ~(2 * r < d \/ (2 * r = d /\ q % 2 = 0))
  <2>1. Rounded(x, d) = q + 1 /\ d * Rounded(x, d) = y + d
    BY <1>2, <1>3, <1>5
  <2>2. 2 * r > d \/ (2 * r = d /\ q % 2 = 1)
    BY <1>1, <1>5
  <2>3. q % 2 = 1 => (q + 1) % 2 = 0
    BY <1>1
  <2> QED BY <1>1, <2>1, <2>2, <2>3
<1> QED BY <1>4, <1>5

\* round() does not put a smaller fraction above a larger one.
LEMMA RoundedMonotonic ==
  ASSUME NEW x \in Nat, NEW d \in Nat \ {0}, NEW y \in Nat, NEW e \in Nat \ {0}, x * e <= y * d
  PROVE  Rounded(x, d) <= Rounded(y, e)
<1> PICK a \in Nat : a = Rounded(x, d)
  BY RoundedIs
<1> PICK b \in Nat : b = Rounded(y, e)
  BY RoundedIs
<1> SUFFICES ASSUME a > b PROVE FALSE
  OBVIOUS
<1>1. /\ 2 * (d * a) <= 2 * x + d
      /\ 2 * (d * a) = 2 * x + d => a % 2 = 0
      /\ 2 * y <= 2 * (e * b) + e
      /\ 2 * y = 2 * (e * b) + e => b % 2 = 0
  BY RoundedIs
<1> PICK de \in Nat \ {0} : de = d * e
  BY SMT
<1> PICK xe \in Nat : xe = x * e
  OBVIOUS
<1> PICK yd \in Nat : yd = y * d
  OBVIOUS
<1> PICK c \in Nat \ {0} : a = b + c
  <2> DEFINE t == a - b
  <2>1. t \in Nat \ {0} /\ a = b + t
    OBVIOUS
  <2> QED BY <2>1
<1> PICK z \in Nat : z = de * b
  OBVIOUS
<1> PICK f \in Nat : f = de * c /\ f >= de
  <2>1. de * c >= de * 1
    OBVIOUS
  <2> QED BY <2>1
<1>2. e * (2 * (d * a)) = 2 * z + 2 * f
  <2>1. e * (2 * (d * a)) = 2 * (de * (b + c))
    OBVIOUS
  <2>2. de * (b + c) = de * b + de * c
    OBVIOUS
  <2> QED BY <2>1, <2>2
<1>3. e * (2 * x + d) = 2 * xe + de
  OBVIOUS
<1>4. d * (2 * (e * b) + e) = 2 * z + de /\ d * (2 * y) = 2 * yd
  OBVIOUS
<1>5. 2 * z + 2 * f <= 2 * xe + de
  <2>1. e * (2 * (d * a)) <= e * (2 * x + d)
    <3>1. \A u, v \in Nat : u <= v => e * u <= e * v
      OBVIOUS
    <3> QED BY <1>1, <3>1
  <2> QED BY <1>2, <1>3, <2>1
<1>6. 2 * yd <= 2 * z + de
  <2>1. d * (2 * y) <= d * (2 * (e * b) + e)
    <3>1. \A u, v \in Nat : u <= v => d * u <= d * v
      OBVIOUS
    <3> QED BY <1>1, <3>1
  <2> QED BY <1>4, <2>1
<1>7. xe = yd /\ f = de /\ 2 * z + 2 * f = 2 * xe + de /\ 2 * yd = 2 * z + de
  BY <1>5, <1>6
<1>8. 2 * (d * a) = 2 * x + d
  <2>1. \A u, v \in Nat : e * u = e * v => u = v
    OBVIOUS
  <2>2. e * (2 * (d * a)) = e * (2 * x + d)
    BY <1>2, <1>3, <1>7
  <2> QED BY <2>1, <2>2
<1>9. 2 * y = 2 * (e * b) + e
  <2>1. \A u, v \in Nat : d * u = d * v => u = v
    OBVIOUS
  <2>2. d * (2 * y) = d * (2 * (e * b) + e)
    BY <1>4, <1>7
  <2> QED BY <2>1, <2>2
<1>10. c = 1
  <2>1. de * c = de * 1
    BY <1>7
  <2>2. \A u, v \in Nat : de * u = de * v => u = v
    OBVIOUS
  <2> QED BY <2>1, <2>2
<1>11. a % 2 = 0 /\ b % 2 = 0 /\ a = b + 1
  BY <1>1, <1>8, <1>9, <1>10
<1> QED BY <1>11

\* Adding an even whole number goes through round().
LEMMA RoundedOrdered ==
  ASSUME NEW x \in Nat, NEW y \in Nat, NEW d \in Nat \ {0}, x <= y
  PROVE  Rounded(x, d) <= Rounded(y, d)
<1>1. x * d <= y * d
  <2> PICK c \in Nat : y = x + c
    <3>1. y - x \in Nat /\ y = x + (y - x)
      OBVIOUS
    <3> QED BY <3>1
  <2>1. y * d = x * d + c * d /\ c * d \in Nat /\ x * d \in Nat
    OBVIOUS
  <2> QED BY <2>1
<1> QED BY <1>1, RoundedMonotonic

LEMMA RoundedShift ==
  ASSUME NEW x \in Nat, NEW d \in Nat \ {0}, NEW m \in Nat, m % 2 = 0
  PROVE  Rounded(x + d * m, d) = Rounded(x, d) + m
<1> DEFINE q == x \div d
           r == x % d
           z == x + d * m
<1>1. q \in Nat /\ r \in 0 .. d - 1 /\ x = d * q + r
  OBVIOUS
<1>2. z \div d = q + m /\ z % d = r
  <2> HIDE DEF q, r
  <2>1. z = d * (q + m) + r /\ z \in Nat
    BY <1>1
  <2> HIDE DEF z
  <2> QED BY <1>1, <2>1
<1>3. (q + m) % 2 = q % 2
  <2> HIDE DEF q
  <2> QED BY <1>1
<1>4. Rounded(x, d) = IF 2 * r < d \/ (2 * r = d /\ q % 2 = 0) THEN q ELSE q + 1
  BY DEF Rounded
<1>5. Rounded(z, d) = IF 2 * r < d \/ (2 * r = d /\ (q + m) % 2 = 0) THEN q + m ELSE q + m + 1
  <2> HIDE DEF q, r, z
  <2> QED BY <1>2 DEF Rounded
<1> HIDE DEF q, r, z
<1>6. CASE 2 * r < d \/ (2 * r = d /\ q % 2 = 0)
  <2>1. Rounded(x, d) = q /\ Rounded(z, d) = q + m
    BY <1>3, <1>4, <1>5, <1>6
  <2> QED BY <2>1 DEF z
<1>7. CASE ~(2 * r < d \/ (2 * r = d /\ q % 2 = 0))
  <2>1. Rounded(x, d) = q + 1 /\ Rounded(z, d) = q + m + 1
    BY <1>3, <1>4, <1>5, <1>7
  <2>2. q + m + 1 = (q + 1) + m
    BY <1>1
  <2> QED BY <2>1, <2>2 DEF z
<1> QED BY <1>6, <1>7

-----------------------------------------------------------------------------
(* The invariant: the types of the rows.                                     *)

Fee == [head : Nat, due_date : DueDates, due : Amounts \cup {Null}, paid : Amounts \cup {Null}]

SInv ==
  /\ sessions \in Seq(Statuses)
  /\ marks \in Seq(Marks) /\ Len(marks) <= MaxMarks
  /\ fees \subseteq Fee /\ IsFiniteSet(fees)
  /\ today \in Nat

LEMMA InsertedIs ==
  ASSUME NEW S, NEW q \in Seq(S), NEW i \in 0 .. Len(q), NEW e \in S
  PROVE  /\ Inserted(q, i, e) \in Seq(S)
         /\ Len(Inserted(q, i, e)) = Len(q) + 1
         /\ \A j \in 1 .. Len(q) + 1 :
              Inserted(q, i, e)[j] = IF j <= i THEN q[j] ELSE IF j = i + 1 THEN e ELSE q[j - 1]
<1> DEFINE a == SubSeq(q, 1, i)
           b == SubSeq(q, i + 1, Len(q))
           ae == a \o <<e>>
<1>1. a \in Seq(S) /\ Len(a) = i /\ \A j \in 1 .. i : a[j] = q[j]
  BY SubSeqProperties
<1>2. b \in Seq(S) /\ Len(b) = Len(q) - i /\ \A j \in 1 .. Len(q) - i : b[j] = q[i + j]
  BY SubSeqProperties
<1>3. <<e>> \in Seq(S) /\ Len(<<e>>) = 1 /\ <<e>>[1] = e
  OBVIOUS
<1> HIDE DEF a, b
<1>4. ae \in Seq(S) /\ Len(ae) = i + 1
      /\ \A j \in 1 .. i + 1 : ae[j] = IF j <= i THEN q[j] ELSE e
  BY <1>1, <1>3, ConcatProperties
<1> HIDE DEF ae
<1>5. /\ ae \o b \in Seq(S)
      /\ Len(ae \o b) = Len(q) + 1
      /\ \A j \in 1 .. Len(q) + 1 : (ae \o b)[j] = IF j <= i + 1 THEN ae[j] ELSE b[j - (i + 1)]
  <2>1. /\ ae \o b \in Seq(S)
        /\ Len(ae \o b) = Len(ae) + Len(b)
        /\ \A j \in 1 .. Len(ae) + Len(b) : (ae \o b)[j] = IF j <= Len(ae) THEN ae[j] ELSE b[j - Len(ae)]
    BY <1>2, <1>4, ConcatProperties
  <2>2. Len(ae) + Len(b) = Len(q) + 1
    BY <1>2, <1>4
  <2> QED BY <1>4, <2>1, <2>2
<1>6. Inserted(q, i, e) = ae \o b
  BY DEF Inserted, a, ae, b
<1>7. ASSUME NEW j \in 1 .. Len(q) + 1
      PROVE  (ae \o b)[j] = IF j <= i THEN q[j] ELSE IF j = i + 1 THEN e ELSE q[j - 1]
  <2>1. CASE j <= i + 1
    BY <1>4, <1>5, <2>1
  <2>2. CASE j > i + 1
    <3>1. j - (i + 1) \in 1 .. Len(q) - i /\ i + (j - (i + 1)) = j - 1
      BY <2>2
    <3>2. b[j - (i + 1)] = q[j - 1]
      BY <1>2, <3>1
    <3> QED BY <1>5, <2>2, <3>2
  <2>3. j <= i + 1 \/ j > i + 1
    BY LenProperties
  <2> QED BY <2>1, <2>2, <2>3
<1> QED BY <1>5, <1>6, <1>7

LEMMA SInvStep == SInv /\ [Next]_vars => SInv'
<1> SUFFICES ASSUME SInv, [Next]_vars PROVE SInv'
  OBVIOUS
<1> USE DEF SInv
<1>1. CASE RecordSession
  BY <1>1, InsertedIs DEF RecordSession
<1>2. CASE CorrectSession
  BY <1>2, ExceptSeq DEF CorrectSession
<1>3. CASE RecordMark
  <2>1. PICK i \in 0 .. Len(marks), m \in Marks : marks' = Inserted(marks, i, m)
    BY <1>3 DEF RecordMark
  <2>2. marks' \in Seq(Marks) /\ Len(marks') = Len(marks) + 1
    <3>1. Inserted(marks, i, m) \in Seq(Marks)
      BY InsertedIs
    <3>2. Len(Inserted(marks, i, m)) = Len(marks) + 1
      BY InsertedIs
    <3> QED BY <2>1, <3>1, <3>2
  <2>3. Len(marks) < MaxMarks /\ MaxMarks \in Nat /\ Len(marks) \in Nat
    BY <1>3, BoundsAssumption DEF RecordMark
  <2> QED BY <1>3, <2>2, <2>3 DEF RecordMark
<1>4. CASE RaiseFee
  <2>1. Cardinality(fees) + 1 \in Nat
    BY FS_CardinalityType
  <2>2. PICK f : f \in Fee /\ fees' = fees \cup {f}
    BY <1>4, <2>1 DEF RaiseFee, Fee
  <2> QED BY <1>4, <2>2, FS_AddElement DEF RaiseFee
<1>5. CASE UpdateFee
  <2>1. PICK f \in fees, a \in Amounts : fees' = (fees \ {f}) \cup {[f EXCEPT !.paid = a]}
    BY <1>5 DEF UpdateFee
  <2>2. [f EXCEPT !.paid = a] \in Fee
    BY <2>1 DEF Fee
  <2>3. IsFiniteSet(fees')
    BY <2>1, FS_AddElement, FS_RemoveElement
  <2> QED BY <1>5, <2>1, <2>2, <2>3 DEF UpdateFee
<1>6. CASE NextDay
  BY <1>6 DEF NextDay
<1>7. CASE UNCHANGED vars
  BY <1>7 DEF vars
<1> QED BY <1>1, <1>2, <1>3, <1>4, <1>5, <1>6, <1>7 DEF Next

\* Rows have the types the schema gives them.
THEOREM RowsTyped == Spec => []SInv
<1>1. Init => SInv
  BY FS_EmptySet, BoundsAssumption DEF Init, SInv
<1> QED BY <1>1, SInvStep, PTL DEF Spec

-----------------------------------------------------------------------------
(* Which signal raises which flag.                                           *)

LEMMA WhoFires ==
  ASSUME NEW sig
  PROVE  /\ "ATTENDANCE_BELOW_THRESHOLD" \in FiredCodes(sig, Config) <=> AttendanceBelowThreshold(sig, Config)
         /\ "ATTENDANCE_DECLINING" \in FiredCodes(sig, Config) <=> AttendanceDeclining(sig, Config)
         /\ "ACADEMIC_FAILING_INTERNALS" \in FiredCodes(sig, Config) <=> AcademicFailingInternals(sig)
         /\ "ACADEMIC_DECLINE" \in FiredCodes(sig, Config) <=> AcademicDecline(sig, Config)
         /\ "FEE_OVERDUE" \in FiredCodes(sig, Config) <=> FeeOverdue(sig, Config)
  BY DEF FiredCodes, Codes, AttendanceCodes, AcademicCodes

-----------------------------------------------------------------------------
(* Fees.                                                                     *)

\* the fee signal of these fees on this day
Age(fs, t) == Max(OverdueDays(fs, t) \cup {0})

Debt(f, t) == f.due_date < t /\ (f.paid = Null \/ f.due = Null \/ f.paid < f.due)

LEMMA OverdueAreDebts ==
  ASSUME NEW fs \in SUBSET Fee, NEW t \in Nat
  PROVE  /\ OverdueDays(fs, t) \subseteq 1 .. t
         /\ \A d : d \in OverdueDays(fs, t) <=> \E f \in fs : Debt(f, t) /\ d = t - f.due_date
<1>1. ASSUME NEW f \in fs
      PROVE  /\ f.due_date \in Nat
             /\ f.due_date < t => t - f.due_date \in 1 .. t
             /\ f.due_date < t /\ ~FullyPaid(f) <=> Debt(f, t)
  <2>1. f.due_date \in Nat /\ f.paid \in Nat \cup {Null} /\ f.due \in Nat \cup {Null}
    BY RowsAssumption DEF Fee
  <2>2. Null \notin Nat
    BY ConfigAssumption
  <2> QED BY <2>1, <2>2 DEF FullyPaid, Debt
<1> QED BY <1>1 DEF OverdueDays

LEMMA AgeIs ==
  ASSUME NEW fs \in SUBSET Fee, NEW t \in Nat
  PROVE  /\ Age(fs, t) \in 0 .. t
         /\ Age(fs, t) = 0 \/ Age(fs, t) \in OverdueDays(fs, t)
         /\ \A d \in OverdueDays(fs, t) : Age(fs, t) >= d
<1>1. OverdueDays(fs, t) \cup {0} \subseteq 0 .. t
  BY OverdueAreDebts
<1> QED BY <1>1, GreatestElement DEF Age

LEMMA FeeFires ==
  SInv => ("FEE_OVERDUE" \in Fired <=> Age(fees, today) >= Config.fee_overdue_days)
<1>1. SignalsNow.max_fee_overdue_days = Age(fees, today)
  BY DEF SignalsNow, FeeSignals, Age
<1> QED BY <1>1, WhoFires DEF Fired, FeeOverdue

LEMMA FeeFlag == SInv => FeeFlagNeedsADebt
<1> SUFFICES ASSUME SInv PROVE FeeFlagNeedsADebt
  OBVIOUS
<1> DEFINE limit == Config.fee_overdue_days
           age == Age(fees, today)
<1>1. limit \in Nat /\ today \in Nat /\ fees \in SUBSET Fee
  BY ConfigAssumption DEF ValidConfig, SInv
<1>2. \A f \in fees : f.due_date \in Nat
  BY <1>1, RowsAssumption DEF Fee
<1> HIDE DEF limit
<1>3. ASSUME age >= limit, limit # 0
      PROVE  \E f \in fees : Debt(f, today) /\ today - f.due_date >= limit
  <2>1. age \in OverdueDays(fees, today)
    BY <1>1, <1>3, AgeIs
  <2> QED BY <1>1, <1>3, <2>1, OverdueAreDebts
<1>4. ASSUME NEW f \in fees, Debt(f, today), today - f.due_date >= limit
      PROVE  age >= limit
  <2>1. today - f.due_date \in OverdueDays(fees, today)
    BY <1>1, <1>4, OverdueAreDebts
  <2>2. age >= today - f.due_date /\ age \in Int
    BY <1>1, <2>1, AgeIs
  <2> QED BY <1>1, <1>2, <1>4, <2>2
<1>5. limit = 0 => age >= limit
  BY <1>1, AgeIs
<1>6. "FEE_OVERDUE" \in Fired <=> age >= limit
  BY FeeFires DEF limit
<1> QED BY <1>3, <1>4, <1>5, <1>6 DEF FeeFlagNeedsADebt, Debt, limit

\* A student is flagged for fees only over a debt of the configured age, and always then.
THEOREM FeesFlagDebts == Spec => []FeeFlagNeedsADebt
  BY RowsTyped, FeeFlag, PTL

LEMMA FullTyped == Grain \in Nat \ {0} /\ Full = 10000 * Grain /\ Full \in Nat
  BY GrainAssumption DEF Full

\* ScoreFindings adds up the weights of the flags up to 100 percent.
LEMMA ScoreMonotonic ==
  ASSUME NEW F, NEW G, F \cap Codes \subseteq G
  PROVE  /\ ScoreFindings(F, Config.weights) \in Nat
         /\ ScoreFindings(F, Config.weights) <= ScoreFindings(G, Config.weights)
<1> DEFINE w == Config.weights
           part(S, c) == IF c \in S THEN w[c] ELSE 0
           sum(S) == part(S, "ATTENDANCE_BELOW_THRESHOLD") + part(S, "ATTENDANCE_DECLINING")
                     + part(S, "ACADEMIC_FAILING_INTERNALS") + part(S, "ACADEMIC_DECLINE")
                     + part(S, "FEE_OVERDUE")
<1>1. \A c \in Codes : w[c] \in Nat
  BY ConfigAssumption DEF ValidConfig
<1>2. \A c \in Codes : part(F, c) \in Nat /\ part(G, c) \in Nat /\ part(F, c) <= part(G, c)
  BY <1>1
<1>3. {"ATTENDANCE_BELOW_THRESHOLD", "ATTENDANCE_DECLINING", "ACADEMIC_FAILING_INTERNALS",
       "ACADEMIC_DECLINE", "FEE_OVERDUE"} \subseteq Codes
  BY DEF Codes, AttendanceCodes, AcademicCodes
<1> HIDE DEF part
<1>4. sum(F) \in Nat /\ sum(G) \in Nat /\ sum(F) <= sum(G)
  BY <1>2, <1>3
<1>5. ScoreFindings(F, w) = Min({Full, sum(F)}) /\ ScoreFindings(G, w) = Min({Full, sum(G)})
  BY DEF ScoreFindings, part
<1> HIDE DEF sum, w
<1>6. \A n \in Nat : Min({Full, n}) = IF n <= Full THEN n ELSE Full
  <2> TAKE n \in Nat
  <2>1. PICK m \in Nat : m = IF n <= Full THEN n ELSE Full
    BY FullTyped
  <2>2. m \in {Full, n} /\ \A y \in {Full, n} : m <= y
    BY <2>1, FullTyped
  <2>3. \A x \in {Full, n} : (\A y \in {Full, n} : x <= y) => x = m
    BY <2>1, FullTyped
  <2> QED BY <2>1, <2>2, <2>3 DEF Min
<1> QED BY <1>4, <1>5, <1>6, FullTyped DEF w

\* A step that leaves sessions and marks alone moves the score the way it moves the fee signal.
LEMMA OnlyFeesMove ==
  ASSUME SInv, SInv', UNCHANGED <<sessions, marks>>
  PROVE  /\ Age(fees, today) <= Age(fees', today') => Score <= Score'
         /\ Age(fees', today') <= Age(fees, today) => Score' <= Score
<1>1. /\ Age(fees, today) \in Nat /\ Age(fees', today') \in Nat
      /\ Config.fee_overdue_days \in Nat
  <2>1. Config.fee_overdue_days \in Nat
    BY ConfigAssumption DEF ValidConfig
  <2> QED BY <2>1, AgeIs DEF SInv
<1>2. PICK a \in Nat : a = Age(fees, today)
  BY <1>1
<1>3. PICK b \in Nat : b = Age(fees', today')
  BY <1>1
<1> DEFINE sig == SignalsNow
           new == [sig EXCEPT !.max_fee_overdue_days = b]
<1>4. sig.max_fee_overdue_days = a
  BY <1>2 DEF SignalsNow, FeeSignals, Age
<1>5. SignalsNow' = new
  BY <1>3 DEF SignalsNow, FeeSignals, Age
<1>6. /\ new.max_fee_overdue_days = b
      /\ new.overall_attendance_pct = sig.overall_attendance_pct
      /\ new.overall_sessions = sig.overall_sessions
      /\ new.attendance_recent_pct = sig.attendance_recent_pct
      /\ new.attendance_prior_pct = sig.attendance_prior_pct
      /\ new.failing_internal_count = sig.failing_internal_count
      /\ new.academic_latest_pct = sig.academic_latest_pct
      /\ new.academic_baseline_pct = sig.academic_baseline_pct
  BY DEF SignalsNow
<1> DEFINE F == FiredCodes(sig, Config)
           G == FiredCodes(new, Config)
<1> HIDE DEF sig, new
<1>7. /\ AttendanceBelowThreshold(sig, Config) <=> AttendanceBelowThreshold(new, Config)
      /\ AttendanceDeclining(sig, Config) <=> AttendanceDeclining(new, Config)
      /\ AcademicFailingInternals(sig) <=> AcademicFailingInternals(new)
      /\ AcademicDecline(sig, Config) <=> AcademicDecline(new, Config)
  BY <1>6 DEF AttendanceBelowThreshold, AttendanceDeclining, AcademicFailingInternals, AcademicDecline
<1>8. /\ a <= b => (FeeOverdue(sig, Config) => FeeOverdue(new, Config))
      /\ b <= a => (FeeOverdue(new, Config) => FeeOverdue(sig, Config))
  BY <1>1, <1>2, <1>3, <1>4, <1>6 DEF FeeOverdue
<1>9. \A c \in Codes : c \in {"ATTENDANCE_BELOW_THRESHOLD", "ATTENDANCE_DECLINING",
                              "ACADEMIC_FAILING_INTERNALS", "ACADEMIC_DECLINE", "FEE_OVERDUE"}
  BY DEF Codes, AttendanceCodes, AcademicCodes
<1>10. (a <= b => F \cap Codes \subseteq G) /\ (b <= a => G \cap Codes \subseteq F)
  BY <1>7, <1>8, <1>9, WhoFires
<1>11. Score = ScoreFindings(F, Config.weights)
  BY DEF Score, Fired, sig
<1>12. Score' = ScoreFindings(G, Config.weights)
  BY <1>5 DEF Score, Fired
<1> HIDE DEF F, G
<1> QED BY <1>2, <1>3, <1>10, <1>11, <1>12, ScoreMonotonic

\* Debts only age, and a higher payment settles them or leaves them as they are.
LEMMA NextDayAges == SInv /\ SInv' /\ NextDay => Age(fees, today) <= Age(fees', today')
<1> SUFFICES ASSUME SInv, SInv', NextDay PROVE Age(fees, today) <= Age(fees', today')
  OBVIOUS
<1>1. fees \in SUBSET Fee /\ fees' = fees /\ today \in Nat /\ today' = today + 1
  BY DEF SInv, NextDay
<1> DEFINE a == Age(fees, today)
           b == Age(fees, today + 1)
<1>2. a \in Nat /\ b \in Nat
  BY <1>1, AgeIs
<1>3. CASE a \in OverdueDays(fees, today)
  <2>1. PICK f \in fees : Debt(f, today) /\ a = today - f.due_date
    BY <1>1, <1>3, OverdueAreDebts
  <2>2. f.due_date \in Nat
    BY <1>1, RowsAssumption DEF Fee
  <2>3. Debt(f, today + 1) /\ a + 1 = (today + 1) - f.due_date
    BY <1>1, <2>1, <2>2 DEF Debt
  <2>4. a + 1 \in OverdueDays(fees, today + 1)
    BY <1>1, <2>3, OverdueAreDebts
  <2>5. b >= a + 1
    BY <1>1, <2>4, AgeIs
  <2> QED BY <1>1, <1>2, <2>5
<1>4. CASE a = 0
  BY <1>1, <1>2, <1>4
<1> QED BY <1>1, <1>3, <1>4, AgeIs

Raises(f, new) == \A g \in new : g.head = f.head /\ f.paid # Null => g.paid > f.paid

LEMMA PaymentSettles ==
  ASSUME SInv, SInv', UpdateFee, NEW f \in fees \ fees', Raises(f, fees')
  PROVE  Age(fees', today') <= Age(fees, today)
<1>1. PICK h \in fees, n \in Amounts : fees' = (fees \ {h}) \cup {[h EXCEPT !.paid = n]}
  BY DEF UpdateFee
<1>2. f = h
  BY <1>1
<1>3. /\ fees \in SUBSET Fee /\ fees' \in SUBSET Fee /\ today \in Nat /\ today' = today
      /\ n \in Nat /\ f \in Fee /\ f.due_date \in Nat /\ f.due \in Nat \cup {Null}
      /\ f.paid \in Nat \cup {Null} /\ Null \notin Nat
  BY RowsAssumption, ConfigAssumption DEF SInv, UpdateFee, Fee
<1> DEFINE g == [f EXCEPT !.paid = n]
           a == Age(fees, today)
           b == Age(fees', today)
<1>4. g.head = f.head /\ g.due_date = f.due_date /\ g.due = f.due /\ g.paid = n /\ g \in fees'
  BY <1>1, <1>2 DEF Fee
<1>5. f.paid # Null => n > f.paid
  BY <1>4 DEF Raises
<1>6. Debt(g, today) => Debt(f, today)
  BY <1>3, <1>4, <1>5 DEF Debt
<1>7. CASE b \in OverdueDays(fees', today)
  <2>1. PICK d \in fees' : Debt(d, today) /\ b = today - d.due_date
    BY <1>3, <1>7, OverdueAreDebts
  <2>2. \E e \in fees : Debt(e, today) /\ b = today - e.due_date
    BY <1>1, <1>2, <1>4, <1>6, <2>1
  <2>3. b \in OverdueDays(fees, today)
    BY <1>3, <2>2, OverdueAreDebts
  <2>4. a >= b /\ a \in Nat /\ b \in Nat
    BY <1>3, <2>3, AgeIs
  <2> QED BY <1>3, <2>4
<1>8. CASE b = 0
  BY <1>3, <1>8, AgeIs
<1> QED BY <1>3, <1>7, <1>8, AgeIs

\* Waiting never lowers a student's score, and a higher payment never raises it.
THEOREM TimeAndPaymentsMoveTheScore == Spec => TimeAndPayments
<1> DEFINE Good == /\ today' # today => Score' >= Score
                   /\ \A f \in fees \ fees' : Raises(f, fees') => Score' <= Score
<1>1. SInv /\ SInv' /\ [Next]_vars => [Good]_vars
  <2> SUFFICES ASSUME SInv, SInv', Next PROVE Good
    OBVIOUS
  <2>1. Score \in Nat /\ Score' \in Nat
    <3>1. \A F : ScoreFindings(F, Config.weights) \in Nat
      BY ScoreMonotonic
    <3> QED BY <3>1 DEF Score
  <2>2. CASE NextDay
    <3>1. Score <= Score'
      BY <2>2, NextDayAges, OnlyFeesMove DEF NextDay
    <3> QED BY <2>1, <2>2, <3>1 DEF NextDay
  <2>3. CASE UpdateFee
    <3>1. ASSUME NEW f \in fees \ fees', Raises(f, fees') PROVE Score' <= Score
      BY <2>3, <3>1, PaymentSettles, OnlyFeesMove DEF UpdateFee
    <3> QED BY <2>3, <3>1 DEF UpdateFee
  <2>4. CASE RecordSession \/ CorrectSession \/ RecordMark \/ RaiseFee
    BY <2>4 DEF RecordSession, CorrectSession, RecordMark, RaiseFee
  <2> QED BY <2>2, <2>3, <2>4 DEF Next
<1>2. [Good]_vars => [ /\ today' # today => Score' >= Score
                       /\ \A f \in fees \ fees' :
                            (\A g \in fees' : g.head = f.head /\ f.paid # Null => g.paid > f.paid)
                              => Score' <= Score ]_vars
  BY DEF Raises
<1> QED BY <1>1, <1>2, RowsTyped, PTL DEF Spec, TimeAndPayments

-----------------------------------------------------------------------------
(* Attendance.                                                               *)

LEMMA PresentBounds ==
  ASSUME NEW q \in Seq(Statuses)
  PROVE  /\ PresentIn(q) \in Nat /\ PresentIn(q) <= Len(q)
         /\ IsFiniteSet({i \in DOMAIN q : q[i] = Present})
<1> PICK n \in Nat : n = Len(q)
  OBVIOUS
<1>1. DOMAIN q = 1 .. n
  OBVIOUS
<1>2. IsFiniteSet(1 .. n) /\ Cardinality(1 .. n) = n
  <2>1. 1 \in Int /\ n \in Int
    OBVIOUS
  <2>2. IsFiniteSet(1 .. n) /\ Cardinality(1 .. n) = IF 1 > n THEN 0 ELSE n - 1 + 1
    BY <2>1, FS_Interval, Zenon
  <2> QED BY <2>2
<1>3. {i \in DOMAIN q : q[i] = Present} \in SUBSET (1 .. n)
  BY <1>1
<1> QED BY <1>2, <1>3, FS_Subset, FS_CardinalityType DEF PresentIn

\* The sessions at positions lo..hi from the end, as SubSeq cuts them out of q.
LEMMA SliceCounts ==
  ASSUME NEW q \in Seq(Statuses), NEW lo \in 1 .. Len(q) + 1, NEW hi \in 0 .. Len(q), lo <= hi + 1
  PROVE  LET chunk == SubSeq(q, Len(q) - hi + 1, Len(q) - lo + 1)
         IN  /\ chunk \in Seq(Statuses)
             /\ Len(chunk) = hi - lo + 1
             /\ PresentIn(chunk) = Cardinality({k \in lo .. hi : q[Len(q) + 1 - k] = Present})
<1> DEFINE n == Len(q)
           chunk == SubSeq(q, n - hi + 1, n - lo + 1)
           A == {i \in DOMAIN chunk : chunk[i] = Present}
           B == {k \in lo .. hi : q[n + 1 - k] = Present}
           f == [i \in A |-> hi + 1 - i]
<1>1. n \in Nat /\ n - hi + 1 \in 1 .. n + 1 /\ n - lo + 1 \in 0 .. n
      /\ (n - lo + 1) - (n - hi + 1) + 1 = hi - lo + 1 /\ hi - lo + 1 \in Nat
  BY LenProperties
<1>2. \A i \in n - hi + 1 .. n - lo + 1 : q[i] \in Statuses
  BY <1>1, ElementOfSeq
<1>3. /\ chunk \in Seq(Statuses)
      /\ Len(chunk) = hi - lo + 1
      /\ \A i \in 1 .. hi - lo + 1 : chunk[i] = q[(n - hi + 1) + i - 1]
  <2>1. /\ chunk \in Seq(Statuses)
        /\ Len(chunk) = IF n - hi + 1 <= n - lo + 1 THEN (n - lo + 1) - (n - hi + 1) + 1 ELSE 0
        /\ \A i \in 1 .. (n - lo + 1) - (n - hi + 1) + 1 : chunk[i] = q[(n - hi + 1) + i - 1]
    BY <1>1, <1>2, SubSeqProperties
  <2> QED BY <1>1, <2>1
<1> HIDE DEF chunk, n
<1>4. A = {i \in 1 .. hi - lo + 1 : q[n - hi + i] = Present}
  <2>1. DOMAIN chunk = 1 .. hi - lo + 1
    BY <1>3, LenProperties
  <2>2. \A i \in 1 .. hi - lo + 1 : (n - hi + 1) + i - 1 = n - hi + i
    BY <1>1
  <2> QED BY <1>3, <2>1, <2>2
<1>5. f \in Bijection(A, B)
  <2>1. ASSUME NEW i \in A PROVE f[i] \in B
    <3>1. i \in 1 .. hi - lo + 1 /\ q[n - hi + i] = Present
      BY <1>4
    <3>2. hi + 1 - i \in lo .. hi /\ n + 1 - (hi + 1 - i) = n - hi + i
      BY <1>1, <3>1
    <3> QED BY <3>1, <3>2
  <2>2. \A a, b \in A : f[a] = f[b] => a = b
    <3>1. \A a \in A : a \in Int /\ f[a] = hi + 1 - a
      BY <1>4
    <3> HIDE DEF A, f
    <3> QED BY <3>1
  <2>3. ASSUME NEW k \in B PROVE \E i \in A : f[i] = k
    <3>1. k \in lo .. hi /\ q[n + 1 - k] = Present
      OBVIOUS
    <3>2. /\ hi + 1 - k \in 1 .. hi - lo + 1 /\ n - hi + (hi + 1 - k) = n + 1 - k
          /\ hi + 1 - (hi + 1 - k) = k
      BY <1>1, <3>1
    <3>3. hi + 1 - k \in A
      BY <1>4, <3>1, <3>2
    <3> QED BY <3>2, <3>3
  <2>4. f \in [A -> B]
    BY <2>1
  <2> HIDE DEF A, B, f
  <2> QED BY <2>2, <2>3, <2>4, Fun_IsBij
<1>6. IsFiniteSet(A)
  BY <1>3, PresentBounds
<1>7. Cardinality(A) = Cardinality(B)
  <2> HIDE DEF A, B, f
  <2> QED BY <1>5, <1>6, FS_Bijection, Fun_ExistsBij
<1> QED BY <1>3, <1>7 DEF PresentIn, chunk, n

LEMMA WholeCounts ==
  ASSUME NEW q \in Seq(Statuses)
  PROVE  PresentIn(q) = Cardinality({k \in 1 .. Len(q) : q[Len(q) + 1 - k] = Present})
<1>1. Len(q) \in Nat
  BY LenProperties
<1>2. Len(q) - Len(q) + 1 = 1 /\ Len(q) - 1 + 1 = Len(q)
  BY <1>1
<1>3. SubSeq(q, Len(q) - Len(q) + 1, Len(q) - 1 + 1) = q
  BY <1>2, SubSeqFull
<1>4. PresentIn(SubSeq(q, Len(q) - Len(q) + 1, Len(q) - 1 + 1))
        = Cardinality({k \in 1 .. Len(q) : q[Len(q) + 1 - k] = Present})
  BY <1>1, SliceCounts
<1> QED BY <1>3, <1>4

\* A threshold that is a whole number of hundredths, and of percents.
LEMMA Hundredths ==
  ASSUME NEW t \in Nat
  PROVE  WholePercent(t) => \E m \in Nat : t = Grain * (100 * m)
<1> SUFFICES ASSUME WholePercent(t) PROVE \E m \in Nat : t = Grain * (100 * m)
  OBVIOUS
<1> DEFINE d == 100 * Grain
           m == t \div d
<1>1. d \in Nat \ {0} /\ Grain \in Nat
  BY FullTyped
<1>2. t % d = 0
  BY DEF WholePercent
<1> HIDE DEF d
<1>3. m \in Nat /\ t = d * m
  BY <1>1, <1>2, Division
<1> HIDE DEF m
<1> PICK g \in Nat : g = Grain
  BY <1>1
<1>4. (100 * g) * m = g * (100 * m)
  BY <1>3
<1>5. d = 100 * g
  BY DEF d
<1> QED BY <1>3, <1>4, <1>5

\* The rounded share p / n, in grains, lies within half a hundredth of the share.
LEMMA PctWithin ==
  ASSUME NEW p \in Nat, NEW n \in Nat \ {0}
  PROVE  /\ Pct(p, n) \in Nat
         /\ 2 * (n * (Grain * Pct(p, n))) <= 2 * (Full * p) + Grain * n
         /\ 2 * (Full * p) <= 2 * (n * (Grain * Pct(p, n))) + Grain * n
<1> PICK x \in Nat : x = Pct(p, n) /\ 2 * (n * x) <= 20000 * p + n /\ 20000 * p <= 2 * (n * x) + n
  <2>1. 10000 * p \in Nat
    OBVIOUS
  <2>2. /\ Pct(p, n) \in Nat
        /\ 2 * (n * Pct(p, n)) <= 2 * (10000 * p) + n
        /\ 2 * (10000 * p) <= 2 * (n * Pct(p, n)) + n
    BY <2>1, RoundedIs DEF Pct
  <2> QED BY <2>2
<1>1. \A u, v \in Nat : u <= v => Grain * u <= Grain * v
  BY FullTyped
<1> PICK y \in Nat : y = n * x
  OBVIOUS
<1>2. Grain * (2 * y) <= Grain * (20000 * p + n) /\ Grain * (20000 * p) <= Grain * (2 * y + n)
  BY <1>1
<1>3. /\ Grain * (2 * y) = 2 * (n * (Grain * x))
      /\ Grain * (20000 * p + n) = 2 * (Full * p) + Grain * n
      /\ Grain * (20000 * p) = 2 * (Full * p)
      /\ Grain * (2 * y + n) = 2 * (n * (Grain * x)) + Grain * n
  BY FullTyped
<1> QED BY <1>2, <1>3

\* Between the percentage of a share and a threshold of t grains lies the rounding; below
\* 200 sessions none between it and a threshold of whole percents.
LEMMA BelowPercent ==
  ASSUME NEW p \in Nat, NEW n \in Nat \ {0}, NEW t \in Nat
  PROVE  /\ Grain * Pct(p, n) < t => 2 * Full * p < (2 * t + Grain) * n
         /\ 2 * Full * p < (2 * t - Grain) * n => Grain * Pct(p, n) < t
         /\ WholePercent(t) /\ n < 200 => (Grain * Pct(p, n) < t <=> Full * p < t * n)
<1> PICK x \in Nat : x = Pct(p, n)
  BY PctWithin
<1> PICK g \in Nat \ {0} : g = Grain
  BY FullTyped
<1> PICK gx \in Nat : gx = g * x
  OBVIOUS
<1> PICK y \in Nat : y = n * gx
  OBVIOUS
<1> PICK s \in Nat : s = Full * p
  BY FullTyped
<1> PICK gn \in Nat : gn = g * n
  OBVIOUS
<1> PICK tn \in Nat : tn = t * n
  OBVIOUS
<1>1. 2 * y <= 2 * s + gn /\ 2 * s <= 2 * y + gn
  BY PctWithin
<1>2. 2 * Full * p = 2 * s /\ (2 * t + g) * n = 2 * tn + gn /\ (2 * t - g) * n = 2 * tn - gn
  BY FullTyped
<1>3. gx < t <=> y < tn
  <2>1. \A u, v \in Nat : u < v <=> n * u < n * v
    OBVIOUS
  <2>2. t * n = n * t
    OBVIOUS
  <2> QED BY <2>1, <2>2
<1>4. /\ gx < t => 2 * s < 2 * tn + gn
      /\ 2 * s < 2 * tn - gn => gx < t
  BY <1>1, <1>3
<1>5. ASSUME WholePercent(t), n < 200 PROVE gx < t <=> s < tn
  <2> PICK m \in Nat : t = Grain * (100 * m)
    BY <1>5, Hundredths
  <2>1. t = g * (100 * m)
    OBVIOUS
  <2> PICK mn \in Nat : mn = m * n
    OBVIOUS
  <2> PICK nx \in Nat : nx = n * x
    OBVIOUS
  <2>2. tn = g * (100 * mn) /\ s = g * (10000 * p) /\ y = g * nx /\ gn = g * n
    BY <2>1, FullTyped
  <2>3. /\ gx < t <=> x < 100 * m
        /\ s < tn <=> 10000 * p < 100 * mn
    <3>1. \A u, v \in Nat : u < v <=> g * u < g * v
      OBVIOUS
    <3> QED BY <2>1, <2>2, <3>1
  <2>4. 2 * nx <= 20000 * p + n /\ 20000 * p <= 2 * nx + n
    <3>1. \A u, v \in Nat : g * u <= g * v => u <= v
      OBVIOUS
    <3>2. g * (2 * nx) <= g * (20000 * p + n) /\ g * (20000 * p) <= g * (2 * nx + n)
      BY <1>1, <2>2
    <3> QED BY <3>1, <3>2
  <2>5. x < 100 * m => nx + n <= 100 * mn
    <3>1. x < 100 * m => n * (x + 1) <= n * (100 * m)
      OBVIOUS
    <3>2. n * (x + 1) = nx + n /\ n * (100 * m) = 100 * mn
      OBVIOUS
    <3> QED BY <3>1, <3>2
  <2>6. x >= 100 * m => nx >= 100 * mn
    <3>1. x >= 100 * m => n * x >= n * (100 * m)
      OBVIOUS
    <3>2. n * (100 * m) = 100 * mn
      OBVIOUS
    <3> QED BY <3>1, <3>2
  <2>7. x < 100 * m => 10000 * p < 100 * mn
    BY <2>4, <2>5
  <2>8. 100 * p < mn => x < 100 * m
    BY <1>5, <2>4, <2>6
  <2> QED BY <2>3, <2>7, <2>8
<1> QED BY <1>2, <1>4, <1>5

\* The difference of two rounded shares of one window, against d grains.
LEMMA DropPercent ==
  ASSUME NEW p \in Nat, NEW q \in Nat, NEW n \in Nat \ {0}, NEW d \in Nat
  PROVE  LET drop == Grain * (Pct(q, n) - Pct(p, n))
         IN  /\ drop >= d => Full * (q - p) >= (d - Grain) * n
             /\ Full * (q - p) >= (d + Grain) * n => drop >= d
             /\ WholePercent(d) /\ n < 100 => (drop >= d <=> Full * (q - p) >= d * n)
<1> PICK x \in Nat : x = Pct(p, n)
  BY PctWithin
<1> PICK y \in Nat : y = Pct(q, n)
  BY PctWithin
<1> PICK g \in Nat \ {0} : g = Grain
  BY FullTyped
<1> PICK u \in Nat : u = n * (g * x)
  OBVIOUS
<1> PICK v \in Nat : v = n * (g * y)
  OBVIOUS
<1> PICK sp \in Nat : sp = Full * p
  BY FullTyped
<1> PICK sq \in Nat : sq = Full * q
  BY FullTyped
<1> PICK gn \in Nat : gn = g * n
  OBVIOUS
<1> PICK dn \in Nat : dn = d * n
  OBVIOUS
<1>1. 2 * u <= 2 * sp + gn /\ 2 * sp <= 2 * u + gn /\ 2 * v <= 2 * sq + gn /\ 2 * sq <= 2 * v + gn
  BY PctWithin
<1>2. Full * (q - p) = sq - sp /\ (d - g) * n = dn - gn /\ (d + g) * n = dn + gn
  BY FullTyped
<1>3. g * (y - x) >= d <=> v - u >= dn
  <2>1. PICK z \in Int : z = g * (y - x)
    OBVIOUS
  <2>2. n * z = v - u
    <3>1. n * (g * (y - x)) = n * (g * y) - n * (g * x)
      OBVIOUS
    <3> QED BY <2>1, <3>1
  <2>3. \A i, j \in Int : i >= j <=> n * i >= n * j
    OBVIOUS
  <2>4. n * d = dn
    OBVIOUS
  <2> QED BY <2>1, <2>2, <2>3, <2>4
<1>4. /\ g * (y - x) >= d => sq - sp >= dn - gn
      /\ sq - sp >= dn + gn => g * (y - x) >= d
  BY <1>1, <1>3
<1>5. ASSUME WholePercent(d), n < 100 PROVE g * (y - x) >= d <=> sq - sp >= dn
  <2> PICK m \in Nat : d = Grain * (100 * m)
    BY <1>5, Hundredths
  <2> PICK mn \in Nat : mn = m * n
    OBVIOUS
  <2> PICK nx \in Nat : nx = n * x
    OBVIOUS
  <2> PICK ny \in Nat : ny = n * y
    OBVIOUS
  <2>1. /\ d = g * (100 * m) /\ dn = g * (100 * mn) /\ u = g * nx /\ v = g * ny /\ gn = g * n
        /\ sp = g * (10000 * p) /\ sq = g * (10000 * q)
    BY FullTyped
  <2>2. /\ g * (y - x) >= d <=> y - x >= 100 * m
        /\ sq - sp >= dn <=> 10000 * (q - p) >= 100 * mn
    <3>1. \A i, j \in Int : i >= j <=> g * i >= g * j
      OBVIOUS
    <3>2. sq - sp = g * (10000 * (q - p))
      BY <2>1
    <3>3. 10000 * (q - p) \in Int /\ 100 * mn \in Int /\ y - x \in Int /\ 100 * m \in Int
      OBVIOUS
    <3> QED BY <2>1, <3>1, <3>2, <3>3
  <2>3. 2 * nx <= 20000 * p + n /\ 20000 * p <= 2 * nx + n
        /\ 2 * ny <= 20000 * q + n /\ 20000 * q <= 2 * ny + n
    <3>1. \A i, j \in Nat : g * i <= g * j => i <= j
      OBVIOUS
    <3>2. /\ g * (2 * nx) <= g * (20000 * p + n) /\ g * (20000 * p) <= g * (2 * nx + n)
          /\ g * (2 * ny) <= g * (20000 * q + n) /\ g * (20000 * q) <= g * (2 * ny + n)
      BY <1>1, <2>1
    <3> QED BY <3>1, <3>2
  <2>4. y - x >= 100 * m => ny - nx >= 100 * mn
    <3>1. y - x >= 100 * m => n * (y - x) >= n * (100 * m)
      OBVIOUS
    <3>2. n * (y - x) = ny - nx /\ n * (100 * m) = 100 * mn
      OBVIOUS
    <3> QED BY <3>1, <3>2
  <2>5. y - x >= 100 * m => 100 * (q - p) >= mn
    BY <1>5, <2>3, <2>4
  <2>6. ASSUME 100 * (q - p) >= mn PROVE y - x >= 100 * m
    <3>1. 10000 * p + n * (100 * m) <= 10000 * q
      <4>1. n * (100 * m) = 100 * mn
        OBVIOUS
      <4> QED BY <2>6, <4>1
    <3>2. Rounded(10000 * p + n * (100 * m), n) = x + 100 * m
      <4>1. 10000 * p \in Nat /\ 100 * m \in Nat /\ (100 * m) % 2 = 0
        OBVIOUS
      <4> QED BY <4>1, RoundedShift DEF Pct
    <3> PICK a \in Nat : a = 10000 * p + n * (100 * m)
      OBVIOUS
    <3> PICK b \in Nat : b = 10000 * q
      OBVIOUS
    <3>3. a <= b
      BY <3>1
    <3>4. Rounded(a, n) <= Rounded(b, n)
      BY <3>3, RoundedOrdered
    <3>5. Rounded(a, n) = x + 100 * m /\ Rounded(b, n) = y
      BY <3>2 DEF Pct
    <3> QED BY <3>4, <3>5
  <2> QED BY <2>2, <2>5, <2>6
<1> QED BY <1>2, <1>4, <1>5

\* The below-threshold flag of n sessions of which p were attended.
Below(p, n) ==
  n # 0 /\ n >= Config.attendance_min_sessions /\ Grain * Pct(p, n) < Config.attendance_threshold_pct

LEMMA ConfigTyped ==
  /\ Null \notin Int
  /\ Config.attendance_threshold_pct \in Nat
  /\ Config.attendance_decline_points \in Nat
  /\ Config.academic_decline_points \in Nat
  /\ Config.attendance_trend_window \in Nat \ {0}
  /\ Config.attendance_min_sessions \in Nat
  BY ConfigAssumption, FullTyped DEF ValidConfig

LEMMA RowsInOrder ==
  ASSUME SInv
  PROVE  /\ sessions \in Seq(Statuses) /\ Len(sessions) \in Nat
         /\ marks \in Seq(Marks) /\ Len(marks) \in Nat
  BY LenProperties DEF SInv

LEMMA BelowFires ==
  SInv => ("ATTENDANCE_BELOW_THRESHOLD" \in Fired <=> Below(PresentIn(sessions), Len(sessions)))
<1> SUFFICES ASSUME SInv
             PROVE  "ATTENDANCE_BELOW_THRESHOLD" \in Fired <=> Below(PresentIn(sessions), Len(sessions))
  OBVIOUS
<1> DEFINE p == PresentIn(sessions)
           n == Len(sessions)
           t == Config.attendance_threshold_pct
<1>1. p \in Nat /\ n \in Nat /\ t \in Nat /\ Config.attendance_min_sessions \in Nat /\ Null \notin Int
  BY PresentBounds, RowsInOrder, ConfigTyped
<1>2. /\ SignalsNow.overall_attendance_pct = IF n = 0 THEN Null ELSE Pct(p, n)
      /\ SignalsNow.overall_sessions = n
  BY DEF SignalsNow, AttendanceSignals
<1>3. "ATTENDANCE_BELOW_THRESHOLD" \in Fired <=> AttendanceBelowThreshold(SignalsNow, Config)
  BY WhoFires DEF Fired
<1> HIDE DEF p, n, t
<1>4. n # 0 => Pct(p, n) \in Nat
  BY <1>1, PctWithin
<1> QED BY <1>1, <1>2, <1>3, <1>4 DEF AttendanceBelowThreshold, Below, p, n, t

LEMMA DecliningFires ==
  ASSUME SInv
  PROVE  LET n == Len(sessions)
             w == Config.attendance_trend_window
             recent == Attended(1, w)
             prior == Attended(w + 1, 2 * w)
         IN  "ATTENDANCE_DECLINING" \in Fired <=>
               /\ n >= 2 * w
               /\ Grain * (Pct(prior, w) - Pct(recent, w)) >= Config.attendance_decline_points
<1> DEFINE n == Len(sessions)
           w == Config.attendance_trend_window
           d == Config.attendance_decline_points
           recent == Attended(1, w)
           prior == Attended(w + 1, 2 * w)
           late == SubSeq(sessions, n - w + 1, n)
           early == SubSeq(sessions, n - 2 * w + 1, n - w)
<1>1. /\ sessions \in Seq(Statuses) /\ n \in Nat /\ w \in Nat \ {0} /\ d \in Nat /\ Null \notin Int
  BY RowsInOrder, ConfigTyped
<1>2. ASSUME n >= 2 * w
      PROVE  /\ Len(late) = w /\ PresentIn(late) = recent /\ recent \in Nat
             /\ Len(early) = w /\ PresentIn(early) = prior /\ prior \in Nat
  <2>1. /\ 1 \in 1 .. n + 1 /\ w \in 0 .. n /\ 1 <= w + 1 /\ n - 1 + 1 = n /\ w - 1 + 1 = w
        /\ w + 1 \in 1 .. n + 1 /\ 2 * w \in 0 .. n /\ w + 1 <= 2 * w + 1
        /\ n - (w + 1) + 1 = n - w /\ 2 * w - (w + 1) + 1 = w
    <3> HIDE DEF n, w
    <3> QED BY <1>1, <1>2
  <2>2. late \in Seq(Statuses) /\ Len(late) = w /\ PresentIn(late) = recent
    <3>1. late = SubSeq(sessions, n - w + 1, n - 1 + 1)
      BY <2>1
    <3> HIDE DEF late
    <3>2. LET chunk == SubSeq(sessions, n - w + 1, n - 1 + 1)
          IN  /\ chunk \in Seq(Statuses)
              /\ Len(chunk) = w - 1 + 1
              /\ PresentIn(chunk) = Cardinality({k \in 1 .. w : sessions[n + 1 - k] = Present})
      <4> HIDE DEF w
      <4> QED BY <1>1, <2>1, SliceCounts
    <3> QED BY <2>1, <3>1, <3>2 DEF Attended
  <2>3. early \in Seq(Statuses) /\ Len(early) = w /\ PresentIn(early) = prior
    <3>1. early = SubSeq(sessions, n - 2 * w + 1, n - (w + 1) + 1)
      BY <2>1
    <3> HIDE DEF early
    <3>2. LET chunk == SubSeq(sessions, n - 2 * w + 1, n - (w + 1) + 1)
          IN  /\ chunk \in Seq(Statuses)
              /\ Len(chunk) = 2 * w - (w + 1) + 1
              /\ PresentIn(chunk) = Cardinality({k \in w + 1 .. 2 * w : sessions[n + 1 - k] = Present})
      <4> HIDE DEF w
      <4> QED BY <1>1, <2>1, SliceCounts
    <3> QED BY <2>1, <3>1, <3>2 DEF Attended
  <2> QED BY <2>2, <2>3, PresentBounds
<1>3. /\ SignalsNow.attendance_recent_pct = IF n < 2 * w THEN Null ELSE Pct(PresentIn(late), Len(late))
      /\ SignalsNow.attendance_prior_pct = IF n < 2 * w THEN Null ELSE Pct(PresentIn(early), Len(early))
  BY DEF SignalsNow, AttendanceSignals, TrendWindows
<1>4. "ATTENDANCE_DECLINING" \in Fired <=> AttendanceDeclining(SignalsNow, Config)
  BY WhoFires DEF Fired
<1> HIDE DEF n, w, d, recent, prior, late, early
<1>5. CASE n < 2 * w
  BY <1>1, <1>3, <1>4, <1>5 DEF AttendanceDeclining, n, w, d, recent, prior
<1>6. CASE n >= 2 * w
  <2>1. Pct(recent, w) \in Nat /\ Pct(prior, w) \in Nat
    BY <1>1, <1>2, <1>6, PctWithin
  <2>2. /\ SignalsNow.attendance_recent_pct = Pct(recent, w)
        /\ SignalsNow.attendance_prior_pct = Pct(prior, w)
    BY <1>1, <1>2, <1>3, <1>6
  <2>3. AttendanceDeclining(SignalsNow, Config) <=> Grain * (Pct(prior, w) - Pct(recent, w)) >= d
    BY <1>1, <2>1, <2>2 DEF AttendanceDeclining, d
  <2> QED BY <1>4, <1>6, <2>3 DEF n, w, d, recent, prior
<1> QED BY <1>1, <1>5, <1>6

LEMMA AttendanceFlags == SInv => AttendanceFlagsWithinRounding /\ AttendanceFlagsExact
<1> SUFFICES ASSUME SInv PROVE AttendanceFlagsWithinRounding /\ AttendanceFlagsExact
  OBVIOUS
<1> DEFINE n == Len(sessions)
           w == Config.attendance_trend_window
           t == Config.attendance_threshold_pct
           d == Config.attendance_decline_points
           p == Attended(1, n)
           recent == Attended(1, w)
           prior == Attended(w + 1, 2 * w)
           counted == n # 0 /\ n >= Config.attendance_min_sessions
           belowBy(slack) == 2 * Full * p < (2 * t + slack) * n
           fellBy(slack) == Full * (prior - recent) >= (d + slack) * w
           below == n # 0 /\ n >= Config.attendance_min_sessions /\ Full * p < t * n
           declining == n >= 2 * w /\ Full * (prior - recent) >= d * w
           low == "ATTENDANCE_BELOW_THRESHOLD" \in Fired
           falls == "ATTENDANCE_DECLINING" \in Fired
<1>1. sessions \in Seq(Statuses) /\ n \in Nat /\ w \in Nat \ {0} /\ t \in Nat /\ d \in Nat
  BY RowsInOrder, ConfigTyped
<1>2. p = PresentIn(sessions) /\ p \in Nat
  BY <1>1, WholeCounts, PresentBounds DEF Attended
<1>3. low <=> Below(p, n)
  BY <1>2, BelowFires
<1>4. \A k, m \in Nat : IsFiniteSet(k .. m)
  BY FS_Interval
<1>5. recent \in Nat /\ prior \in Nat
  <2>1. ASSUME NEW k \in Nat, NEW m \in Nat PROVE Attended(k, m) \in Nat
    <3>1. {i \in k .. m : sessions[Len(sessions) + 1 - i] = Present} \in SUBSET (k .. m)
      OBVIOUS
    <3>2. IsFiniteSet({i \in k .. m : sessions[Len(sessions) + 1 - i] = Present})
      BY <1>4, <3>1, FS_Subset
    <3> QED BY <3>2, FS_CardinalityType DEF Attended
  <2>2. 1 \in Nat /\ w \in Nat /\ w + 1 \in Nat /\ 2 * w \in Nat
    BY <1>1
  <2> QED BY <2>1, <2>2
<1>6. falls <=> n >= 2 * w /\ Grain * (Pct(prior, w) - Pct(recent, w)) >= d
  BY DecliningFires
<1> HIDE DEF n, w, t, d, p, recent, prior, low, falls
<1>7. n # 0 => /\ Grain * Pct(p, n) < t => belowBy(Grain)
               /\ belowBy(-Grain) => Grain * Pct(p, n) < t
               /\ WholePercent(t) /\ n < 200 => (Grain * Pct(p, n) < t <=> Full * p < t * n)
  <2>1. 2 * t + (-Grain) = 2 * t - Grain
    BY <1>1, FullTyped
  <2> QED BY <1>1, <1>2, <2>1, BelowPercent
<1>8. LET drop == Grain * (Pct(prior, w) - Pct(recent, w))
      IN  /\ drop >= d => fellBy(-Grain)
          /\ fellBy(Grain) => drop >= d
          /\ WholePercent(d) /\ w < 100 => (drop >= d <=> Full * (prior - recent) >= d * w)
  <2>1. d + (-Grain) = d - Grain
    BY <1>1, FullTyped
  <2> QED BY <1>1, <1>5, <2>1, DropPercent
<1>9. /\ low => counted /\ belowBy(Grain)
      /\ counted /\ belowBy(-Grain) => low
      /\ falls => n >= 2 * w /\ fellBy(-Grain)
      /\ n >= 2 * w /\ fellBy(Grain) => falls
  <2> HIDE DEF belowBy, fellBy
  <2> QED BY <1>3, <1>6, <1>7, <1>8 DEF Below, t
<1>10. /\ WholePercent(t) /\ n < 200 => (low <=> below)
       /\ WholePercent(d) /\ w < 100 => (falls <=> declining)
  BY <1>3, <1>6, <1>7, <1>8 DEF Below, t
<1>11. AttendanceFlagsWithinRounding
  BY <1>9 DEF AttendanceFlagsWithinRounding, n, w, t, d, p, recent, prior, low, falls
<1>12. AttendanceFlagsExact
  BY <1>10 DEF AttendanceFlagsExact, n, w, t, d, p, recent, prior, low, falls
<1> QED BY <1>11, <1>12

\* Whatever floats the configuration carries, the attendance flags err by their rounding
\* at most, for records of any length.
THEOREM FlagsWithinRounding == Spec => []AttendanceFlagsWithinRounding
  BY RowsTyped, AttendanceFlags, PTL

\* Where the configured percentages are whole, the attendance flags say of the rows what
\* they claim, below 200 sessions and for windows below 100.
THEOREM FlagsSayWhatTheyClaim == Spec => []AttendanceFlagsExact
  BY RowsTyped, AttendanceFlags, PTL

LEMMA InsertedAttends ==
  ASSUME NEW q \in Seq(Statuses), NEW i \in 0 .. Len(q), NEW r \in Seq(Statuses), r = Inserted(q, i, Present)
  PROVE  Len(r) = Len(q) + 1 /\ PresentIn(r) >= PresentIn(q) + 1
<1> DEFINE n == Len(q)
           A == {j \in DOMAIN q : q[j] = Present}
           C == {j \in DOMAIN r : r[j] = Present}
           f == [j \in A |-> IF j <= i THEN j ELSE j + 1]
<1>1. n \in Nat /\ q \in [1 .. n -> Statuses] /\ Len(r) \in Nat
  BY LenProperties
<1>2. /\ Len(r) = n + 1
      /\ \A j \in 1 .. n + 1 : r[j] = IF j <= i THEN q[j] ELSE IF j = i + 1 THEN Present ELSE q[j - 1]
  <2>1. PICK T : T = Statuses \cup {Present}
    OBVIOUS
  <2>2. q \in Seq(T) /\ Present \in T
    BY <2>1, SeqMonotonic
  <2> QED BY <2>2, InsertedIs
<1>3. DOMAIN q = 1 .. n /\ DOMAIN r = 1 .. n + 1
  BY <1>2, LenProperties
<1> HIDE DEF n
<1>4. f \in Injection(A, C \ {i + 1})
  <2>1. ASSUME NEW j \in A PROVE f[j] \in C \ {i + 1} /\ f[j] \in Int /\ j \in Int
    <3>1. j \in 1 .. n /\ q[j] = Present /\ i \in 0 .. n
      BY <1>3 DEF n
    <3>2. CASE j <= i
      <4>1. f[j] = j /\ j \in 1 .. n + 1 /\ j # i + 1
        BY <1>1, <3>1, <3>2
      <4>2. r[j] = Present
        BY <1>2, <3>1, <3>2, <4>1
      <4> QED BY <1>3, <4>1, <4>2
    <3>3. CASE j > i
      <4>1. f[j] = j + 1 /\ j + 1 \in 1 .. n + 1 /\ j + 1 # i + 1 /\ ~(j + 1 <= i) /\ (j + 1) - 1 = j
        BY <1>1, <3>1, <3>3
      <4>2. r[j + 1] = Present
        BY <1>2, <3>1, <4>1
      <4> QED BY <1>3, <4>1, <4>2
    <3> QED BY <1>1, <3>1, <3>2, <3>3
  <2>2. ASSUME NEW j \in A, NEW k \in A, f[j] = f[k] PROVE j = k
    <3>1. j \in Int /\ k \in Int /\ i \in Int
      BY <2>1
    <3>2. f[j] = (IF j <= i THEN j ELSE j + 1) /\ f[k] = (IF k <= i THEN k ELSE k + 1)
      OBVIOUS
    <3>3. (IF j <= i THEN j ELSE j + 1) = (IF k <= i THEN k ELSE k + 1)
      BY <2>2, <3>2
    <3> HIDE DEF A, C, f
    <3> QED BY <3>1, <3>3
  <2>3. f \in [A -> C \ {i + 1}]
    BY <2>1
  <2> HIDE DEF A, C, f
  <2> QED BY <2>2, <2>3, Fun_IsInj
<1>5. IsFiniteSet(A) /\ IsFiniteSet(C) /\ Cardinality(A) \in Nat /\ Cardinality(C) \in Nat
  BY PresentBounds, FS_CardinalityType
<1>6. i + 1 \in C
  BY <1>1, <1>2, <1>3 DEF n
<1> HIDE DEF A, C, f
<1>7. IsFiniteSet(C \ {i + 1}) /\ Cardinality(C \ {i + 1}) = Cardinality(C) - 1
  BY <1>5, <1>6, FS_RemoveElement
<1>8. Cardinality(A) <= Cardinality(C) - 1
  BY <1>4, <1>7, FS_Injection
<1> QED BY <1>2, <1>5, <1>8 DEF PresentIn, A, C, n

LEMMA CorrectedAttends ==
  ASSUME NEW q \in Seq(Statuses), NEW i \in DOMAIN q, NEW r \in Seq(Statuses), r = [q EXCEPT ![i] = Present]
  PROVE  Len(r) = Len(q) /\ PresentIn(r) >= PresentIn(q)
<1> DEFINE A == {j \in DOMAIN q : q[j] = Present}
           C == {j \in DOMAIN r : r[j] = Present}
<1>1. DOMAIN q = 1 .. Len(q) /\ DOMAIN r = 1 .. Len(r) /\ DOMAIN r = DOMAIN q /\ Len(q) \in Nat /\ Len(r) \in Nat
  BY LenProperties
<1>2. A \in SUBSET C
  BY <1>1
<1>3. IsFiniteSet(C)
  BY PresentBounds
<1>4. Len(r) = Len(q)
  BY <1>1
<1> HIDE DEF A, C
<1>5. Cardinality(A) <= Cardinality(C) /\ Cardinality(A) \in Nat /\ Cardinality(C) \in Nat
  BY <1>2, <1>3, FS_Subset, FS_CardinalityType
<1> QED BY <1>4, <1>5 DEF PresentIn, A, C

\* One more session attended, of one session more or of as many, raises no flag.
LEMMA MoreAttended ==
  ASSUME NEW p \in Nat, NEW n \in Nat, NEW p2 \in Nat, NEW n2 \in Nat, p <= n,
         n >= Config.attendance_min_sessions, Below(p2, n2),
         (n2 = n + 1 /\ p2 >= p + 1) \/ (n2 = n /\ p2 >= p)
  PROVE  Below(p, n)
<1> DEFINE t == Config.attendance_threshold_pct
<1>1. t \in Nat /\ Config.attendance_min_sessions \in Nat /\ t <= Full
  BY ConfigTyped, ConfigAssumption DEF ValidConfig
<1>2. n2 # 0 /\ Grain * Pct(p2, n2) < t
  BY DEF Below
<1> HIDE DEF t
<1>3. n # 0
  <2>1. SUFFICES ASSUME n = 0 PROVE FALSE
    OBVIOUS
  <2>2. n2 = 1 /\ p2 >= 1
    BY <1>2, <2>1
  <2>3. Pct(p2, n2) >= 10000
    <3> PICK a \in Nat : a = 10000 * p2
      OBVIOUS
    <3> PICK x \in Nat : x = Rounded(a, 1) /\ 2 * a <= 2 * (1 * x) + 1
      <4>1. Rounded(a, 1) \in Nat /\ 2 * a <= 2 * (1 * Rounded(a, 1)) + 1
        BY RoundedIs
      <4> QED BY <4>1
    <3>1. 2 * a <= 2 * x + 1 /\ a >= 10000
      BY <2>2
    <3>2. x >= 10000
      BY <3>1
    <3> QED BY <2>2, <3>2 DEF Pct
  <2>4. Pct(p2, n2) \in Nat
    BY <2>2, PctWithin
  <2>5. Grain * Pct(p2, n2) >= Grain * 10000
    BY <2>3, <2>4, FullTyped
  <2>6. Grain * 10000 = Full
    BY FullTyped
  <2> QED BY <1>1, <1>2, <2>4, <2>5, <2>6, FullTyped
<1>4. CASE \E m \in Nat : p * n2 <= m /\ m <= p2 * n
  <2>1. p * n2 <= p2 * n
    BY <1>4
  <2>2. (10000 * p) * n2 <= (10000 * p2) * n
    BY <2>1
  <2>3. Pct(p, n) <= Pct(p2, n2)
    BY <1>2, <1>3, <2>2, RoundedMonotonic DEF Pct
  <2>4. Pct(p, n) \in Nat /\ Pct(p2, n2) \in Nat
    BY <1>2, <1>3, PctWithin
  <2>5. Grain * Pct(p, n) <= Grain * Pct(p2, n2)
    BY <2>3, <2>4, FullTyped
  <2> QED BY <1>1, <1>2, <1>3, <2>4, <2>5, FullTyped DEF Below, t
<1>5. CASE n2 = n /\ p2 >= p
  <2>1. p * n2 <= p2 * n
    BY <1>5
  <2> QED BY <1>4, <2>1
<1>6. CASE n2 = n + 1 /\ p2 >= p + 1
  <2>1. p * n2 = p * n + p
    BY <1>6
  <2>2. p2 * n >= (p + 1) * n /\ (p + 1) * n = p * n + n
    BY <1>6
  <2>3. p <= n => p * n2 <= p2 * n
    <3> PICK pn \in Nat : pn = p * n
      OBVIOUS
    <3> QED BY <2>1, <2>2
  <2> QED BY <1>4, <2>3
<1> QED BY <1>5, <1>6

\* A session attended never raises the below-threshold flag of a student with min_sessions.
THEOREM AttendingIsSafe == Spec => AttendingNeverFlags
<1> DEFINE Attends == \/ \E i \in 0..Len(sessions) : sessions' = Inserted(sessions, i, Present)
                      \/ \E i \in DOMAIN sessions : sessions' = [sessions EXCEPT ![i] = Present]
           Flagged == "ATTENDANCE_BELOW_THRESHOLD" \in Fired
           Good == Len(sessions) >= Config.attendance_min_sessions /\ sessions' # sessions /\ Attends
                     => (Flagged' => Flagged)
<1>1. SInv /\ SInv' => Good
  <2> SUFFICES ASSUME SInv, SInv', Len(sessions) >= Config.attendance_min_sessions, Attends, Flagged'
               PROVE  Flagged
    OBVIOUS
  <2> DEFINE p == PresentIn(sessions)
             n == Len(sessions)
             p2 == PresentIn(sessions')
             n2 == Len(sessions')
  <2>1. /\ sessions \in Seq(Statuses) /\ sessions' \in Seq(Statuses)
        /\ p \in Nat /\ n \in Nat /\ p2 \in Nat /\ n2 \in Nat /\ p <= n
    <3>1. sessions \in Seq(Statuses) /\ sessions' \in Seq(Statuses)
      BY DEF SInv
    <3> QED BY <3>1, LenProperties, PresentBounds
  <2>2. (n2 = n + 1 /\ p2 >= p + 1) \/ (n2 = n /\ p2 >= p)
    BY <2>1, InsertedAttends, CorrectedAttends
  <2>3. Below(p2, n2)
    <3>1. (SInv => (Flagged <=> Below(PresentIn(sessions), Len(sessions))))'
      BY BelowFires, PTL
    <3> QED BY <3>1
  <2>4. Below(p, n)
    <3> HIDE DEF p, n, p2, n2
    <3>1. n >= Config.attendance_min_sessions
      BY DEF n
    <3> QED BY <2>1, <2>2, <2>3, <3>1, MoreAttended
  <2> QED BY <2>4, BelowFires
<1>2. [Good]_vars => [ /\ Len(sessions) >= Config.attendance_min_sessions
                       /\ sessions' # sessions
                       /\ \/ \E i \in 0..Len(sessions) : sessions' = Inserted(sessions, i, Present)
                          \/ \E i \in DOMAIN sessions : sessions' = [sessions EXCEPT ![i] = Present]
                       => ("ATTENDANCE_BELOW_THRESHOLD" \in Fired' => "ATTENDANCE_BELOW_THRESHOLD" \in Fired)]_vars
  OBVIOUS
<1> QED BY <1>1, <1>2, RowsTyped, PTL DEF AttendingNeverFlags

-----------------------------------------------------------------------------
(* Internals.                                                                *)

\* The recursion SumSeq folds with: the sum of the elements at a set of positions.
SumAt(q, f) == [s \in SUBSET (DOMAIN q) |-> IF s = {} THEN 0 ELSE f[s \ {Max(s)}] + q[Max(s)]]

LEMMA SumUnfolds ==
  ASSUME NEW q
  PROVE  SumSeq(q) = (CHOOSE f : f = SumAt(q, f))[DOMAIN q]
<1> DEFINE G(f) == [s \in SUBSET (DOMAIN q) |-> IF s = {} THEN 0
                                                ELSE LET x == Max(s) IN f[s \ {x}] + q[x]]
<1>1. SumSeq(q) = (CHOOSE f : f = G(f))[DOMAIN q]
  BY DEF SumSeq, FoldLeft, MapThenFoldSet
<1>2. \A f : G(f) = SumAt(q, f)
  BY DEF SumAt
<1> QED BY <1>1, <1>2

LEMMA SumExists ==
  ASSUME NEW S, NEW q \in Seq(S)
  PROVE  \E f : f = SumAt(q, f)
<1> DEFINE H(m, f) == [s \in SUBSET (1 .. m) |-> IF s = {} THEN 0 ELSE f[s \ {Max(s)}] + q[Max(s)]]
           Bad == {m \in Nat : ~\E f : f = H(m, f)}
<1>1. ASSUME Bad # {} PROVE FALSE
  <2>1. PICK m \in Bad : \A y \in Bad : m <= y
    BY <1>1, LeastElement
  <2>2. m \in Nat /\ ~\E f : f = H(m, f)
    OBVIOUS
  <2> HIDE DEF Bad
  <2>3. CASE m = 0
    <3> DEFINE g == [s \in SUBSET (1 .. m) |-> 0]
    <3>1. \A s \in SUBSET (1 .. m) : s = {}
      BY <2>3
    <3>2. g = H(m, g)
      BY <3>1
    <3> QED BY <2>2, <3>2
  <2>4. CASE m # 0
    <3>1. m - 1 \in Nat /\ m - 1 \notin Bad
      BY <2>1, <2>2, <2>4
    <3>2. PICK f : f = H(m - 1, f)
      BY <3>1 DEF Bad
    <3> DEFINE g == [s \in SUBSET (1 .. m) |-> IF m \in s THEN f[s \ {m}] + q[m] ELSE f[s]]
    <3>3. ASSUME NEW s \in SUBSET (1 .. m)
          PROVE  g[s] = IF s = {} THEN 0 ELSE g[s \ {Max(s)}] + q[Max(s)]
      <4>1. s \ {m} \in SUBSET (1 .. m - 1) /\ (m \notin s => s \in SUBSET (1 .. m - 1))
        <5>1. \A x \in 1 .. m : x # m => x \in 1 .. m - 1
          BY <2>2
        <5> QED BY <5>1
      <4>2. CASE m \in s
        <5>1. m \in s /\ \A y \in s : m >= y
          BY <2>2, <4>2
        <5>2. \A x \in s : (\A y \in s : x >= y) => x = m
          BY <2>2, <4>2
        <5>3. Max(s) = m
          BY <5>1, <5>2 DEF Max
        <5>4. s \ {m} \in SUBSET (1 .. m) /\ m \notin s \ {m}
          OBVIOUS
        <5>5. g[s] = f[s \ {m}] + q[m] /\ g[s \ {m}] = f[s \ {m}]
          BY <4>2, <5>4
        <5> QED BY <4>2, <5>3, <5>5
      <4>3. CASE m \notin s /\ s # {}
        <5>1. s \ {Max(s)} \in SUBSET (1 .. m) /\ m \notin s \ {Max(s)}
          BY <4>3
        <5>2. g[s] = f[s] /\ g[s \ {Max(s)}] = f[s \ {Max(s)}]
          BY <4>3, <5>1
        <5>3. f[s] = f[s \ {Max(s)}] + q[Max(s)]
          BY <3>2, <4>1, <4>3
        <5> QED BY <4>3, <5>2, <5>3
      <4>4. CASE s = {}
        <5>1. {} \in SUBSET (1 .. m - 1) /\ {} \in SUBSET (1 .. m)
          OBVIOUS
        <5>2. g[{}] = f[{}] /\ f[{}] = 0
          BY <3>2, <5>1
        <5> QED BY <4>4, <5>2
      <4> QED BY <4>2, <4>3, <4>4
    <3>4. g = [s \in SUBSET (1 .. m) |-> g[s]]
      OBVIOUS
    <3> HIDE DEF g
    <3>5. g = H(m, g)
      BY <3>3, <3>4
    <3> QED BY <2>2, <3>5
  <2> QED BY <2>3, <2>4
<1>2. Len(q) \in Nat /\ DOMAIN q = 1 .. Len(q)
  BY LenProperties
<1>3. PICK f : f = H(Len(q), f)
  BY <1>1, <1>2
<1> QED BY <1>2, <1>3 DEF SumAt

\* the recursion of the partial sums in DeclineIsAgainstEarlierMarks
Running(q, e) == [i \in 0 .. MaxMarks |-> IF i = 0 THEN 0 ELSE q[i] + e[i - 1]]

LEMMA RunningExists ==
  ASSUME NEW q
  PROVE  \E e : e = Running(q, e)
<1> DEFINE H(m, e) == [i \in 0 .. m |-> IF i = 0 THEN 0 ELSE q[i] + e[i - 1]]
           Bad == {m \in Nat : ~\E e : e = H(m, e)}
<1>1. ASSUME Bad # {} PROVE FALSE
  <2>1. PICK m \in Bad : \A y \in Bad : m <= y
    BY <1>1, LeastElement
  <2>2. m \in Nat /\ ~\E e : e = H(m, e)
    OBVIOUS
  <2> HIDE DEF Bad
  <2>3. CASE m = 0
    <3> DEFINE g == [i \in 0 .. m |-> 0]
    <3>1. g = H(m, g)
      BY <2>3
    <3> QED BY <2>2, <3>1
  <2>4. CASE m # 0
    <3>1. m - 1 \in Nat /\ m - 1 \notin Bad
      BY <2>1, <2>2, <2>4
    <3>2. PICK e : e = H(m - 1, e)
      BY <3>1 DEF Bad
    <3> DEFINE g == [i \in 0 .. m |-> IF i = m THEN q[m] + e[m - 1] ELSE e[i]]
    <3>3. ASSUME NEW i \in 0 .. m
          PROVE  g[i] = IF i = 0 THEN 0 ELSE q[i] + g[i - 1]
      <4>1. i # 0 => i - 1 \in 0 .. m /\ i - 1 # m /\ g[i - 1] = e[i - 1]
        BY <2>2
      <4>2. CASE i = m
        BY <2>4, <4>1, <4>2
      <4>3. CASE i # m
        <5>1. i \in 0 .. m - 1
          BY <2>2, <4>3
        <5>2. e[i] = IF i = 0 THEN 0 ELSE q[i] + e[i - 1]
          BY <3>2, <5>1
        <5> QED BY <4>1, <4>3, <5>2
      <4> QED BY <4>2, <4>3
    <3>4. g = [i \in 0 .. m |-> g[i]]
      OBVIOUS
    <3> HIDE DEF g
    <3>5. g = H(m, g)
      BY <3>3, <3>4
    <3> QED BY <2>2, <3>5
  <2> QED BY <2>3, <2>4
<1>2. MaxMarks \in Nat
  BY BoundsAssumption
<1>3. PICK e : e = H(MaxMarks, e)
  BY <1>1, <1>2
<1> QED BY <1>3 DEF Running

\* SumSeq of the first k marks is their running sum.
LEMMA SumIsRunning ==
  ASSUME NEW q \in Seq(Nat), NEW k \in 0 .. Len(q), k <= MaxMarks, NEW e, e = Running(q, e)
  PROVE  SumSeq(SubSeq(q, 1, k)) = e[k] /\ e[k] \in Nat
<1> DEFINE r == SubSeq(q, 1, k)
           f == CHOOSE f : f = SumAt(r, f)
<1>1. MaxMarks \in Nat /\ Len(q) \in Nat /\ k \in Nat
  BY BoundsAssumption, LenProperties
<1>2. r \in Seq(Nat) /\ DOMAIN r = 1 .. k /\ \A i \in 1 .. k : r[i] = q[i] /\ q[i] \in Nat
  <2>1. \A i \in 1 .. k : q[i] \in Nat
    BY <1>1, ElementOfSeq
  <2>2. r \in Seq(Nat) /\ Len(r) = k /\ \A i \in 1 .. k : r[i] = q[i]
    BY <1>1, <2>1, SubSeqProperties
  <2> QED BY <2>1, <2>2, LenProperties
<1> HIDE DEF r
<1>3. f = SumAt(r, f)
  <2>1. \E g : g = SumAt(r, g)
    BY <1>2, SumExists
  <2> QED BY <2>1
<1>4. SumSeq(r) = f[1 .. k]
  BY <1>2, SumUnfolds
<1> HIDE DEF f
<1> DEFINE Bad == {j \in 0 .. k : ~(f[1 .. j] = e[j] /\ e[j] \in Nat)}
<1>5. ASSUME Bad # {} PROVE FALSE
  <2>1. PICK j \in Bad : \A y \in Bad : j <= y
    <3>1. Bad \subseteq Nat
      OBVIOUS
    <3> HIDE DEF Bad
    <3> QED BY <1>5, <3>1, LeastElement
  <2>2. j \in 0 .. k /\ ~(f[1 .. j] = e[j] /\ e[j] \in Nat) /\ 1 .. j \in SUBSET (1 .. k) /\ j \in 0 .. MaxMarks
    BY <1>1
  <2>3. e[j] = IF j = 0 THEN 0 ELSE q[j] + e[j - 1]
    BY <2>2 DEF Running
  <2>4. f[1 .. j] = IF 1 .. j = {} THEN 0 ELSE f[(1 .. j) \ {Max(1 .. j)}] + r[Max(1 .. j)]
    BY <1>2, <1>3, <2>2 DEF SumAt
  <2>5. CASE j = 0
    <3>1. 1 .. j = {}
      BY <2>5
    <3> QED BY <2>2, <2>3, <2>4, <2>5, <3>1
  <2>6. CASE j # 0
    <3>1. j \in 1 .. k /\ j - 1 \in 0 .. k /\ 1 .. j # {} /\ (1 .. j) \ {j} = 1 .. j - 1
      <4> HIDE DEF Bad
      <4>1. j \in 1 .. k /\ j - 1 \in 0 .. k
        BY <1>1, <2>2, <2>6
      <4>2. j \in 1 .. j
        BY <4>1
      <4>3. (1 .. j) \ {j} = 1 .. j - 1
        BY <4>1
      <4> QED BY <4>1, <4>2, <4>3
    <3>2. Max(1 .. j) = j
      <4>1. j \in 1 .. j /\ \A y \in 1 .. j : j >= y
        BY <3>1
      <4>2. \A x \in 1 .. j : (\A y \in 1 .. j : x >= y) => x = j
        BY <4>1
      <4> QED BY <4>1, <4>2 DEF Max
    <3>3. j - 1 \notin Bad
      BY <2>1, <3>1
    <3>4. f[1 .. j - 1] = e[j - 1] /\ e[j - 1] \in Nat
      BY <3>1, <3>3
    <3>5. f[1 .. j] = e[j - 1] + q[j]
      BY <1>2, <2>4, <3>1, <3>2, <3>4
    <3>6. e[j] = q[j] + e[j - 1] /\ q[j] \in Nat
      BY <1>2, <2>3, <2>6, <3>1
    <3> QED BY <2>2, <3>4, <3>5, <3>6
  <2> QED BY <2>5, <2>6
<1>6. k \notin Bad
  BY <1>5
<1> QED BY <1>1, <1>4, <1>6 DEF r

\* The difference of a rounded mean and a rounded mark, against d grains.
LEMMA DropOfMeans ==
  ASSUME NEW total \in Nat, NEW k \in Nat \ {0}, NEW m \in Nat, NEW d \in Nat
  PROVE  LET drop == Grain * (Rounded(total, Grain * k) - Rounded(m, Grain))
             over == total - k * (m + d)
         IN  (drop >= d => over >= -k * Grain) /\ (over >= k * Grain => drop >= d)
<1> PICK g \in Nat \ {0} : g = Grain
  BY FullTyped
<1> PICK gk \in Nat \ {0} : gk = g * k
  OBVIOUS
<1> PICK x \in Nat : x = Rounded(m, g) /\ 2 * (g * x) <= 2 * m + g /\ 2 * m <= 2 * (g * x) + g
  BY RoundedIs
<1> PICK y \in Nat : /\ y = Rounded(total, gk)
                     /\ 2 * (gk * y) <= 2 * total + gk /\ 2 * total <= 2 * (gk * y) + gk
  BY RoundedIs
<1> PICK km \in Nat : km = k * m
  OBVIOUS
<1> PICK kd \in Nat : kd = k * d
  OBVIOUS
<1> PICK u \in Nat : u = k * (g * x)
  OBVIOUS
<1> PICK v \in Nat : v = k * (g * y)
  OBVIOUS
<1>1. total - k * (m + d) = total - km - kd
  OBVIOUS
<1>2. 2 * u <= 2 * km + gk /\ 2 * km <= 2 * u + gk
  <2> PICK gx \in Nat : gx = g * x
    OBVIOUS
  <2>1. k * (2 * gx) <= k * (2 * m + g) /\ k * (2 * m) <= k * (2 * gx + g)
    BY Scaling
  <2>2. /\ k * (2 * gx) = 2 * u /\ k * (2 * m + g) = 2 * km + gk
        /\ k * (2 * m) = 2 * km /\ k * (2 * gx + g) = 2 * u + gk
    OBVIOUS
  <2> QED BY <2>1, <2>2
<1>3. 2 * v <= 2 * total + gk /\ 2 * total <= 2 * v + gk
  <2>1. gk * y = v
    OBVIOUS
  <2> QED BY <2>1
<1>4. g * (y - x) >= d <=> v - u >= kd
  <2> PICK z \in Int : z = g * (y - x)
    OBVIOUS
  <2>1. k * z = v - u
    <3>1. k * (g * (y - x)) = k * (g * y) - k * (g * x)
      OBVIOUS
    <3> QED BY <3>1
  <2>2. z >= d <=> k * z >= k * d
    BY Scaling
  <2> QED BY <2>1, <2>2
<1>5. -k * g = -gk /\ k * g = gk
  OBVIOUS
<1>6. /\ g * (y - x) >= d => total - km - kd >= -gk
      /\ total - km - kd >= gk => g * (y - x) >= d
  BY <1>2, <1>3, <1>4
<1> QED BY <1>1, <1>5, <1>6

LEMMA DeclineExact == SInv => DeclineIsAgainstEarlierMarks
<1> SUFFICES ASSUME SInv PROVE DeclineIsAgainstEarlierMarks
  OBVIOUS
<1> DEFINE k == Len(marks) - 1
           step(e) == [i \in 0 .. MaxMarks |-> IF i = 0 THEN 0 ELSE marks[i] + e[i - 1]]
           earlier == CHOOSE e : e = step(e)
           d == Config.academic_decline_points
           l == marks[k + 1] + d
           excess == earlier[k] - k * l
           total == SumSeq(SubSeq(marks, 1, k))
<1>1. /\ marks \in Seq(Nat) /\ Len(marks) \in Nat /\ Len(marks) <= MaxMarks
      /\ k \in Int /\ d \in Nat /\ Null \notin Int
  <2>1. marks \in Seq(Nat)
    BY RowsInOrder, RowsAssumption, SeqMonotonic
  <2> QED BY <2>1, RowsInOrder, ConfigTyped DEF SInv
<1>2. earlier = Running(marks, earlier)
  <2>1. \A e : step(e) = Running(marks, e)
    BY DEF Running
  <2>2. \E e : e = step(e)
    BY <2>1, RunningExists
  <2> HIDE DEF step
  <2>3. earlier = step(earlier)
    BY <2>2
  <2> HIDE DEF earlier
  <2> QED BY <2>1, <2>3
<1>3. "ACADEMIC_DECLINE" \in Fired <=> AcademicDecline(SignalsNow, Config)
  BY WhoFires DEF Fired
<1>4. /\ SignalsNow.academic_latest_pct
           = IF Len(marks) = 0 THEN Null ELSE Rounded(marks[Len(marks)], Grain)
      /\ SignalsNow.academic_baseline_pct
           = IF Len(marks) < 2 THEN Null ELSE Rounded(total, Grain * k)
  BY DEF SignalsNow, AcademicSignals
<1>5. DeclineIsAgainstEarlierMarks <=>
        /\ "ACADEMIC_DECLINE" \in Fired => k >= 1 /\ excess >= -k * Grain
        /\ k >= 1 /\ excess >= k * Grain => "ACADEMIC_DECLINE" \in Fired
  BY DEF DeclineIsAgainstEarlierMarks
<1> HIDE DEF earlier, step, total, k
<1>6. CASE Len(marks) < 2
  BY <1>1, <1>3, <1>4, <1>5, <1>6 DEF AcademicDecline, k
<1>7. CASE Len(marks) >= 2
  <2>1. k \in Nat \ {0} /\ k + 1 = Len(marks) /\ k \in 0 .. Len(marks) /\ k <= MaxMarks
    <3>1. PICK n \in Nat : n = Len(marks) /\ n >= 2
      BY <1>1, <1>7
    <3>2. MaxMarks \in Nat /\ n <= MaxMarks /\ k = n - 1
      BY <1>1, <3>1, BoundsAssumption DEF k
    <3> QED BY <3>1, <3>2
  <2>2. total = earlier[k] /\ total \in Nat
    BY <1>1, <1>2, <2>1, SumIsRunning DEF total
  <2>3. marks[k + 1] \in Nat
    BY <1>1, <2>1, ElementOfSeq
  <2> PICK m \in Nat : m = marks[k + 1]
    BY <2>3
  <2> DEFINE drop == Grain * (Rounded(total, Grain * k) - Rounded(m, Grain))
             over == total - k * (m + d)
  <2>4. /\ SignalsNow.academic_latest_pct = Rounded(m, Grain)
        /\ SignalsNow.academic_baseline_pct = Rounded(total, Grain * k)
    BY <1>1, <1>4, <1>7, <2>1
  <2>5. Rounded(m, Grain) \in Nat /\ Rounded(total, Grain * k) \in Nat
    <3> HIDE DEF d, l, excess, drop, over
    <3>1. PICK gk \in Nat \ {0} : gk = Grain * k
      BY <2>1, FullTyped
    <3>2. Rounded(total, gk) \in Nat
      BY <2>2, RoundedIs
    <3> PICK g \in Nat \ {0} : g = Grain
      BY FullTyped
    <3>3. Rounded(m, g) \in Nat
      BY RoundedIs
    <3> QED BY <3>1, <3>2, <3>3
  <2>6. "ACADEMIC_DECLINE" \in Fired <=> drop >= d
    BY <1>1, <1>3, <2>4, <2>5 DEF AcademicDecline
  <2>7. excess = over
    BY <2>2
  <2>8. (drop >= d => over >= -k * Grain) /\ (over >= k * Grain => drop >= d)
    <3> HIDE DEF d
    <3> QED BY <1>1, <2>1, <2>2, DropOfMeans
  <2> HIDE DEF excess, drop, over
  <2> QED BY <1>5, <2>1, <2>6, <2>7, <2>8
<1> QED BY <1>1, <1>6, <1>7

\* ACADEMIC_DECLINE measures the latest internal against the mean of all earlier ones, to
\* within the rounding of both.
THEOREM DeclinesAreReal == Spec => []DeclineIsAgainstEarlierMarks
  BY RowsTyped, DeclineExact, PTL
=============================================================================
