-------------------------- MODULE MCCanonicalLoad --------------------------
(* TLC instances of CanonicalLoad: an internal mark and a programme.         *)
EXTENDS CanonicalLoad, TLC

CONSTANTS m, g, c, erp, csv, sheet   \* three keys and three sources

Mark(max, obtained, date) ==
  [key |-> m, val |-> [max_marks |-> max, obtained |-> obtained, assessment_date |-> date]]
Prog(name, dept) == [key |-> g, val |-> [name |-> name, department_id |-> dept]]
Enrol(status) == [key |-> c, val |-> [status |-> status]]

\* rows that pass validate_record: marks within range, required fields present
MCOffers == {Mark(2, 2, Null), Mark(3, 3, 1)}
MCMarksAndEnrolment == MCOffers \cup {Enrol(1), Enrol(Null)}
MCProgrammes == {Prog("old", "d1"), Prog("new", Null)}
MCTableOf == [k \in Keys |-> CASE k = m -> "internal_marks" [] k = g -> "programmes" [] OTHER -> "enrollment"]
MCPrecedence == [s \in Sources |-> IF s = erp THEN 1 ELSE 2]
MCSymmetry == Permutations({csv, sheet})   \* equal in precedence
=============================================================================
