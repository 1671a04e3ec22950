------------------------- MODULE MCStudentIdentity -------------------------
(* TLC instance of StudentIdentity: two sources that write one cohort in     *)
(* their own ways.                                                           *)
EXTENDS StudentIdentity, TLC

CONSTANTS erp, csv, r1, r2, r3, anil, anill, meera, home

Cell(text, form) == [text |-> text, form |-> form]
None == Cell(Null, "nullish")
Date(day, month, form) == [day |-> day, month |-> month, form |-> form]
Row(roll, name, dob, email, phone, programme) ==
  [roll |-> roll, name |-> Cell(name, "upper"), dob |-> dob, email |-> email, phone |-> phone,
   programme |-> programme]

MCRows ==
  {Row(Cell(r1, "plain"), anil, Date(3, 4, "iso"), None, None, "known"),
   \* the same number in lower case, no birthday
   Row(Cell(r1, "lower"), anil, Date(0, 0, "nullish"), Cell(home, "plain"), None, "known"),
   \* another number, the same name and birthday: linked; its programme is missing at times
   Row(Cell(r2, "spaced"), anil, Date(3, 4, "day_first"), None, None, "unknown"),
   Row(Cell(r2, "plain"), anil, Date(3, 4, "month_first"), None, None, "none"),
   \* much the same name and the same birthday: review, or linked for an address in common
   Row(Cell(r2, "plain"), anill, Date(3, 4, "day_first"), None, Cell(home, "trunk"), "none"),
   Row(Cell(r3, "plain"), anill, Date(3, 4, "iso"), Cell(home, "plain"), None, "known"),
   \* another person of that birthday, and one whose birthday cannot be read
   Row(Cell(r3, "plain"), meera, Date(4, 3, "month_first"), Cell(home, "plain"), Cell(home, "bare"), "none"),
   Row(Cell(r3, "plain"), anil, Date(3, 4, "unreadable"), Cell(home, "plain"), None, "none")}

\* token_sort_ratio of "Anil Kumar", "Anill Kumar" and "Meera Das"
MCSimilar ==
  [p \in {anil, anill, meera} \X {anil, anill, meera} |->
     CASE p[1] = p[2] -> 100 [] p[1] # p[2] /\ meera \in {p[1], p[2]} -> 21 [] OTHER -> 95]
\* "Anill" does not occur in "Anil Kumar"
MCFirstTokenIn == {<<n, n>> : n \in {anil, anill, meera}} \cup {<<anil, anill>>}
MCSymmetry == Permutations(Imports)
MCPrecedence == [s \in Sources |-> IF s = erp THEN 1 ELSE 2]
=============================================================================
