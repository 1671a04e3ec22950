-------------------------- MODULE MCImportPipeline --------------------------
(* TLC instances of ImportPipeline: a programme file, a student file that    *)
(* references the programme, and two student files of different sources that *)
(* share their students in opposite row orders.                              *)
EXTENDS ImportPipeline

CONSTANTS fp, fs, fa, fb, p, a, c

Row(key, parent, ok, review, odd) ==
  [key |-> key, parent |-> parent, ok |-> ok, review |-> review, odd |-> odd]

\* the second row of fs has its required field only under mapping version 2
MCRows == [f \in Files |->
  CASE f = fp -> <<Row(p, Null, 1..MaxVersion, FALSE, FALSE)>>
    [] f = fs -> <<Row(a, p, 1..MaxVersion, FALSE, FALSE),
                   Row(c, Null, {2} \cap 1..MaxVersion, FALSE, FALSE)>>
    [] f = fa -> <<Row(a, Null, {1}, FALSE, TRUE), Row(c, Null, {1}, FALSE, FALSE)>>
    [] f = fb -> <<Row(c, Null, {1}, TRUE, FALSE), Row(a, Null, {1}, FALSE, TRUE)>>]
MCKindOf == [f \in Files |-> IF f = fp THEN "programme" ELSE "student"]

\* Only a row of the student file reads differently under a second mapping version.
\* The second uploader, a crash, a third batch and a fourth upload are explored with the
\* programme file alone, sent as what it is under the first mapping version: which file an
\* upload sends does not matter to whether it finds a batch, and these histories repeat one.
First == CHOOSE u \in Uploaders : TRUE
Focus ==
  /\ \A k \in Kinds \ {"student"} : mappings[k] <= 1
  /\ (\/ \E u \in Uploaders \ {First} : upload[u] # Null \/ answer[u] # Null
      \/ used.crashes > 0 \/ Len(batches) > 2 \/ used.uploads > 3)
     => /\ \A b \in Created : batches[b].file = fp /\ batches[b].kind = "programme"
        /\ \A u \in Uploaders : upload[u] # Null => upload[u] = [file |-> fp, kind |-> "programme"]
        /\ \A k \in Kinds : mappings[k] = IF k = "programme" THEN 1 ELSE 0
=============================================================================
