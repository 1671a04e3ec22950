-------------------------- MODULE StudentIdentity --------------------------
(* Which canonical student a row of a student extract stands for: the row is *)
(* cleaned and validated, then resolved by its link, by its roll number or   *)
(* by likeness to the students there are, and merged, inserted, queued for   *)
(* review or quarantined.  An import is one transaction; it reads what is    *)
(* committed and what it wrote itself, but its queries see a merge only once *)
(* it is sent: autoflush is off.  It waits for a key or a student that       *)
(* another open import has written, for a student at the merge and not at    *)
(* the flush that sends it: what overlapping merges of one student leave in  *)
(* its fields is the subject of CanonicalLoad.  A cell of an extract is the  *)
(* text it means and the form it is written in.                              *)
EXTENDS Integers, FiniteSets, Sequences, FiniteSetsExt

CONSTANTS
  Sources, Precedence,     \* source_systems; the lower number wins
  Rows,                    \* rows of extracts: [roll, name, dob, email, phone, programme]
  Similar,                 \* fuzz.token_sort_ratio of two names, in percent
  FirstTokenIn,            \* pairs of names: the first token of one occurs in the other
  Null,
  Limit,                   \* _FUZZY_CANDIDATE_LIMIT
  Imports,                 \* imports that can be open at once
  MaxImports, MaxRows      \* bounds: imports begun, rows read by all of them

ASSUME PrecedenceAssumption == Precedence \in [Sources -> Int]
ASSUME SimilarAssumption == \A pair \in DOMAIN Similar : Similar[pair] \in 0 .. 100
ASSUME BoundsAssumption == {Limit, MaxImports, MaxRows} \subseteq Nat

VARIABLES
  students,    \* the committed students, by id
  links,       \* the committed entity_identity_map: [source, roll, student]
  reviews,     \* the committed merge_review_items: [source, row, student]
  imports,     \* the open ones: [source, students, sent, links, reviews, loaded], or Null
  landed,      \* history: per row loaded, its source, the roll number it means, its student
  likened,     \* history: the two dates as written whenever likeness decided
  begun, read, \* imports begun, rows read
  missed       \* history: [student, unsent] of each student much like a row that was taken for
               \* a new one; unsent if the database had another birthday of it than the import
tables == <<students, links, reviews>>
vars == <<tables, imports, landed, likened, missed, begun, read>>

Open == {b \in Imports : imports[b] # Null}
Init ==
  /\ students = <<>> /\ links = {} /\ reviews = {}
  /\ imports = [b \in Imports |-> Null] /\ begun = 0 /\ read = 0
  /\ landed = {} /\ likened = {} /\ missed = {}

-----------------------------------------------------------------------------
(* clean_payload and validate_record.                                        *)

\* trimmed, collapsed, in one case: the form is gone, and "N/A" or "-" is no value
Plain(cell) == IF cell.form = "nullish" THEN Null ELSE cell.text

\* Mutant: the roll number keeps the case it is written in.
NormalizeRollTrims(cell) ==
  IF cell.form = "nullish" THEN Null ELSE IF cell.form = "lower" THEN cell ELSE cell.text
NormalizeRoll(cell) == Plain(cell)

\* ten digits get the country code; a trunk zero stays and makes it another number
NormalizePhone(cell) ==
  IF cell.form = "trunk" THEN [trunk |-> cell.text] ELSE Plain(cell)

\* a date is [day, month, form]; the formats are tried in turn, day first before month first
NormalizeDate(cell) ==
  CASE cell.form \in {"nullish", "unreadable"} -> Null
    [] cell.form = "month_first" /\ cell.day <= 12 -> [day |-> cell.month, month |-> cell.day]
    [] OTHER -> [day |-> cell.day, month |-> cell.month]

Clean(row) ==
  [roll |-> NormalizeRoll(row.roll), name |-> Plain(row.name), dob |-> NormalizeDate(row.dob),
   email |-> Plain(row.email), phone |-> NormalizePhone(row.phone)]

\* the required fields; dates before 1900 or in the future are not among the rows
Valid(row) == Clean(row).roll # Null /\ Clean(row).name # Null

ASSUME NamesAssumption ==
  \A x, y \in Rows : Plain(x.name) # Null /\ Plain(y.name) # Null
                        => <<Plain(x.name), Plain(y.name)>> \in DOMAIN Similar

-----------------------------------------------------------------------------
(* What an import sees.                                                      *)

\* its own version of a student, else the committed one
View(b) ==
  [s \in DOMAIN students \cup DOMAIN imports[b].students |->
     IF s \in DOMAIN imports[b].students THEN imports[b].students[s] ELSE students[s]]
LinksSeen(b) == links \cup imports[b].links
\* what the database compares in a query: the students as of the import's last flush
Sent(b) ==
  [s \in DOMAIN View(b) |->
     IF s \in DOMAIN imports[b].sent THEN imports[b].sent[s] ELSE students[s]]

\* get_existing_link
Linked(b, roll) ==
  {l.student : l \in {k \in LinksSeen(b) : k.source = imports[b].source /\ k.roll = roll}}
\* the deterministic match
SameRoll(b, roll) == {s \in DOMAIN View(b) : View(b)[s].roll = roll}

-----------------------------------------------------------------------------
(* Likeness, in hundredths.                                                  *)

HighConfidence == 9000
MediumConfidence == 7000
Known(x, y) == x # Null /\ x = y
\* Mutant: the name counts for more and the date of birth for less.
ScoreByName(student, c) ==
  65 * Similar[<<c.name, student.name>>]
    + (IF Known(c.dob, student.dob) THEN 2500 ELSE 0)
    + (IF Known(c.email, student.email) \/ Known(c.phone, student.phone) THEN 1000 ELSE 0)
\* _score
Score(student, c) ==
  50 * Similar[<<c.name, student.name>>]
    + (IF Known(c.dob, student.dob) THEN 4000 ELSE 0)
    + (IF Known(c.email, student.email) \/ Known(c.phone, student.phone) THEN 1000 ELSE 0)

\* Mutant: a row with an address is looked up by it and by name only.
BlockByContact(sent, c) ==
  {s \in DOMAIN sent :
     \/ c.email = Null /\ Known(c.dob, sent[s].dob)
     \/ Known(c.email, sent[s].email) \/ Known(c.phone, sent[s].phone)
     \/ <<c.name, sent[s].name>> \in FirstTokenIn}
\* the students that share a strong key with the row, by the WHERE of the query
Block(sent, c) ==
  {s \in DOMAIN sent :
     \/ Known(c.dob, sent[s].dob) \/ Known(c.email, sent[s].email) \/ Known(c.phone, sent[s].phone)
     \/ <<c.name, sent[s].name>> \in FirstTokenIn}

\* _load_fuzzy_candidates: any Limit of them, for the query has no ORDER BY
Candidates(sent, c) ==
  LET block == Block(sent, c)
  IN  IF Cardinality(block) <= Limit THEN {block} ELSE kSubset(Limit, block)

\* _best_fuzzy_candidate, on the session's own versions: the first of the best in an order nobody fixes
Best(view, c, candidates) ==
  {s \in candidates : \A t \in candidates : Score(view[t], c) <= Score(view[s], c)}

-----------------------------------------------------------------------------
(* upsert_student.                                                           *)

Taken(existing, incoming, from, by) ==
  /\ incoming # Null
  /\ existing = Null \/ from = by \/ Precedence[by] < Precedence[from]
\* the governed fields that take part in resolution; "given" is the cell the dob came from
Merged(student, row, by) ==
  LET c == Clean(row)
      Field(old, new) == IF Taken(old, new, student.source, by) THEN new ELSE old
  IN  [roll |-> student.roll, name |-> Field(student.name, c.name), dob |-> Field(student.dob, c.dob),
       email |-> Field(student.email, c.email), phone |-> Field(student.phone, c.phone), source |-> by,
       given |-> IF Taken(student.dob, c.dob, student.source, by) THEN row.dob ELSE student.given]
NewStudent(row, by) ==
  LET c == Clean(row)
  IN  [roll |-> c.roll, name |-> c.name, dob |-> c.dob, email |-> c.email, phone |-> c.phone,
       source |-> by, given |-> row.dob]

-----------------------------------------------------------------------------
(* The rows of an import, one after another.                                 *)

Begin(b, source) ==
  /\ imports[b] = Null /\ begun < MaxImports
  /\ begun' = begun + 1
  /\ imports' = [imports EXCEPT ![b] =
       [source |-> source, students |-> <<>>, sent |-> <<>>, links |-> {}, reviews |-> {}, loaded |-> {}]]
  /\ UNCHANGED <<tables, landed, likened, missed, read>>

\* another open import has written the key or the student, uncommitted
RollHeld(b, roll) ==
  \E o \in Open \ {b} : \/ \E s \in DOMAIN imports[o].students : imports[o].students[s].roll = roll
                        \/ \E l \in imports[o].links : l.source = imports[b].source /\ l.roll = roll
StudentHeld(b, s) == \E o \in Open \ {b} : s \in DOMAIN imports[o].students

Put(b, s, student) == [x \in DOMAIN imports[b].students \cup {s} |->
                         IF x = s THEN student ELSE imports[b].students[x]]
LinkTo(b, c, s) == imports[b].links \cup {[source |-> imports[b].source, roll |-> c.roll, student |-> s]}
Read(b, row) ==
  /\ b \in Open /\ Valid(row) /\ ~RollHeld(b, Clean(row).roll)
  /\ read < MaxRows /\ read' = read + 1
  /\ UNCHANGED <<tables, landed, begun>>

\* a new link is flushed, and what was merged before it; the merge itself is not.  A row whose
\* programme is unknown is quarantined, but the link it has made stays
Land(b, row, s) ==
  LET c == Clean(row)
      by == imports[b].source
  IN  /\ ~StudentHeld(b, s)
      /\ imports' = [imports EXCEPT
           ![b].links = IF Linked(b, c.roll) = {} THEN LinkTo(b, c, s) ELSE @,
           ![b].sent = IF Linked(b, c.roll) = {} THEN imports[b].students ELSE @,
           ![b].students = IF row.programme = "unknown" THEN @
                           ELSE Put(b, s, Merged(View(b)[s], row, by)),
           ![b].loaded = IF row.programme = "unknown" THEN @ ELSE @ \cup {<<row.roll.text, s>>}]

LoadLinked(b, row) ==
  /\ Read(b, row) /\ UNCHANGED <<likened, missed>>
  /\ \E s \in Linked(b, Clean(row).roll) : Land(b, row, s)

LoadByRoll(b, row) ==
  /\ Read(b, row) /\ UNCHANGED <<likened, missed>>
  /\ Linked(b, Clean(row).roll) = {}
  /\ \E s \in SameRoll(b, Clean(row).roll) : Land(b, row, s)

Unmatched(b, row) == Linked(b, Clean(row).roll) \cup SameRoll(b, Clean(row).roll) = {}
Likened(b, row, s) ==
  /\ likened' = likened \cup {<<row.dob, View(b)[s].given>>}
  /\ UNCHANGED missed

LoadByLikeness(b, row) ==
  /\ Read(b, row) /\ Unmatched(b, row)
  /\ \E candidates \in Candidates(Sent(b), Clean(row)) :
       \E s \in Best(View(b), Clean(row), candidates) :
         /\ Score(View(b)[s], Clean(row)) >= HighConfidence
         /\ Land(b, row, s) /\ Likened(b, row, s)

\* a MergeReviewItem, flushed; the row is not loaded
QueueForReview(b, row) ==
  /\ Read(b, row) /\ Unmatched(b, row)
  /\ \E candidates \in Candidates(Sent(b), Clean(row)) :
       \E s \in Best(View(b), Clean(row), candidates) :
         /\ Score(View(b)[s], Clean(row)) \in MediumConfidence .. HighConfidence - 1
         /\ Likened(b, row, s)
         /\ imports' = [imports EXCEPT
              ![b].reviews = @ \cup {[source |-> imports[b].source, row |-> row, student |-> s]},
              ![b].sent = imports[b].students]

NextId == 1 + Max({0} \cup DOMAIN students \cup UNION {DOMAIN imports[b].students : b \in Open})

LoadAsNew(b, row) ==
  LET c == Clean(row)
      view == View(b)
      added == Put(b, NextId, NewStudent(row, imports[b].source))
  IN  /\ Read(b, row) /\ Unmatched(b, row)
      /\ \E candidates \in Candidates(Sent(b), c) :
           \A s \in candidates : Score(view[s], c) < MediumConfidence
      /\ imports' = IF row.programme = "unknown"
           THEN imports
           ELSE [imports EXCEPT
                   ![b].students = added, ![b].sent = added,
                   ![b].links = LinkTo(b, c, NextId),
                   ![b].loaded = @ \cup {<<row.roll.text, NextId>>}]
      /\ missed' = missed \cup
           {[student |-> s, unsent |-> Sent(b)[s].dob # view[s].dob] :
              s \in {t \in DOMAIN view : Score(view[t], c) >= MediumConfidence
                                          /\ Cardinality(Block(Sent(b), c)) <= Limit}}
      /\ UNCHANGED likened

\* the session closes
Closed(b) == imports' = [imports EXCEPT ![b] = Null] /\ UNCHANGED <<likened, missed, begun, read>>

Commit(b) ==
  /\ students' = View(b) /\ links' = LinksSeen(b) /\ reviews' = reviews \cup imports[b].reviews
  /\ landed' = landed \cup {<<imports[b].source, l[1], l[2]>> : l \in imports[b].loaded}
  /\ Closed(b)

RollBack(b) == Closed(b) /\ UNCHANGED <<tables, landed>>

Next ==
  \/ \E b \in Imports, source \in Sources : Begin(b, source)
  \/ \E b \in Open :
       \/ Commit(b) \/ RollBack(b)
       \/ \E row \in Rows : \/ LoadLinked(b, row) \/ LoadByRoll(b, row) \/ LoadByLikeness(b, row)
                            \/ QueueForReview(b, row) \/ LoadAsNew(b, row)

Spec == Init /\ [][Next]_vars

-----------------------------------------------------------------------------
(* Properties.                                                               *)

\* The rows of one source with one roll number all land in one student, however the number is
\* written, whatever name and birthday they come with, and in every order of overlapping,
\* failing and repeated imports ("existing mapping -> reuse canonical_id", resolver.py).
SameRollSameStudent ==
  \A x, y \in landed : x[1] = y[1] /\ x[2] = y[2] => x[3] = y[3]

\* month and day of a month-first date that also reads day first
Ambiguous(cell) == cell.form = "month_first" /\ cell.day <= 12 /\ cell.day # cell.month
SameDay(x, y) == {x.form, y.form} \cap {"nullish", "unreadable"} = {} /\ x.day = y.day /\ x.month = y.month

\* Likeness never links or queues two people whose birthdays differ, or of whom one has none:
\* without the date of birth no name and address reach 70.  It takes dates that can be read only
\* one way: a source that writes the month first has the others read day first.
LikenessNeedsTheBirthday ==
  \A pair \in likened :
    ~Ambiguous(pair[1]) /\ ~Ambiguous(pair[2]) => SameDay(pair[1], pair[2])

\* A row is taken for a new student while a student the import has scores 70 or more against it
\* ("medium queues a MergeReviewItem, low is treated as a new student", resolver.py) in one case
\* only, when no more than Limit students share a key with the row: an earlier row of the same
\* import has merged the birthday and nothing has sent the merge since, so the query compares the
\* old one.  Neither a merge of another import nor an unsent name or address loses a student.
OnlyUnsentTwinsMissed == \A m \in missed : m.unsent
=============================================================================
