--------------------------- MODULE CanonicalLoad ---------------------------
(* Loading into the canonical tables: the eight upsert_* functions and the   *)
(* per-field precedence policy of conflicts.py.  Every upsert finds the row  *)
(* of a natural key and either inserts it or merges the incoming values: the *)
(* governed fields one by one under the policy, the others unconditionally,  *)
(* and then the provenance.  An import is one transaction; it reads a row    *)
(* when it first meets its key, keeps the object in its session and writes   *)
(* at commit the attributes that differ from what it read.  A natural key    *)
(* stands for the key after normalisation (a missing session_no or attempt   *)
(* is 1); the parents of a row are the subject of ImportPipeline.            *)
EXTENDS Integers, FiniteSets, SequencesExt

CONSTANTS
  Keys,        \* natural keys
  TableOf,     \* the table of each key
  Sources,     \* source_systems
  Precedence,  \* of each source; the lower number wins
  Offers,      \* the valid rows an import can bring: [key, val]
  Null,
  MaxImports, MaxOpen, MaxRows   \* bounds: imports, imports at once, rows read by all of them

\* the fields under the precedence policy and those that are not, table by table
Department == [governed |-> {"name"}, overwritten |-> {}]
Programme == [governed |-> {"name"}, overwritten |-> {"department_id"}]
Course == [governed |-> {"name"}, overwritten |-> {"programme_id"}]
Student == [governed |-> {"name", "dob", "gender", "category", "email", "phone",
                          "admission_year", "status"},
            overwritten |-> {"programme_id"}]
Enrollment == [governed |-> {"status"}, overwritten |-> {}]
Attendance == [governed |-> {"status"}, overwritten |-> {}]
\* Mutant: only the marks obtained are under the policy.
InternalMarkMaxFree == [governed |-> {"obtained"}, overwritten |-> {"max_marks", "assessment_date"}]
InternalMark == [governed |-> {"max_marks", "obtained"}, overwritten |-> {"assessment_date"}]
Fee == [governed |-> {"amount_due", "amount_paid", "due_date", "paid_date", "status"},
        overwritten |-> {}]

Table ==
  [departments |-> Department, programmes |-> Programme, courses |-> Course,
   students |-> Student, enrollment |-> Enrollment, attendance |-> Attendance,
   internal_marks |-> InternalMark, fees |-> Fee]

Governed(k) == Table[TableOf[k]].governed
Fields(k) == Governed(k) \cup Table[TableOf[k]].overwritten

ASSUME TablesAssumption == TableOf \in [Keys -> DOMAIN Table]
ASSUME SourcesAssumption == Precedence \in [Sources -> Int]
\* what a field can hold, and the rows of a key
Values == {Null} \cup UNION {{o.val[f] : f \in DOMAIN o.val} : o \in Offers}
Row(k) == [val : [Fields(k) -> Values], source : Sources, batch : Nat]
ASSUME OffersAssumption == \A o \in Offers : o.key \in Keys /\ o.val \in [Fields(o.key) -> Values]
\* validate_record: both marks are there, none above its maximum
ASSUME MarksAssumption ==
  \A o \in Offers : TableOf[o.key] = "internal_marks" =>
    {o.val["obtained"], o.val["max_marks"]} \subseteq Nat /\ o.val["obtained"] <= o.val["max_marks"]
ASSUME NullAssumption == Null \notin Int /\ \A k \in Keys : Null \notin Row(k)
ASSUME BoundsAssumption == {MaxImports, MaxOpen, MaxRows} \subseteq Nat

VARIABLES
  rows,        \* the committed canonical rows: [val, source, batch], or Null
  conflicts,   \* the committed data_conflicts
  imports,     \* per import begun: [source, state, base, copy, noted, rows]
  origin,      \* history: per key and field, the source whose import set the value
  told,        \* history: per key, the sources that offered it and the last value of each field
  replaced,    \* history: the values of governed fields that gave way to another value
  overlapped   \* history: have two imports been open at once
history == <<origin, told, replaced, overlapped>>
vars == <<rows, conflicts, imports, history>>

Batches == DOMAIN imports
Open == {b \in Batches : imports[b].state = "open"}
Nothing(k) == [f \in Fields(k) |-> Null]
NoCopies == [k \in Keys |-> Null]

Init ==
  /\ rows = [k \in Keys |-> Null] /\ conflicts = {} /\ imports = <<>>
  /\ origin = [k \in Keys |-> Nothing(k)]
  /\ told = [k \in Keys |-> [sources |-> {}, last |-> Nothing(k)]]
  /\ replaced = {} /\ overlapped = FALSE

-----------------------------------------------------------------------------
(* apply_field_with_precedence.                                              *)

\* Mutant: a column the import does not have erases the value.
VerdictErases(existing, incoming, from, by) ==
  IF incoming = existing THEN "keep"
  ELSE IF existing = Null \/ from = by \/ Precedence[by] < Precedence[from] THEN "take"
  ELSE IF Precedence[by] = Precedence[from] THEN "conflict" ELSE "keep"

\* Mutant: a source does not supersede its own earlier import.
VerdictNoSelf(existing, incoming, from, by) ==
  IF incoming = Null \/ incoming = existing THEN "keep"
  ELSE IF existing = Null \/ Precedence[by] < Precedence[from] THEN "take"
  ELSE IF Precedence[by] = Precedence[from] THEN "conflict" ELSE "keep"

Verdict(existing, incoming, from, by) ==
  IF incoming = Null \/ incoming = existing THEN "keep"
  ELSE IF existing = Null \/ from = by \/ Precedence[by] < Precedence[from] THEN "take"
  ELSE IF Precedence[by] = Precedence[from] THEN "conflict" ELSE "keep"

Verdicts(row, o, by) ==
  [f \in Governed(o.key) |-> Verdict(row.val[f], o.val[f], row.source, by)]

\* the row after an upsert that found it
Merged(row, o, by, batch) ==
  [val |-> [f \in Fields(o.key) |->
     IF (IF f \in Governed(o.key) THEN Verdicts(row, o, by)[f] = "take" ELSE o.val[f] # Null)
     THEN o.val[f] ELSE row.val[f]],
   source |-> by, batch |-> batch]

NewConflicts(row, o, by) ==
  {[key |-> o.key, field |-> f, existing |-> row.val[f], incoming |-> o.val[f],
    existing_source |-> row.source, incoming_source |-> by] :
     f \in {g \in Governed(o.key) : Verdicts(row, o, by)[g] = "conflict"}}

-----------------------------------------------------------------------------
(* An import: begin, one upsert per row, commit or roll back.                *)

Begin(src) ==
  /\ Len(imports) < MaxImports /\ Cardinality(Open) < MaxOpen
  /\ imports' = Append(imports,
       [source |-> src, state |-> "open", noted |-> {}, rows |-> <<>>,
        base |-> NoCopies, copy |-> NoCopies])
  /\ overlapped' = (overlapped \/ Open # {})
  /\ UNCHANGED <<rows, conflicts, origin, told, replaced>>

\* the unique index: another open import has inserted the row and not committed it
Held(b, k) == \E c \in Open \ {b} : imports[c].base[k] = Null /\ imports[c].copy[k] # Null

\* the object of the row in b's session, else the committed row
Seen(b, k) == IF imports[b].copy[k] # Null THEN imports[b].copy[k] ELSE rows[k]

RowsRead == FoldLeft(LAMBDA n, i : n + Len(i.rows), 0, imports)

\* import i after one more row: what it read of the key, its object, and the conflicts noted
Read(i, o, base, copy, noted) ==
  [i EXCEPT !.base[o.key] = base, !.copy[o.key] = copy, !.noted = @ \cup noted, !.rows = Append(@, o)]

Insert(b, o) ==
  /\ RowsRead < MaxRows
  /\ Seen(b, o.key) = Null /\ ~Held(b, o.key)
  /\ imports' = [imports EXCEPT ![b] =
       Read(imports[b], o, Null, [val |-> o.val, source |-> imports[b].source, batch |-> b], {})]
  /\ UNCHANGED <<rows, conflicts, history>>

Update(b, o) ==
  /\ RowsRead < MaxRows
  /\ Seen(b, o.key) # Null
  /\ LET row == Seen(b, o.key)
         src == imports[b].source
         base == IF imports[b].copy[o.key] = Null THEN row ELSE imports[b].base[o.key]
     IN  imports' = [imports EXCEPT ![b] =
           Read(imports[b], o, base, Merged(row, o, src, b), NewConflicts(row, o, src))]
  /\ UNCHANGED <<rows, conflicts, history>>

\* the attributes of b's object that differ from what it read; all of them after an insert
Dirty(b, k) ==
  LET base == imports[b].base[k]
      copy == imports[b].copy[k]
  IN  {f \in Fields(k) : copy # Null /\ (base = Null \/ copy.val[f] # base.val[f])}
NewSource(b, k) ==
  imports[b].base[k] = Null \/ imports[b].copy[k].source # imports[b].base[k].source

Written(b, k) ==
  LET copy == imports[b].copy[k]
  IN  IF copy = Null THEN rows[k]
      ELSE [val |-> [f \in Fields(k) |-> IF f \in Dirty(b, k) THEN copy.val[f] ELSE rows[k].val[f]],
            source |-> IF NewSource(b, k) THEN copy.source ELSE rows[k].source,
            batch |-> b]

\* the rows b read for a key, and those of them that gave a field a value
OffersOf(b, k) == {i \in DOMAIN imports[b].rows : imports[b].rows[i].key = k}
Giving(b, k, f) == {i \in OffersOf(b, k) : imports[b].rows[i].val[f] # Null}
LastTold(b, k, f) ==
  IF Giving(b, k, f) = {} THEN told[k].last[f] ELSE imports[b].rows[Max(Giving(b, k, f))].val[f]

Remember(b) ==
  LET src == imports[b].source
  IN  /\ origin' = [k \in Keys |-> [f \in Fields(k) |->
                      IF f \in Dirty(b, k) /\ imports[b].copy[k].val[f] # Null
                      THEN src ELSE origin[k][f]]]
      /\ told' = [k \in Keys |->
           [sources |-> IF OffersOf(b, k) # {} THEN told[k].sources \cup {src} ELSE told[k].sources,
            last |-> [f \in Fields(k) |-> LastTold(b, k, f)]]]
      /\ replaced' = replaced \cup UNION
           {{[key |-> k, field |-> f, value |-> rows[k].val[f], from |-> origin[k][f], by |-> src] :
               f \in {g \in Governed(k) : /\ rows[k] # Null /\ rows[k].val[g] # Null
                                          /\ Written(b, k).val[g] # rows[k].val[g]}} : k \in Keys}
      /\ UNCHANGED overlapped

\* the session closes; what the import read stays for the properties
Closed(b, state) ==
  [imports EXCEPT ![b].state = state, ![b].base = NoCopies, ![b].copy = NoCopies, ![b].noted = {}]

Commit(b) ==
  /\ rows' = [k \in Keys |-> Written(b, k)]
  /\ conflicts' = conflicts \cup imports[b].noted
  /\ imports' = Closed(b, "committed")
  /\ Remember(b)

\* any exception in the load phase, the unique violation of a lost race among them
RollBack(b) ==
  /\ imports' = Closed(b, "rolled_back")
  /\ UNCHANGED <<rows, conflicts, history>>

Next ==
  \/ \E src \in Sources : Begin(src)
  \/ \E b \in Open : Commit(b) \/ RollBack(b) \/ \E o \in Offers : Insert(b, o) \/ Update(b, o)

Spec == Init /\ [][Next]_vars

-----------------------------------------------------------------------------
(* Properties.                                                               *)

\* A value once known is never erased, by no order of imports that lack the column, nor by
\* two imports that overlap ("incoming_value is None" of apply_field_with_precedence).
NeverErased ==
  [][\A k \in Keys : rows[k] # Null =>
       rows'[k] # Null /\ \A f \in Fields(k) : rows[k].val[f] # Null => rows'[k].val[f] # Null]_rows

\* Imports that run one after another keep obtained <= max_marks in every canonical row,
\* whichever of them win or lose: the two fields of an accepted row stand or fall together.
MarksInRange ==
  ~overlapped => \A k \in Keys : TableOf[k] = "internal_marks" /\ rows[k] # Null =>
                   rows[k].val["obtained"] <= rows[k].val["max_marks"]

\* As long as one source has offered a row, it says what that source said last, field by
\* field: "the incoming value always wins (a source superseding its own earlier extract)".
LatestFromOneSource ==
  ~overlapped => \A k \in Keys : Cardinality(told[k].sources) = 1 => rows[k].val = told[k].last

\* A governed value gives way only to its own source, to one of higher precedence, or, between
\* equals, with a conflict on record ("never silently clobber", conflicts.py; "existing value
\* never silently overwritten by a lower-precedence source", acceptance test 6).
NoSilentClobber ==
  \A r \in replaced :
    \/ r.by = r.from
    \/ Precedence[r.by] < Precedence[r.from]
    \/ /\ Precedence[r.by] = Precedence[r.from]
       /\ \E c \in conflicts : c.key = r.key /\ c.field = r.field /\ c.existing = r.value
=============================================================================
