------------------------- MODULE CanonicalLoadProofs -------------------------
(* Proofs about CanonicalLoad, for any tables, sources, precedences, rows    *)
(* and number of imports: a value is never erased however imports overlap    *)
(* (NeverErased), and imports that do not overlap keep marks in range        *)
(* (MarksInRange) and what the only source of a row said last                *)
(* (LatestFromOneSource).                                                    *)
EXTENDS CanonicalLoad, SequenceTheorems, FiniteSetTheorems, TLAPS

-----------------------------------------------------------------------------
(* The inductive invariants.                                                 *)

SomeRow == (UNION {Row(k) : k \in Keys}) \cup {Null}
SomeConflict ==
  [key : Keys, field : UNION {Fields(k) : k \in Keys}, existing : Values, incoming : Values,
   existing_source : Sources, incoming_source : Sources]
Import ==
  [source : Sources, state : {"open", "committed", "rolled_back"}, noted : SUBSET SomeConflict,
   rows : Seq(Offers), base : [Keys -> SomeRow], copy : [Keys -> SomeRow]]

Typed ==
  /\ rows \in [Keys -> SomeRow] /\ \A k \in Keys : rows[k] \in Row(k) \cup {Null}
  /\ imports \in Seq(Import)
  /\ \A b \in Batches, k \in Keys : imports[b].copy[k] \in Row(k) \cup {Null}
  /\ \A b \in Batches, k \in Keys : imports[b].base[k] \in Row(k) \cup {Null}

Inserted(b, k) == imports[b].copy[k] # Null /\ imports[b].base[k] = Null

\* What an open import has of a row, however many others are open: it inserted the row, which
\* then nobody else has, or it read it, and has erased none of its values.
Sessions ==
  \A b \in Open, k \in Keys :
    /\ imports[b].base[k] # Null =>
         /\ imports[b].copy[k] # Null /\ rows[k] # Null
         /\ \A f \in Fields(k) :
              imports[b].base[k].val[f] # Null => imports[b].copy[k].val[f] # Null
    /\ Inserted(b, k) => rows[k] = Null /\ \A c \in Open : Inserted(c, k) => c = b

EInv == Typed /\ Sessions

\* Imports that do not overlap read what is committed.
Alone ==
  /\ \A b, c \in Open : b = c
  /\ \A b \in Open, k \in Keys : imports[b].base[k] # Null => imports[b].base[k] = rows[k]

\* Marks of a row, in the table or in a session.
InRange(k, row) ==
  TableOf[k] = "internal_marks" /\ row # Null =>
    /\ {row.val["obtained"], row.val["max_marks"]} \subseteq Nat
    /\ row.val["obtained"] <= row.val["max_marks"]
Marks ==
  /\ \A k \in Keys : InRange(k, rows[k])
  /\ \A b \in Open, k \in Keys : InRange(k, imports[b].copy[k])

MInv == ~overlapped => Alone /\ Marks

\* v is what b last read of a field, or what was told before b.
Latest(b, k, f, v) ==
  \/ Giving(b, k, f) = {} /\ v = told[k].last[f]
  \/ \E i \in Giving(b, k, f) :
       (\A j \in Giving(b, k, f) : j <= i) /\ v = imports[b].rows[i].val[f]

\* A row nobody told of is not there; one source's row is its own and says what it said.
Told ==
  \A k \in Keys :
    /\ told[k].sources \subseteq Sources /\ IsFiniteSet(told[k].sources)
    /\ told[k].last = [f \in Fields(k) |-> told[k].last[f]]
    /\ rows[k] = Null <=> told[k].sources = {}
    /\ rows[k] = Null => \A f \in Fields(k) : told[k].last[f] = Null
    /\ \A s \in Sources : told[k].sources = {s} =>
         rows[k].source = s /\ \A f \in Fields(k) : rows[k].val[f] = told[k].last[f]
Telling ==
  \A b \in Open, k \in Keys :
    /\ imports[b].copy[k] = Null <=> OffersOf(b, k) = {}
    /\ imports[b].copy[k] # Null =>
         /\ imports[b].copy[k].source = imports[b].source
         /\ told[k].sources \subseteq {imports[b].source} =>
              \A f \in Fields(k) : Latest(b, k, f, imports[b].copy[k].val[f])

TInv == ~overlapped => Told /\ Telling

-----------------------------------------------------------------------------
(* The steps.                                                                *)

LEMMA UntoldFacts ==
  ASSUME Told, NEW k \in Keys, rows[k] = Null
  PROVE  told[k].sources = {} /\ \A f \in Fields(k) : told[k].last[f] = Null
BY DEF Told

LEMMA RowFacts ==
  ASSUME NEW k \in Keys
  PROVE  /\ Null \notin Row(k) /\ Row(k) \subseteq SomeRow /\ Null \in SomeRow
         /\ \A r \in Row(k) : /\ r.val \in [Fields(k) -> Values] /\ r.source \in Sources
                              /\ r.batch \in Nat /\ r # Null
<1>1. Null \notin Row(k)
  BY ONLY k \in Keys, NullAssumption
<1>2. Row(k) \subseteq SomeRow /\ Null \in SomeRow
  BY DEF SomeRow
<1>3. \A r \in Row(k) : r.val \in [Fields(k) -> Values] /\ r.source \in Sources /\ r.batch \in Nat
  BY DEF Row
<1> QED
  BY <1>1, <1>2, <1>3

\* When the policy takes the incoming value.
LEMMA Takes ==
  ASSUME NEW existing, NEW incoming, NEW from, NEW by
  PROVE  Verdict(existing, incoming, from, by) = "take" <=>
           /\ incoming # Null /\ incoming # existing
           /\ existing = Null \/ from = by \/ Precedence[by] < Precedence[from]
BY DEF Verdict

\* What a merge leaves in a row.
LEMMA MergedFacts ==
  ASSUME NEW o \in Offers, NEW row \in Row(o.key), NEW src \in Sources, NEW b \in Nat
  PROVE  /\ Merged(row, o, src, b) \in Row(o.key) /\ Merged(row, o, src, b).source = src
         /\ \A f \in Fields(o.key) :
              /\ row.val[f] # Null => Merged(row, o, src, b).val[f] # Null
              /\ row.source = src => Merged(row, o, src, b).val[f] =
                   IF o.val[f] # Null THEN o.val[f] ELSE row.val[f]
<1> PICK v : v = [f \in Fields(o.key) |->
       IF (IF f \in Governed(o.key) THEN Verdicts(row, o, src)[f] = "take" ELSE o.val[f] # Null)
       THEN o.val[f] ELSE row.val[f]]
  OBVIOUS
<1>1. o.key \in Keys /\ o.val \in [Fields(o.key) -> Values] /\ row.val \in [Fields(o.key) -> Values]
  BY OffersAssumption, RowFacts
<1>2. v \in [Fields(o.key) -> Values]
  BY <1>1
<1>3. Merged(row, o, src, b) = [val |-> v, source |-> src, batch |-> b]
  BY DEF Merged
<1>4. Merged(row, o, src, b) \in Row(o.key) /\ Merged(row, o, src, b).source = src
      /\ Merged(row, o, src, b).val = v
  BY <1>2, <1>3 DEF Row
<1>5. \A f \in Governed(o.key) :
        Verdicts(row, o, src)[f] = Verdict(row.val[f], o.val[f], row.source, src)
  BY DEF Verdicts
<1>6. ASSUME NEW f \in Fields(o.key)
      PROVE  /\ row.val[f] # Null => v[f] # Null
             /\ row.source = src => v[f] = IF o.val[f] # Null THEN o.val[f] ELSE row.val[f]
  <2>1. CASE f \in Governed(o.key)
    <3>1. v[f] = IF Verdict(row.val[f], o.val[f], row.source, src) = "take" THEN o.val[f] ELSE row.val[f]
      BY <1>5, <2>1
    <3> QED
      BY <3>1, Takes
  <2>2. CASE f \notin Governed(o.key)
    BY <2>2
  <2> QED
    BY <2>1, <2>2
<1> QED
  BY <1>4, <1>6

\* The two fields of a mark are taken or kept together.
LEMMA MergedMarks ==
  ASSUME NEW o \in Offers, NEW row \in Row(o.key), NEW src, NEW b, InRange(o.key, row)
  PROVE  InRange(o.key, Merged(row, o, src, b))
<1> SUFFICES ASSUME TableOf[o.key] = "internal_marks"
             PROVE  InRange(o.key, Merged(row, o, src, b))
  BY DEF InRange
<1> PICK v : v = Merged(row, o, src, b).val
  OBVIOUS
<1>1. o.key \in Keys /\ row # Null
  BY OffersAssumption, RowFacts
<1>2. /\ "obtained" \in Governed(o.key) /\ "max_marks" \in Governed(o.key)
      /\ Governed(o.key) \subseteq Fields(o.key)
  BY DEF Governed, Fields, Table, InternalMark
<1>3. \A f \in Governed(o.key) :
        v[f] = IF Verdict(row.val[f], o.val[f], row.source, src) = "take" THEN o.val[f] ELSE row.val[f]
  BY <1>2 DEF Merged, Verdicts
<1>4. /\ {row.val["obtained"], row.val["max_marks"]} \subseteq Nat
      /\ row.val["obtained"] <= row.val["max_marks"]
  BY <1>1 DEF InRange
<1>5. /\ {o.val["obtained"], o.val["max_marks"]} \subseteq Nat
      /\ o.val["obtained"] <= o.val["max_marks"]
  BY MarksAssumption
<1>6. Null \notin Nat
  BY NullAssumption
<1>7. \A f \in {"obtained", "max_marks"} :
        v[f] = IF row.source = src \/ Precedence[src] < Precedence[row.source]
               THEN o.val[f] ELSE row.val[f]
  <2> TAKE f \in {"obtained", "max_marks"}
  <2>1. row.val[f] # Null /\ o.val[f] # Null
    BY <1>4, <1>5, <1>6
  <2>2. v[f] = IF Verdict(row.val[f], o.val[f], row.source, src) = "take" THEN o.val[f] ELSE row.val[f]
    BY <1>2, <1>3
  <2> QED
    BY <2>1, <2>2, Takes
<1> QED
  BY <1>4, <1>5, <1>7 DEF InRange

-----------------------------------------------------------------------------
(* What the steps do to the imports.                                         *)

LEMMA ImportFacts ==
  ASSUME Typed
  PROVE  /\ Len(imports) \in Nat /\ Batches = 1 .. Len(imports) /\ Batches \subseteq Nat
         /\ Open \subseteq Batches
         /\ \A b \in Batches : /\ imports[b] \in Import /\ imports[b].source \in Sources
                               /\ imports[b].rows \in Seq(Offers)
                               /\ imports[b].base \in [Keys -> SomeRow]
                               /\ imports[b].copy \in [Keys -> SomeRow]
<1>1. imports \in Seq(Import) /\ Len(imports) \in Nat
  BY LenProperties DEF Typed
<1>2. Batches = 1 .. Len(imports)
  BY <1>1, LenProperties DEF Batches
<1>3. \A b \in Batches : imports[b] \in Import
  BY <1>1, <1>2, ElementOfSeq
<1> QED
  BY <1>1, <1>2, <1>3 DEF Import, Open

\* A step that changes one import.
LEMMA OneImport ==
  ASSUME Typed, NEW b \in Batches, NEW n \in Import, imports' = [imports EXCEPT ![b] = n]
  PROVE  /\ imports' \in Seq(Import) /\ Batches' = Batches /\ imports'[b] = n
         /\ \A c \in Batches \ {b} : imports'[c] = imports[c]
         /\ Len(imports') = Len(imports)
<1>1. imports \in Seq(Import) /\ Batches = 1 .. Len(imports)
  BY ImportFacts DEF Typed
<1> QED
  BY <1>1, ExceptSeq DEF Batches

LEMMA BeginStep ==
  ASSUME Typed, NEW src \in Sources, Begin(src)
  PROVE  LET n == Len(imports) + 1
         IN  /\ imports' \in Seq(Import) /\ Batches' = Batches \cup {n} /\ n \notin Batches
             /\ \A c \in Batches : imports'[c] = imports[c]
             /\ \A k \in Keys : imports'[n].copy[k] = Null /\ imports'[n].base[k] = Null
             /\ imports'[n].rows = <<>> /\ imports'[n].source = src
             /\ Open' = Open \cup {n}
             /\ UNCHANGED <<rows, told>> /\ overlapped' = (overlapped \/ Open # {})
<1> PICK i : i = [source |-> src, state |-> "open", noted |-> {}, rows |-> <<>>,
                  base |-> NoCopies, copy |-> NoCopies]
  OBVIOUS
<1> PICK n : n = Len(imports) + 1
  OBVIOUS
<1>1. NoCopies \in [Keys -> SomeRow] /\ \A k \in Keys : NoCopies[k] = Null
  BY DEF NoCopies, SomeRow
<1>2. i \in Import /\ i.state = "open" /\ i.rows = <<>> /\ i.copy = NoCopies /\ i.base = NoCopies
      /\ i.source = src
  BY <1>1, EmptySeq DEF Import
<1>3. /\ imports \in Seq(Import) /\ Len(imports) \in Nat /\ Batches = 1 .. Len(imports)
      /\ imports' = Append(imports, i)
  BY ImportFacts DEF Typed, Begin
<1>4. /\ imports' \in Seq(Import) /\ Len(imports') = n /\ imports'[n] = i
      /\ \A c \in 1 .. Len(imports) : imports'[c] = imports[c]
  BY <1>2, <1>3, AppendProperties
<1>5. Batches' = 1 .. n
  BY <1>4, LenProperties DEF Batches
<1>6. Batches' = Batches \cup {n} /\ n \notin Batches
  BY <1>3, <1>5
<1>7. Open' = Open \cup {n}
  BY <1>2, <1>3, <1>4, <1>6 DEF Open
<1>8. UNCHANGED <<rows, told>> /\ overlapped' = (overlapped \/ Open # {})
  BY DEF Begin
<1> QED
  BY <1>1, <1>2, <1>3, <1>4, <1>6, <1>7, <1>8

LEMMA ClosedStep ==
  ASSUME Typed, NEW b \in Open, NEW state \in {"committed", "rolled_back"}, imports' = Closed(b, state)
  PROVE  /\ imports' \in Seq(Import) /\ Batches' = Batches
         /\ \A c \in Batches \ {b} : imports'[c] = imports[c]
         /\ \A k \in Keys : imports'[b].copy[k] = Null /\ imports'[b].base[k] = Null
         /\ Open' = Open \ {b}
<1> PICK n : n = [imports[b] EXCEPT !.state = state, !.base = NoCopies, !.copy = NoCopies, !.noted = {}]
  OBVIOUS
<1>1. NoCopies \in [Keys -> SomeRow] /\ \A k \in Keys : NoCopies[k] = Null
  BY DEF NoCopies, SomeRow
<1>2. imports[b] \in Import /\ b \in Batches
  BY ImportFacts
<1>3. n \in Import /\ n.state = state /\ n.copy = NoCopies /\ n.base = NoCopies
  BY <1>1, <1>2 DEF Import
<1>4. imports' = [imports EXCEPT ![b] = n]
  BY DEF Closed
<1>5. /\ imports' \in Seq(Import) /\ Batches' = Batches /\ imports'[b] = n
      /\ \A c \in Batches \ {b} : imports'[c] = imports[c]
  BY <1>2, <1>3, <1>4, OneImport
<1>6. Open' = Open \ {b}
  BY <1>3, <1>5, ZenonT(30) DEF Open
<1> QED
  BY <1>1, <1>3, <1>5, <1>6

\* What the two upserts have in common.
LEMMA UpsertStep ==
  ASSUME Typed, NEW b \in Open, NEW o \in Offers, Insert(b, o) \/ Update(b, o)
  PROVE  /\ imports' \in Seq(Import) /\ Batches' = Batches /\ Open' = Open
         /\ \A c \in Batches \ {b} : imports'[c] = imports[c]
         /\ imports'[b].source = imports[b].source
         /\ imports'[b].rows = Append(imports[b].rows, o)
         /\ \A k \in Keys \ {o.key} : /\ imports'[b].copy[k] = imports[b].copy[k]
                                      /\ imports'[b].base[k] = imports[b].base[k]
         /\ UNCHANGED <<rows, told, overlapped>>
         /\ imports'[b].copy[o.key] \in Row(o.key)
         /\ imports'[b].copy[o.key].source = imports[b].source
         /\ \/ /\ Seen(b, o.key) = Null /\ ~Held(b, o.key)
               /\ imports'[b].copy[o.key].val = o.val
               /\ imports'[b].base[o.key] = Null
            \/ /\ Seen(b, o.key) \in Row(o.key)
               /\ imports'[b].copy[o.key] = Merged(Seen(b, o.key), o, imports[b].source, b)
               /\ imports'[b].base[o.key] =
                    IF imports[b].copy[o.key] = Null THEN Seen(b, o.key) ELSE imports[b].base[o.key]
<1> PICK k : k = o.key
  OBVIOUS
<1> PICK i : i = imports[b]
  OBVIOUS
<1> PICK row : row = Seen(b, k)
  OBVIOUS
<1>1. k \in Keys /\ o.val \in [Fields(k) -> Values] /\ b \in Batches /\ b \in Nat
      /\ i \in Import /\ i.source \in Sources /\ i.state = "open"
  BY OffersAssumption, ImportFacts DEF Open
<1>2. row \in Row(k) \cup {Null} /\ i.base[k] \in Row(k) \cup {Null}
  BY <1>1 DEF Seen, Typed
<1>3. UNCHANGED <<rows, told, overlapped>>
  BY DEF Insert, Update, history
<1>4. PICK base \in Row(k) \cup {Null}, copy \in Row(k), noted \in SUBSET SomeConflict :
        /\ imports' = [imports EXCEPT ![b] = Read(i, o, base, copy, noted)]
        /\ copy.source = i.source
        /\ \/ /\ row = Null /\ ~Held(b, k) /\ copy.val = o.val /\ base = Null
           \/ /\ row \in Row(k) /\ copy = Merged(row, o, i.source, b)
              /\ base = IF i.copy[k] = Null THEN row ELSE i.base[k]
  <2>1. CASE Insert(b, o)
    <3> PICK copy : copy = [val |-> o.val, source |-> i.source, batch |-> b]
      OBVIOUS
    <3>1. copy \in Row(k) /\ copy.source = i.source /\ copy.val = o.val
      BY <1>1 DEF Row
    <3>2. imports' = [imports EXCEPT ![b] = Read(i, o, Null, copy, {})] /\ row = Null /\ ~Held(b, k)
      BY <2>1 DEF Insert
    <3>3. Null \in Row(k) \cup {Null} /\ {} \in SUBSET SomeConflict
      OBVIOUS
    <3> QED
      BY ONLY <3>1, <3>2, <3>3
  <2>2. CASE Update(b, o)
    <3> PICK copy : copy = Merged(row, o, i.source, b)
      OBVIOUS
    <3> PICK base : base = IF i.copy[k] = Null THEN row ELSE i.base[k]
      OBVIOUS
    <3> PICK noted : noted = NewConflicts(row, o, i.source)
      OBVIOUS
    <3>1. imports' = [imports EXCEPT ![b] = Read(i, o, base, copy, noted)] /\ row # Null
      BY <2>2 DEF Update
    <3>2. row \in Row(k) /\ base \in Row(k) \cup {Null}
      BY <1>2, <3>1
    <3>3. copy \in Row(k) /\ copy.source = i.source
      BY <1>1, <3>2, MergedFacts
    <3>4. noted \in SUBSET SomeConflict
      <4>1. Governed(k) \subseteq Fields(k) /\ Governed(k) \subseteq UNION {Fields(h) : h \in Keys}
        BY <1>1 DEF Fields
      <4>2. row.val \in [Fields(k) -> Values] /\ row.source \in Sources
        BY <1>1, <3>2, RowFacts
      <4> QED
        BY <1>1, <4>1, <4>2 DEF NewConflicts, SomeConflict
    <3> QED
      BY <3>1, <3>2, <3>3, <3>4
  <2> QED
    BY <2>1, <2>2
<1> PICK n : n = Read(i, o, base, copy, noted)
  OBVIOUS
<1>5. /\ n \in Import /\ n.source = i.source /\ n.state = "open"
      /\ n.rows = Append(i.rows, o) /\ n.copy[k] = copy /\ n.base[k] = base
      /\ \A h \in Keys \ {k} : n.copy[h] = i.copy[h] /\ n.base[h] = i.base[h]
  <2> PICK m : m = [i.copy EXCEPT ![k] = copy]
    OBVIOUS
  <2> PICK u : u = [i.base EXCEPT ![k] = base]
    OBVIOUS
  <2> PICK all : all = i.noted \cup noted
    OBVIOUS
  <2> PICK read : read = Append(i.rows, o)
    OBVIOUS
  <2>1. /\ k \in Keys /\ i.rows \in Seq(Offers) /\ i.base \in [Keys -> SomeRow]
        /\ i.copy \in [Keys -> SomeRow] /\ i.noted \in SUBSET SomeConflict
    BY <1>1 DEF Import
  <2>2. read \in Seq(Offers)
    BY <2>1, AppendProperties
  <2>3. /\ m \in [Keys -> SomeRow] /\ u \in [Keys -> SomeRow] /\ m[k] = copy /\ u[k] = base
        /\ \A h \in Keys \ {k} : m[h] = i.copy[h] /\ u[h] = i.base[h]
    BY <2>1, RowFacts
  <2>4. n = [i EXCEPT !.base = u, !.copy = m, !.noted = all, !.rows = read]
    BY DEF Read
  <2>5. all \in SUBSET SomeConflict
    BY <2>1
  <2>6. n \in Import /\ n.copy = m /\ n.rows = read /\ n.base = u /\ n.source = i.source
        /\ n.state = i.state
    BY ONLY <1>1, <2>2, <2>3, <2>4, <2>5 DEF Import
  <2> QED
    BY <1>1, <2>3, <2>6
<1>6. /\ imports' \in Seq(Import) /\ Batches' = Batches /\ imports'[b] = n
      /\ \A c \in Batches \ {b} : imports'[c] = imports[c]
  BY <1>1, <1>4, <1>5, OneImport
<1>7. Open' = Open
  BY <1>1, <1>5, <1>6 DEF Open
<1> QED
  BY <1>3, <1>4, <1>5, <1>6, <1>7

-----------------------------------------------------------------------------
(* No value is erased.                                                       *)

LEMMA WrittenFacts ==
  ASSUME EInv, NEW b \in Open, NEW k \in Keys
  PROVE  /\ Written(b, k) \in Row(k) \cup {Null}
         /\ imports[b].copy[k] = Null => Written(b, k) = rows[k]
         /\ imports[b].copy[k] # Null => Written(b, k) \in Row(k)
         /\ rows[k] # Null => \A f \in Fields(k) :
              rows[k].val[f] # Null => Written(b, k).val[f] # Null
         /\ imports[b].copy[k] # Null /\ imports[b].base[k] \in {Null, rows[k]} =>
              /\ Written(b, k).source = imports[b].copy[k].source
              /\ \A f \in Fields(k) : Written(b, k).val[f] = imports[b].copy[k].val[f]
<1> PICK copy : copy = imports[b].copy[k]
  OBVIOUS
<1> PICK base : base = imports[b].base[k]
  OBVIOUS
<1> PICK row : row = rows[k]
  OBVIOUS
<1>1. /\ copy \in Row(k) \cup {Null} /\ base \in Row(k) \cup {Null} /\ row \in Row(k) \cup {Null}
      /\ b \in Nat
  BY ImportFacts DEF EInv, Typed
<1>2. /\ base # Null => /\ copy # Null /\ row # Null
                        /\ \A f \in Fields(k) : base.val[f] # Null => copy.val[f] # Null
      /\ copy # Null /\ base = Null => row = Null
  BY DEF EInv, Sessions, Inserted
<1>3. CASE copy = Null
  <2>1. Written(b, k) = row
    BY <1>3 DEF Written
  <2> QED
    BY <1>1, <1>3, <2>1
<1>4. CASE copy # Null
  <2> PICK v : v = [f \in Fields(k) |-> IF f \in Dirty(b, k) THEN copy.val[f] ELSE row.val[f]]
    OBVIOUS
  <2> PICK s : s = IF NewSource(b, k) THEN copy.source ELSE row.source
    OBVIOUS
  <2>1. Written(b, k) = [val |-> v, source |-> s, batch |-> b]
    BY <1>4 DEF Written
  <2>2. \A f \in Fields(k) : f \in Dirty(b, k) <=> base = Null \/ copy.val[f] # base.val[f]
    BY <1>4 DEF Dirty
  <2>3. NewSource(b, k) <=> base = Null \/ copy.source # base.source
    BY DEF NewSource
  <2>4. copy.val \in [Fields(k) -> Values] /\ copy.source \in Sources
    BY <1>1, <1>4, RowFacts
  <2>5. row # Null => row.val \in [Fields(k) -> Values] /\ row.source \in Sources
    BY <1>1, RowFacts
  <2>6. v \in [Fields(k) -> Values] /\ s \in Sources
    BY <1>2, <2>2, <2>3, <2>4, <2>5
  <2>7. Written(b, k) \in Row(k) /\ Written(b, k).val = v /\ Written(b, k).source = s
    BY <1>1, <2>1, <2>6 DEF Row
  <2>8. ASSUME row # Null, NEW f \in Fields(k), row.val[f] # Null
        PROVE  v[f] # Null
    BY <1>2, <1>4, <2>2, <2>8
  <2>9. ASSUME base \in {Null, row}
        PROVE  s = copy.source /\ \A f \in Fields(k) : v[f] = copy.val[f]
    BY <2>2, <2>3, <2>9
  <2> QED
    BY <1>4, <2>7, <2>8, <2>9
<1> QED
  BY <1>3, <1>4

\* What Commit leaves of an import, and of the rows.
LEMMA CommitStep ==
  ASSUME EInv, NEW b \in Open, Commit(b)
  PROVE  /\ imports' \in Seq(Import) /\ Batches' = Batches
         /\ \A c \in Batches \ {b} : imports'[c] = imports[c]
         /\ \A k \in Keys : imports'[b].copy[k] = Null /\ imports'[b].base[k] = Null
         /\ Open' = Open \ {b} /\ overlapped' = overlapped
         /\ rows' \in [Keys -> SomeRow] /\ \A k \in Keys : rows'[k] = Written(b, k)
<1>1. Typed /\ imports' = Closed(b, "committed") /\ overlapped' = overlapped
  BY DEF EInv, Commit, Remember
<1>2. rows' = [k \in Keys |-> Written(b, k)]
  BY DEF Commit
<1>3. \A k \in Keys : Written(b, k) \in SomeRow
  BY WrittenFacts, RowFacts
<1> QED
  BY <1>1, <1>2, <1>3, ClosedStep

LEMMA RollBackStep ==
  ASSUME Typed, NEW b \in Open, RollBack(b)
  PROVE  /\ imports' \in Seq(Import) /\ Batches' = Batches
         /\ \A c \in Batches \ {b} : imports'[c] = imports[c]
         /\ \A k \in Keys : imports'[b].copy[k] = Null /\ imports'[b].base[k] = Null
         /\ Open' = Open \ {b} /\ UNCHANGED <<rows, told, overlapped>>
<1>1. imports' = Closed(b, "rolled_back") /\ UNCHANGED <<rows, told, overlapped>>
  BY DEF RollBack, history
<1> QED
  BY <1>1, ClosedStep

LEMMA BeginErases ==
  ASSUME EInv, NEW src \in Sources, Begin(src)
  PROVE  EInv'
<1> PICK n : n = Len(imports) + 1
  OBVIOUS
<1>1. Typed /\ Sessions /\ Open \subseteq Batches
  BY ImportFacts DEF EInv
<1>2. /\ imports' \in Seq(Import) /\ Batches' = Batches \cup {n} /\ n \notin Batches
      /\ \A c \in Batches : imports'[c] = imports[c]
      /\ \A k \in Keys : imports'[n].copy[k] = Null /\ imports'[n].base[k] = Null
      /\ Open' = Open \cup {n} /\ rows' = rows
  BY <1>1, BeginStep
<1>3. Typed'
  BY <1>1, <1>2 DEF Typed
<1>4. Sessions'
  BY <1>1, <1>2 DEF Sessions, Inserted
<1> QED
  BY <1>3, <1>4 DEF EInv

LEMMA UpsertErases ==
  ASSUME EInv, NEW b \in Open, NEW o \in Offers, Insert(b, o) \/ Update(b, o)
  PROVE  EInv'
<1> PICK k : k = o.key
  OBVIOUS
<1> PICK row : row = Seen(b, k)
  OBVIOUS
<1> PICK src : src = imports[b].source
  OBVIOUS
<1>1. /\ Typed /\ Sessions /\ Open \subseteq Batches /\ k \in Keys /\ b \in Batches /\ b \in Nat
      /\ src \in Sources
  BY ImportFacts, OffersAssumption DEF EInv
<1>2. /\ imports' \in Seq(Import) /\ Batches' = Batches /\ Open' = Open /\ rows' = rows
      /\ \A c \in Batches \ {b} : imports'[c] = imports[c]
      /\ \A h \in Keys \ {k} : /\ imports'[b].copy[h] = imports[b].copy[h]
                               /\ imports'[b].base[h] = imports[b].base[h]
      /\ imports'[b].copy[k] \in Row(k)
  BY <1>1, UpsertStep
<1>3. \/ /\ row = Null /\ ~Held(b, k) /\ imports'[b].base[k] = Null
      \/ /\ row \in Row(k) /\ imports'[b].copy[k] = Merged(row, o, src, b)
         /\ imports'[b].base[k] = IF imports[b].copy[k] = Null THEN row ELSE imports[b].base[k]
  BY <1>1, UpsertStep
<1>4. row = IF imports[b].copy[k] # Null THEN imports[b].copy[k] ELSE rows[k]
  BY DEF Seen
<1>5. /\ imports[b].copy[k] \in Row(k) \cup {Null} /\ imports[b].base[k] \in Row(k) \cup {Null}
      /\ Null \notin Row(k)
  BY <1>1, RowFacts DEF Typed
<1>6. Typed'
  <2>1. imports'[b].base[k] \in Row(k) \cup {Null}
    BY <1>3, <1>5
  <2> QED
    BY <1>1, <1>2, <2>1, SMTT(30) DEF Typed
<1>7. /\ imports[b].base[k] # Null =>
           /\ imports[b].copy[k] # Null /\ rows[k] # Null
           /\ \A f \in Fields(k) : imports[b].base[k].val[f] # Null => imports[b].copy[k].val[f] # Null
      /\ imports[b].copy[k] # Null /\ imports[b].base[k] = Null =>
           rows[k] = Null /\ \A c \in Open : Inserted(c, k) => c = b
  BY <1>1 DEF Sessions, Inserted
<1>8. imports'[b].base[k] # Null =>
        /\ imports'[b].copy[k] # Null /\ rows[k] # Null
        /\ \A f \in Fields(k) : imports'[b].base[k].val[f] # Null => imports'[b].copy[k].val[f] # Null
  <2> SUFFICES ASSUME imports'[b].base[k] # Null
               PROVE  /\ rows[k] # Null
                      /\ \A f \in Fields(k) :
                           imports'[b].base[k].val[f] # Null => imports'[b].copy[k].val[f] # Null
    BY <1>2, <1>5
  <2>1. /\ row \in Row(k) /\ imports'[b].copy[k] = Merged(row, o, src, b)
        /\ imports'[b].base[k] = IF imports[b].copy[k] = Null THEN row ELSE imports[b].base[k]
    BY <1>3
  <2>2. \A f \in Fields(k) : row.val[f] # Null => imports'[b].copy[k].val[f] # Null
    BY <1>1, <2>1, MergedFacts
  <2> QED
    BY <1>4, <1>5, <1>7, <2>1, <2>2
<1>9. imports'[b].base[k] = Null =>
        rows[k] = Null /\ \A c \in Open : Inserted(c, k) => c = b
  <2> SUFFICES ASSUME imports'[b].base[k] = Null
               PROVE  rows[k] = Null /\ \A c \in Open : Inserted(c, k) => c = b
    OBVIOUS
  <2>1. CASE row = Null
    BY <1>3, <1>4, <1>5, <2>1 DEF Held, Inserted
  <2>2. CASE row # Null
    BY <1>3, <1>4, <1>5, <1>7, <2>2
  <2> QED
    BY <2>1, <2>2
<1>10. Sessions'
  <2>1. \A c \in Open : c # b => \A h \in Keys : Inserted(c, h)' <=> Inserted(c, h)
    BY <1>1, <1>2 DEF Inserted
  <2>2. \A h \in Keys \ {k} : Inserted(b, h)' <=> Inserted(b, h)
    BY <1>1, <1>2 DEF Inserted
  <2>3. Inserted(b, k)' <=> imports'[b].base[k] = Null
    BY <1>2, <1>5 DEF Inserted
  <2>4. ASSUME NEW c \in Open, NEW h \in Keys, Inserted(c, h)'
        PROVE  rows[h] = Null /\ \A d \in Open : Inserted(d, h)' => d = c
    <3>1. CASE h = k
      <4>1. CASE c = b
        BY <1>9, <2>1, <2>3, <2>4, <3>1, <4>1
      <4>2. CASE c # b
        <5>1. Inserted(c, k)
          BY <2>1, <2>4, <3>1, <4>2
        <5>2. imports'[b].base[k] # Null
          BY <1>9, <4>2, <5>1
        <5>3. rows[k] # Null
          BY <1>8, <5>2
        <5> QED
          BY <1>1, <5>1, <5>3 DEF Sessions
      <4> QED
        BY <4>1, <4>2
    <3>2. CASE h # k
      <4>1. \A d \in Open : Inserted(d, h)' <=> Inserted(d, h)
        BY <2>1, <2>2, <3>2
      <4> QED
        BY <1>1, <2>4, <4>1 DEF Sessions
    <3> QED
      BY <3>1, <3>2
  <2>5. ASSUME NEW c \in Open, NEW h \in Keys, imports'[c].base[h] # Null
        PROVE  /\ imports'[c].copy[h] # Null /\ rows[h] # Null
               /\ \A f \in Fields(h) :
                    imports'[c].base[h].val[f] # Null => imports'[c].copy[h].val[f] # Null
    <3>1. CASE c = b /\ h = k
      BY <1>8, <2>5, <3>1
    <3>2. CASE c # b \/ h # k
      <4>1. imports'[c].base[h] = imports[c].base[h] /\ imports'[c].copy[h] = imports[c].copy[h]
        BY <1>1, <1>2, <3>2
      <4> QED
        BY <1>1, <2>5, <4>1 DEF Sessions
    <3> QED
      BY <3>1, <3>2
  <2> QED
    BY <1>2, <2>4, <2>5 DEF Sessions
<1> QED
  BY <1>6, <1>10 DEF EInv

LEMMA CommitErases ==
  ASSUME EInv, NEW b \in Open, Commit(b)
  PROVE  EInv'
<1>1. Typed /\ Sessions /\ Open \subseteq Batches
  BY ImportFacts DEF EInv
<1>2. /\ imports' \in Seq(Import) /\ Batches' = Batches
      /\ \A c \in Batches \ {b} : imports'[c] = imports[c]
      /\ \A k \in Keys : imports'[b].copy[k] = Null /\ imports'[b].base[k] = Null
      /\ Open' = Open \ {b} /\ rows' \in [Keys -> SomeRow]
      /\ \A k \in Keys : rows'[k] = Written(b, k)
  BY CommitStep
<1>3. \A k \in Keys : rows'[k] \in Row(k) \cup {Null}
  BY <1>2, WrittenFacts
<1>4. Typed'
  BY <1>1, <1>2, <1>3 DEF Typed
<1>5. \A k \in Keys : rows[k] # Null => rows'[k] # Null
  BY <1>1, <1>2, WrittenFacts, RowFacts DEF Typed
<1>6. ASSUME NEW c \in Open \ {b}, NEW k \in Keys, Inserted(c, k)
      PROVE  rows'[k] = Null
  <2>1. rows[k] = Null /\ (Inserted(b, k) => c = b)
    BY <1>1, <1>6 DEF Sessions
  <2>2. imports[b].copy[k] = Null
    BY <1>1, <2>1 DEF Sessions, Inserted
  <2> QED
    BY <1>2, <2>1, <2>2, WrittenFacts
<1>7. \A c \in Open \ {b}, k \in Keys : Inserted(c, k)' <=> Inserted(c, k)
  BY <1>1, <1>2 DEF Inserted
<1>8. ASSUME NEW c \in Open \ {b}, NEW k \in Keys
      PROVE  /\ imports'[c].base[k] # Null =>
                  /\ imports'[c].copy[k] # Null /\ rows'[k] # Null
                  /\ \A f \in Fields(k) :
                       imports'[c].base[k].val[f] # Null => imports'[c].copy[k].val[f] # Null
             /\ Inserted(c, k)' => rows'[k] = Null /\ \A d \in Open \ {b} : Inserted(d, k)' => d = c
  <2>1. imports'[c] = imports[c]
    BY <1>1, <1>2
  <2> QED
    BY <1>1, <1>5, <1>6, <1>7, <2>1 DEF Sessions
<1>9. Sessions'
  BY <1>2, <1>8 DEF Sessions
<1> QED
  BY <1>4, <1>9 DEF EInv

LEMMA RollBackErases ==
  ASSUME EInv, NEW b \in Open, RollBack(b)
  PROVE  EInv'
<1>1. Typed /\ Sessions /\ Open \subseteq Batches
  BY ImportFacts DEF EInv
<1>2. /\ imports' \in Seq(Import) /\ Batches' = Batches
      /\ \A c \in Batches \ {b} : imports'[c] = imports[c]
      /\ \A k \in Keys : imports'[b].copy[k] = Null /\ imports'[b].base[k] = Null
      /\ Open' = Open \ {b} /\ rows' = rows
  BY <1>1, RollBackStep
<1>3. Typed'
  BY <1>1, <1>2 DEF Typed
<1>4. Sessions'
  BY <1>1, <1>2 DEF Sessions, Inserted
<1> QED
  BY <1>3, <1>4 DEF EInv

LEMMA InitErases == Init => EInv
<1> SUFFICES ASSUME Init PROVE EInv
  OBVIOUS
<1>1. imports = <<>> /\ imports \in Seq(Import) /\ Batches = {} /\ Open = {}
  BY EmptySeq DEF Init, Batches, Open
<1>2. rows = [k \in Keys |-> Null] /\ rows \in [Keys -> SomeRow]
  BY DEF Init, SomeRow
<1> QED
  BY <1>1, <1>2 DEF EInv, Typed, Sessions

LEMMA StepErases == EInv /\ [Next]_vars => EInv'
<1> SUFFICES ASSUME EInv, [Next]_vars PROVE EInv'
  OBVIOUS
<1>1. CASE Next
  BY <1>1, BeginErases, UpsertErases, CommitErases, RollBackErases DEF Next
<1>2. CASE UNCHANGED vars
  BY <1>2 DEF EInv, Typed, Sessions, Inserted, Open, Batches, vars
<1> QED
  BY <1>1, <1>2

\* A value once known is never erased, however imports interleave: the unique index keeps two
\* sessions from inserting one row, and a session never clears what it has read.
THEOREM AlwaysUnerased == Spec => NeverErased
<1>1. ASSUME EInv, [Next]_vars
      PROVE  [\A k \in Keys : rows[k] # Null =>
                rows'[k] # Null /\ \A f \in Fields(k) : rows[k].val[f] # Null => rows'[k].val[f] # Null]_rows
  <2> SUFFICES ASSUME rows' # rows, NEW k \in Keys, rows[k] # Null
               PROVE  rows'[k] # Null /\ \A f \in Fields(k) : rows[k].val[f] # Null => rows'[k].val[f] # Null
    OBVIOUS
  <2>1. PICK b \in Open : Commit(b)
    BY <1>1 DEF Next, vars, history, Begin, Insert, Update, RollBack
  <2>2. rows'[k] = Written(b, k)
    BY <1>1, <2>1, CommitStep
  <2>3. rows'[k] \in Row(k)
    BY <1>1, <2>2, WrittenFacts, RowFacts DEF EInv, Typed
  <2>4. \A f \in Fields(k) : rows[k].val[f] # Null => rows'[k].val[f] # Null
    BY <1>1, <2>2, WrittenFacts
  <2> QED
    BY <2>3, <2>4, RowFacts
<1> QED
  BY <1>1, InitErases, StepErases, PTL DEF Spec, NeverErased

-----------------------------------------------------------------------------
(* Imports that do not overlap: marks stay in range.                         *)

\* An import that begins while another is open ends the hypothesis of the two invariants.
LEMMA AloneAfterBegin ==
  ASSUME Typed, NEW src \in Sources, Begin(src), ~overlapped'
  PROVE  ~overlapped /\ Open = {} /\ Open' = {Len(imports) + 1}
BY BeginStep

LEMMA BeginMarks ==
  ASSUME EInv, MInv, NEW src \in Sources, Begin(src)
  PROVE  MInv'
<1> SUFFICES ASSUME ~overlapped' PROVE (Alone /\ Marks)'
  BY DEF MInv
<1> PICK n : n = Len(imports) + 1
  OBVIOUS
<1>1. Typed /\ Open' = {n} /\ Marks
  BY AloneAfterBegin DEF EInv, MInv
<1>2. rows' = rows /\ \A k \in Keys : imports'[n].copy[k] = Null /\ imports'[n].base[k] = Null
  BY <1>1, BeginStep
<1>3. Alone'
  BY <1>1, <1>2 DEF Alone
<1>4. Marks'
  BY <1>1, <1>2 DEF Marks, InRange
<1> QED
  BY <1>3, <1>4

LEMMA UpsertMarks ==
  ASSUME EInv, MInv, NEW b \in Open, NEW o \in Offers, Insert(b, o) \/ Update(b, o)
  PROVE  MInv'
<1> PICK k : k = o.key
  OBVIOUS
<1> PICK row : row = Seen(b, k)
  OBVIOUS
<1> PICK src : src = imports[b].source
  OBVIOUS
<1>1. /\ Typed /\ Open \subseteq Batches /\ k \in Keys /\ b \in Batches
  BY ImportFacts, OffersAssumption DEF EInv
<1>2. /\ Open' = Open /\ rows' = rows /\ overlapped' = overlapped
      /\ \A c \in Batches \ {b} : imports'[c] = imports[c]
      /\ \A h \in Keys \ {k} : /\ imports'[b].copy[h] = imports[b].copy[h]
                               /\ imports'[b].base[h] = imports[b].base[h]
      /\ imports'[b].copy[k] \in Row(k)
  BY <1>1, UpsertStep
<1> SUFFICES ASSUME ~overlapped PROVE (Alone /\ Marks)'
  BY <1>2 DEF MInv
<1>3. \/ /\ row = Null /\ imports'[b].copy[k].val = o.val /\ imports'[b].base[k] = Null
      \/ /\ row \in Row(k) /\ imports'[b].copy[k] = Merged(row, o, src, b)
         /\ imports'[b].base[k] = IF imports[b].copy[k] = Null THEN row ELSE imports[b].base[k]
  BY <1>1, UpsertStep
<1>4. row = IF imports[b].copy[k] # Null THEN imports[b].copy[k] ELSE rows[k]
  BY DEF Seen
<1>5. Alone /\ Marks
  BY DEF MInv
<1>6. Alone'
  <2>1. imports'[b].base[k] # Null => imports'[b].base[k] = rows[k]
    BY <1>1, <1>3, <1>4, <1>5 DEF Alone
  <2>2. \A c \in Open : c = b
    BY <1>5 DEF Alone
  <2>3. \A h \in Keys : imports'[b].base[h] # Null => imports'[b].base[h] = rows[h]
    BY <1>2, <1>5, <2>1 DEF Alone
  <2> QED
    BY <1>2, <2>2, <2>3 DEF Alone
<1>7. InRange(k, imports'[b].copy[k])
  <2>1. CASE row = Null
    <3>1. imports'[b].copy[k].val = o.val
      BY <1>1, <1>3, <2>1, RowFacts
    <3>2. TableOf[k] = "internal_marks" =>
            {o.val["obtained"], o.val["max_marks"]} \subseteq Nat /\ o.val["obtained"] <= o.val["max_marks"]
      BY MarksAssumption
    <3> QED
      BY <3>1, <3>2 DEF InRange
  <2>2. CASE row # Null
    <3>1. row \in Row(k) /\ imports'[b].copy[k] = Merged(row, o, src, b)
      BY <1>3, <2>2
    <3>2. InRange(k, row)
      BY <1>1, <1>4, <1>5 DEF Marks
    <3> QED
      BY <3>1, <3>2, MergedMarks
  <2> QED
    BY <2>1, <2>2
<1>8. Marks'
  <2>1. \A c \in Open : c = b
    BY <1>5 DEF Alone
  <2>2. \A h \in Keys : InRange(h, imports'[b].copy[h])
    BY <1>2, <1>5, <1>7 DEF Marks
  <2>3. \A h \in Keys : InRange(h, rows'[h])
    BY <1>2, <1>5 DEF Marks
  <2> QED
    BY <1>2, <2>1, <2>2, <2>3 DEF Marks, InRange
<1> QED
  BY <1>6, <1>8

\* When no other import is open, what a commit writes is what its session holds.
LEMMA WrittenAlone ==
  ASSUME EInv, Alone, NEW b \in Open, NEW k \in Keys
  PROVE  IF imports[b].copy[k] = Null THEN Written(b, k) = rows[k]
         ELSE /\ Written(b, k) \in Row(k) /\ Written(b, k).source = imports[b].copy[k].source
              /\ \A f \in Fields(k) : Written(b, k).val[f] = imports[b].copy[k].val[f]
<1>1. imports[b].base[k] \in {Null, rows[k]}
  BY DEF Alone
<1> QED
  BY <1>1, WrittenFacts

LEMMA EndMarks ==
  ASSUME EInv, MInv, NEW b \in Open, Commit(b) \/ RollBack(b)
  PROVE  MInv'
<1>1. Typed /\ Open' = Open \ {b} /\ overlapped' = overlapped
  BY CommitStep, RollBackStep DEF EInv
<1> SUFFICES ASSUME ~overlapped PROVE (Alone /\ Marks)'
  BY <1>1 DEF MInv
<1>2. Alone /\ Marks /\ Open' = {}
  BY <1>1 DEF MInv, Alone
<1>3. Alone'
  BY <1>2 DEF Alone
<1>4. ASSUME NEW k \in Keys PROVE InRange(k, rows'[k])
  <2>1. CASE RollBack(b)
    BY <1>1, <1>2, <2>1, RollBackStep DEF Marks
  <2>2. CASE Commit(b)
    <3>1. rows'[k] = Written(b, k)
      BY <2>2, CommitStep
    <3>2. InRange(k, rows[k]) /\ InRange(k, imports[b].copy[k])
      BY <1>2 DEF Marks
    <3>3. CASE imports[b].copy[k] = Null
      BY <1>2, <3>1, <3>2, <3>3, WrittenAlone
    <3>4. CASE imports[b].copy[k] # Null
      <4>1. \A f \in Fields(k) : rows'[k].val[f] = imports[b].copy[k].val[f]
        BY <1>2, <3>1, <3>4, WrittenAlone
      <4>2. TableOf[k] = "internal_marks" => {"obtained", "max_marks"} \subseteq Fields(k)
        BY DEF Fields, Governed, Table, InternalMark
      <4> QED
        BY <3>2, <3>4, <4>1, <4>2 DEF InRange
    <3> QED
      BY <3>3, <3>4
  <2> QED
    BY <2>1, <2>2
<1>5. Marks'
  BY <1>2, <1>4 DEF Marks, InRange
<1> QED
  BY <1>3, <1>5

LEMMA InitMarks == Init => MInv
<1> SUFFICES ASSUME Init PROVE MInv
  OBVIOUS
<1>1. Open = {} /\ \A k \in Keys : rows[k] = Null
  BY DEF Init, Open, Batches
<1> QED
  BY <1>1 DEF MInv, Alone, Marks, InRange

LEMMA StepMarks == EInv /\ MInv /\ [Next]_vars => MInv'
<1> SUFFICES ASSUME EInv, MInv, [Next]_vars PROVE MInv'
  OBVIOUS
<1>1. CASE Next
  BY <1>1, BeginMarks, UpsertMarks, EndMarks DEF Next
<1>2. CASE UNCHANGED vars
  BY <1>2 DEF MInv, Alone, Marks, InRange, Open, Batches, vars, history
<1> QED
  BY <1>1, <1>2

\* Imports that do not overlap keep every canonical mark within its maximum: the two fields of
\* a mark are taken together or kept together.
THEOREM AlwaysInRange == Spec => []MarksInRange
<1>1. MInv => MarksInRange
  BY DEF MInv, Marks, InRange, MarksInRange
<1> QED
  BY <1>1, InitErases, StepErases, InitMarks, StepMarks, PTL DEF Spec

-----------------------------------------------------------------------------
(* Imports that do not overlap: a row of one source says what it said last.  *)

\* What b has read after one more row.
LEMMA OffersStep ==
  ASSUME Typed, NEW b \in Open, NEW o \in Offers, Insert(b, o) \/ Update(b, o)
  PROVE  LET n == Len(imports[b].rows) + 1
         IN  /\ n \in Nat /\ imports'[b].rows[n] = o
             /\ \A k \in Keys : OffersOf(b, k) \subseteq 1 .. n - 1
             /\ \A i \in 1 .. n - 1 : imports'[b].rows[i] = imports[b].rows[i]
             /\ OffersOf(b, o.key)' = OffersOf(b, o.key) \cup {n}
             /\ \A k \in Keys \ {o.key} : OffersOf(b, k)' = OffersOf(b, k)
<1> PICK s : s = imports[b].rows
  OBVIOUS
<1> PICK n : n = Len(s) + 1
  OBVIOUS
<1>1. s \in Seq(Offers)
  BY ImportFacts
<1>2. imports'[b].rows = Append(s, o)
  BY UpsertStep
<1>3. /\ Append(s, o) \in Seq(Offers) /\ Len(Append(s, o)) = n /\ Append(s, o)[n] = o
      /\ \A i \in 1 .. Len(s) : Append(s, o)[i] = s[i]
  BY <1>1, AppendProperties
<1>4. Len(s) \in Nat /\ DOMAIN s = 1 .. n - 1 /\ DOMAIN Append(s, o) = 1 .. n
  BY <1>1, <1>3, LenProperties
<1>5. \A k : OffersOf(b, k) = {i \in 1 .. n - 1 : s[i].key = k}
  BY <1>4 DEF OffersOf
<1>6. \A k : OffersOf(b, k)' = {i \in 1 .. n : Append(s, o)[i].key = k}
  BY <1>2, <1>4 DEF OffersOf
<1>7. n \in Nat /\ 1 .. n = (1 .. n - 1) \cup {n} /\ Len(s) = n - 1
  BY <1>4
<1>8. OffersOf(b, o.key)' = OffersOf(b, o.key) \cup {n}
  BY <1>3, <1>5, <1>6, <1>7
<1>9. ASSUME NEW k \in Keys \ {o.key} PROVE OffersOf(b, k)' = OffersOf(b, k)
  <2>1. \A i \in 1 .. n : Append(s, o)[i].key = k <=> i \in 1 .. n - 1 /\ s[i].key = k
    BY <1>3, <1>7
  <2>2. OffersOf(b, k)' = {i \in 1 .. n : Append(s, o)[i].key = k}
    BY <1>6
  <2>3. OffersOf(b, k) = {i \in 1 .. n - 1 : s[i].key = k}
    BY <1>5
  <2> QED
    BY ONLY <1>7, <2>1, <2>2, <2>3
<1> QED
  BY <1>2, <1>3, <1>5, <1>7, <1>8, <1>9

LEMMA BeginTold ==
  ASSUME EInv, TInv, NEW src \in Sources, Begin(src)
  PROVE  TInv'
<1> SUFFICES ASSUME ~overlapped' PROVE (Told /\ Telling)'
  BY DEF TInv
<1> PICK n : n = Len(imports) + 1
  OBVIOUS
<1>1. Typed /\ Open' = {n} /\ Told
  BY AloneAfterBegin DEF EInv, TInv
<1>2. /\ rows' = rows /\ told' = told /\ imports'[n].rows = <<>>
      /\ \A k \in Keys : imports'[n].copy[k] = Null
  BY <1>1, BeginStep
<1>3. Told'
  BY <1>1, <1>2 DEF Told
<1>4. \A k \in Keys : OffersOf(n, k)' = {}
  <2>1. DOMAIN imports'[n].rows = {}
    BY <1>2
  <2> QED
    BY <2>1 DEF OffersOf
<1>5. Telling'
  BY <1>1, <1>2, <1>4 DEF Telling
<1> QED
  BY <1>3, <1>5

LEMMA UpsertTold ==
  ASSUME EInv, MInv, TInv, NEW b \in Open, NEW o \in Offers, Insert(b, o) \/ Update(b, o)
  PROVE  TInv'
<1> PICK k : k = o.key
  OBVIOUS
<1> PICK row : row = Seen(b, k)
  OBVIOUS
<1> PICK src : src = imports[b].source
  OBVIOUS
<1> PICK n : n = Len(imports[b].rows) + 1
  OBVIOUS
<1> PICK copy : copy = imports'[b].copy[k]
  OBVIOUS
<1>1. /\ Typed /\ Open \subseteq Batches /\ k \in Keys /\ b \in Batches /\ b \in Nat /\ src \in Sources
  BY ImportFacts, OffersAssumption DEF EInv
<1>2. /\ Open' = Open /\ rows' = rows /\ told' = told /\ overlapped' = overlapped
      /\ imports'[b].source = src
      /\ \A h \in Keys \ {k} : imports'[b].copy[h] = imports[b].copy[h]
      /\ copy \in Row(k) /\ copy.source = src
  BY <1>1, UpsertStep
<1> SUFFICES ASSUME ~overlapped PROVE (Told /\ Telling)'
  BY <1>2 DEF TInv
<1>3. \/ /\ row = Null /\ copy.val = o.val
      \/ /\ row \in Row(k) /\ copy = Merged(row, o, src, b)
  BY <1>1, UpsertStep
<1>4. row = IF imports[b].copy[k] # Null THEN imports[b].copy[k] ELSE rows[k]
  BY DEF Seen
<1>5. Told /\ Telling /\ \A c \in Open : c = b
  BY DEF TInv, MInv, Alone
<1>6. Told'
  BY <1>2, <1>5 DEF Told
<1>7. /\ n \in Nat /\ imports'[b].rows[n] = o
      /\ \A h \in Keys : OffersOf(b, h) \subseteq 1 .. n - 1
      /\ \A i \in 1 .. n - 1 : imports'[b].rows[i] = imports[b].rows[i]
      /\ OffersOf(b, k)' = OffersOf(b, k) \cup {n}
      /\ \A h \in Keys \ {k} : OffersOf(b, h)' = OffersOf(b, h)
  BY <1>1, OffersStep
<1>8. ASSUME NEW h \in Keys, NEW f, h # k \/ o.val[f] = Null
      PROVE  /\ Giving(b, h, f)' = Giving(b, h, f)
             /\ \A v : Latest(b, h, f, v) => Latest(b, h, f, v)'
  <2>1. Giving(b, h, f)' = Giving(b, h, f)
    <3>1. \A i \in OffersOf(b, h) : imports'[b].rows[i] = imports[b].rows[i]
      BY <1>7
    <3>2. h # k => OffersOf(b, h)' = OffersOf(b, h)
      BY <1>7
    <3>3. h = k => OffersOf(b, h)' = OffersOf(b, h) \cup {n} /\ imports'[b].rows[n].val[f] = Null
      BY <1>7, <1>8
    <3> QED
      BY <3>1, <3>2, <3>3 DEF Giving
  <2>2. \A i \in Giving(b, h, f) : imports'[b].rows[i] = imports[b].rows[i]
    BY <1>7 DEF Giving
  <2> QED
    BY <1>2, <2>1, <2>2 DEF Latest
<1>9. ASSUME told[k].sources \subseteq {src}, NEW f \in Fields(k)
      PROVE  Latest(b, k, f, copy.val[f])'
  <2>1. row # Null => row.source = src
    <3>1. imports[b].copy[k] # Null => imports[b].copy[k].source = src
      BY <1>1, <1>5 DEF Telling
    <3>2. rows[k] # Null => rows[k].source = src
      <4>1. rows[k] # Null => told[k].sources # {}
        BY <1>1, <1>5 DEF Told
      <4>2. rows[k] # Null => told[k].sources = {src}
        BY <1>9, <4>1
      <4> QED
        BY <1>1, <1>5, <4>2 DEF Told
    <3> QED
      BY <1>4, <3>1, <3>2
  <2>2. row # Null => copy.val[f] = IF o.val[f] # Null THEN o.val[f] ELSE row.val[f]
    BY <1>1, <1>3, <2>1, MergedFacts
  <2>3. row = Null => copy.val[f] = o.val[f]
    BY <1>1, <1>3, RowFacts
  <2>4. CASE o.val[f] # Null
    <3>1. Giving(b, k, f)' = Giving(b, k, f) \cup {n}
      <4>1. \A i \in OffersOf(b, k) : imports'[b].rows[i] = imports[b].rows[i]
        BY <1>1, <1>7
      <4> QED
        BY <1>7, <2>4, <4>1 DEF Giving
    <3>2. \A j \in Giving(b, k, f) : j <= n
      BY <1>1, <1>7 DEF Giving
    <3>3. \A j \in Giving(b, k, f)' : j <= n
      BY <1>7, <3>1, <3>2
    <3>4. copy.val[f] = imports'[b].rows[n].val[f]
      BY <1>7, <2>2, <2>3, <2>4
    <3> QED
      BY <3>1, <3>3, <3>4 DEF Latest
  <2>5. CASE o.val[f] = Null
    <3>1. Latest(b, k, f, copy.val[f])
      <4>1. CASE imports[b].copy[k] # Null
        <5>1. copy.val[f] = imports[b].copy[k].val[f]
          BY <1>4, <2>2, <2>5, <4>1
        <5> QED
          BY <1>1, <1>5, <1>9, <4>1, <5>1 DEF Telling
      <4>2. CASE imports[b].copy[k] = Null
        <5>1. OffersOf(b, k) = {}
          BY <1>1, <1>5, <4>2 DEF Telling
        <5>2. Giving(b, k, f) = {}
          BY <5>1 DEF Giving
        <5>3. copy.val[f] = told[k].last[f]
          <6>1. rows[k] = Null => told[k].last[f] = Null
            BY <1>1, <1>5, UntoldFacts
          <6>2. rows[k] # Null => rows[k].val[f] = told[k].last[f]
            <7>1. rows[k] # Null => told[k].sources # {}
              BY <1>1, <1>5 DEF Told
            <7>2. rows[k] # Null => told[k].sources = {src}
              BY <1>9, <7>1
            <7> QED
              BY <1>1, <1>5, <7>2 DEF Told
          <6> QED
            BY <1>4, <2>2, <2>3, <2>5, <4>2, <6>1, <6>2
        <5> QED
          BY <5>2, <5>3 DEF Latest
      <4> QED
        BY <4>1, <4>2
    <3> QED
      BY <1>1, <1>8, <2>5, <3>1
  <2> QED
    BY <2>4, <2>5
<1>10. ASSUME NEW h \in Keys
       PROVE  /\ imports'[b].copy[h] = Null <=> OffersOf(b, h)' = {}
              /\ imports'[b].copy[h] # Null =>
                   /\ imports'[b].copy[h].source = src
                   /\ told[h].sources \subseteq {src} =>
                        \A f \in Fields(h) : Latest(b, h, f, imports[b].copy[h].val[f])'
  <2>1. CASE h = k
    <3>1. copy # Null /\ OffersOf(b, k)' # {}
      BY <1>1, <1>2, <1>7, RowFacts
    <3>2. ASSUME told[k].sources \subseteq {src}, NEW f \in Fields(k)
          PROVE  Latest(b, k, f, imports[b].copy[k].val[f])'
      <4>1. Latest(b, k, f, copy.val[f])'
        BY <1>9, <3>2
      <4>2. copy.val[f] = imports'[b].copy[k].val[f]
        OBVIOUS
      <4> QED
        BY ONLY <4>1, <4>2 DEF Latest
    <3> QED
      BY <1>2, <2>1, <3>1, <3>2
  <2>2. CASE h # k
    <3>1. /\ imports[b].copy[h] = Null <=> OffersOf(b, h) = {}
          /\ imports[b].copy[h] # Null =>
               /\ imports[b].copy[h].source = src
               /\ told[h].sources \subseteq {src} =>
                    \A f \in Fields(h) : Latest(b, h, f, imports[b].copy[h].val[f])
      BY <1>5 DEF Telling
    <3>2. imports'[b].copy[h] = imports[b].copy[h] /\ OffersOf(b, h)' = OffersOf(b, h)
      BY <1>2, <1>7, <2>2
    <3>3. ASSUME imports[b].copy[h] # Null, told[h].sources \subseteq {src}, NEW f \in Fields(h)
          PROVE  Latest(b, h, f, imports[b].copy[h].val[f])'
      <4> PICK v : v = imports[b].copy[h].val[f]
        OBVIOUS
      <4>1. Latest(b, h, f, v)
        BY <3>1, <3>3
      <4>2. Latest(b, h, f, v)'
        BY <1>8, <2>2, <4>1
      <4>3. v = imports'[b].copy[h].val[f]
        BY <3>2
      <4> QED
        BY ONLY <4>2, <4>3 DEF Latest
    <3> QED
      BY <3>1, <3>2, <3>3
  <2> QED
    BY <2>1, <2>2
<1>11. Telling'
  <2>1. \A c \in Open' : c = b
    BY <1>2, <1>5
  <2>2. told' = told /\ imports'[b].source = src
    BY <1>2
  <2> QED
    BY ONLY <1>10, <2>1, <2>2 DEF Telling
<1> QED
  BY <1>6, <1>11

LEMMA RollBackTold ==
  ASSUME EInv, MInv, TInv, NEW b \in Open, RollBack(b)
  PROVE  TInv'
<1>1. Typed /\ Open' = Open \ {b} /\ rows' = rows /\ told' = told /\ overlapped' = overlapped
  BY RollBackStep DEF EInv
<1> SUFFICES ASSUME ~overlapped PROVE (Told /\ Telling)'
  BY <1>1 DEF TInv
<1>2. Told /\ Open' = {}
  BY <1>1 DEF TInv, MInv, Alone
<1>3. Told'
  BY <1>1, <1>2 DEF Told
<1>4. Telling'
  BY <1>2 DEF Telling
<1> QED
  BY <1>3, <1>4

LEMMA CommitTold ==
  ASSUME EInv, MInv, TInv, NEW b \in Open, Commit(b)
  PROVE  TInv'
<1> PICK src : src = imports[b].source
  OBVIOUS
<1>1. /\ Typed /\ Open' = Open \ {b} /\ overlapped' = overlapped
      /\ \A k \in Keys : rows'[k] = Written(b, k)
  BY CommitStep DEF EInv
<1>2. src \in Sources /\ b \in Batches
  BY <1>1, ImportFacts
<1> SUFFICES ASSUME ~overlapped PROVE (Told /\ Telling)'
  BY <1>1 DEF TInv
<1>3. Told /\ Telling /\ Alone /\ Open' = {}
  BY <1>1 DEF TInv, MInv, Alone
<1>4. Telling'
  BY <1>3 DEF Telling
<1>5. told' = [k \in Keys |->
        [sources |-> IF OffersOf(b, k) # {} THEN told[k].sources \cup {src} ELSE told[k].sources,
         last |-> [f \in Fields(k) |-> LastTold(b, k, f)]]]
  BY DEF Commit, Remember
<1>6. ASSUME NEW k \in Keys
      PROVE  /\ told'[k].sources \subseteq Sources /\ IsFiniteSet(told'[k].sources)
             /\ told'[k].last = [f \in Fields(k) |-> told'[k].last[f]]
             /\ rows'[k] = Null <=> told'[k].sources = {}
             /\ rows'[k] = Null => \A f \in Fields(k) : told'[k].last[f] = Null
             /\ \A s \in Sources : told'[k].sources = {s} =>
                  rows'[k].source = s /\ \A f \in Fields(k) : rows'[k].val[f] = told'[k].last[f]
  <2> PICK copy : copy = imports[b].copy[k]
    OBVIOUS
  <2>1. /\ told'[k].sources =
             IF OffersOf(b, k) # {} THEN told[k].sources \cup {src} ELSE told[k].sources
        /\ told'[k].last = [f \in Fields(k) |-> LastTold(b, k, f)]
    BY <1>5
  <2>2. /\ told[k].sources \subseteq Sources /\ IsFiniteSet(told[k].sources)
        /\ told[k].last = [f \in Fields(k) |-> told[k].last[f]]
        /\ rows[k] = Null <=> told[k].sources = {}
        /\ rows[k] = Null => \A f \in Fields(k) : told[k].last[f] = Null
        /\ \A s \in Sources : told[k].sources = {s} =>
             rows[k].source = s /\ \A f \in Fields(k) : rows[k].val[f] = told[k].last[f]
    BY <1>3 DEF Told
  <2>3. told'[k].sources \subseteq Sources /\ IsFiniteSet(told'[k].sources)
    BY <1>2, <2>1, <2>2, FS_AddElement, SMTT(30)
  <2>4. told'[k].last = [f \in Fields(k) |-> told'[k].last[f]]
    BY <2>1
  <2>5. /\ copy = Null <=> OffersOf(b, k) = {}
        /\ copy # Null =>
             /\ copy.source = src
             /\ told[k].sources \subseteq {src} =>
                  \A f \in Fields(k) : Latest(b, k, f, copy.val[f])
    BY <1>3 DEF Telling
  <2>6. CASE copy = Null
    <3>1. rows'[k] = rows[k]
      BY <1>1, <1>3, <2>6, WrittenAlone, ZenonT(30)
    <3>2. \A f \in Fields(k) : told'[k].last[f] = told[k].last[f]
      BY <2>1, <2>5, <2>6 DEF LastTold, Giving
    <3>3. told'[k].sources = told[k].sources
      BY <2>1, <2>5, <2>6
    <3> QED
      BY <2>2, <2>3, <2>4, <3>1, <3>2, <3>3
  <2>7. CASE copy # Null
    <3>1. /\ rows'[k] \in Row(k) /\ rows'[k].source = src
          /\ \A f \in Fields(k) : rows'[k].val[f] = copy.val[f]
      BY <1>1, <1>3, <2>5, <2>7, WrittenAlone
    <3>2. told'[k].sources = told[k].sources \cup {src} /\ rows'[k] # Null
      BY <2>1, <2>5, <2>7, <3>1, RowFacts
    <3>3. ASSUME NEW s \in Sources, told'[k].sources = {s}, NEW f \in Fields(k)
          PROVE  copy.val[f] = told'[k].last[f]
      <4>1. Latest(b, k, f, copy.val[f])
        BY <2>5, <2>7, <3>2, <3>3
      <4>2. told'[k].last[f] = LastTold(b, k, f)
        BY <2>1
      <4>3. CASE Giving(b, k, f) = {}
        BY <4>1, <4>2, <4>3 DEF Latest, LastTold
      <4>4. CASE Giving(b, k, f) # {}
        <5>1. PICK i \in Giving(b, k, f) :
                (\A j \in Giving(b, k, f) : j <= i) /\ copy.val[f] = imports[b].rows[i].val[f]
          BY <4>1, <4>4 DEF Latest
        <5>2. Giving(b, k, f) \subseteq Int
          <6>1. imports[b].rows \in Seq(Offers)
            BY <1>1, <1>2, ImportFacts
          <6>2. DOMAIN imports[b].rows \subseteq Int
            BY <6>1, LenProperties
          <6> QED
            BY <6>2 DEF Giving, OffersOf
        <5>3. Max(Giving(b, k, f)) = i
          BY <5>1, <5>2 DEF Max
        <5> QED
          BY <4>2, <4>4, <5>1, <5>3 DEF LastTold
      <4> QED
        BY <4>3, <4>4
    <3>4. \A s \in Sources : told'[k].sources = {s} => s = src
      BY <3>2
    <3> QED
      BY <2>3, <2>4, <3>1, <3>2, <3>3, <3>4
  <2> QED
    BY <2>6, <2>7
<1>7. Told'
  BY <1>6 DEF Told
<1> QED
  BY <1>4, <1>7

LEMMA InitTold == Init => TInv
<1> SUFFICES ASSUME Init PROVE Told /\ Telling
  BY DEF TInv
<1>1. Open = {}
  BY DEF Init, Open, Batches
<1>2. \A k \in Keys : /\ rows[k] = Null /\ told[k].sources = {}
                      /\ told[k].last = [f \in Fields(k) |-> Null]
  BY DEF Init, Nothing
<1>3. IsFiniteSet({})
  BY FS_EmptySet
<1>4. Told
  <2>1. ASSUME NEW k \in Keys
        PROVE  /\ told[k].last = [f \in Fields(k) |-> told[k].last[f]]
               /\ \A f \in Fields(k) : told[k].last[f] = Null
    BY <1>2
  <2> QED
    BY <1>2, <1>3, <2>1 DEF Told
<1> QED
  BY <1>1, <1>4 DEF Telling

LEMMA StepTold == EInv /\ MInv /\ TInv /\ [Next]_vars => TInv'
<1> SUFFICES ASSUME EInv, MInv, TInv, [Next]_vars PROVE TInv'
  OBVIOUS
<1>1. CASE Next
  BY <1>1, BeginTold, UpsertTold, CommitTold, RollBackTold DEF Next
<1>2. CASE UNCHANGED vars
  <2>1. UNCHANGED <<rows, imports, told, overlapped>>
    BY <1>2 DEF vars, history
  <2>2. Told => Told'
    BY <2>1 DEF Told
  <2>3. Telling => Telling'
    BY <2>1 DEF Telling, Latest, Giving, OffersOf, Open, Batches
  <2> QED
    BY <2>1, <2>2, <2>3 DEF TInv
<1> QED
  BY <1>1, <1>2

\* As long as imports do not overlap and one source has told of a row, the row says, field by
\* field, what that source said last.
THEOREM AlwaysLatest == Spec => []LatestFromOneSource
<1>1. EInv /\ TInv => LatestFromOneSource
  <2> SUFFICES ASSUME EInv, TInv, ~overlapped, NEW k \in Keys, Cardinality(told[k].sources) = 1
               PROVE  rows[k].val = told[k].last
    BY DEF LatestFromOneSource
  <2>1. /\ told[k].sources \subseteq Sources /\ IsFiniteSet(told[k].sources)
        /\ told[k].last = [f \in Fields(k) |-> told[k].last[f]]
        /\ rows[k] = Null <=> told[k].sources = {}
        /\ \A s \in Sources : told[k].sources = {s} =>
             rows[k].source = s /\ \A f \in Fields(k) : rows[k].val[f] = told[k].last[f]
    BY DEF TInv, Told
  <2>2. PICK s : told[k].sources = {s}
    BY <2>1, FS_Singleton
  <2>3. s \in Sources /\ rows[k] # Null
    BY <2>1, <2>2
  <2>4. rows[k].val \in [Fields(k) -> Values]
    BY <2>3, RowFacts DEF EInv, Typed
  <2> QED
    BY <2>1, <2>2, <2>3, <2>4
<1> QED
  BY <1>1, InitErases, StepErases, InitMarks, StepMarks, InitTold, StepTold, PTL DEF Spec
=============================================================================
