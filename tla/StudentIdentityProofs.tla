------------------------ MODULE StudentIdentityProofs ------------------------
(* Machine-checked proofs about StudentIdentity: whatever the rows, their    *)
(* likeness, the sources and the imports that overlap and fail, the rows of  *)
(* one source with one roll number all land in one student, and likeness     *)
(* loses only a student whose birthday is unsent and joins no two birthdays. *)
EXTENDS StudentIdentity, TLAPS

\* the natural key of a link
SameKey(l, k) == l.source = k.source /\ l.roll = k.roll
Link(b, roll, s) == [source |-> imports[b].source, roll |-> roll, student |-> s]

ImportsTyped ==
  /\ imports = [b \in Imports |-> imports[b]]
  /\ \A b \in Open : imports[b] =
       [source |-> imports[b].source, students |-> imports[b].students, sent |-> imports[b].sent,
        links |-> imports[b].links, reviews |-> imports[b].reviews, loaded |-> imports[b].loaded]

LinksTyped ==
  LET Typed(ls) == \A l \in ls : l = [source |-> l.source, roll |-> l.roll, student |-> l.student]
  IN  Typed(links) /\ \A b \in Open : Typed(imports[b].links)

\* what is committed
LinksFunctional == \A l, k \in links : SameKey(l, k) => l.student = k.student
LandedByLink == \A x \in landed : [source |-> x[1], roll |-> x[2], student |-> x[3]] \in links

\* what an open import has written and will commit
OpenLinks ==
  \A b \in Open :
    /\ \A l \in imports[b].links :
         /\ l.source = imports[b].source
         /\ \A k \in LinksSeen(b) : SameKey(l, k) => l.student = k.student
    /\ \A x \in imports[b].loaded : Link(b, x[1], x[2]) \in LinksSeen(b)
\* the unique index on (tenant, entity type, source, source id)
OneWriter ==
  \A b, o \in Open : b # o => \A l \in imports[b].links, k \in imports[o].links : ~SameKey(l, k)

IInv == ImportsTyped /\ LinksTyped /\ LinksFunctional /\ LandedByLink /\ OpenLinks /\ OneWriter

-----------------------------------------------------------------------------
LEMMA InitInv == Init => IInv
BY DEF Init, IInv, ImportsTyped, LinksTyped, LinksFunctional, LandedByLink, OpenLinks, OneWriter, Open

\* A row that lands in s either finds its link or writes one that no open import has.
LEMMA RowInv ==
  ASSUME IInv, NEW b \in Open, NEW roll, NEW s, UNCHANGED <<links, landed>>,
         imports' = [o \in Imports |-> imports'[o]],
         \A o \in Imports \ {b} : imports'[o] = imports[o],
         imports'[b] = [source |-> imports[b].source, students |-> imports'[b].students,
                        sent |-> imports'[b].sent, links |-> imports'[b].links,
                        reviews |-> imports'[b].reviews, loaded |-> imports'[b].loaded],
         \/ imports'[b].links = imports[b].links /\ imports'[b].loaded = imports[b].loaded
         \/ /\ imports'[b].loaded \subseteq imports[b].loaded \cup {<<roll, s>>}
            /\ imports'[b].links = imports[b].links /\ Link(b, roll, s) \in LinksSeen(b)
         \/ /\ imports'[b].loaded \subseteq imports[b].loaded \cup {<<roll, s>>}
            /\ imports'[b].links = imports[b].links \cup {Link(b, roll, s)}
            /\ Linked(b, roll) = {} /\ ~RollHeld(b, roll)
  PROVE  IInv'
<1> DEFINE new == Link(b, roll, s)
<1>0. b \in Imports /\ Open' \subseteq Open /\ \A o \in Open' \ {b} : o \in Imports /\ imports'[o] = imports[o]
  BY DEF Open
<1>1. imports'[b].source = imports[b].source
  OBVIOUS
<1>2. ImportsTyped' /\ LinksTyped' /\ LinksFunctional' /\ LandedByLink'
  <2>1. imports'[b].links \subseteq imports[b].links \cup {new}
    OBVIOUS
  <2>2. new = [source |-> new.source, roll |-> new.roll, student |-> new.student]
    BY DEF Link
  <2>3. LinksTyped'
    BY <1>0, <2>1, <2>2 DEF IInv, LinksTyped
  <2> QED BY <1>0, <1>1, <2>3 DEF IInv, ImportsTyped, LinksFunctional, LandedByLink
<1>3. LinksSeen(b) \subseteq LinksSeen(b)'
  BY DEF LinksSeen
<1>4. CASE imports'[b].links = imports[b].links
  <2>1. imports'[b].links = imports[b].links
    BY <1>4
  <2>2. LinksSeen(b)' = LinksSeen(b)
    BY <2>1 DEF LinksSeen
  <2>3. \A o \in Open' \ {b} : LinksSeen(o)' = LinksSeen(o)
    BY <1>0 DEF LinksSeen
  <2>4. \A x \in imports'[b].loaded : Link(b, x[1], x[2])' \in LinksSeen(b)'
    <3>1. \A x \in imports[b].loaded : Link(b, x[1], x[2]) \in LinksSeen(b)
      BY DEF IInv, OpenLinks
    <3>2. new \in LinksSeen(b) \/ imports'[b].loaded = imports[b].loaded
      BY <2>1 DEF LinksSeen
    <3>3. imports'[b].loaded \subseteq imports[b].loaded \cup {<<roll, s>>}
      OBVIOUS
    <3>4. \A x : Link(b, x[1], x[2])' = Link(b, x[1], x[2])
      BY <1>1 DEF Link
    <3>5. Link(b, <<roll, s>>[1], <<roll, s>>[2]) = new
      BY DEF Link
    <3> HIDE DEF new
    <3> QED BY <2>2, <3>1, <3>2, <3>3, <3>4, <3>5
  <2>5. OpenLinks'
    BY <1>0, <1>1, <2>1, <2>2, <2>3, <2>4 DEF IInv, OpenLinks, Link
  <2>6. OneWriter'
    BY <1>0, <2>1 DEF IInv, OneWriter
  <2> QED BY <1>2, <2>5, <2>6 DEF IInv
<1>5. CASE imports'[b].links # imports[b].links
  <2>1. /\ imports'[b].links = imports[b].links \cup {new}
        /\ Linked(b, roll) = {} /\ ~RollHeld(b, roll)
        /\ imports'[b].loaded \subseteq imports[b].loaded \cup {<<roll, s>>}
    BY <1>5
  <2>2. LinksSeen(b)' = LinksSeen(b) \cup {new}
    BY <2>1 DEF LinksSeen
  <2>3. \A k \in LinksSeen(b) : ~SameKey(new, k)
    BY <2>1 DEF Linked, SameKey, Link
  <2>4. \A o \in Open \ {b} : \A k \in imports[o].links : ~SameKey(new, k)
    BY <2>1 DEF RollHeld, SameKey, Link
  <2>5. new.source = imports[b].source /\ imports[b].links \subseteq LinksSeen(b)
    BY DEF Link, LinksSeen
  <2>6. ASSUME NEW l \in imports'[b].links PROVE
          l.source = imports[b].source /\ \A k \in LinksSeen(b)' : SameKey(l, k) => l.student = k.student
    <3>1. CASE l = new
      BY <2>2, <2>3, <2>5, <3>1
    <3>2. CASE l # new
      <4>1. l \in imports[b].links /\ l \in LinksSeen(b)
        BY <2>1, <2>5, <3>2
      <4>2. ~SameKey(l, new)
        BY <2>3, <4>1 DEF SameKey
      <4> QED BY <2>2, <4>1, <4>2 DEF IInv, OpenLinks
    <3> QED BY <3>1, <3>2
  <2>7. \A x \in imports'[b].loaded : Link(b, x[1], x[2])' \in LinksSeen(b)'
    <3>1. \A x \in imports[b].loaded : Link(b, x[1], x[2]) \in LinksSeen(b)
      BY DEF IInv, OpenLinks
    <3>2. \A x : Link(b, x[1], x[2])' = Link(b, x[1], x[2])
      BY <1>1 DEF Link
    <3>3. Link(b, <<roll, s>>[1], <<roll, s>>[2]) = new
      BY DEF Link
    <3> QED BY <2>1, <2>2, <3>1, <3>2, <3>3
  <2>8. \A o \in Open' \ {b} : LinksSeen(o)' = LinksSeen(o)
    BY <1>0 DEF LinksSeen
  <2>9. OpenLinks'
    BY <1>0, <1>1, <2>6, <2>7, <2>8 DEF IInv, OpenLinks, Link
  <2>10. OneWriter'
    BY <1>0, <2>1, <2>4 DEF IInv, OneWriter, SameKey
  <2> QED BY <1>2, <2>9, <2>10 DEF IInv
<1> QED BY <1>4, <1>5

\* The roll number of a valid row is the text of its cell.
LEMMA RollOfRow == ASSUME NEW row, Valid(row) PROVE Clean(row).roll = row.roll.text
BY DEF Valid, Clean, NormalizeRoll, Plain

\* Landing in the linked student, or in one with no link yet.
LEMMA LandInv ==
  ASSUME IInv, NEW b \in Imports, NEW row, NEW s, Read(b, row), Land(b, row, s),
         s \in Linked(b, Clean(row).roll) \/ Linked(b, Clean(row).roll) = {}
  PROVE  IInv'
<1> DEFINE roll == Clean(row).roll
<1>1. b \in Open /\ UNCHANGED <<links, landed>> /\ ~RollHeld(b, roll) /\ roll = row.roll.text
  BY RollOfRow DEF Read, tables
<1>2. ImportsTyped
  BY DEF IInv
<1>3. PICK ls, st, ss, ld :
        /\ imports' = [imports EXCEPT ![b].links = ls, ![b].sent = st, ![b].students = ss,
                                  ![b].loaded = ld]
        /\ ls = IF Linked(b, roll) = {} THEN imports[b].links \cup {Link(b, roll, s)} ELSE imports[b].links
        /\ ld \subseteq imports[b].loaded \cup {<<roll, s>>}
  BY <1>1 DEF Land, LinkTo, Link
<1>4. imports[b] = [source |-> imports[b].source, students |-> imports[b].students, sent |-> imports[b].sent,
                     links |-> imports[b].links, reviews |-> imports[b].reviews,
                     loaded |-> imports[b].loaded]
  BY <1>1, <1>2 DEF ImportsTyped
<1>5. /\ imports' = [o \in Imports |-> imports'[o]]
      /\ \A o \in Imports \ {b} : imports'[o] = imports[o]
      /\ imports'[b] = [source |-> imports[b].source, students |-> ss, sent |-> st, links |-> ls,
                        reviews |-> imports[b].reviews, loaded |-> ld]
  <2>1. imports = [o \in Imports |-> imports[o]]
    BY <1>2 DEF ImportsTyped
  <2>2. /\ imports' = [o \in Imports |-> imports'[o]]
        /\ \A o \in Imports \ {b} : imports'[o] = imports[o]
    BY <1>3, <2>1
  <2>3. imports'[b] = [[[[imports[b] EXCEPT !.links = ls] EXCEPT !.sent = st] EXCEPT !.students = ss]
                        EXCEPT !.loaded = ld]
    BY <1>3, <2>1
  <2> QED BY <1>4, <2>2, <2>3
<1>6. ASSUME s \in Linked(b, roll) PROVE Link(b, roll, s) \in LinksSeen(b)
  <2>1. PICK l \in LinksSeen(b) : l.source = imports[b].source /\ l.roll = roll /\ l.student = s
    BY <1>6 DEF Linked
  <2>2. l = [source |-> l.source, roll |-> l.roll, student |-> l.student]
    BY <1>1, <2>1 DEF IInv, LinksTyped, LinksSeen
  <2> QED BY <2>1, <2>2 DEF Link
<1>7. /\ imports'[b].links = ls /\ imports'[b].loaded = ld
      /\ imports'[b] = [source |-> imports[b].source, students |-> imports'[b].students,
                        sent |-> imports'[b].sent, links |-> imports'[b].links,
                        reviews |-> imports'[b].reviews, loaded |-> imports'[b].loaded]
  BY <1>5
<1>8. \/ /\ imports'[b].loaded \subseteq imports[b].loaded \cup {<<roll, s>>}
         /\ imports'[b].links = imports[b].links /\ Link(b, roll, s) \in LinksSeen(b)
      \/ /\ imports'[b].loaded \subseteq imports[b].loaded \cup {<<roll, s>>}
         /\ imports'[b].links = imports[b].links \cup {Link(b, roll, s)}
         /\ Linked(b, roll) = {} /\ ~RollHeld(b, roll)
  <2>1. CASE Linked(b, roll) = {}
    BY <1>1, <1>3, <1>7, <2>1
  <2>2. CASE Linked(b, roll) # {}
    BY <1>3, <1>6, <1>7, <2>2
  <2> QED BY <2>1, <2>2
<1> HIDE DEF roll
<1> QED BY <1>1, <1>5, <1>7, <1>8, RowInv

\* A row queued for review writes nothing that a link or a loaded row depends on.
LEMMA QueueInv == ASSUME IInv, NEW b \in Imports, NEW row, QueueForReview(b, row) PROVE IInv'
<1>1. b \in Open /\ UNCHANGED <<links, landed>>
  BY DEF QueueForReview, Read, tables
<1>2. imports = [o \in Imports |-> imports[o]]
  BY DEF IInv, ImportsTyped
<1>3. imports[b] = [source |-> imports[b].source, students |-> imports[b].students, sent |-> imports[b].sent,
                     links |-> imports[b].links, reviews |-> imports[b].reviews,
                     loaded |-> imports[b].loaded]
  BY <1>1 DEF IInv, ImportsTyped
<1>4. PICK rv, st : imports' = [imports EXCEPT ![b].reviews = rv, ![b].sent = st]
  BY DEF QueueForReview
<1>5. /\ imports' = [o \in Imports |-> imports'[o]]
      /\ \A o \in Imports \ {b} : imports'[o] = imports[o]
      /\ imports'[b] = [[imports[b] EXCEPT !.reviews = rv] EXCEPT !.sent = st]
  BY <1>2, <1>4
<1>6. /\ imports'[b].links = imports[b].links /\ imports'[b].loaded = imports[b].loaded
      /\ imports'[b] = [source |-> imports[b].source, students |-> imports'[b].students,
                        sent |-> imports'[b].sent, links |-> imports'[b].links,
                        reviews |-> imports'[b].reviews, loaded |-> imports'[b].loaded]
  BY <1>3, <1>5
<1> QED BY <1>1, <1>5, <1>6, RowInv

\* A new student gets the link that nobody has.
LEMMA NewInv == ASSUME IInv, NEW b \in Imports, NEW row, LoadAsNew(b, row) PROVE IInv'
<1> DEFINE roll == Clean(row).roll
<1>1. b \in Open /\ UNCHANGED <<links, landed>> /\ ~RollHeld(b, roll) /\ roll = row.roll.text
  BY RollOfRow DEF LoadAsNew, Read, tables
<1>2. Linked(b, roll) = {}
  BY DEF LoadAsNew, Unmatched
<1>3. imports = [o \in Imports |-> imports[o]]
  BY DEF IInv, ImportsTyped
<1>4. imports[b] = [source |-> imports[b].source, students |-> imports[b].students, sent |-> imports[b].sent,
                     links |-> imports[b].links, reviews |-> imports[b].reviews,
                     loaded |-> imports[b].loaded]
  BY <1>1 DEF IInv, ImportsTyped
<1>5. CASE imports' = imports
  <2>1. /\ imports' = [o \in Imports |-> imports'[o]]
        /\ \A o \in Imports \ {b} : imports'[o] = imports[o]
        /\ imports'[b].links = imports[b].links /\ imports'[b].loaded = imports[b].loaded
        /\ imports'[b] = [source |-> imports[b].source, students |-> imports'[b].students,
                          sent |-> imports'[b].sent, links |-> imports'[b].links,
                          reviews |-> imports'[b].reviews, loaded |-> imports'[b].loaded]
    BY <1>3, <1>4, <1>5
  <2> QED BY <1>1, <2>1, RowInv
<1>6. CASE imports' # imports
  <2>1. PICK ss, st : imports' = [imports EXCEPT
                    ![b].students = ss, ![b].sent = st,
                    ![b].links = LinkTo(b, Clean(row), NextId),
                    ![b].loaded = @ \cup {<<row.roll.text, NextId>>}]
    BY <1>6 DEF LoadAsNew
  <2>2. /\ imports' = [o \in Imports |-> imports'[o]]
        /\ \A o \in Imports \ {b} : imports'[o] = imports[o]
    BY <1>3, <2>1
  <2>3. imports'[b] = [source |-> imports[b].source, students |-> ss, sent |-> st,
                       links |-> LinkTo(b, Clean(row), NextId), reviews |-> imports[b].reviews,
                       loaded |-> imports[b].loaded \cup {<<row.roll.text, NextId>>}]
    BY <1>3, <1>4, <2>1
  <2>4. LinkTo(b, Clean(row), NextId) = imports[b].links \cup {Link(b, roll, NextId)}
    BY DEF LinkTo, Link
  <2>5. /\ imports'[b].links = imports[b].links \cup {Link(b, roll, NextId)}
        /\ imports'[b].loaded \subseteq imports[b].loaded \cup {<<roll, NextId>>}
        /\ imports'[b] = [source |-> imports[b].source, students |-> imports'[b].students,
                          sent |-> imports'[b].sent, links |-> imports'[b].links,
                          reviews |-> imports'[b].reviews, loaded |-> imports'[b].loaded]
    BY <1>1, <2>3, <2>4
  <2> HIDE DEF roll
  <2> QED BY <1>1, <1>2, <2>2, <2>5, RowInv
<1> QED BY <1>5, <1>6

\* What an import commits agrees with what is committed and with what the others have open.
LEMMA CommitInv == ASSUME IInv, NEW b \in Open, Commit(b) PROVE IInv'
<1>1. /\ links' = links \cup imports[b].links
      /\ imports' = [imports EXCEPT ![b] = Null]
      /\ landed' = landed \cup {<<imports[b].source, l[1], l[2]>> : l \in imports[b].loaded}
  BY DEF Commit, Closed, LinksSeen
<1>2. imports = [o \in Imports |-> imports[o]] /\ b \in Imports
  BY DEF IInv, ImportsTyped, Open
<1>3. /\ imports' = [o \in Imports |-> imports'[o]]
      /\ \A o \in Open' : o \in Open /\ o # b /\ imports'[o] = imports[o]
  BY <1>1, <1>2 DEF Open
<1>4. ImportsTyped' /\ LinksTyped' /\ OneWriter'
  BY <1>1, <1>3 DEF IInv, ImportsTyped, LinksTyped, OneWriter
<1>5. LinksFunctional'
  BY <1>1 DEF IInv, LinksFunctional, OpenLinks, LinksSeen, SameKey
<1>6. LandedByLink'
  <2>1. \A x \in imports[b].loaded :
          [source |-> imports[b].source, roll |-> x[1], student |-> x[2]] \in links'
    BY <1>1 DEF IInv, OpenLinks, LinksSeen, Link
  <2>2. \A x \in landed : [source |-> x[1], roll |-> x[2], student |-> x[3]] \in links'
    BY <1>1 DEF IInv, LandedByLink
  <2>3. ASSUME NEW l \in imports[b].loaded, NEW x, x = <<imports[b].source, l[1], l[2]>>
        PROVE  [source |-> x[1], roll |-> x[2], student |-> x[3]] \in links'
    <3>1. x[1] = imports[b].source /\ x[2] = l[1] /\ x[3] = l[2]
      BY <2>3
    <3> QED BY <2>1, <3>1
  <2>4. ASSUME NEW x \in landed' PROVE [source |-> x[1], roll |-> x[2], student |-> x[3]] \in links'
    <3>1. CASE x \in landed
      BY <2>2, <3>1
    <3>2. CASE x \in {<<imports[b].source, l[1], l[2]>> : l \in imports[b].loaded}
      <4>1. PICK l \in imports[b].loaded : x = <<imports[b].source, l[1], l[2]>>
        BY <3>2
      <4> QED BY <2>3, <4>1
    <3> QED BY <1>1, <3>1, <3>2
  <2> QED BY <2>4 DEF LandedByLink
<1>7. OpenLinks'
  <2> SUFFICES ASSUME NEW o \in Open'
               PROVE  /\ \A l \in imports[o].links :
                           /\ l.source = imports[o].source
                           /\ \A k \in LinksSeen(o) \cup imports[b].links :
                                SameKey(l, k) => l.student = k.student
                      /\ \A x \in imports[o].loaded : Link(o, x[1], x[2]) \in LinksSeen(o)
    BY <1>1, <1>3 DEF OpenLinks, LinksSeen, Link
  <2>1. o \in Open /\ o # b
    BY <1>3
  <2>2. \A l \in imports[o].links, k \in imports[b].links : ~SameKey(l, k)
    BY <2>1 DEF IInv, OneWriter
  <2> QED BY <2>1, <2>2 DEF IInv, OpenLinks
<1> QED BY <1>4, <1>5, <1>6, <1>7 DEF IInv

LEMMA BeginInv == ASSUME IInv, NEW b \in Imports, NEW source, Begin(b, source) PROVE IInv'
<1>1. /\ imports[b] = Null /\ UNCHANGED <<links, landed>>
      /\ imports' = [imports EXCEPT ![b] =
           [source |-> source, students |-> <<>>, sent |-> <<>>, links |-> {}, reviews |-> {}, loaded |-> {}]]
  BY DEF Begin, tables
<1>2. imports = [o \in Imports |-> imports[o]]
  BY DEF IInv, ImportsTyped
<1>3. /\ imports' = [o \in Imports |-> imports'[o]]
      /\ imports'[b] = [source |-> source, students |-> <<>>, sent |-> <<>>, links |-> {},
                        reviews |-> {}, loaded |-> {}]
      /\ \A o \in Open' \ {b} : o \in Open /\ imports'[o] = imports[o]
  BY <1>1, <1>2 DEF Open
<1>4. ImportsTyped' /\ LinksTyped' /\ OneWriter' /\ LinksFunctional' /\ LandedByLink'
  <2>1. ImportsTyped'
    BY <1>3 DEF IInv, ImportsTyped
  <2>2. LinksTyped'
    BY <1>1, <1>3 DEF IInv, LinksTyped
  <2>3. imports'[b].links = {}
    BY <1>3
  <2>4. OneWriter'
    BY <1>3, <2>3 DEF IInv, OneWriter
  <2> QED BY <1>1, <2>1, <2>2, <2>4 DEF IInv, LinksFunctional, LandedByLink
<1>5. OpenLinks'
  BY <1>1, <1>3 DEF IInv, OpenLinks, LinksSeen, Link
<1> QED BY <1>4, <1>5 DEF IInv

LEMMA RollBackInv == ASSUME IInv, NEW b \in Open, RollBack(b) PROVE IInv'
<1>1. UNCHANGED <<links, landed>> /\ imports' = [imports EXCEPT ![b] = Null]
  BY DEF RollBack, Closed, tables
<1>2. imports = [o \in Imports |-> imports[o]] /\ b \in Imports
  BY DEF IInv, ImportsTyped, Open
<1>3. /\ imports' = [o \in Imports |-> imports'[o]]
      /\ \A o \in Open' : o \in Open /\ imports'[o] = imports[o]
  BY <1>1, <1>2 DEF Open
<1>4. ImportsTyped' /\ LinksTyped' /\ OneWriter' /\ LinksFunctional' /\ LandedByLink'
  BY <1>1, <1>3 DEF IInv, ImportsTyped, LinksTyped, OneWriter, LinksFunctional, LandedByLink
<1>5. OpenLinks'
  BY <1>1, <1>3 DEF IInv, OpenLinks, LinksSeen, Link
<1> QED BY <1>4, <1>5 DEF IInv

LEMMA NextInv == IInv /\ [Next]_vars => IInv'
<1> SUFFICES ASSUME IInv, [Next]_vars PROVE IInv'
  OBVIOUS
<1>1. ASSUME NEW b \in Imports, NEW source \in Sources, Begin(b, source) PROVE IInv'
  BY <1>1, BeginInv
<1>2. ASSUME NEW b \in Open, Commit(b) PROVE IInv'
  BY <1>2, CommitInv
<1>3. ASSUME NEW b \in Open, RollBack(b) PROVE IInv'
  BY <1>3, RollBackInv
<1>4. ASSUME NEW b \in Open, NEW row \in Rows, LoadLinked(b, row) PROVE IInv'
  <2>1. b \in Imports /\ Read(b, row)
    BY <1>4 DEF LoadLinked, Open
  <2>2. PICK s \in Linked(b, Clean(row).roll) : Land(b, row, s)
    BY <1>4 DEF LoadLinked
  <2> QED BY <2>1, <2>2, LandInv
<1>5. ASSUME NEW b \in Open, NEW row \in Rows, LoadByRoll(b, row) PROVE IInv'
  <2>1. b \in Imports /\ Read(b, row) /\ Linked(b, Clean(row).roll) = {}
    BY <1>5 DEF LoadByRoll, Open
  <2>2. PICK s : Land(b, row, s)
    BY <1>5 DEF LoadByRoll
  <2> QED BY <2>1, <2>2, LandInv
<1>6. ASSUME NEW b \in Open, NEW row \in Rows, LoadByLikeness(b, row) PROVE IInv'
  <2>1. b \in Imports /\ Read(b, row) /\ Linked(b, Clean(row).roll) = {}
    BY <1>6 DEF LoadByLikeness, Unmatched, Open
  <2>2. PICK s : Land(b, row, s)
    BY <1>6 DEF LoadByLikeness
  <2> QED BY <2>1, <2>2, LandInv
<1>7. ASSUME NEW b \in Open, NEW row \in Rows, QueueForReview(b, row) PROVE IInv'
  BY <1>7, QueueInv DEF Open
<1>8. ASSUME NEW b \in Open, NEW row \in Rows, LoadAsNew(b, row) PROVE IInv'
  BY <1>8, NewInv DEF Open
<1>9. CASE UNCHANGED vars
  BY <1>9 DEF vars, tables, IInv, ImportsTyped, LinksTyped, LinksFunctional, LandedByLink,
              OpenLinks, OneWriter, Open, LinksSeen, Link
<1> QED BY <1>1, <1>2, <1>3, <1>4, <1>5, <1>6, <1>7, <1>8, <1>9 DEF Next

-----------------------------------------------------------------------------
LEMMA SafeInv == IInv => SameRollSameStudent
<1> SUFFICES ASSUME IInv, NEW x \in landed, NEW y \in landed, x[1] = y[1], x[2] = y[2]
             PROVE  x[3] = y[3]
  BY DEF SameRollSameStudent
<1> DEFINE l == [source |-> x[1], roll |-> x[2], student |-> x[3]]
           k == [source |-> y[1], roll |-> y[2], student |-> y[3]]
<1>1. l \in links /\ k \in links /\ SameKey(l, k)
  BY DEF IInv, LandedByLink, SameKey
<1>2. l.student = k.student
  BY <1>1 DEF IInv, LinksFunctional
<1> QED BY <1>2

\* However often, in whatever order and with whatever failures imports run, and whatever names,
\* birthdays and addresses their rows carry, the rows of one source with one roll number all land
\* in one student: the link made with the first of them is the only one, and is always followed.
THEOREM AlwaysSameStudent == Spec => []SameRollSameStudent
<1>1. Spec => []IInv
  BY InitInv, NextInv, PTL DEF Spec
<1> QED BY <1>1, SafeInv, PTL

-----------------------------------------------------------------------------
(* What the students are made of, and what likeness needs.                   *)

Names == {Plain(row.name) : row \in Rows} \ {Null}

\* its name came from a valid row, and its date of birth from the cell it remembers
IsStudent(x) == x.name \in Names /\ x.dob = NormalizeDate(x.given)

StudentsTyped ==
  /\ \A s \in DOMAIN students : IsStudent(students[s])
  /\ \A b \in Open : \A s \in DOMAIN imports[b].students : IsStudent(imports[b].students[s])
\* a link leads to a student that whoever sees the link also sees
LinksLead ==
  /\ \A l \in links : l.student \in DOMAIN students
  /\ \A b \in Open : \A l \in imports[b].links : l.student \in DOMAIN View(b)

SInv == StudentsTyped /\ LinksLead /\ OnlyUnsentTwinsMissed /\ LikenessNeedsTheBirthday

LEMMA CleanRow ==
  ASSUME NEW row \in Rows, Valid(row)
  PROVE  Clean(row).name \in Names /\ Clean(row).dob = NormalizeDate(row.dob)
BY DEF Valid, Clean, Names

\* Two names of rows have a likeness between 0 and 100.
LEMMA LikenessOfNames == ASSUME NEW x \in Names, NEW y \in Names PROVE Similar[<<x, y>>] \in 0 .. 100
<1>1. PICK r \in Rows, t \in Rows : x = Plain(r.name) /\ y = Plain(t.name)
  BY DEF Names
<1>2. x # Null /\ y # Null
  BY DEF Names
<1>3. <<x, y>> \in DOMAIN Similar
  BY <1>1, <1>2, NamesAssumption
<1> QED BY <1>3, SimilarAssumption

\* A name and an address make 60 at most: 70 takes the date of birth.
LEMMA SeventyTakesTheDate ==
  ASSUME NEW row \in Rows, Valid(row), NEW x, IsStudent(x), Score(x, Clean(row)) >= MediumConfidence
  PROVE  Known(Clean(row).dob, x.dob)
<1>1. Similar[<<Clean(row).name, x.name>>] \in 0 .. 100
  BY CleanRow, LikenessOfNames DEF IsStudent
<1> QED BY <1>1 DEF Score, MediumConfidence

\* Two dates that read only one way and are read alike are the same day.
LEMMA ReadAlike ==
  ASSUME NEW x, NEW y, Known(NormalizeDate(x), NormalizeDate(y)), ~Ambiguous(x), ~Ambiguous(y)
  PROVE  SameDay(x, y)
<1>1. ASSUME NEW z, NormalizeDate(z) # Null, ~Ambiguous(z)
      PROVE  z.form \notin {"nullish", "unreadable"}
               /\ NormalizeDate(z) = [day |-> z.day, month |-> z.month]
  BY <1>1 DEF NormalizeDate, Ambiguous
<1>2. NormalizeDate(x) # Null /\ NormalizeDate(y) # Null /\ NormalizeDate(x) = NormalizeDate(y)
  BY DEF Known
<1>3. [day |-> x.day, month |-> x.month] = [day |-> y.day, month |-> y.month]
  BY <1>1, <1>2
<1>4. x.day = y.day /\ x.month = y.month
  BY <1>3
<1> QED BY <1>1, <1>2, <1>4 DEF SameDay

LEMMA ViewTyped ==
  ASSUME StudentsTyped, NEW b \in Open, NEW s \in DOMAIN View(b)
  PROVE  IsStudent(View(b)[s])
BY DEF StudentsTyped, View

LEMMA CandidatesSeen ==
  ASSUME NEW b, NEW c, NEW candidates \in Candidates(Sent(b), c)
  PROVE  candidates \subseteq DOMAIN View(b)
<1>1. Block(Sent(b), c) \subseteq DOMAIN View(b)
  BY DEF Block, Sent
<1> QED BY <1>1 DEF Candidates, kSubset

LEMMA MergedIsStudent ==
  ASSUME NEW row \in Rows, Valid(row), NEW x, IsStudent(x), NEW by
  PROVE  IsStudent(Merged(x, row, by))
<1> DEFINE taken == Taken(x.dob, Clean(row).dob, x.source, by)
<1>1. /\ Merged(x, row, by).dob = IF taken THEN Clean(row).dob ELSE x.dob
      /\ Merged(x, row, by).given = IF taken THEN row.dob ELSE x.given
      /\ Merged(x, row, by).name \in {Clean(row).name, x.name}
  BY DEF Merged
<1>2. Merged(x, row, by).dob = NormalizeDate(Merged(x, row, by).given)
  BY <1>1, CleanRow DEF IsStudent
<1>3. Merged(x, row, by).name \in Names
  BY <1>1, CleanRow DEF IsStudent
<1> QED BY <1>2, <1>3 DEF IsStudent, Merged

LEMMA NewIsStudent ==
  ASSUME NEW row \in Rows, Valid(row), NEW by PROVE IsStudent(NewStudent(row, by))
BY CleanRow DEF NewStudent, IsStudent

\* A row of import b that lands in student s, or in none.
LEMMA RowStudents ==
  ASSUME StudentsTyped, LinksLead, NEW b \in Open, UNCHANGED <<students, links>>,
         NEW s, NEW x, IsStudent(x),
         \A o \in Imports \ {b} : imports'[o] = imports[o],
         imports'[b].students \in {imports[b].students, Put(b, s, x)},
         \A l \in imports'[b].links \ imports[b].links :
           l.student = s /\ s \in DOMAIN students \cup DOMAIN imports'[b].students
  PROVE  StudentsTyped' /\ LinksLead'
<1>1. b \in Imports /\ \A o \in Open' \ {b} : o \in Open /\ imports'[o] = imports[o]
  BY DEF Open
<1>2. DOMAIN imports[b].students \subseteq DOMAIN imports'[b].students
  BY DEF Put
<1>3. \A t \in DOMAIN imports'[b].students : IsStudent(imports'[b].students[t])
  <2>1. \A t \in DOMAIN imports[b].students : IsStudent(imports[b].students[t])
    BY DEF StudentsTyped
  <2>2. \A t \in DOMAIN Put(b, s, x) : IsStudent(Put(b, s, x)[t])
    BY <2>1 DEF Put
  <2>3. CASE imports'[b].students = imports[b].students
    BY <2>1, <2>3
  <2>4. CASE imports'[b].students = Put(b, s, x)
    BY <2>2, <2>4
  <2> QED BY <2>3, <2>4
<1>4. StudentsTyped'
  BY <1>1, <1>3 DEF StudentsTyped, IsStudent
<1>5. \A o : DOMAIN View(o) = DOMAIN students \cup DOMAIN imports[o].students
  BY DEF View
<1>6. \A o : DOMAIN View(o)' = DOMAIN students \cup DOMAIN imports'[o].students
  BY DEF View
<1>7. ASSUME NEW o \in Open', NEW l \in imports'[o].links PROVE l.student \in DOMAIN View(o)'
  <2>1. CASE o # b
    BY <1>1, <1>5, <1>6, <2>1 DEF LinksLead
  <2>2. CASE o = b /\ l \in imports[b].links
    BY <1>2, <1>5, <1>6, <2>2 DEF LinksLead
  <2>3. CASE o = b /\ l \notin imports[b].links
    BY <1>6, <2>3
  <2> QED BY <2>1, <2>2, <2>3
<1> QED BY <1>4, <1>7 DEF LinksLead

LEMMA LandStudents ==
  ASSUME ImportsTyped, StudentsTyped, LinksLead, NEW b \in Open, NEW row \in Rows, Read(b, row),
         NEW s \in DOMAIN View(b), Land(b, row, s)
  PROVE  StudentsTyped' /\ LinksLead'
<1> DEFINE x == Merged(View(b)[s], row, imports[b].source)
<1>1. UNCHANGED <<students, links>> /\ IsStudent(x) /\ b \in Imports
  BY ViewTyped, MergedIsStudent DEF Read, tables, Open
<1>2. imports = [o \in Imports |-> imports[o]]
  BY DEF ImportsTyped
<1>3. PICK ls, st, ss, ld :
        /\ imports' = [imports EXCEPT ![b].links = ls, ![b].sent = st, ![b].students = ss,
                                  ![b].loaded = ld]
        /\ ls \in {imports[b].links, LinkTo(b, Clean(row), s)}
        /\ ss \in {imports[b].students, Put(b, s, x)}
  <2> HIDE DEF x
  <2>1. PICK ls : ls = IF Linked(b, Clean(row).roll) = {} THEN LinkTo(b, Clean(row), s) ELSE imports[b].links
    OBVIOUS
  <2>2. PICK ss : ss = IF row.programme = "unknown" THEN imports[b].students ELSE Put(b, s, x)
    OBVIOUS
  <2>3. ls \in {imports[b].links, LinkTo(b, Clean(row), s)} /\ ss \in {imports[b].students, Put(b, s, x)}
    BY <2>1, <2>2
  <2> QED BY <2>1, <2>2, <2>3 DEF Land, x
<1>4. imports[b] = [source |-> imports[b].source, students |-> imports[b].students, sent |-> imports[b].sent,
                     links |-> imports[b].links, reviews |-> imports[b].reviews,
                     loaded |-> imports[b].loaded]
  BY DEF ImportsTyped
<1>5. imports'[b] = [source |-> imports[b].source, students |-> ss, sent |-> st, links |-> ls,
                      reviews |-> imports[b].reviews, loaded |-> ld]
  <2>1. imports'[b] = [[[[imports[b] EXCEPT !.links = ls] EXCEPT !.sent = st] EXCEPT !.students = ss]
                        EXCEPT !.loaded = ld]
    BY <1>1, <1>2, <1>3
  <2> QED BY <1>4, <2>1
<1>6. \A o \in Imports \ {b} : imports'[o] = imports[o]
  BY <1>2, <1>3
<1>7. DOMAIN View(b) = DOMAIN students \cup DOMAIN imports[b].students
  BY DEF View
<1>8. DOMAIN imports[b].students \subseteq DOMAIN ss
  BY <1>3 DEF Put
<1>9. \A l \in ls \ imports[b].links :
        l.student = s /\ s \in DOMAIN students \cup DOMAIN ss
  BY <1>3, <1>7, <1>8 DEF LinkTo
<1>10. /\ imports'[b].students \in {imports[b].students, Put(b, s, x)}
       /\ \A l \in imports'[b].links \ imports[b].links :
            l.student = s /\ s \in DOMAIN students \cup DOMAIN imports'[b].students
  <2>1. imports'[b].students = ss /\ imports'[b].links = ls
    BY <1>5
  <2> HIDE DEF x
  <2> QED BY <1>3, <1>9, <2>1
<1> HIDE DEF x
<1> QED BY <1>1, <1>6, <1>10, RowStudents

\* Whoever is likened has the birthday of the row.
LEMMA LikenedSInv ==
  ASSUME LikenessNeedsTheBirthday, NEW b \in Open, NEW row \in Rows, Read(b, row), StudentsTyped,
         NEW s \in DOMAIN View(b), Likened(b, row, s),
         Score(View(b)[s], Clean(row)) >= MediumConfidence
  PROVE  LikenessNeedsTheBirthday' /\ UNCHANGED missed
<1> DEFINE given == View(b)[s].given
<1>1. Known(NormalizeDate(row.dob), NormalizeDate(given))
  BY ViewTyped, SeventyTakesTheDate, CleanRow DEF IsStudent, Read
<1>2. ~Ambiguous(row.dob) /\ ~Ambiguous(given) => SameDay(row.dob, given)
  BY <1>1, ReadAlike
<1>3. likened' = likened \cup {<<row.dob, given>>} /\ UNCHANGED missed
  BY DEF Likened
<1> HIDE DEF given
<1> QED BY <1>2, <1>3 DEF LikenessNeedsTheBirthday

LEMMA LikenessSInv ==
  ASSUME IInv, SInv, NEW b \in Open, NEW row \in Rows, LoadByLikeness(b, row) PROVE SInv'
<1>1. PICK candidates \in Candidates(Sent(b), Clean(row)) :
        \E s \in Best(View(b), Clean(row), candidates) :
          /\ Score(View(b)[s], Clean(row)) >= HighConfidence
          /\ Land(b, row, s) /\ Likened(b, row, s)
  BY DEF LoadByLikeness
<1>2. PICK s \in candidates :
        /\ Score(View(b)[s], Clean(row)) >= HighConfidence
        /\ Land(b, row, s) /\ Likened(b, row, s)
  BY <1>1 DEF Best
<1>3. s \in DOMAIN View(b) /\ Read(b, row)
  BY <1>1, <1>2, CandidatesSeen DEF LoadByLikeness
<1>4. Score(View(b)[s], Clean(row)) >= MediumConfidence
  <2>1. Similar[<<Clean(row).name, View(b)[s].name>>] \in 0 .. 100
    BY <1>3, ViewTyped, CleanRow, LikenessOfNames DEF SInv, IsStudent, Read
  <2>2. Score(View(b)[s], Clean(row)) \in Int
    BY <2>1 DEF Score
  <2> QED BY <1>2, <2>2 DEF HighConfidence, MediumConfidence
<1>5. StudentsTyped' /\ LinksLead'
  BY <1>2, <1>3, LandStudents DEF IInv, SInv
<1>6. LikenessNeedsTheBirthday' /\ UNCHANGED missed
  BY <1>2, <1>3, <1>4, LikenedSInv DEF SInv
<1> QED BY <1>5, <1>6 DEF SInv, OnlyUnsentTwinsMissed

LEMMA QueueSInv ==
  ASSUME IInv, SInv, NEW b \in Open, NEW row \in Rows, QueueForReview(b, row) PROVE SInv'
<1>1. PICK candidates \in Candidates(Sent(b), Clean(row)) :
        \E s \in Best(View(b), Clean(row), candidates) :
          /\ Score(View(b)[s], Clean(row)) \in MediumConfidence .. HighConfidence - 1
          /\ Likened(b, row, s)
  BY DEF QueueForReview
<1>2. PICK s \in candidates :
        /\ Score(View(b)[s], Clean(row)) \in MediumConfidence .. HighConfidence - 1
        /\ Likened(b, row, s)
  BY <1>1 DEF Best
<1>3. s \in DOMAIN View(b) /\ Read(b, row) /\ UNCHANGED <<students, links>> /\ b \in Imports
  BY <1>1, <1>2, CandidatesSeen DEF QueueForReview, Read, tables, Open
<1>4. LikenessNeedsTheBirthday' /\ UNCHANGED missed
  BY <1>2, <1>3, LikenedSInv, SMTT(30) DEF SInv, MediumConfidence, HighConfidence
<1>5. PICK rv, st : imports' = [imports EXCEPT ![b].reviews = rv, ![b].sent = st]
  BY DEF QueueForReview
<1>6. imports = [o \in Imports |-> imports[o]]
  BY DEF IInv, ImportsTyped
<1>7. imports[b] = [source |-> imports[b].source, students |-> imports[b].students, sent |-> imports[b].sent,
                     links |-> imports[b].links, reviews |-> imports[b].reviews,
                     loaded |-> imports[b].loaded]
  BY DEF IInv, ImportsTyped
<1>8. /\ imports'[b] = [[imports[b] EXCEPT !.reviews = rv] EXCEPT !.sent = st]
      /\ \A o \in Imports \ {b} : imports'[o] = imports[o]
  BY <1>3, <1>5, <1>6
<1>9. imports'[b].students = imports[b].students /\ imports'[b].links = imports[b].links
  BY <1>7, <1>8
<1>10. IsStudent(View(b)[s])
  BY <1>3, ViewTyped DEF SInv
<1>11. StudentsTyped' /\ LinksLead'
  BY <1>3, <1>8, <1>9, <1>10, RowStudents DEF SInv
<1> QED BY <1>4, <1>11 DEF SInv, OnlyUnsentTwinsMissed

\* A row is new only when no candidate scores 70.  A student that does shares its date of birth,
\* and so is a candidate if the database has that date of it and not too many share a key.
LEMMA NewMissesUnsent ==
  ASSUME SInv, NEW b \in Open, NEW row \in Rows, LoadAsNew(b, row) PROVE OnlyUnsentTwinsMissed'
<1> DEFINE c == Clean(row)
           view == View(b)
           sent == Sent(b)
<1>1. PICK candidates \in Candidates(sent, c) : \A s \in candidates : Score(view[s], c) < MediumConfidence
  BY DEF LoadAsNew
<1>2. ASSUME NEW s \in DOMAIN view, Score(view[s], c) >= MediumConfidence,
             Cardinality(Block(sent, c)) <= Limit
      PROVE  sent[s].dob # view[s].dob
  <2>1. SUFFICES ASSUME sent[s].dob = view[s].dob PROVE FALSE
    OBVIOUS
  <2>2. Known(c.dob, view[s].dob)
    BY <1>2, ViewTyped, SeventyTakesTheDate DEF SInv, LoadAsNew, Read
  <2>3. s \in Block(sent, c)
    BY <2>1, <2>2 DEF Block, Sent
  <2>4. candidates = Block(sent, c)
    BY <1>1, <1>2 DEF Candidates
  <2>5. Similar[<<c.name, view[s].name>>] \in 0 .. 100
    BY ViewTyped, CleanRow, LikenessOfNames DEF SInv, IsStudent, Read, LoadAsNew
  <2>6. Score(view[s], c) \in Int
    BY <2>5 DEF Score
  <2> QED BY <1>1, <1>2, <2>3, <2>4, <2>6 DEF MediumConfidence
<1>3. missed' = missed \cup
        {[student |-> s, unsent |-> sent[s].dob # view[s].dob] :
           s \in {t \in DOMAIN view : Score(view[t], c) >= MediumConfidence
                                       /\ Cardinality(Block(sent, c)) <= Limit}}
  BY DEF LoadAsNew
<1> HIDE DEF c, view, sent
<1>4. ASSUME NEW m \in missed' PROVE m.unsent
  <2>1. CASE m \in missed
    BY <2>1 DEF SInv, OnlyUnsentTwinsMissed
  <2>2. CASE m \notin missed
    <3>1. PICK s \in DOMAIN view :
            /\ Score(view[s], c) >= MediumConfidence /\ Cardinality(Block(sent, c)) <= Limit
            /\ m = [student |-> s, unsent |-> sent[s].dob # view[s].dob]
      BY <1>3, <2>2
    <3>2. (sent[s].dob # view[s].dob) = TRUE
      BY <1>2, <3>1, Zenon
    <3>3. m.unsent = (sent[s].dob # view[s].dob)
      BY <3>1
    <3> QED BY <3>2, <3>3, Zenon
  <2> QED BY <2>1, <2>2
<1> QED BY <1>4 DEF OnlyUnsentTwinsMissed

LEMMA NewSInv ==
  ASSUME IInv, SInv, NEW b \in Open, NEW row \in Rows, LoadAsNew(b, row) PROVE SInv'
<1> DEFINE x == NewStudent(row, imports[b].source)
<1>1. OnlyUnsentTwinsMissed'
  BY NewMissesUnsent
<1>2. LikenessNeedsTheBirthday'
  BY DEF LoadAsNew, SInv, LikenessNeedsTheBirthday
<1>3. UNCHANGED <<students, links>> /\ IsStudent(x) /\ b \in Imports
  BY NewIsStudent DEF LoadAsNew, Read, tables, Open
<1>4. CASE imports' = imports
  <2>1. imports'[b].students = imports[b].students /\ imports'[b].links = imports[b].links
    BY <1>4
  <2>2. \A o \in Imports \ {b} : imports'[o] = imports[o]
    BY <1>4
  <2>3. StudentsTyped' /\ LinksLead'
    <3> HIDE DEF x
    <3> QED BY <1>3, <2>1, <2>2, RowStudents DEF SInv
  <2> QED BY <1>1, <1>2, <2>3 DEF SInv
<1>5. CASE imports' # imports
  <2> DEFINE new == [source |-> imports[b].source, roll |-> Clean(row).roll, student |-> NextId]
  <2>1. PICK ld, st : imports' = [imports EXCEPT
                    ![b].students = Put(b, NextId, x), ![b].sent = st,
                    ![b].links = LinkTo(b, Clean(row), NextId), ![b].loaded = ld]
    BY <1>5 DEF LoadAsNew
  <2>2. imports = [o \in Imports |-> imports[o]]
    BY DEF IInv, ImportsTyped
  <2>3. imports[b] = [source |-> imports[b].source, students |-> imports[b].students, sent |-> imports[b].sent,
                       links |-> imports[b].links, reviews |-> imports[b].reviews,
                       loaded |-> imports[b].loaded]
    BY DEF IInv, ImportsTyped
  <2>4. \A o \in Imports \ {b} : imports'[o] = imports[o]
    BY <2>1, <2>2
  <2>5. imports'[b] = [source |-> imports[b].source, students |-> Put(b, NextId, x), sent |-> st,
                        links |-> LinkTo(b, Clean(row), NextId), reviews |-> imports[b].reviews,
                        loaded |-> ld]
    BY <1>3, <2>1, <2>2, <2>3
  <2>6. imports'[b].students = Put(b, NextId, x) /\ imports'[b].links = imports[b].links \cup {new}
    BY <2>5 DEF LinkTo
  <2>7. NextId \in DOMAIN imports'[b].students /\ new.student = NextId
    BY <2>6 DEF Put
  <2> HIDE DEF x, new
  <2>8. StudentsTyped' /\ LinksLead'
    BY <1>3, <2>4, <2>6, <2>7, RowStudents DEF SInv
  <2> QED BY <1>1, <1>2, <2>8 DEF SInv
<1> QED BY <1>4, <1>5

\* A session that closes leaves the others what they saw, and more if it commits.
LEMMA CloseSInv ==
  ASSUME IInv, SInv, NEW b \in Open, Commit(b) \/ RollBack(b) PROVE SInv'
<1>1. imports' = [imports EXCEPT ![b] = Null] /\ UNCHANGED <<likened, missed>>
  BY DEF Commit, RollBack, Closed
<1>2. imports = [o \in Imports |-> imports[o]] /\ b \in Imports
  BY DEF IInv, ImportsTyped, Open
<1>3. \A o \in Open' : o \in Open /\ imports'[o] = imports[o]
  BY <1>1, <1>2 DEF Open
<1>4. /\ \A s \in DOMAIN students' : IsStudent(students'[s])
      /\ \A l \in links' : l.student \in DOMAIN students'
      /\ DOMAIN students \subseteq DOMAIN students'
  <2>1. CASE Commit(b)
    <3>1. students' = View(b) /\ links' = links \cup imports[b].links
      BY <2>1 DEF Commit, LinksSeen
    <3>2. DOMAIN students \subseteq DOMAIN View(b)
      BY DEF View
    <3> QED BY <3>1, <3>2, ViewTyped DEF SInv, LinksLead
  <2>2. CASE RollBack(b)
    BY <2>2 DEF RollBack, tables, SInv, StudentsTyped, LinksLead
  <2> QED BY <2>1, <2>2
<1>5. StudentsTyped'
  BY <1>3, <1>4 DEF SInv, StudentsTyped, IsStudent
<1>6. \A o \in Open' : DOMAIN View(o) \subseteq DOMAIN View(o)'
  BY <1>3, <1>4 DEF View
<1>7. LinksLead'
  BY <1>3, <1>4, <1>6 DEF SInv, LinksLead
<1> QED BY <1>1, <1>5, <1>7 DEF SInv, OnlyUnsentTwinsMissed, LikenessNeedsTheBirthday

LEMMA BeginSInv == ASSUME IInv, SInv, NEW b \in Imports, NEW source, Begin(b, source) PROVE SInv'
<1>1. /\ imports' = [imports EXCEPT ![b] =
           [source |-> source, students |-> <<>>, sent |-> <<>>, links |-> {}, reviews |-> {}, loaded |-> {}]]
      /\ UNCHANGED <<students, links, likened, missed>>
  BY DEF Begin, tables
<1>2. imports = [o \in Imports |-> imports[o]]
  BY DEF IInv, ImportsTyped
<1>3. /\ imports'[b] = [source |-> source, students |-> <<>>, sent |-> <<>>, links |-> {},
                        reviews |-> {}, loaded |-> {}]
      /\ \A o \in Open' \ {b} : o \in Open /\ imports'[o] = imports[o]
  BY <1>1, <1>2 DEF Open
<1>4. imports'[b].students = <<>> /\ imports'[b].links = {} /\ DOMAIN <<>> = {}
  BY <1>3
<1>5. StudentsTyped'
  BY <1>1, <1>3, <1>4 DEF SInv, StudentsTyped, IsStudent
<1>6. \A o \in Open' \ {b} : DOMAIN View(o) = DOMAIN View(o)'
  BY <1>1, <1>3 DEF View
<1>7. LinksLead'
  BY <1>1, <1>3, <1>4, <1>6 DEF SInv, LinksLead
<1> QED BY <1>1, <1>5, <1>7 DEF SInv, OnlyUnsentTwinsMissed, LikenessNeedsTheBirthday

LEMMA NextSInv == IInv /\ SInv /\ [Next]_vars => SInv'
<1> SUFFICES ASSUME IInv, SInv, [Next]_vars PROVE SInv'
  OBVIOUS
<1>1. ASSUME NEW b \in Imports, NEW source \in Sources, Begin(b, source) PROVE SInv'
  BY <1>1, BeginSInv
<1>2. ASSUME NEW b \in Open, Commit(b) \/ RollBack(b) PROVE SInv'
  BY <1>2, CloseSInv
<1>3. ASSUME NEW b \in Open, NEW row \in Rows, LoadLinked(b, row) PROVE SInv'
  <2>1. PICK l \in LinksSeen(b) : Land(b, row, l.student)
    BY <1>3 DEF LoadLinked, Linked
  <2>2. l.student \in DOMAIN View(b)
    BY <2>1 DEF SInv, LinksLead, LinksSeen, View
  <2>3. StudentsTyped' /\ LinksLead'
    BY <1>3, <2>1, <2>2, LandStudents DEF IInv, SInv, LoadLinked
  <2> QED BY <1>3, <2>3 DEF LoadLinked, SInv, OnlyUnsentTwinsMissed, LikenessNeedsTheBirthday
<1>4. ASSUME NEW b \in Open, NEW row \in Rows, LoadByRoll(b, row) PROVE SInv'
  <2>1. PICK s \in DOMAIN View(b) : Land(b, row, s)
    BY <1>4 DEF LoadByRoll, SameRoll
  <2>2. StudentsTyped' /\ LinksLead'
    BY <1>4, <2>1, LandStudents DEF IInv, SInv, LoadByRoll
  <2> QED BY <1>4, <2>2 DEF LoadByRoll, SInv, OnlyUnsentTwinsMissed, LikenessNeedsTheBirthday
<1>5. ASSUME NEW b \in Open, NEW row \in Rows, LoadByLikeness(b, row) PROVE SInv'
  BY <1>5, LikenessSInv
<1>6. ASSUME NEW b \in Open, NEW row \in Rows, QueueForReview(b, row) PROVE SInv'
  BY <1>6, QueueSInv
<1>7. ASSUME NEW b \in Open, NEW row \in Rows, LoadAsNew(b, row) PROVE SInv'
  BY <1>7, NewSInv
<1>8. CASE UNCHANGED vars
  BY <1>8 DEF vars, tables, SInv, StudentsTyped, LinksLead, OnlyUnsentTwinsMissed, LikenessNeedsTheBirthday,
              Open, View, IsStudent
<1> QED BY <1>1, <1>2, <1>3, <1>4, <1>5, <1>6, <1>7, <1>8 DEF Next

LEMMA AlwaysSInv == Spec => []SInv
<1>1. Init => IInv /\ SInv
  <2>1. ASSUME Init PROVE SInv
    BY <2>1 DEF Init, SInv, StudentsTyped, LinksLead, OnlyUnsentTwinsMissed, LikenessNeedsTheBirthday, Open
  <2> QED BY <2>1, InitInv
<1>2. IInv /\ SInv /\ [Next]_vars => (IInv /\ SInv)'
  BY NextInv, NextSInv
<1> QED BY <1>1, <1>2, PTL DEF Spec

\* Whatever the rows and their likeness, and however imports overlap, a row becomes a new student
\* beside one that its import has and that scores 70 or more only if more than Limit students share
\* a key with the row, or if the database has not been sent the birthday that student has: the two
\* share that birthday, and the query would find it.
THEOREM AlwaysOnlyUnsentTwins == Spec => []OnlyUnsentTwinsMissed
BY AlwaysSInv, PTL DEF SInv

\* Likeness links or queues only rows and students of one birthday, where both dates read one way
\* only: the weights of name and address add up to 60, so without the date there is no 70.
THEOREM AlwaysTheBirthday == Spec => []LikenessNeedsTheBirthday
BY AlwaysSInv, PTL DEF SInv
=============================================================================
