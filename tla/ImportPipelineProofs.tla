------------------------ MODULE ImportPipelineProofs ------------------------
(* Machine-checked proofs about ImportPipeline: for any files, mappings,     *)
(* number of overlapping batches, failures and crashes, a batch lands whole  *)
(* or not at all, no row of it is lost, and the pipeline implements          *)
(* ImportLifecycle.                                                          *)
EXTENDS ImportPipeline, TLAPS, FiniteSetTheorems, SequenceTheorems

Fields == {"file", "kind", "status", "raw", "quarantined", "loaded", "staging", "resolved", "report",
           "recompute"}
TaskFields == {"todo", "inserting", "ins", "done", "bad", "outcome"}
IsSeq(s) == s \in Seq({s[i] : i \in 1..Len(s)})

-----------------------------------------------------------------------------
(* What holds of one batch x whose task is at p with locals t.               *)

Idx(x) == DOMAIN Rows[x.file]
Quar(x) == {i \in DOMAIN x.staging : x.staging[i] = "quarantined"}
ValidRows(x) == Idx(x) \ Quar(x)
Unloaded(x) == ValidRows(x) \ x.resolved

Control(x, p) ==
  /\ \/ p = "parse" /\ x.status = "RECEIVED"
     \/ p = "clean" /\ x.status = "PARSED"
     \/ p \in {"begin", "load"} /\ x.status = "CLEANED"
     \/ p = "reconcile" /\ x.status = "LOADED"
     \/ p \in {"recompute", "outcome"} /\ x.status = "COMPLETED"
     \/ p = "fail" /\ x.status \in {"RECEIVED", "PARSED", "CLEANED", "LOADED"}
     \/ p = "done" /\ x.status \in {"COMPLETED", "FAILED"}
     \/ p = "lost" /\ x.status \in {"RECEIVED", "PARSED", "CLEANED", "LOADED", "COMPLETED"}
  /\ x.status \in {"RECEIVED", "PARSED"} => x.staging = <<>>
  /\ x.status \in {"RECEIVED", "PARSED", "CLEANED"} => x.resolved = {} /\ x.loaded = 0
  /\ x.status \in {"RECEIVED", "PARSED", "CLEANED", "LOADED"} => x.report = Null

\* the counts are those of the staging rows, and a row missing from them waits for review
Counted(x) ==
  /\ DOMAIN x.staging = Idx(x) /\ x.raw = Len(Rows[x.file])
  /\ \A i \in Idx(x) : x.staging[i] \in {"valid", "quarantined"}
  /\ x.quarantined = Cardinality(Quar(x))
  /\ x.resolved \subseteq ValidRows(x) /\ x.loaded = Cardinality(x.resolved)
  /\ x.status \in {"LOADED", "COMPLETED"} \/ x.resolved # {} =>
       \A i \in Unloaded(x) : Rows[x.file][i].review
  /\ x.report # Null =>
       x.report.valid = Cardinality(ValidRows(x)) /\ x.report.pending = Cardinality(Unloaded(x))

Accounted(x, p) ==
  /\ p = "clean" => x.raw = Len(Rows[x.file])
  /\ p \in {"begin", "load", "reconcile"} \/ x.staging # <<>> => Counted(x)

\* where the rows of a batch are while it loads
Working(x, t) ==
  /\ t.todo \cup t.done \cup t.bad \subseteq ValidRows(x)
  /\ t.todo \cap t.done = {} /\ t.todo \cap t.bad = {} /\ t.done \cap t.bad = {}
  /\ t.inserting = Null \/ t.inserting \in t.todo
  /\ t.ins \subseteq {Rows[x.file][i].key : i \in t.done}
  /\ \A i \in ValidRows(x) : i \in t.todo \cup t.done \cup t.bad \/ Rows[x.file][i].review

Batch(x, p, t) ==
  /\ DOMAIN x = Fields /\ DOMAIN t = TaskFields /\ x.file \in Files /\ x.resolved \subseteq Idx(x)
  /\ Control(x, p) /\ Accounted(x, p)
  /\ p = "load" => Working(x, t)
  /\ p \notin {"load", "outcome"} => t = Blank

-----------------------------------------------------------------------------
(* What holds of the batches and the canonical tables together.              *)

TypeOK ==
  /\ IsSeq(batches) /\ Len(batches) <= MaxBatches
  /\ pc = [b \in Slots |-> pc[b]] /\ task = [b \in Slots |-> task[b]]
  /\ canon = [k \in Keys |-> canon[k]]
  /\ upload = [u \in Uploaders |-> upload[u]]
  /\ \A u \in Uploaders : upload[u] # Null => upload[u].file \in Files
  /\ \A b \in Slots \ Created : pc[b] = "none" /\ task[b] = Blank

BatchesOK == \A b \in Created : Batch(batches[b], pc[b], task[b])

\* a row that is done, or about to be inserted, has its parent
HasParents(b) ==
  pc[b] = "load" => \A i \in task[b].done \cup ({task[b].inserting} \ {Null}) : ~MissingParent(b, i)
ParentsOK == \A b \in Created : HasParents(b)

ReportsOK ==
  \A b \in Created : batches[b].status = "COMPLETED" => Anomalies(b) \subseteq batches[b].report.anomalies

\* StaleHasAnOwner, of a batch whose rows matter to the risk engine
Owner(b, k) ==
  /\ batches[b].kind \in RiskRelevant /\ k \in KeysOf(b, batches[b].resolved)
  /\ \/ pc[b] \in {"reconcile", "recompute", "fail", "lost"} \/ batches[b].status = "FAILED"
     \/ pc[b] = "outcome" /\ task[b].outcome \in {"partial", "failed"}
     \/ pc[b] = "done" /\ batches[b].recompute \in {"partial", "failed"}
StaleOK == \A k \in stale : \E b \in Created : Owner(b, k)

TablesOK == AllOrNothing /\ NoOrphans /\ ReportsOK /\ StaleOK

IInv == TypeOK /\ BatchesOK /\ ParentsOK /\ TablesOK

-----------------------------------------------------------------------------
(* Steps of one batch.                                                       *)

\* the step leaves batch b at x, p and t, and the other batches alone
Touch(b, x, p, t) ==
  /\ IsSeq(batches)' /\ Len(batches') = Len(batches)
  /\ pc' = [o \in Slots |-> pc'[o]] /\ task' = [o \in Slots |-> task'[o]]
  /\ batches'[b] = x /\ pc'[b] = p /\ task'[b] = t
  /\ \A o \in Slots \ {b} : pc'[o] = pc[o] /\ task'[o] = task[o]
  /\ \A o \in Created \ {b} : batches'[o] = batches[o]

LEMMA RowsTyped ==
  ASSUME NEW f \in Files
  PROVE  /\ DOMAIN Rows[f] = 1..Len(Rows[f]) /\ Len(Rows[f]) \in Nat
         /\ IsFiniteSet(DOMAIN Rows[f]) /\ Cardinality(DOMAIN Rows[f]) = Len(Rows[f])
         /\ Null \notin DOMAIN Rows[f]
         /\ \A i \in DOMAIN Rows[f] : Rows[f][i].key \in Keys /\ Rows[f][i].parent \in Keys \cup {Null}
<1>1. Rows[f] \in Seq(RowType)
  BY RowsAssumption
<1>2. DOMAIN Rows[f] = 1..Len(Rows[f]) /\ Len(Rows[f]) \in Nat
  BY <1>1
<1>3. IsFiniteSet(1..Len(Rows[f])) /\ Cardinality(1..Len(Rows[f])) = Len(Rows[f])
  BY <1>2, FS_Interval
<1>4. \A i \in DOMAIN Rows[f] : Rows[f][i] \in RowType
  BY <1>1, <1>2
<1>5. \A r \in RowType : r.key \in Keys /\ r.parent \in Keys \cup {Null}
  BY DEF RowType
<1> QED BY <1>2, <1>3, <1>4, <1>5, NullAssumption

LEMMA CreatedSlots == ASSUME TypeOK PROVE Created \subseteq Slots /\ Len(batches) \in Nat
<1>1. Len(batches) \in Nat
  BY DEF TypeOK, IsSeq
<1>2. MaxBatches \in Nat
  BY BoundsAssumption
<1> QED BY <1>1, <1>2 DEF TypeOK, Created, Slots

LEMMA Reseq ==
  ASSUME NEW S, NEW s \in Seq(S), NEW T, \A i \in 1..Len(s) : s[i] \in T PROVE s \in Seq(T)
<1>1. Len(s) \in Nat /\ DOMAIN s = 1..Len(s)
  OBVIOUS
<1>2. s \in [1..Len(s) -> T]
  BY <1>1
<1> QED BY <1>1, <1>2

LEMMA SetBatch ==
  ASSUME IsSeq(batches), NEW b \in Created, NEW x, batches' = [batches EXCEPT ![b] = x]
  PROVE  /\ IsSeq(batches)' /\ Len(batches') = Len(batches)
         /\ batches'[b] = x /\ \A o \in Created \ {b} : batches'[o] = batches[o]
<1> DEFINE S == {batches[i] : i \in 1..Len(batches)} \cup {x}
<1>1. batches \in Seq(S) /\ Len(batches) \in Nat /\ DOMAIN batches = 1..Len(batches)
  BY DEF IsSeq
<1>2. /\ batches' \in Seq(S) /\ Len(batches') = Len(batches)
      /\ \A j \in 1..Len(batches) : batches'[j] = IF j = b THEN x ELSE batches[j]
  BY <1>1, ExceptSeq DEF Created
<1>3. /\ batches'[b] = x /\ \A o \in Created \ {b} : batches'[o] = batches[o]
  BY <1>2 DEF Created
<1>4. \A j \in 1..Len(batches') : batches'[j] \in {batches'[i] : i \in 1..Len(batches')}
  OBVIOUS
<1>5. IsSeq(batches)'
  BY <1>2, <1>4, Reseq DEF IsSeq
<1> QED BY <1>2, <1>3, <1>5

\* How the actions say it.
LEMMA TouchIntro ==
  ASSUME TypeOK, NEW b \in Created, NEW x, NEW p, NEW t,
         batches' = [batches EXCEPT ![b] = x] \/ (batches' = batches /\ x = batches[b]),
         pc' = [pc EXCEPT ![b] = p] \/ (pc' = pc /\ p = pc[b]),
         task' = [task EXCEPT ![b] = t] \/ (task' = task /\ t = task[b])
  PROVE  Touch(b, x, p, t)
<1>1. b \in Slots
  BY CreatedSlots
<1>2. /\ IsSeq(batches)' /\ Len(batches') = Len(batches)
      /\ batches'[b] = x /\ \A o \in Created \ {b} : batches'[o] = batches[o]
  <2>1. CASE batches' = [batches EXCEPT ![b] = x]
    BY <2>1, SetBatch DEF TypeOK
  <2>2. CASE batches' = batches /\ x = batches[b]
    BY <2>2 DEF TypeOK, IsSeq
  <2> QED BY <2>1, <2>2
<1>3. pc' = [o \in Slots |-> pc'[o]] /\ pc'[b] = p /\ \A o \in Slots \ {b} : pc'[o] = pc[o]
  BY <1>1 DEF TypeOK
<1>4. task' = [o \in Slots |-> task'[o]] /\ task'[b] = t /\ \A o \in Slots \ {b} : task'[o] = task[o]
  BY <1>1 DEF TypeOK
<1> QED BY <1>2, <1>3, <1>4 DEF Touch

LEMMA TouchCreated ==
  ASSUME TypeOK, NEW b, NEW x, NEW p, NEW t, Touch(b, x, p, t)
  PROVE  Created' = Created
BY DEF Touch, Created

\* Each batch keeps its own invariant if the one that moves does.
LEMMA TouchInv ==
  ASSUME TypeOK, BatchesOK, NEW b \in Created, NEW x, NEW p, NEW t, Touch(b, x, p, t),
         Batch(x, p, t), canon' = [k \in Keys |-> canon'[k]], UNCHANGED upload
  PROVE  TypeOK' /\ BatchesOK'
<1>1. Created' = Created /\ Slots' = Slots
  BY TouchCreated DEF Slots
<1>2. TypeOK'
  BY <1>1 DEF TypeOK, Touch
<1>3. ASSUME NEW o \in Created PROVE Batch(batches'[o], pc'[o], task'[o])
  <2>1. CASE o = b
    BY <2>1 DEF Touch
  <2>2. CASE o # b
    <3>1. o \in Slots
      BY CreatedSlots
    <3>2. batches'[o] = batches[o] /\ pc'[o] = pc[o] /\ task'[o] = task[o]
      BY <2>2, <3>1 DEF Touch
    <3> QED BY <3>2 DEF BatchesOK
  <2> QED BY <2>1, <2>2
<1> QED BY <1>1, <1>2, <1>3 DEF BatchesOK

\* A step that loads no row keeps what the tables and the batches say of each other.
LEMMA TouchTables ==
  ASSUME TypeOK, BatchesOK, TablesOK, NEW b \in Created, NEW x, NEW p, NEW t, Touch(b, x, p, t),
         UNCHANGED canon, stale' \subseteq stale,
         x.file = batches[b].file, x.kind = batches[b].kind, x.resolved = batches[b].resolved,
         \/ x.report = batches[b].report /\ (x.status = "COMPLETED" => batches[b].status = "COMPLETED")
         \/ x.status = "COMPLETED" => Anomalies(b) \subseteq x.report.anomalies,
         \A k \in stale' : Owner(b, k) => Owner(b, k)'
  PROVE  TablesOK'
<1>1. Created' = Created
  BY TouchCreated
<1>2. \A o \in Created : batches'[o].file = batches[o].file /\ batches'[o].resolved = batches[o].resolved
  BY DEF Touch
<1>3. \A o \in Created : RowsOf(o)' = RowsOf(o) /\ KeysOf(o, batches[o].resolved)' = KeysOf(o, batches[o].resolved)
  BY <1>2 DEF RowsOf, KeysOf
<1>4. AllOrNothing'
  BY <1>1, <1>3 DEF TablesOK, AllOrNothing
<1>5. NoOrphans'
  BY <1>1, <1>2, <1>3 DEF TablesOK, NoOrphans
<1>6. ReportsOK'
  <2>1. \A o \in Created : Anomalies(o)' = Anomalies(o)
    BY DEF Anomalies, Odd
  <2>2. ASSUME NEW o \in Created, batches'[o].status = "COMPLETED"
        PROVE  Anomalies(o) \subseteq batches'[o].report.anomalies
    BY <2>2 DEF TablesOK, ReportsOK, Touch
  <2> QED BY <1>1, <2>1, <2>2 DEF ReportsOK
<1>7. StaleOK'
  <2>1. ASSUME NEW o \in Created \ {b}, NEW k PROVE Owner(o, k) => Owner(o, k)'
    <3>1. o \in Slots
      BY CreatedSlots
    <3>2. batches'[o] = batches[o] /\ pc'[o] = pc[o] /\ task'[o] = task[o]
      BY <3>1 DEF Touch
    <3> QED BY <1>3, <3>2 DEF Owner
  <2> QED BY <1>1, <2>1 DEF TablesOK, StaleOK
<1> QED BY <1>4, <1>5, <1>6, <1>7 DEF TablesOK

\* A key that is in the tables stays there, so a row keeps the parent it found.
LEMMA TouchParents ==
  ASSUME TypeOK, ParentsOK, NEW b \in Created, NEW x, NEW p, NEW t, Touch(b, x, p, t),
         \A k : canon[k] # Null => canon'[k] # Null, HasParents(b)'
  PROVE  ParentsOK'
<1>1. Created' = Created
  BY TouchCreated
<1>2. ASSUME NEW o \in Created \ {b} PROVE HasParents(o)'
  <2>1. o \in Slots
    BY CreatedSlots
  <2>2. batches'[o] = batches[o] /\ pc'[o] = pc[o] /\ task'[o] = task[o]
    BY <2>1 DEF Touch
  <2>3. HasParents(o)
    BY DEF ParentsOK
  <2> QED BY <2>2, <2>3 DEF HasParents, MissingParent, Visible, RowsOf
<1> QED BY <1>1, <1>2 DEF ParentsOK

-----------------------------------------------------------------------------
(* The rows of the load phase.                                               *)

\* A step inside the load transaction: only the task's own variables move.
LEMMA LoadingInv ==
  ASSUME IInv, NEW b \in Created, NEW t, pc[b] = "load", OnlyTask, task' = [task EXCEPT ![b] = t],
         DOMAIN t = TaskFields, Working(batches[b], t),
         \A i \in t.done \cup ({t.inserting} \ {Null}) :
           \/ RowsOf(b)[i].parent = Null \/ RowsOf(b)[i].parent \in t.ins
           \/ canon[RowsOf(b)[i].parent] # Null
  PROVE  IInv'
<1>1. TypeOK /\ BatchesOK /\ ParentsOK /\ TablesOK
  BY DEF IInv
<1>2. UNCHANGED <<batches, canon, stale, pc, upload>>
  BY DEF OnlyTask
<1>3. Touch(b, batches[b], "load", t)
  <2>1. batches' = batches /\ pc' = pc /\ pc[b] = "load"
    BY <1>2
  <2>2. Touch(b, batches[b], pc[b], t)
    BY <1>1, <2>1, TouchIntro
  <2> QED BY <2>1, <2>2
<1>4. Batch(batches[b], "load", t)
  BY <1>1 DEF BatchesOK, Batch
<1>5. TypeOK' /\ BatchesOK'
  BY <1>1, <1>2, <1>3, <1>4, TouchInv DEF TypeOK
<1>6. HasParents(b)'
  BY <1>2, <1>3 DEF HasParents, MissingParent, Visible, RowsOf, Touch
<1>7. ParentsOK'
  BY <1>1, <1>2, <1>3, <1>6, TouchParents
<1>8. \A k \in stale' : Owner(b, k) => Owner(b, k)'
  BY <1>2 DEF Owner, KeysOf, RowsOf
<1>9. TablesOK'
  BY <1>1, <1>2, <1>3, <1>8, TouchTables
<1> QED BY <1>5, <1>7, <1>9 DEF IInv

LEMMA RowInv == ASSUME IInv, NEW b \in Created, NEW i \in Indices(b), LoadRow(b, i) PROVE IInv'
<1> DEFINE x == batches[b]
           t == task[b]
<1>1. pc[b] = "load" /\ t.inserting = Null /\ i \in t.todo /\ OnlyTask
  BY DEF LoadRow, RowPending, RowUnresolved, RowUpdates, RowNotFound, Resolves, Loading
<1>2. DOMAIN t = TaskFields /\ Working(x, t) /\ x.file \in Files
  BY <1>1 DEF IInv, BatchesOK, Batch
<1>3. \A j \in t.done \cup ({t.inserting} \ {Null}) :
           \/ RowsOf(b)[j].parent = Null \/ RowsOf(b)[j].parent \in t.ins
           \/ canon[RowsOf(b)[j].parent] # Null
  BY <1>1 DEF IInv, ParentsOK, HasParents, MissingParent, Visible
<1>4. task = [o \in Slots |-> task[o]] /\ b \in Slots
  BY CreatedSlots DEF IInv, TypeOK
<1>5. i # Null /\ Null \notin t.todo
  BY <1>2, RowsTyped DEF Indices, RowsOf, Working, ValidRows, Idx
<1>6. CASE RowPending(b, i)
  <2> DEFINE u == [t EXCEPT !.todo = @ \ {i}]
  <2>1. task' = [task EXCEPT ![b] = u]
    BY <1>4, <1>6 DEF RowPending
  <2>2. /\ DOMAIN u = TaskFields /\ u.todo = t.todo \ {i} /\ u.inserting = t.inserting
        /\ u.ins = t.ins /\ u.done = t.done /\ u.bad = t.bad
    BY <1>2 DEF TaskFields
  <2>3. Rows[x.file][i].review
    BY <1>6 DEF RowPending, RowsOf
  <2> HIDE DEF u, x
  <2>4. Working(x, u)
    BY <1>1, <1>2, <2>2, <2>3 DEF Working
  <2> QED BY <1>1, <1>3, <2>1, <2>2, <2>4, LoadingInv DEF x
<1>7. CASE RowUnresolved(b, i)
  <2> DEFINE u == [t EXCEPT !.todo = @ \ {i}, !.bad = @ \cup {i}]
  <2>1. task' = [task EXCEPT ![b] = u]
    BY <1>4, <1>7 DEF RowUnresolved
  <2>2. /\ DOMAIN u = TaskFields /\ u.todo = t.todo \ {i} /\ u.inserting = t.inserting
        /\ u.ins = t.ins /\ u.done = t.done /\ u.bad = t.bad \cup {i}
    BY <1>2 DEF TaskFields
  <2> HIDE DEF u, x
  <2>3. Working(x, u)
    BY <1>1, <1>2, <2>2 DEF Working
  <2> QED BY <1>1, <1>3, <2>1, <2>2, <2>3, LoadingInv DEF x
<1>8. CASE RowUpdates(b, i)
  <2> DEFINE u == [t EXCEPT !.todo = @ \ {i}, !.done = @ \cup {i}]
  <2>1. task' = [task EXCEPT ![b] = u]
    BY <1>4, <1>8 DEF RowUpdates
  <2>2. /\ DOMAIN u = TaskFields /\ u.todo = t.todo \ {i} /\ u.inserting = t.inserting
        /\ u.ins = t.ins /\ u.done = t.done \cup {i} /\ u.bad = t.bad
    BY <1>2 DEF TaskFields
  <2>3. ~MissingParent(b, i)
    BY <1>8 DEF RowUpdates
  <2> HIDE DEF u, x
  <2>4. Working(x, u)
    BY <1>1, <1>2, <2>2 DEF Working
  <2>5. \A j \in u.done \cup ({u.inserting} \ {Null}) :
           \/ RowsOf(b)[j].parent = Null \/ RowsOf(b)[j].parent \in u.ins
           \/ canon[RowsOf(b)[j].parent] # Null
    BY <1>3, <2>2, <2>3 DEF MissingParent, Visible
  <2> QED BY <1>1, <2>1, <2>2, <2>4, <2>5, LoadingInv DEF x
<1>9. CASE RowNotFound(b, i)
  <2> DEFINE u == [t EXCEPT !.inserting = i]
  <2>1. task' = [task EXCEPT ![b] = u]
    BY <1>4, <1>9 DEF RowNotFound
  <2>2. /\ DOMAIN u = TaskFields /\ u.todo = t.todo /\ u.inserting = i
        /\ u.ins = t.ins /\ u.done = t.done /\ u.bad = t.bad
    BY <1>2 DEF TaskFields
  <2>3. ~MissingParent(b, i)
    BY <1>9 DEF RowNotFound
  <2> HIDE DEF u, x
  <2>4. Working(x, u)
    BY <1>1, <1>2, <2>2 DEF Working
  <2>5. \A j \in u.done \cup ({u.inserting} \ {Null}) :
           \/ RowsOf(b)[j].parent = Null \/ RowsOf(b)[j].parent \in u.ins
           \/ canon[RowsOf(b)[j].parent] # Null
    BY <1>3, <2>2, <2>3 DEF MissingParent, Visible
  <2> QED BY <1>1, <2>1, <2>2, <2>4, <2>5, LoadingInv DEF x
<1> QED BY <1>6, <1>7, <1>8, <1>9 DEF LoadRow

LEMMA InsertInv == ASSUME IInv, NEW b \in Created, InsertRow(b) PROVE IInv'
<1> DEFINE x == batches[b]
           t == task[b]
           i == t.inserting
           u == [t EXCEPT !.inserting = Null, !.ins = @ \cup {InsertKey(b)},
                          !.todo = @ \ {i}, !.done = @ \cup {i}]
<1>1. pc[b] = "load" /\ i # Null /\ OnlyTask
  BY DEF InsertRow, Inserting
<1>2. DOMAIN t = TaskFields /\ Working(x, t) /\ x.file \in Files
  BY <1>1 DEF IInv, BatchesOK, Batch
<1>3. task = [o \in Slots |-> task[o]] /\ b \in Slots
  BY CreatedSlots DEF IInv, TypeOK
<1>4. task' = [task EXCEPT ![b] = u]
  BY <1>3 DEF InsertRow
<1>5. /\ DOMAIN u = TaskFields /\ u.todo = t.todo \ {i} /\ u.inserting = Null
      /\ u.ins = t.ins \cup {Rows[x.file][i].key} /\ u.done = t.done \cup {i} /\ u.bad = t.bad
  BY <1>2 DEF TaskFields, InsertKey, RowsOf
<1>6. \A j \in t.done \cup {i} :
           \/ RowsOf(b)[j].parent = Null \/ RowsOf(b)[j].parent \in t.ins
           \/ canon[RowsOf(b)[j].parent] # Null
  BY <1>1 DEF IInv, ParentsOK, HasParents, MissingParent, Visible
<1> HIDE DEF u, x
<1>7. Working(x, u)
  BY <1>1, <1>2, <1>5 DEF Working
<1>8. \A j \in u.done \cup ({u.inserting} \ {Null}) :
           \/ RowsOf(b)[j].parent = Null \/ RowsOf(b)[j].parent \in u.ins
           \/ canon[RowsOf(b)[j].parent] # Null
  BY <1>5, <1>6
<1> QED BY <1>1, <1>4, <1>5, <1>7, <1>8, LoadingInv DEF x

-----------------------------------------------------------------------------
(* The other steps of a task.                                                *)

\* A step that loads no row, put together.
LEMMA StepInv ==
  ASSUME IInv, NEW b \in Created, NEW x, NEW p, NEW t,
         batches' = [batches EXCEPT ![b] = x] \/ (batches' = batches /\ x = batches[b]),
         pc' = [pc EXCEPT ![b] = p], p # "load",
         task' = [task EXCEPT ![b] = t] \/ (task' = task /\ t = task[b]),
         Batch(x, p, t), UNCHANGED <<canon, upload>>, stale' \subseteq stale,
         x.file = batches[b].file, x.kind = batches[b].kind, x.resolved = batches[b].resolved,
         \/ x.report = batches[b].report /\ (x.status = "COMPLETED" => batches[b].status = "COMPLETED")
         \/ x.status = "COMPLETED" => Anomalies(b) \subseteq x.report.anomalies,
         \A k \in stale' : Owner(b, k) =>
           \/ p \in {"reconcile", "recompute", "fail", "lost"} \/ x.status = "FAILED"
           \/ p = "outcome" /\ t.outcome \in {"partial", "failed"}
           \/ p = "done" /\ x.recompute \in {"partial", "failed"}
  PROVE  IInv'
<1>1. TypeOK /\ BatchesOK /\ ParentsOK /\ TablesOK
  BY DEF IInv
<1>2. Touch(b, x, p, t)
  BY <1>1, TouchIntro
<1>3. batches'[b] = x /\ pc'[b] = p /\ task'[b] = t
  BY <1>2 DEF Touch
<1>4. TypeOK' /\ BatchesOK'
  BY <1>1, <1>2, TouchInv DEF TypeOK
<1>5. HasParents(b)'
  BY <1>3 DEF HasParents
<1>6. ParentsOK'
  BY <1>1, <1>2, <1>5, TouchParents
<1>7. \A k \in stale' : Owner(b, k) => Owner(b, k)'
  BY <1>3 DEF Owner, KeysOf, RowsOf
<1>8. TablesOK'
  BY <1>1, <1>2, <1>7, TouchTables
<1> QED BY <1>4, <1>6, <1>8 DEF IInv

\* Typing of the record of a batch that is at a given place.
LEMMA BatchAt ==
  ASSUME IInv, NEW b \in Created
  PROVE  /\ Batch(batches[b], pc[b], task[b]) /\ b \in Slots
         /\ batches = [o \in Created |-> batches[o]] /\ task = [o \in Slots |-> task[o]]
         /\ pc = [o \in Slots |-> pc[o]]
<1>1. IsSeq(batches) => batches = [o \in Created |-> batches[o]]
  BY DEF IsSeq, Created
<1> QED BY <1>1, CreatedSlots DEF IInv, TypeOK, BatchesOK

LEMMA BlankFields == DOMAIN Blank = TaskFields
BY DEF Blank, TaskFields

LEMMA AbortInv ==
  ASSUME IInv, NEW b \in Created, pc[b] \in {"parse", "clean", "begin", "load", "reconcile"}, Abort(b)
  PROVE  IInv'
<1>1. Batch(batches[b], pc[b], task[b])
  BY BatchAt
<1>2. Batch(batches[b], "fail", Blank)
  BY <1>1, BlankFields DEF Batch, Control, Accounted, Idx
<1>3. /\ batches' = batches /\ UNCHANGED <<canon, upload, stale>>
      /\ pc' = [pc EXCEPT ![b] = "fail"] /\ task' = [task EXCEPT ![b] = Blank]
  BY DEF Abort
<1> QED BY <1>2, <1>3, StepInv

LEMMA ParseInv == ASSUME IInv, NEW b \in Created, Parse(b) PROVE IInv'
<1> DEFINE x == [batches[b] EXCEPT !.status = "PARSED", !.raw = Len(RowsOf(b))]
<1>1. Batch(batches[b], pc[b], task[b]) /\ pc[b] = "parse"
  BY BatchAt DEF Parse
<1>2. /\ batches' = [batches EXCEPT ![b] = x] /\ pc' = [pc EXCEPT ![b] = "clean"]
      /\ UNCHANGED <<canon, upload, stale, task>>
  BY BatchAt DEF Parse
<1>3. /\ DOMAIN x = Fields /\ x.status = "PARSED" /\ x.raw = Len(Rows[x.file])
      /\ x.file = batches[b].file /\ x.kind = batches[b].kind /\ x.resolved = batches[b].resolved
      /\ x.report = batches[b].report /\ x.staging = batches[b].staging /\ x.loaded = batches[b].loaded
  BY <1>1 DEF Batch, Fields, RowsOf
<1> HIDE DEF x
<1>4. Batch(x, "clean", task[b])
  BY <1>1, <1>3 DEF Batch, Control, Accounted, Idx
<1>5. \A k \in stale' : ~Owner(b, k)
  BY <1>1 DEF Owner, Batch, Control
<1> QED BY <1>2, <1>3, <1>4, <1>5, StepInv

LEMMA CleanInv == ASSUME IInv, NEW b \in Created, Clean(b) PROVE IInv'
<1> DEFINE st == [i \in Indices(b) |-> IF Valid(b, i) THEN "valid" ELSE "quarantined"]
           q == {i \in Indices(b) : ~Valid(b, i)}
           x == [batches[b] EXCEPT !.status = "CLEANED", !.staging = st, !.quarantined = Cardinality(q)]
<1>1. Batch(batches[b], pc[b], task[b]) /\ pc[b] = "clean"
  BY BatchAt DEF Clean
<1>2. /\ batches' = [batches EXCEPT ![b] = x] /\ pc' = [pc EXCEPT ![b] = "begin"]
      /\ UNCHANGED <<canon, upload, stale, task>>
  BY BatchAt DEF Clean
<1>3. /\ DOMAIN x = Fields /\ x.status = "CLEANED" /\ x.raw = batches[b].raw
      /\ x.staging = st /\ x.quarantined = Cardinality(q)
      /\ x.file = batches[b].file /\ x.kind = batches[b].kind /\ x.resolved = batches[b].resolved
      /\ x.report = batches[b].report /\ x.loaded = batches[b].loaded
  BY <1>1 DEF Batch, Fields
<1>4. DOMAIN st = Idx(x) /\ Quar(x) = q /\ \A i \in DOMAIN st : st[i] \in {"valid", "quarantined"}
  BY <1>3 DEF Idx, Indices, RowsOf, Quar
<1> HIDE DEF x, st, q
<1>5. Counted(x)
  <2>1. x.resolved = {} /\ x.loaded = 0 /\ x.report = Null /\ x.raw = Len(Rows[x.file])
    BY <1>1, <1>3 DEF Batch, Control, Accounted, Idx
  <2>2. Cardinality({}) = 0
    BY FS_EmptySet
  <2> QED BY <1>3, <1>4, <2>1, <2>2 DEF Counted
<1>6. Batch(x, "begin", task[b])
  BY <1>1, <1>3, <1>5 DEF Batch, Control, Accounted, Idx
<1>7. \A k \in stale' : ~Owner(b, k)
  BY <1>1 DEF Owner, Batch, Control
<1> QED BY <1>2, <1>3, <1>6, <1>7, StepInv

LEMMA MarkFailedInv == ASSUME IInv, NEW b \in Created, MarkFailed(b) PROVE IInv'
<1> DEFINE x == [batches[b] EXCEPT !.status = "FAILED"]
<1>1. Batch(batches[b], pc[b], task[b]) /\ pc[b] = "fail"
  BY BatchAt DEF MarkFailed
<1>2. /\ batches' = [batches EXCEPT ![b] = x] /\ pc' = [pc EXCEPT ![b] = "done"]
      /\ UNCHANGED <<canon, upload, stale, task>>
  BY BatchAt DEF MarkFailed
<1>3. /\ DOMAIN x = Fields /\ x.status = "FAILED"
      /\ x.file = batches[b].file /\ x.kind = batches[b].kind /\ x.resolved = batches[b].resolved
      /\ x.raw = batches[b].raw /\ x.quarantined = batches[b].quarantined
      /\ x.report = batches[b].report /\ x.loaded = batches[b].loaded /\ x.staging = batches[b].staging
  BY <1>1 DEF Batch, Fields
<1> HIDE DEF x
<1>4. Counted(batches[b]) => Counted(x)
  <2>1. Idx(x) = Idx(batches[b]) /\ Quar(x) = Quar(batches[b])
    BY <1>3 DEF Idx, Quar
  <2>2. ValidRows(x) = ValidRows(batches[b]) /\ Unloaded(x) = Unloaded(batches[b])
    BY <1>3, <2>1 DEF ValidRows, Unloaded
  <2> QED BY <1>3, <2>1, <2>2 DEF Counted
<1>5. Batch(x, "done", task[b])
  BY <1>1, <1>3, <1>4 DEF Batch, Control, Accounted, Idx
<1> QED BY <1>2, <1>3, <1>5, StepInv

LEMMA RecordFailsInv == ASSUME IInv, NEW b \in Created, RecordFails(b) PROVE IInv'
<1>1. Batch(batches[b], pc[b], task[b]) /\ pc[b] \in {"fail", "outcome"}
  BY BatchAt DEF RecordFails
<1>2. /\ batches' = batches /\ UNCHANGED <<canon, upload, stale>>
      /\ pc' = [pc EXCEPT ![b] = "lost"] /\ task' = [task EXCEPT ![b] = Blank]
  BY DEF RecordFails
<1>3. Batch(batches[b], "lost", Blank)
  BY <1>1, BlankFields DEF Batch, Control, Accounted, Idx
<1> QED BY <1>2, <1>3, StepInv

LEMMA OutcomeInv == ASSUME IInv, NEW b \in Created, SetRecomputeOutcome(b) PROVE IInv'
<1> DEFINE x == [batches[b] EXCEPT !.recompute = task[b].outcome]
<1>1. Batch(batches[b], pc[b], task[b]) /\ pc[b] = "outcome"
  BY BatchAt DEF SetRecomputeOutcome
<1>2. /\ batches' = [batches EXCEPT ![b] = x] /\ pc' = [pc EXCEPT ![b] = "done"]
      /\ task' = [task EXCEPT ![b] = Blank] /\ UNCHANGED <<canon, upload, stale>>
  BY BatchAt DEF SetRecomputeOutcome
<1>3. /\ DOMAIN x = Fields /\ x.status = batches[b].status /\ x.recompute = task[b].outcome
      /\ x.file = batches[b].file /\ x.kind = batches[b].kind /\ x.resolved = batches[b].resolved
      /\ x.raw = batches[b].raw /\ x.quarantined = batches[b].quarantined
      /\ x.report = batches[b].report /\ x.loaded = batches[b].loaded /\ x.staging = batches[b].staging
  BY <1>1 DEF Batch, Fields
<1> HIDE DEF x
<1>4. Counted(batches[b]) => Counted(x)
  <2>1. Idx(x) = Idx(batches[b]) /\ Quar(x) = Quar(batches[b])
    BY <1>3 DEF Idx, Quar
  <2>2. ValidRows(x) = ValidRows(batches[b]) /\ Unloaded(x) = Unloaded(batches[b])
    BY <1>3, <2>1 DEF ValidRows, Unloaded
  <2> QED BY <1>3, <2>1, <2>2 DEF Counted
<1>5. Batch(x, "done", Blank)
  BY <1>1, <1>3, <1>4, BlankFields DEF Batch, Control, Accounted, Idx
<1>6. \A k : Owner(b, k) => task[b].outcome \in {"partial", "failed"}
  BY <1>1 DEF Owner, Batch, Control
<1> QED BY <1>2, <1>3, <1>5, <1>6, StepInv

LEMMA RecomputeInv == ASSUME IInv, NEW b \in Created, Recompute(b) PROVE IInv'
<1> DEFINE due == IF batches[b].kind \in RiskRelevant THEN KeysOf(b, batches[b].resolved) ELSE {}
<1>1. Batch(batches[b], pc[b], task[b]) /\ pc[b] = "recompute"
  BY BatchAt DEF Recompute
<1>2. PICK covered \in SUBSET due : \E outcome \in Outcome(due, covered) :
        stale' = stale \ covered /\ task' = [task EXCEPT ![b].outcome = outcome]
  BY DEF Recompute
<1>3. PICK outcome \in Outcome(due, covered) :
        stale' = stale \ covered /\ task' = [task EXCEPT ![b].outcome = outcome]
  BY <1>2
<1> DEFINE t == [task[b] EXCEPT !.outcome = outcome]
<1>4. /\ batches' = batches /\ UNCHANGED <<canon, upload>>
      /\ pc' = [pc EXCEPT ![b] = "outcome"] /\ task' = [task EXCEPT ![b] = t]
  BY <1>3, BatchAt DEF Recompute
<1>5. DOMAIN t = TaskFields /\ t.outcome = outcome
  BY <1>1 DEF Batch, TaskFields
<1>6. Batch(batches[b], "outcome", t)
  BY <1>1, <1>5 DEF Batch, Control, Accounted, Idx
\* a key that stays stale was due, so the recompute did not cover all it had to
<1>7. ASSUME NEW k \in stale', Owner(b, k) PROVE outcome \in {"partial", "failed"}
  <2>1. k \in due /\ k \notin covered
    BY <1>3, <1>7 DEF Owner
  <2> QED BY <2>1 DEF Outcome
<1> HIDE DEF t, due
<1> QED BY <1>3, <1>4, <1>5, <1>6, <1>7, StepInv

LEMMA BeginLoadInv == ASSUME IInv, NEW b \in Created, BeginLoad(b) PROVE IInv'
<1> DEFINE x == batches[b]
           valid == {i \in Indices(b) : x.staging[i] = "valid"}
           t == [task[b] EXCEPT !.todo = valid]
<1>1. Batch(x, pc[b], task[b]) /\ pc[b] = "begin"
  BY BatchAt DEF BeginLoad
<1>2. TypeOK /\ BatchesOK /\ ParentsOK /\ TablesOK
  BY DEF IInv
<1>3. task' = [task EXCEPT ![b] = t]
  BY BatchAt DEF BeginLoad
<1>4. UNCHANGED <<batches, canon, upload, stale>> /\ pc' = [pc EXCEPT ![b] = "load"]
  BY DEF BeginLoad
<1>5. Touch(b, x, "load", t)
  BY <1>2, <1>3, <1>4, TouchIntro
<1>6. /\ DOMAIN t = TaskFields /\ t.todo = valid /\ t.inserting = Null /\ t.ins = {} /\ t.done = {}
      /\ t.bad = {}
  BY <1>1 DEF Batch, TaskFields, Blank
<1>7. valid = ValidRows(x)
  BY <1>1 DEF Batch, Accounted, Counted, ValidRows, Quar, Idx, Indices, RowsOf
<1> HIDE DEF t, valid
<1>8. Batch(x, "load", t)
  <2>1. Working(x, t)
    BY <1>6, <1>7 DEF Working
  <2> QED BY <1>1, <1>6, <2>1 DEF Batch, Control, Accounted, Idx
<1>9. TypeOK' /\ BatchesOK'
  BY <1>2, <1>4, <1>5, <1>8, TouchInv DEF TypeOK
<1>10. HasParents(b)'
  BY <1>5, <1>6 DEF HasParents, Touch
<1>11. ParentsOK'
  BY <1>2, <1>4, <1>5, <1>10, TouchParents
<1>12. \A k \in stale' : ~Owner(b, k)
  BY <1>1 DEF Owner, Batch, Control
<1>13. TablesOK'
  BY <1>2, <1>4, <1>5, <1>12, TouchTables
<1> QED BY <1>9, <1>11, <1>13 DEF IInv

\* The counts of the report are those of the staging rows.
LEMMA ReconcileInv == ASSUME IInv, NEW b \in Created, Reconcile(b) PROVE IInv'
<1> DEFINE y == batches[b]
           r == [valid |-> y.raw - y.quarantined, pending |-> y.raw - y.quarantined - y.loaded,
                 anomalies |-> Anomalies(b)]
           x == [y EXCEPT !.status = "COMPLETED", !.report = r]
<1>1. Batch(y, pc[b], task[b]) /\ pc[b] = "reconcile"
  BY BatchAt DEF Reconcile
<1>2. /\ batches' = [batches EXCEPT ![b] = x] /\ pc' = [pc EXCEPT ![b] = "recompute"]
      /\ UNCHANGED <<canon, upload, stale, task>>
  BY BatchAt DEF Reconcile
<1>3. /\ DOMAIN x = Fields /\ x.status = "COMPLETED" /\ x.report = r
      /\ x.file = y.file /\ x.kind = y.kind /\ x.resolved = y.resolved
      /\ x.raw = y.raw /\ x.quarantined = y.quarantined /\ x.loaded = y.loaded /\ x.staging = y.staging
  BY <1>1 DEF Batch, Fields
<1>4. y.file \in Files /\ Counted(y) /\ y.status = "LOADED"
  BY <1>1 DEF Batch, Accounted, Control
<1>5. /\ Cardinality(ValidRows(y)) = y.raw - y.quarantined
      /\ Cardinality(Unloaded(y)) = y.raw - y.quarantined - y.loaded
  <2>1. IsFiniteSet(Idx(y)) /\ Cardinality(Idx(y)) = y.raw
    BY <1>4, RowsTyped DEF Counted, Idx
  <2>2. Idx(y) \cap Quar(y) = Quar(y)
    BY <1>4 DEF Counted, Quar
  <2>3. y.quarantined = Cardinality(Quar(y)) /\ y.loaded = Cardinality(y.resolved)
    BY <1>4 DEF Counted
  <2>4. IsFiniteSet(ValidRows(y)) /\ Cardinality(ValidRows(y)) = y.raw - y.quarantined
    <3> HIDE DEF y
    <3> QED BY <2>1, <2>2, <2>3, FS_Difference DEF ValidRows
  <2>5. ValidRows(y) \cap y.resolved = y.resolved
    BY <1>4 DEF Counted
  <2>6. Cardinality(Unloaded(y)) = Cardinality(ValidRows(y)) - Cardinality(y.resolved)
    <3> HIDE DEF y
    <3>1. IsFiniteSet(ValidRows(y))
      BY <2>4
    <3>2. Cardinality(ValidRows(y) \ y.resolved) =
            Cardinality(ValidRows(y)) - Cardinality(ValidRows(y) \cap y.resolved)
      BY <3>1, FS_Difference
    <3> QED BY <2>5, <3>2 DEF Unloaded
  <2> QED BY <2>3, <2>4, <2>6
<1>6. r.valid = Cardinality(ValidRows(y)) /\ r.pending = Cardinality(Unloaded(y)) /\ r.anomalies = Anomalies(b)
  BY <1>5
<1> HIDE DEF x, r
<1>7. Counted(x)
  <2> HIDE DEF y
  <2>1. Idx(x) = Idx(y) /\ Quar(x) = Quar(y)
    BY <1>3 DEF Idx, Quar
  <2>2. ValidRows(x) = ValidRows(y) /\ Unloaded(x) = Unloaded(y)
    BY <1>3, <2>1 DEF ValidRows, Unloaded
  <2>3. /\ DOMAIN x.staging = Idx(x) /\ x.raw = Len(Rows[x.file])
        /\ \A i \in Idx(x) : x.staging[i] \in {"valid", "quarantined"}
        /\ x.quarantined = Cardinality(Quar(x))
        /\ x.resolved \subseteq ValidRows(x) /\ x.loaded = Cardinality(x.resolved)
    BY <1>3, <1>4, <2>1, <2>2 DEF Counted
  <2>4. \A i \in Unloaded(x) : Rows[x.file][i].review
    BY <1>3, <1>4, <2>2 DEF Counted
  <2>5. x.report.valid = Cardinality(ValidRows(x)) /\ x.report.pending = Cardinality(Unloaded(x))
    BY <1>3, <1>6, <2>2
  <2> QED
    BY <2>3, <2>4, <2>5 DEF Counted
<1>8. Batch(x, "recompute", task[b])
  BY <1>1, <1>3, <1>7 DEF Batch, Control, Accounted, Idx
<1>9. Anomalies(b) \subseteq x.report.anomalies
  BY <1>3, <1>6
<1> HIDE DEF y
<1> QED BY <1>2, <1>3, <1>8, <1>9, StepInv DEF y

-----------------------------------------------------------------------------
(* The load lands.                                                           *)

\* The record of a batch that loads: every valid row is done, bad or waits for review.
LEMMA LoadedCounted ==
  ASSUME IInv, NEW b \in Created, pc[b] = "load", task[b].todo = {}
  PROVE  LET x == LoadedRecord(b)
             y == batches[b]
         IN  /\ DOMAIN x = Fields /\ x.status = "LOADED" /\ x.resolved = task[b].done
             /\ x.file = y.file /\ x.kind = y.kind /\ x.report = Null
             /\ y.resolved = {} /\ Counted(x)
<1> DEFINE x == LoadedRecord(b)
           y == batches[b]
           t == task[b]
<1>1. Batch(y, "load", t)
  BY BatchAt
<1>2. y.file \in Files /\ Counted(y) /\ Working(y, t) /\ y.resolved = {} /\ y.report = Null
  BY <1>1 DEF Batch, Accounted, Control
<1>3. /\ DOMAIN x = Fields /\ x.status = "LOADED" /\ x.staging = LoadStaging(b) /\ x.resolved = t.done
      /\ x.loaded = Cardinality(t.done) /\ x.quarantined = y.quarantined + Cardinality(t.bad)
      /\ x.file = y.file /\ x.kind = y.kind /\ x.report = y.report /\ x.raw = y.raw
  BY <1>1 DEF Batch, Fields, LoadedRecord
<1>4. /\ DOMAIN LoadStaging(b) = Idx(x) /\ Idx(x) = Idx(y)
      /\ \A i \in Idx(x) : LoadStaging(b)[i] = IF i \in t.bad THEN "quarantined" ELSE y.staging[i]
  BY <1>3 DEF LoadStaging, Idx, Indices, RowsOf
<1> HIDE DEF x, t, y
<1>5. Quar(x) = Quar(y) \cup t.bad
  <2>1. t.bad \subseteq Idx(y) /\ DOMAIN y.staging = Idx(y)
    BY <1>2 DEF Working, ValidRows, Counted
  <2> QED BY <1>3, <1>4, <2>1 DEF Quar
<1>6. x.quarantined = Cardinality(Quar(x))
  <2>1. IsFiniteSet(Idx(y))
    BY <1>2, RowsTyped DEF Idx
  <2>2. Quar(y) \subseteq Idx(y) /\ t.bad \subseteq Idx(y) /\ Quar(y) \cap t.bad = {}
    BY <1>2 DEF Quar, Counted, Working, ValidRows
  <2>3. IsFiniteSet(Quar(y)) /\ IsFiniteSet(t.bad)
    BY <2>1, <2>2, FS_Subset
  <2>4. Cardinality(Quar(y) \cup t.bad) = Cardinality(Quar(y)) + Cardinality(t.bad) - Cardinality({})
    BY <2>2, <2>3, FS_Union
  <2>5. Cardinality({}) = 0 /\ Cardinality(Quar(y)) \in Nat /\ Cardinality(t.bad) \in Nat
    BY <2>3, FS_EmptySet, FS_CardinalityType
  <2> QED BY <1>2, <1>3, <1>5, <2>4, <2>5 DEF Counted
<1>7. ValidRows(x) = ValidRows(y) \ t.bad
  BY <1>4, <1>5 DEF ValidRows
<1>8. x.resolved \subseteq ValidRows(x)
  BY <1>2, <1>3, <1>7 DEF Working
<1>9. \A i \in Unloaded(x) : Rows[x.file][i].review
  BY <1>2, <1>3, <1>7 DEF Unloaded, Working, t
<1>10. \A i \in Idx(x) : x.staging[i] \in {"valid", "quarantined"}
  BY <1>2, <1>3, <1>4 DEF Counted
<1>11. Counted(x)
  BY <1>2, <1>3, <1>4, <1>6, <1>8, <1>9, <1>10 DEF Counted
<1> QED BY <1>2, <1>3, <1>11 DEF x, y, t

LEMMA LoadCommitInv == ASSUME IInv, NEW b \in Created, LoadCommit(b) PROVE IInv'
<1> DEFINE x == LoadedRecord(b)
           y == batches[b]
           done == task[b].done
           landed == KeysOf(b, done)
<1>1. pc[b] = "load" /\ task[b].todo = {}
  BY DEF LoadCommit
<1>2. TypeOK /\ BatchesOK /\ ParentsOK /\ TablesOK
  BY DEF IInv
<1>3. /\ DOMAIN x = Fields /\ x.status = "LOADED" /\ x.resolved = done
      /\ x.file = y.file /\ x.kind = y.kind /\ x.report = Null
      /\ y.resolved = {} /\ Counted(x)
  BY <1>1, LoadedCounted
<1>4. Batch(y, "load", task[b])
  BY <1>1, BatchAt
<1>5. /\ batches' = [batches EXCEPT ![b] = x] /\ pc' = [pc EXCEPT ![b] = "reconcile"]
      /\ task' = [task EXCEPT ![b] = Blank] /\ UNCHANGED upload
      /\ canon' = [k \in Keys |-> IF k \in landed THEN b ELSE canon[k]]
      /\ stale' = IF y.kind \in RiskRelevant THEN stale \cup landed ELSE stale
  BY DEF LoadCommit
<1>6. b \in Nat /\ b # Null
  BY <1>2, CreatedSlots, NullAssumption DEF Created
<1>7. landed = {Rows[y.file][i].key : i \in done} /\ landed \subseteq Keys
  <2>1. done \subseteq DOMAIN Rows[y.file] /\ y.file \in Files
    BY <1>1, <1>4 DEF Batch, Working, ValidRows, Idx
  <2> QED BY <2>1, RowsTyped DEF KeysOf, RowsOf
<1> HIDE DEF x, landed, done
<1>8. Touch(b, x, "reconcile", Blank)
  BY <1>2, <1>5, TouchIntro
<1>9. Batch(x, "reconcile", Blank)
  <2>1. x.resolved \subseteq Idx(x)
    BY <1>3 DEF Counted, ValidRows
  <2> QED BY <1>3, <1>4, <2>1, BlankFields DEF Batch, Control, Accounted
<1>10. TypeOK' /\ BatchesOK'
  BY <1>2, <1>5, <1>8, <1>9, TouchInv
<1>11. \A k \in Keys : canon[k] # Null => canon'[k] # Null
  BY <1>5, <1>6
<1>12. ParentsOK'
  <2>1. Created' = Created
    BY <1>2, <1>8, TouchCreated
  <2>2. HasParents(b)'
    BY <1>8 DEF HasParents, Touch
  <2>3. ASSUME NEW o \in Created \ {b} PROVE HasParents(o)'
    <3>1. o \in Slots
      BY <1>2, CreatedSlots
    <3>2. batches'[o] = batches[o] /\ pc'[o] = pc[o] /\ task'[o] = task[o]
      BY <1>8, <3>1 DEF Touch
    <3>3. HasParents(o) /\ Batch(batches[o], pc[o], task[o])
      BY <1>2 DEF ParentsOK, BatchesOK
    <3>4. pc[o] = "load" => \A i \in task[o].done \cup ({task[o].inserting} \ {Null}) :
                              RowsOf(o)[i].parent \in Keys \cup {Null}
      BY <3>3, RowsTyped DEF Batch, Working, ValidRows, Idx, RowsOf
    <3> QED BY <1>11, <3>2, <3>3, <3>4 DEF HasParents, MissingParent, Visible, RowsOf
  <2> QED BY <2>1, <2>2, <2>3 DEF ParentsOK
<1>13. /\ Created' = Created
       /\ \A o \in Created \ {b} : batches'[o] = batches[o]
                                     /\ RowsOf(o)' = RowsOf(o)
                                     /\ KeysOf(o, batches[o].resolved)' = KeysOf(o, batches[o].resolved)
  BY <1>2, <1>8, TouchCreated DEF Touch, KeysOf, RowsOf
<1>14. /\ batches'[b] = x /\ KeysOf(b, batches[b].resolved)' = landed /\ KeysOf(b, y.resolved) = {}
       /\ RowsOf(b)' = Rows[y.file]
  BY <1>3, <1>7, <1>8 DEF Touch, KeysOf, RowsOf
<1>15. \A o \in Created : KeysOf(o, batches[o].resolved) \subseteq Keys
  <2>1. \A o \in Created : batches[o].file \in Files /\ batches[o].resolved \subseteq DOMAIN Rows[batches[o].file]
    BY BatchAt DEF Batch, Idx
  <2> QED BY <2>1, RowsTyped DEF KeysOf, RowsOf
<1>16. AllOrNothing'
  <2>1. ASSUME NEW k \in Keys, NEW o, o = canon'[k], o # Null
        PROVE  o \in Created /\ k \in KeysOf(o, batches[o].resolved)'
    <3>1. CASE k \in landed
      BY <1>5, <1>14, <2>1, <3>1
    <3>2. CASE k \notin landed
      <4>1. o = canon[k]
        BY <1>5, <2>1, <3>2
      <4>2. o \in Created /\ k \in KeysOf(o, batches[o].resolved)
        BY <1>2, <2>1, <4>1 DEF TablesOK, AllOrNothing
      <4>3. o # b
        BY <1>14, <4>2
      <4> QED BY <1>13, <4>2, <4>3
    <3> QED BY <3>1, <3>2
  <2>2. ASSUME NEW o \in Created, NEW k \in KeysOf(o, batches[o].resolved)' PROVE canon'[k] # Null
    <3>1. CASE o = b
      BY <1>5, <1>6, <1>7, <1>14, <3>1
    <3>2. CASE o # b
      <4>1. k \in KeysOf(o, batches[o].resolved)
        BY <1>13, <3>2
      <4>2. canon[k] # Null
        BY <1>2, <4>1 DEF TablesOK, AllOrNothing
      <4> QED BY <1>11, <1>15, <4>1, <4>2
    <3> QED BY <3>1, <3>2
  <2>3. \A k \in Keys : canon'[k] # Null =>
          canon'[k] \in Created' /\ k \in KeysOf(canon[k], batches[canon[k]].resolved)'
    BY <1>13, <2>1
  <2> QED BY <1>13, <2>2, <2>3 DEF AllOrNothing
<1>17. NoOrphans'
  <2>1. ASSUME NEW i \in done, RowsOf(b)[i].parent # Null PROVE canon'[RowsOf(b)[i].parent] # Null
    <3>1. RowsOf(b)[i].parent \in Keys
      <4>1. y.file \in Files /\ i \in DOMAIN Rows[y.file]
        BY <1>4 DEF Batch, Working, ValidRows, Idx, done
      <4> QED BY <2>1, <4>1, RowsTyped DEF RowsOf
    <3>2. ~MissingParent(b, i)
      BY <1>1, <1>2 DEF ParentsOK, HasParents, done
    <3>3. RowsOf(b)[i].parent \in task[b].ins \/ canon[RowsOf(b)[i].parent] # Null
      BY <2>1, <3>2 DEF MissingParent, Visible
    <3>4. task[b].ins \subseteq landed
      BY <1>4, <1>7 DEF Batch, Working, done
    <3> QED BY <1>5, <1>6, <3>1, <3>3, <3>4
  <2>2. ASSUME NEW o \in Created \ {b}, NEW i \in batches[o].resolved, RowsOf(o)[i].parent # Null
        PROVE  canon'[RowsOf(o)[i].parent] # Null
    <3>1. canon[RowsOf(o)[i].parent] # Null
      BY <1>2, <2>2 DEF TablesOK, NoOrphans
    <3>2. RowsOf(o)[i].parent \in Keys
      <4>1. batches[o].file \in Files /\ i \in DOMAIN Rows[batches[o].file]
        BY BatchAt DEF Batch, Idx
      <4> QED BY <2>2, <4>1, RowsTyped DEF RowsOf
    <3> QED BY <1>11, <3>1, <3>2
  <2>3. RowsOf(b)' = RowsOf(b) /\ batches'[b].resolved = done
    BY <1>3, <1>14 DEF RowsOf
  <2>4. \A o \in Created \ {b} : RowsOf(o)' = RowsOf(o) /\ batches'[o].resolved = batches[o].resolved
    BY <1>13
  <2>5. ASSUME NEW o \in Created, NEW i \in batches'[o].resolved, RowsOf(o)'[i].parent # Null
        PROVE  canon'[RowsOf(o)'[i].parent] # Null
    BY <2>1, <2>2, <2>3, <2>4, <2>5
  <2> QED BY <1>13, <2>5 DEF NoOrphans
<1>18. ReportsOK'
  <2>1. ASSUME NEW o \in Created \ {b} PROVE Anomalies(o)' \subseteq Anomalies(o)
    BY <1>5 DEF Anomalies, Odd
  <2> QED BY <1>2, <1>3, <1>13, <1>14, <2>1 DEF TablesOK, ReportsOK
<1>19. StaleOK'
  <2>1. ASSUME NEW o \in Created, NEW k, Owner(o, k) PROVE Owner(o, k)'
    <3>1. o # b /\ o \in Slots
      BY <1>2, <1>14, <2>1, CreatedSlots DEF Owner
    <3>2. batches'[o] = batches[o] /\ pc'[o] = pc[o] /\ task'[o] = task[o]
      BY <1>8, <3>1 DEF Touch
    <3> QED BY <1>13, <2>1, <3>1, <3>2 DEF Owner
  <2>2. ASSUME NEW k \in landed, y.kind \in RiskRelevant PROVE Owner(b, k)'
    BY <1>3, <1>8, <1>14, <2>2 DEF Owner, Touch
  <2>3. ASSUME NEW k \in stale' PROVE \E o \in Created : Owner(o, k)'
    <3>1. CASE k \in stale
      BY <1>2, <2>1, <3>1 DEF TablesOK, StaleOK
    <3>2. CASE k \notin stale
      BY <1>5, <2>2, <2>3, <3>2
    <3> QED BY <3>1, <3>2
  <2> QED BY <1>13, <2>3 DEF StaleOK
<1> QED BY <1>10, <1>12, <1>16, <1>17, <1>18, <1>19 DEF IInv, TablesOK

-----------------------------------------------------------------------------
(* Requests and crashes.                                                     *)

\* A request that makes no batch.
LEMMA RequestInv ==
  ASSUME IInv, UNCHANGED <<batches, canon, stale, pc, task>>,
         upload' = [u \in Uploaders |-> upload'[u]],
         \A u \in Uploaders : upload'[u] # Null => upload'[u].file \in Files
  PROVE  IInv'
<1>1. Created' = Created /\ Slots' = Slots
  BY DEF Created, Slots
<1>2. TypeOK' /\ BatchesOK'
  BY <1>1 DEF IInv, TypeOK, BatchesOK, IsSeq
<1>3. ParentsOK'
  BY <1>1 DEF IInv, ParentsOK, HasParents, MissingParent, Visible, RowsOf
<1>4. AllOrNothing' /\ NoOrphans' /\ ReportsOK' /\ StaleOK'
  BY <1>1, SMTT(30) DEF IInv, TablesOK, AllOrNothing, NoOrphans, ReportsOK, StaleOK, Owner, KeysOf, RowsOf,
              Anomalies, Odd
<1> QED BY <1>2, <1>3, <1>4 DEF IInv, TablesOK

LEMMA UploadInv ==
  ASSUME IInv, NEW u \in Uploaders, NEW f \in Files, NEW k \in Kinds, UploadLookup(u, f, k)
  PROVE  IInv'
<1>1. /\ UNCHANGED <<batches, canon, stale, pc, task>>
      /\ upload' = upload \/ upload' = [upload EXCEPT ![u] = [file |-> f, kind |-> k]]
  BY DEF UploadLookup
<1>2. /\ upload = [v \in Uploaders |-> upload[v]]
      /\ \A v \in Uploaders : upload[v] # Null => upload[v].file \in Files
  BY DEF IInv, TypeOK
<1>3. CASE upload' = upload
  BY <1>1, <1>2, <1>3, RequestInv
<1>4. CASE upload' = [upload EXCEPT ![u] = [file |-> f, kind |-> k]]
  <2>1. upload'[u] = [file |-> f, kind |-> k] /\ \A v \in Uploaders \ {u} : upload'[v] = upload[v]
    BY <1>2, <1>4
  <2>2. upload' = [v \in Uploaders |-> upload'[v]]
    BY <1>2, <1>4
  <2>3. \A v \in Uploaders : upload'[v] # Null => upload'[v].file \in Files
    BY <1>2, <2>1
  <2> QED BY <1>1, <2>2, <2>3, RequestInv
<1> QED BY <1>1, <1>3, <1>4

LEMMA AppendBatch ==
  ASSUME IsSeq(batches), NEW x, batches' = Append(batches, x)
  PROVE  /\ IsSeq(batches)' /\ Len(batches') = Len(batches) + 1 /\ Len(batches) \in Nat
         /\ batches'[Len(batches) + 1] = x /\ \A o \in Created : batches'[o] = batches[o]
         /\ Created' = Created \cup {Len(batches) + 1}
<1> DEFINE S == {batches[i] : i \in 1..Len(batches)} \cup {x}
<1>1. batches \in Seq(S) /\ Len(batches) \in Nat
  BY DEF IsSeq
<1>2. /\ batches' \in Seq(S) /\ Len(batches') = Len(batches) + 1
      /\ batches'[Len(batches) + 1] = x /\ \A o \in 1..Len(batches) : batches'[o] = batches[o]
  BY <1>1, AppendProperties
<1>3. \A j \in 1..Len(batches') : batches'[j] \in {batches'[i] : i \in 1..Len(batches')}
  OBVIOUS
<1>4. IsSeq(batches)'
  BY <1>2, <1>3, Reseq DEF IsSeq
<1>5. Created' = Created \cup {Len(batches) + 1}
  BY <1>1, <1>2 DEF Created
<1> QED BY <1>1, <1>2, <1>4, <1>5 DEF Created

LEMMA CommitInv == ASSUME IInv, NEW u \in Uploaders, UploadCommit(u) PROVE IInv'
<1>0. PICK b, x : b = Len(batches) + 1 /\ x = NewBatch(upload[u])
  OBVIOUS
<1>1. /\ batches' = Append(batches, x) /\ pc' = [pc EXCEPT ![b] = "parse"]
      /\ upload' = [upload EXCEPT ![u] = Null] /\ Len(batches) < MaxBatches
      /\ UNCHANGED <<canon, stale, task>>
  BY <1>0 DEF UploadCommit
<1>2. TypeOK /\ BatchesOK /\ ParentsOK /\ TablesOK /\ MaxBatches \in Nat
  BY BoundsAssumption DEF IInv
<1>3. /\ IsSeq(batches)' /\ Len(batches') = b /\ Len(batches) \in Nat
      /\ batches'[b] = x /\ \A o \in Created : batches'[o] = batches[o]
      /\ Created' = Created \cup {b}
  BY <1>0, <1>1, <1>2, AppendBatch DEF TypeOK
<1>4. b \in Slots /\ b \notin Created
  BY <1>0, <1>1, <1>2, <1>3 DEF Slots, Created
<1>5. /\ pc' = [o \in Slots |-> pc'[o]] /\ pc'[b] = "parse" /\ \A o \in Slots \ {b} : pc'[o] = pc[o]
      /\ task'[b] = Blank
  BY <1>1, <1>2, <1>4 DEF TypeOK
<1>6. /\ upload' = [v \in Uploaders |-> upload'[v]]
      /\ \A v \in Uploaders : upload'[v] # Null => upload'[v] = upload[v]
  BY <1>1, <1>2 DEF TypeOK
<1>7. Created \subseteq Slots
  BY <1>2, CreatedSlots
<1>8. /\ DOMAIN x = Fields /\ x.file \in Files /\ x.status = "RECEIVED" /\ x.staging = <<>>
      /\ x.resolved = {} /\ x.loaded = 0 /\ x.report = Null
  <2>1. upload[u] # Null
    BY DEF UploadCommit
  <2>2. upload[u].file \in Files
    BY <1>2, <2>1 DEF TypeOK
  <2> QED BY <1>0, <2>2 DEF NewBatch, Fields
<1>9. Batch(x, "parse", Blank)
  BY <1>8, BlankFields DEF Batch, Control, Accounted
<1>10. TypeOK'
  <2>1. \A o \in Slots \ Created' : pc'[o] = "none" /\ task'[o] = Blank
    BY <1>1, <1>2, <1>3, <1>5 DEF TypeOK
  <2>2. Len(batches') <= MaxBatches
    BY <1>0, <1>1, <1>2, <1>3
  <2>3. Slots' = Slots
    BY DEF Slots
  <2>4. \A v \in Uploaders : upload'[v] # Null => upload'[v].file \in Files
    BY <1>2, <1>6 DEF TypeOK
  <2> QED BY <1>1, <1>2, <1>3, <1>5, <1>6, <2>1, <2>2, <2>3, <2>4 DEF TypeOK
<1>11. \A o \in Created : batches'[o] = batches[o] /\ pc'[o] = pc[o] /\ task'[o] = task[o]
  BY <1>1, <1>3, <1>4, <1>5, <1>7
<1>12. BatchesOK'
  BY <1>2, <1>3, <1>5, <1>9, <1>11 DEF BatchesOK
<1>13. ParentsOK'
  <2>1. ASSUME NEW o \in Created PROVE HasParents(o)'
    <3>1. batches'[o] = batches[o] /\ pc'[o] = pc[o] /\ task'[o] = task[o] /\ canon' = canon
      BY <1>1, <1>11
    <3>2. HasParents(o)
      BY <1>2 DEF ParentsOK
    <3> QED BY <3>1, <3>2 DEF HasParents, MissingParent, Visible, RowsOf
  <2>2. HasParents(b)'
    BY <1>5 DEF HasParents
  <2> QED BY <1>3, <2>1, <2>2 DEF ParentsOK
<1>14. \A o \in Created : RowsOf(o)' = RowsOf(o) /\ KeysOf(o, batches[o].resolved)' = KeysOf(o, batches[o].resolved)
  BY <1>11 DEF RowsOf, KeysOf
<1>15. KeysOf(b, batches[b].resolved)' = {} /\ batches'[b].resolved = {}
  BY <1>3, <1>8 DEF KeysOf
<1>16. AllOrNothing'
  <2>1. \A k \in Keys : canon[k] # Null =>
          canon[k] \in Created' /\ k \in KeysOf(canon[k], batches[canon[k]].resolved)'
    BY <1>1, <1>2, <1>3, <1>14 DEF TablesOK, AllOrNothing
  <2>2. \A o \in Created' : \A k \in KeysOf(o, batches[o].resolved)' : canon[k] # Null
    BY <1>2, <1>3, <1>14, <1>15 DEF TablesOK, AllOrNothing
  <2> QED BY <1>1, <2>1, <2>2 DEF AllOrNothing
<1>17. NoOrphans'
  <2>1. ASSUME NEW o \in Created, NEW i \in batches'[o].resolved, RowsOf(o)'[i].parent # Null
        PROVE  canon[RowsOf(o)'[i].parent] # Null
    BY <1>2, <1>11, <1>14, <2>1 DEF TablesOK, NoOrphans
  <2> QED BY <1>1, <1>3, <1>15, <2>1 DEF NoOrphans
<1>18. ReportsOK'
  <2>1. \A o : Anomalies(o)' = Anomalies(o)
    BY <1>1 DEF Anomalies, Odd
  <2> QED BY <1>2, <1>3, <1>8, <1>11, <2>1 DEF TablesOK, ReportsOK
<1>19. StaleOK'
  <2>1. \A o \in Created : \A k : Owner(o, k) => Owner(o, k)'
    BY <1>11, <1>14 DEF Owner
  <2> QED BY <1>1, <1>2, <1>3, <2>1 DEF TablesOK, StaleOK
<1> QED BY <1>10, <1>12, <1>13, <1>16, <1>17, <1>18, <1>19 DEF IInv, TablesOK

LEMMA CrashInv == ASSUME IInv, Crash PROVE IInv'
<1>1. /\ upload' = [u \in Uploaders |-> Null]
      /\ pc' = [b \in Slots |-> IF pc[b] \in Running THEN "lost" ELSE pc[b]]
      /\ task' = [b \in Slots |-> Blank] /\ UNCHANGED <<batches, canon, stale>>
  BY DEF Crash
<1>2. Created' = Created /\ Slots' = Slots /\ Created \subseteq Slots
  BY <1>1, CreatedSlots DEF Created, Slots, IInv
<1>3. TypeOK'
  <2>1. \A b \in Slots \ Created : pc'[b] = "none" /\ task'[b] = Blank
    BY <1>1 DEF IInv, TypeOK, Running
  <2> QED BY <1>1, <1>2, <2>1 DEF IInv, TypeOK, IsSeq
<1>4. ASSUME NEW b \in Created
      PROVE  /\ task'[b] = Blank /\ pc'[b] \in {"done", "lost"}
             /\ pc'[b] = "done" => pc[b] = "done"
  BY <1>1, <1>2, BatchAt DEF Batch, Control, Running
<1>5. BatchesOK'
  <2>1. ASSUME NEW b \in Created PROVE Batch(batches[b], pc'[b], Blank)
    <3>1. Batch(batches[b], pc[b], task[b])
      BY BatchAt
    <3>2. CASE pc'[b] = "done"
      BY <1>4, <3>1, <3>2, BlankFields DEF Batch, Control, Accounted
    <3>3. CASE pc'[b] # "done"
      <4>1. pc'[b] = "lost" /\ pc[b] # "done"
        BY <1>1, <1>2, <1>4, <3>1, <3>3 DEF Batch, Control, Running
      <4> QED BY <3>1, <4>1, BlankFields DEF Batch, Control, Accounted
    <3> QED BY <3>2, <3>3
  <2> QED BY <1>1, <1>2, <1>4, <2>1 DEF BatchesOK
<1>6. ParentsOK'
  BY <1>2, <1>4 DEF ParentsOK, HasParents
<1>7. \A b \in Created : \A k : Owner(b, k) => Owner(b, k)'
  BY <1>1, <1>4 DEF Owner, KeysOf, RowsOf
<1>8. AllOrNothing' /\ NoOrphans' /\ ReportsOK'
  BY <1>1, <1>2 DEF IInv, TablesOK, AllOrNothing, NoOrphans, ReportsOK, KeysOf, RowsOf, Anomalies, Odd
<1>9. StaleOK'
  BY <1>1, <1>2, <1>7 DEF IInv, TablesOK, StaleOK
<1> QED BY <1>3, <1>5, <1>6, <1>8, <1>9 DEF IInv, TablesOK

-----------------------------------------------------------------------------
LEMMA InitInv == Init => IInv
<1> SUFFICES ASSUME Init PROVE IInv
  OBVIOUS
<1>1. batches = <<>> /\ Len(batches) = 0 /\ Created = {}
  BY DEF Init, Created
<1>2. TypeOK
  <2>1. IsSeq(batches)
    BY <1>1 DEF IsSeq
  <2>2. MaxBatches \in Nat
    BY BoundsAssumption
  <2> QED BY <1>1, <2>1, <2>2 DEF Init, TypeOK
<1> QED BY <1>1, <1>2 DEF Init, IInv, BatchesOK, ParentsOK, TablesOK, AllOrNothing, NoOrphans,
                            ReportsOK, StaleOK

LEMMA WorkInv == ASSUME IInv, NEW b \in Created, Work(b) PROVE IInv'
<1>1. ASSUME NEW i \in Indices(b), LoadRow(b, i) PROVE IInv'
  BY <1>1, RowInv
<1>2. CASE NoMapping(b) \/ Unsupported(b) \/ InsertCollides(b) \/ DeadlockVictim(b)
  <2>1. Abort(b) /\ pc[b] \in {"parse", "clean", "begin", "load", "reconcile"}
    BY <1>2 DEF NoMapping, Unsupported, InsertCollides, DeadlockVictim, Inserting
  <2> QED BY <2>1, AbortInv
<1> QED BY <1>1, <1>2, ParseInv, CleanInv, BeginLoadInv, InsertInv, LoadCommitInv, ReconcileInv,
           MarkFailedInv, RecomputeInv, OutcomeInv DEF Work

LEMMA NextInv == IInv /\ [Next]_vars => IInv'
<1> SUFFICES ASSUME IInv, [Next]_vars PROVE IInv'
  OBVIOUS
<1>1. ASSUME NEW k \in Kinds, CreateMapping(k) PROVE IInv'
  BY <1>1, RequestInv DEF CreateMapping, IInv, TypeOK
<1>2. ASSUME NEW u \in Uploaders, UploadCommit(u) PROVE IInv'
  BY <1>2, CommitInv
<1>3. ASSUME NEW u \in Uploaders, NEW f \in Files, NEW k \in Kinds, UploadLookup(u, f, k) PROVE IInv'
  BY <1>3, UploadInv
<1>4. ASSUME NEW b \in Created, Fault(b) PROVE IInv'
  BY <1>4, AbortInv DEF Fault
<1>5. CASE UNCHANGED vars
  BY <1>5, RequestInv DEF vars, IInv, TypeOK
<1> QED BY <1>1, <1>2, <1>3, <1>4, <1>5, WorkInv, RecordFailsInv, CrashInv DEF Next

LEMMA AlwaysIInv == Spec => []IInv
BY InitInv, NextInv, PTL DEF Spec

\* A staged batch keeps count of its rows, and the unloaded ones wait for review.
LEMMA CountsInv == IInv => RowsConserved
<1> SUFFICES ASSUME IInv, NEW b \in Created, Staged(b)
             PROVE  LET batch == batches[b]
                    IN  /\ DOMAIN batch.staging = Indices(b) /\ batch.raw = Len(RowsOf(b))
                        /\ batch.quarantined = Cardinality(Quarantined(b))
                        /\ batch.loaded = Cardinality(batch.resolved)
                        /\ Loaded(b) => \A i \in Reviewed(b) : RowsOf(b)[i].review
                        /\ batch.report # Null =>
                             /\ batch.report.valid = Cardinality(Indices(b) \ Quarantined(b))
                             /\ batch.report.pending = Cardinality(Reviewed(b))
  BY DEF RowsConserved
<1>1. Counted(batches[b])
  BY BatchAt DEF Batch, Accounted, Staged
<1>2. /\ Indices(b) = Idx(batches[b]) /\ Quarantined(b) = Quar(batches[b])
      /\ Indices(b) \ Quarantined(b) = ValidRows(batches[b]) /\ Reviewed(b) = Unloaded(batches[b])
  BY DEF Indices, RowsOf, Idx, Quarantined, Quar, ValidRows, Reviewed, Unloaded
<1> QED BY <1>1, <1>2 DEF Counted, RowsOf, Loaded

LEMMA OwnedInv == IInv => StaleHasAnOwner
<1> SUFFICES ASSUME IInv, NEW b \in Created, NEW k, Owner(b, k) PROVE Responsible(b, k)
  BY DEF IInv, TablesOK, StaleOK, StaleHasAnOwner
<1> QED BY DEF Owner, Responsible, EndedBadly

LEMMA ReportedInv == IInv => NoAnomalyEscapes
<1> SUFFICES ASSUME IInv, NEW k \in Odd, canon[k] # Null, batches[canon[k]].status = "COMPLETED"
             PROVE  k \in batches[canon[k]].report.anomalies
  BY DEF NoAnomalyEscapes
<1>1. canon[k] \in Created
  BY DEF Odd, IInv, TablesOK, AllOrNothing
<1>2. k \in Anomalies(canon[k])
  BY DEF Anomalies
<1> QED BY <1>1, <1>2 DEF IInv, TablesOK, ReportsOK

\* Whatever fails, deadlocks, collides or dies, and however many batches overlap: a canonical row
\* names a batch that committed its load with that row in it, and every row of such a batch is there.
THEOREM AlwaysAllOrNothing == Spec => []AllOrNothing
BY AlwaysIInv, PTL DEF IInv, TablesOK

\* The parent a row found while it loaded is still there once the row is: a key never leaves the
\* canonical tables, and one the batch inserted itself lands with it.
THEOREM AlwaysNoOrphans == Spec => []NoOrphans
BY AlwaysIInv, PTL DEF IInv, TablesOK

\* The counts of a staged batch and of its report are those of its rows, through both phases that
\* quarantine; a row neither quarantined nor loaded is one that waits for review.
THEOREM AlwaysRowsConserved == Spec => []RowsConserved
BY AlwaysIInv, CountsInv, PTL

\* An anomalous canonical row is in the report of the batch its provenance names, if that batch is
\* COMPLETED: no later batch can have taken the row over before the report was written.
THEOREM AlwaysAnomaliesReported == Spec => []NoAnomalyEscapes
BY AlwaysIInv, ReportedInv, PTL

\* What a risk recompute has not covered belongs to a batch whose recompute is to come, or to one
\* whose failure is on record or whose task was lost.
THEOREM AlwaysStaleOwned == Spec => []StaleHasAnOwner
BY AlwaysIInv, OwnedInv, PTL

-----------------------------------------------------------------------------
(* As many batches of a content as requests at once.                         *)

\* the requests that found nothing and are about to insert
Pending(f) == {u \in Uploaders : upload[u] # Null /\ upload[u].file = f}

\* Every batch of a content takes the place of a request that was in flight with the others.
OInv == \A f \in Files : Cardinality(Existing(f)) + Cardinality(Pending(f)) <= Cardinality(Uploaders)

LEMMA Counts ==
  ASSUME IsFiniteSet(Uploaders), NEW f, Len(batches) \in Nat
  PROVE  /\ IsFiniteSet(Existing(f)) /\ Cardinality(Existing(f)) \in Nat
         /\ IsFiniteSet(Pending(f)) /\ Cardinality(Pending(f)) \in Nat
         /\ Cardinality(Pending(f)) <= Cardinality(Uploaders) /\ Cardinality(Uploaders) \in Nat
<1>1. IsFiniteSet(Created)
  BY FS_Interval DEF Created
<1>2. Existing(f) \subseteq Created /\ Pending(f) \subseteq Uploaders
  BY DEF Existing, Pending
<1> QED BY <1>1, <1>2, FS_Subset, FS_CardinalityType

\* A task never changes what its batch is a batch of.
LEMMA WorkKeepsFiles ==
  ASSUME IInv, NEW b \in Created, Work(b) \/ Fault(b) \/ RecordFails(b)
  PROVE  /\ Created' = Created /\ UNCHANGED upload
         /\ \A o \in Created : batches'[o].file = batches[o].file
<1>1. Batch(batches[b], pc[b], task[b]) /\ IsSeq(batches)
  BY BatchAt DEF IInv, TypeOK
<1>2. "file" \in DOMAIN batches[b]
  BY <1>1 DEF Batch, Fields
<1>3. ASSUME NEW x, batches' = [batches EXCEPT ![b] = x], x.file = batches[b].file
      PROVE  Created' = Created /\ \A o \in Created : batches'[o].file = batches[o].file
  <2>1. Len(batches') = Len(batches) /\ batches'[b] = x
        /\ \A o \in Created \ {b} : batches'[o] = batches[o]
    BY <1>1, <1>3, SetBatch
  <2> QED BY <1>3, <2>1 DEF Created
<1>4. CASE Parse(b)
  <2>1. batches' = [batches EXCEPT ![b] = [batches[b] EXCEPT !.status = "PARSED", !.raw = Len(RowsOf(b))]]
    BY <1>4, BatchAt DEF Parse
  <2>2. [batches[b] EXCEPT !.status = "PARSED", !.raw = Len(RowsOf(b))].file = batches[b].file
    BY <1>2
  <2> QED BY <1>3, <1>4, <2>1, <2>2 DEF Parse
<1>5. CASE Clean(b)
  <2>1. PICK st, q : batches' = [batches EXCEPT ![b] =
                       [batches[b] EXCEPT !.status = "CLEANED", !.staging = st, !.quarantined = q]]
    BY <1>5, BatchAt DEF Clean
  <2>2. [batches[b] EXCEPT !.status = "CLEANED", !.staging = st, !.quarantined = q].file = batches[b].file
    BY <1>2
  <2> QED BY <1>3, <1>5, <2>1, <2>2 DEF Clean
<1>6. CASE LoadCommit(b)
  <2>1. batches' = [batches EXCEPT ![b] = LoadedRecord(b)] /\ LoadedRecord(b).file = batches[b].file
    BY <1>6, LoadedCounted DEF LoadCommit
  <2> QED BY <1>3, <1>6, <2>1 DEF LoadCommit
<1>7. CASE Reconcile(b)
  <2>1. PICK r : batches' = [batches EXCEPT ![b] = [batches[b] EXCEPT !.status = "COMPLETED", !.report = r]]
    BY <1>7, BatchAt DEF Reconcile
  <2>2. [batches[b] EXCEPT !.status = "COMPLETED", !.report = r].file = batches[b].file
    BY <1>2
  <2> QED BY <1>3, <1>7, <2>1, <2>2 DEF Reconcile
<1>8. CASE MarkFailed(b)
  <2>1. batches' = [batches EXCEPT ![b] = [batches[b] EXCEPT !.status = "FAILED"]]
    BY <1>8, BatchAt DEF MarkFailed
  <2>2. [batches[b] EXCEPT !.status = "FAILED"].file = batches[b].file
    BY <1>2
  <2> QED BY <1>3, <1>8, <2>1, <2>2 DEF MarkFailed
<1>9. CASE SetRecomputeOutcome(b)
  <2>1. batches' = [batches EXCEPT ![b] = [batches[b] EXCEPT !.recompute = task[b].outcome]]
    BY <1>9, BatchAt DEF SetRecomputeOutcome
  <2>2. [batches[b] EXCEPT !.recompute = task[b].outcome].file = batches[b].file
    BY <1>2
  <2> QED BY <1>3, <1>9, <2>1, <2>2 DEF SetRecomputeOutcome
<1>10. CASE UNCHANGED <<batches, upload>>
  BY <1>10 DEF Created
<1>11. ASSUME NEW i \in Indices(b), LoadRow(b, i) PROVE UNCHANGED <<batches, upload>>
  BY <1>11 DEF LoadRow, RowPending, RowUnresolved, RowUpdates, RowNotFound, OnlyTask
<1>12. NoMapping(b) \/ BeginLoad(b) \/ Unsupported(b) \/ InsertRow(b) \/ InsertCollides(b)
         \/ DeadlockVictim(b) \/ Recompute(b) \/ Fault(b) \/ RecordFails(b) => UNCHANGED <<batches, upload>>
  BY DEF NoMapping, BeginLoad, Unsupported, InsertRow, InsertCollides, DeadlockVictim, Recompute,
         OnlyTask, Abort, Fault, RecordFails
<1> QED BY <1>4, <1>5, <1>6, <1>7, <1>8, <1>9, <1>10, <1>11, <1>12 DEF Work

\* A step that makes no batch and starts no insert.
LEMMA SameContents ==
  ASSUME IsFiniteSet(Uploaders), IInv, OInv,
         Created' = Created, \A o \in Created : batches'[o].file = batches[o].file,
         \A u \in Uploaders : upload'[u] = upload[u] \/ upload'[u] = Null
  PROVE  OInv'
<1> Len(batches) \in Nat
  BY DEF IInv, TypeOK, IsSeq
<1> SUFFICES ASSUME NEW f \in Files
             PROVE  (Cardinality(Existing(f)) + Cardinality(Pending(f)) <= Cardinality(Uploaders))'
  BY DEF OInv
<1>1. Existing(f)' = Existing(f)
  BY DEF Existing
<1>2. Pending(f)' \subseteq Pending(f)
  BY DEF Pending
<1>3. Cardinality(Pending(f)') <= Cardinality(Pending(f)) /\ Cardinality(Pending(f)') \in Nat
  BY <1>2, Counts, FS_Subset, FS_CardinalityType
<1>4. Cardinality(Existing(f)) + Cardinality(Pending(f)) <= Cardinality(Uploaders)
  BY DEF OInv
<1> QED BY <1>1, <1>3, <1>4, Counts

\* The lookup leaves an insert behind only when it found nothing.
LEMMA LookupOnce ==
  ASSUME IsFiniteSet(Uploaders), IInv, OInv,
         NEW u \in Uploaders, NEW f \in Files, NEW k \in Kinds, UploadLookup(u, f, k)
  PROVE  OInv'
<1> Len(batches) \in Nat
  BY DEF IInv, TypeOK, IsSeq
<1>1. UNCHANGED batches
  BY DEF UploadLookup
<1>2. \A g : Existing(g)' = Existing(g)
  BY <1>1 DEF Existing, Created
<1>3. upload = [v \in Uploaders |-> upload[v]]
  BY DEF IInv, TypeOK
<1>4. CASE UNCHANGED upload
  BY <1>1, <1>4, SameContents DEF Created
<1>5. CASE Existing(f) = {} /\ upload' = [upload EXCEPT ![u] = [file |-> f, kind |-> k]]
  <2> SUFFICES ASSUME NEW g \in Files
               PROVE  (Cardinality(Existing(g)) + Cardinality(Pending(g)) <= Cardinality(Uploaders))'
    BY DEF OInv
  <2>1. CASE g = f
    <3>1. Pending(f)' \subseteq Uploaders
      BY DEF Pending
    <3>2. Cardinality(Pending(f)') <= Cardinality(Uploaders) /\ Cardinality(Pending(f)') \in Nat
      BY <3>1, FS_Subset, FS_CardinalityType
    <3>3. Cardinality(Existing(g)') = 0
      BY <1>2, <1>5, <2>1, FS_EmptySet
    <3> QED BY <2>1, <3>2, <3>3, Counts
  <2>2. CASE g # f
    <3>1. Pending(g)' \subseteq Pending(g)
      BY <1>3, <1>5, <2>2 DEF Pending
    <3>2. Cardinality(Pending(g)') <= Cardinality(Pending(g)) /\ Cardinality(Pending(g)') \in Nat
      BY <3>1, Counts, FS_Subset, FS_CardinalityType
    <3>3. Cardinality(Existing(g)) + Cardinality(Pending(g)) <= Cardinality(Uploaders)
      BY DEF OInv
    <3> QED BY <1>2, <3>2, <3>3, Counts
  <2> QED BY <2>1, <2>2
<1> QED BY <1>4, <1>5 DEF UploadLookup

\* The insert turns a request in flight into a batch.
LEMMA CommitOnce ==
  ASSUME IsFiniteSet(Uploaders), IInv, OInv, NEW u \in Uploaders, UploadCommit(u) PROVE OInv'
<1> Len(batches) \in Nat
  BY DEF IInv, TypeOK, IsSeq
<1>0. PICK b : b = Len(batches) + 1
  OBVIOUS
<1>2. /\ Created' = Created \cup {b} /\ batches'[b] = NewBatch(upload[u])
      /\ \A o \in Created : batches'[o] = batches[o]
  BY <1>0, AppendBatch DEF UploadCommit, IInv, TypeOK
<1>3. batches'[b].file = upload[u].file
  BY <1>2 DEF NewBatch
<1>4. /\ upload' = [upload EXCEPT ![u] = Null] /\ upload = [v \in Uploaders |-> upload[v]]
      /\ upload[u] # Null
  BY DEF UploadCommit, IInv, TypeOK
<1> SUFFICES ASSUME NEW g \in Files
             PROVE  (Cardinality(Existing(g)) + Cardinality(Pending(g)) <= Cardinality(Uploaders))'
  BY DEF OInv
<1>5. Cardinality(Existing(g)) + Cardinality(Pending(g)) <= Cardinality(Uploaders)
  BY DEF OInv
<1>6. CASE upload[u].file = g
  <2>1. Existing(g)' \subseteq Existing(g) \cup {b}
    BY <1>2 DEF Existing
  <2>2. Pending(g)' \subseteq Pending(g) \ {u} /\ u \in Pending(g)
    BY <1>4, <1>6 DEF Pending
  <2>0. PICK E : E = Existing(g) /\ IsFiniteSet(E) /\ Cardinality(E) \in Nat
    BY Counts
  <2>3. /\ IsFiniteSet(Existing(g) \cup {b})
        /\ Cardinality(Existing(g) \cup {b}) <= Cardinality(Existing(g)) + 1
    <3>1. /\ IsFiniteSet(E \cup {b})
          /\ \/ Cardinality(E \cup {b}) = Cardinality(E)
             \/ Cardinality(E \cup {b}) = Cardinality(E) + 1
      BY <2>0, FS_AddElement
    <3> QED BY <2>0, <3>1
  <2>4. IsFiniteSet(Pending(g) \ {u}) /\ Cardinality(Pending(g) \ {u}) = Cardinality(Pending(g)) - 1
    BY <2>2, Counts, FS_RemoveElement
  <2>5. /\ Cardinality(Existing(g)') <= Cardinality(Existing(g) \cup {b})
        /\ Cardinality(Existing(g)') \in Nat
    BY <2>1, <2>3, FS_Subset, FS_CardinalityType
  <2>6. /\ Cardinality(Pending(g)') <= Cardinality(Pending(g) \ {u})
        /\ Cardinality(Pending(g)') \in Nat
    BY <2>2, <2>4, FS_Subset, FS_CardinalityType
  <2>7. Cardinality(Existing(g) \cup {b}) \in Nat
    BY <2>3, FS_CardinalityType
  <2> QED BY <1>5, <2>3, <2>4, <2>5, <2>6, <2>7, Counts
<1>7. CASE upload[u].file # g
  <2>1. Existing(g)' \subseteq Existing(g)
    BY <1>2, <1>3, <1>7 DEF Existing
  <2>2. Pending(g)' \subseteq Pending(g)
    BY <1>4 DEF Pending
  <2>3. /\ Cardinality(Existing(g)') <= Cardinality(Existing(g)) /\ Cardinality(Existing(g)') \in Nat
        /\ Cardinality(Pending(g)') <= Cardinality(Pending(g)) /\ Cardinality(Pending(g)') \in Nat
    BY <2>1, <2>2, Counts, FS_Subset, FS_CardinalityType
  <2> QED BY <1>5, <2>3, Counts
<1> QED BY <1>6, <1>7

LEMMA OnceInv == IsFiniteSet(Uploaders) /\ IInv /\ OInv /\ [Next]_vars => OInv'
<1> SUFFICES ASSUME IsFiniteSet(Uploaders), IInv, OInv, [Next]_vars PROVE OInv'
  OBVIOUS
<1>1. CASE UNCHANGED <<batches, upload>>
  BY <1>1, SameContents DEF Created
<1>2. ASSUME NEW k \in Kinds, CreateMapping(k) PROVE UNCHANGED <<batches, upload>>
  BY <1>2 DEF CreateMapping
<1>3. ASSUME NEW b \in Created, Work(b) \/ Fault(b) \/ RecordFails(b) PROVE OInv'
  BY <1>3, WorkKeepsFiles, SameContents
<1>4. CASE Crash
  <2>1. UNCHANGED batches /\ \A u \in Uploaders : upload'[u] = Null
    BY <1>4 DEF Crash
  <2> QED BY <2>1, SameContents DEF Created
<1>5. CASE UNCHANGED vars
  BY <1>1, <1>5 DEF vars
<1> QED BY <1>1, <1>2, <1>3, <1>4, <1>5, LookupOnce, CommitOnce DEF Next

\* A content has never more batches than there are requests at once, whatever the tasks, failures
\* and crashes do between the lookups and the inserts: only requests in flight together can make a
\* second one, for the table has no unique index on the content.
THEOREM AlwaysBatchesWithinRequests == IsFiniteSet(Uploaders) => (Spec => []BatchesWithinRequests)
<1> SUFFICES ASSUME IsFiniteSet(Uploaders) PROVE Spec => []BatchesWithinRequests
  OBVIOUS
<1>1. Init => OInv
  <2> SUFFICES ASSUME Init, NEW f \in Files
               PROVE  Cardinality(Existing(f)) + Cardinality(Pending(f)) <= Cardinality(Uploaders)
    BY DEF OInv
  <2>1. Len(batches) = 0
    BY DEF Init
  <2>2. Existing(f) = {}
    BY <2>1 DEF Existing, Created
  <2>3. Cardinality(Existing(f)) = 0
    BY <2>2, FS_EmptySet
  <2> QED BY <2>1, <2>3, Counts
<1>2. IInv /\ OInv /\ [Next]_vars => OInv'
  BY OnceInv
<1>3. IInv /\ OInv => BatchesWithinRequests
  <2> SUFFICES ASSUME IInv, OInv, NEW f \in Files
               PROVE  Cardinality(Existing(f)) <= Cardinality(Uploaders)
    BY DEF BatchesWithinRequests
  <2>1. Len(batches) \in Nat
    BY DEF IInv, TypeOK, IsSeq
  <2>2. Cardinality(Existing(f)) + Cardinality(Pending(f)) <= Cardinality(Uploaders)
    BY DEF OInv
  <2> QED BY <2>1, <2>2, Counts
<1> QED BY <1>1, <1>2, <1>3, AlwaysIInv, PTL DEF Spec

-----------------------------------------------------------------------------
(* The refinement.                                                           *)

PhaseMap == [b \in Slots |-> Phase(b)]
Held == {k \in Keys : canon[k] # Null}
\* A step of one batch is a step of its phase.
LEMMA TouchPhase ==
  ASSUME IInv, NEW b \in Created, NEW x, batches' = [batches EXCEPT ![b] = x]
  PROVE  /\ Phase(b) = PhaseOf(batches[b].status) /\ b \in Slots
         /\ PhaseMap' = [PhaseMap EXCEPT ![b] = PhaseOf(x.status)]
<1>1. /\ Created' = Created /\ Slots' = Slots /\ b \in Slots
      /\ batches'[b] = x /\ \A o \in Created \ {b} : batches'[o] = batches[o]
  BY SetBatch, CreatedSlots DEF IInv, TypeOK, Created, Slots
<1>2. Phase(b) = PhaseOf(batches[b].status) /\ Phase(b)' = PhaseOf(x.status)
  BY <1>1 DEF Phase
<1>3. ASSUME NEW o \in Slots \ {b} PROVE Phase(o)' = Phase(o)
  <2>1. CASE o \in Created
    <3>1. batches'[o] = batches[o]
      BY <1>1, <2>1
    <3> QED BY <1>1, <2>1, <3>1 DEF Phase
  <2>2. CASE o \notin Created
    BY <1>1, <2>2 DEF Phase
  <2> QED BY <2>1, <2>2
<1> QED BY <1>1, <1>2, <1>3 DEF PhaseMap

LEMMA SamePhase == ASSUME UNCHANGED batches PROVE UNCHANGED PhaseMap
BY DEF PhaseMap, Phase, Slots, Created
LEMMA SameHeld == ASSUME UNCHANGED canon PROVE UNCHANGED Held
BY DEF Held

LEMMA InitMaps == Init => Lifecycle!Init
<1> SUFFICES ASSUME Init PROVE PhaseMap = [b \in Slots |-> "none"] /\ Held = {}
  BY DEF Lifecycle!Init, PhaseMap, Held
<1>1. Created = {}
  BY DEF Init, Created
<1> QED BY <1>1 DEF Init, PhaseMap, Phase, Held

\* What a step of the lifecycle is, in terms of the pipeline.
LEMMA LifecycleStep ==
  ASSUME NEW b \in Slots, NEW to, PhaseMap' = [PhaseMap EXCEPT ![b] = to],
         \/ Phase(b) = "none" /\ to = "received" /\ UNCHANGED Held
         \/ Phase(b) = "received" /\ to = "staged" /\ UNCHANGED Held
         \/ Phase(b) = "staged" /\ to = "loaded" /\ \E S \in SUBSET Keys : Held' = Held \cup S
         \/ Phase(b) = "loaded" /\ to = "completed" /\ UNCHANGED Held
         \/ Phase(b) \in {"received", "staged", "loaded"} /\ to = "failed" /\ UNCHANGED Held
  PROVE  Lifecycle!Next
<1>1. PhaseMap[b] = Phase(b)
  BY DEF PhaseMap
<1> QED BY <1>1 DEF Lifecycle!Next, Lifecycle!Receive, Lifecycle!Stage, Lifecycle!Land,
              Lifecycle!Complete, Lifecycle!Fail, Lifecycle!Move, PhaseMap, Held

LEMMA UploadMaps == ASSUME IInv, NEW u \in Uploaders, UploadCommit(u) PROVE Lifecycle!Next
<1>0. PICK b : b = Len(batches) + 1
  OBVIOUS
<1>1. /\ Created' = Created \cup {b} /\ Slots' = Slots /\ b \in Slots /\ b \notin Created
      /\ batches'[b] = NewBatch(upload[u]) /\ \A o \in Created : batches'[o] = batches[o]
  <2>1. batches' = Append(batches, NewBatch(upload[u])) /\ Len(batches) < MaxBatches
    BY <1>0 DEF UploadCommit
  <2>2. MaxBatches \in Nat
    BY BoundsAssumption
  <2> QED BY <1>0, <2>1, <2>2, AppendBatch DEF IInv, TypeOK, Slots, Created
<1>2. Phase(b) = "none" /\ Phase(b)' = "received"
  BY <1>1 DEF Phase, PhaseOf, NewBatch
<1>3. ASSUME NEW o \in Slots \ {b} PROVE Phase(o)' = Phase(o)
  <2>1. CASE o \in Created
    <3>1. batches'[o] = batches[o]
      BY <1>1, <2>1
    <3> QED BY <1>1, <2>1, <3>1 DEF Phase
  <2>2. CASE o \notin Created
    BY <1>1, <2>2 DEF Phase
  <2> QED BY <2>1, <2>2
<1>4. PhaseMap' = [PhaseMap EXCEPT ![b] = "received"]
  BY <1>1, <1>2, <1>3 DEF PhaseMap
<1>5. UNCHANGED Held
  BY SameHeld DEF UploadCommit
<1> QED BY <1>1, <1>2, <1>4, <1>5, LifecycleStep

LEMMA WorkMaps ==
  ASSUME IInv, NEW b \in Created, Work(b) PROVE Lifecycle!Next \/ UNCHANGED <<PhaseMap, Held>>
<1>1. Batch(batches[b], pc[b], task[b])
  BY BatchAt
<1>2. CASE Parse(b)
  <2>1. PICK x : batches' = [batches EXCEPT ![b] = x] /\ x.status = "PARSED"
    <3>1. batches' = [batches EXCEPT ![b] = [batches[b] EXCEPT !.status = "PARSED", !.raw = Len(RowsOf(b))]]
      BY <1>2, BatchAt DEF Parse
    <3> DEFINE y == [batches[b] EXCEPT !.status = "PARSED", !.raw = Len(RowsOf(b))]
    <3>2. y.status = "PARSED"
      BY <1>1 DEF Batch, Fields
    <3> HIDE DEF y
    <3>3. batches' = [batches EXCEPT ![b] = y]
      BY <3>1 DEF y
    <3> QED BY <3>2, <3>3
  <2>2. Phase(b) = PhaseOf(batches[b].status) /\ PhaseMap' = [PhaseMap EXCEPT ![b] = PhaseOf("PARSED")]
    BY <2>1, TouchPhase
  <2>3. PhaseOf("PARSED") = "received" /\ PhaseOf(batches[b].status) = "received"
    BY <1>1, <1>2 DEF Batch, Control, Parse, PhaseOf
  <2>4. UNCHANGED PhaseMap
    BY <2>2, <2>3, BatchAt DEF PhaseMap
  <2> QED BY <1>2, <2>4, SameHeld DEF Parse
<1>3. CASE Clean(b)
  <2>1. PICK x : batches' = [batches EXCEPT ![b] = x] /\ x.status = "CLEANED"
    <3>1. PICK st, q : batches' = [batches EXCEPT ![b] =
                         [batches[b] EXCEPT !.status = "CLEANED", !.staging = st, !.quarantined = q]]
      BY <1>3, BatchAt DEF Clean
    <3> DEFINE y == [batches[b] EXCEPT !.status = "CLEANED", !.staging = st, !.quarantined = q]
    <3>2. y.status = "CLEANED"
      BY <1>1 DEF Batch, Fields
    <3> HIDE DEF y
    <3>3. batches' = [batches EXCEPT ![b] = y]
      BY <3>1 DEF y
    <3> QED BY <3>2, <3>3
  <2>2. Phase(b) = "received" /\ PhaseMap' = [PhaseMap EXCEPT ![b] = "staged"] /\ b \in Slots
    <3>1. PhaseOf("CLEANED") = "staged" /\ PhaseOf(batches[b].status) = "received"
      BY <1>1, <1>3 DEF Batch, Control, Clean, PhaseOf
    <3>2. Phase(b) = PhaseOf(batches[b].status) /\ PhaseMap' = [PhaseMap EXCEPT ![b] = PhaseOf("CLEANED")]
      BY <2>1, TouchPhase
    <3> QED BY <3>1, <3>2, BatchAt
  <2> QED BY <1>3, <2>2, SameHeld, LifecycleStep DEF Clean
<1>4. CASE LoadCommit(b)
  <2>1. LoadedRecord(b).status = "LOADED" /\ pc[b] = "load"
    BY <1>4, LoadedCounted DEF LoadCommit
  <2>2. Phase(b) = "staged" /\ PhaseMap' = [PhaseMap EXCEPT ![b] = "loaded"] /\ b \in Slots
    <3>1. PhaseOf("LOADED") = "loaded" /\ PhaseOf(batches[b].status) = "staged"
      BY <1>1, <2>1 DEF Batch, Control, PhaseOf
    <3>2. Phase(b) = PhaseOf(batches[b].status) /\ PhaseMap' = [PhaseMap EXCEPT ![b] = PhaseOf("LOADED")]
      BY <1>4, <2>1, TouchPhase DEF LoadCommit
    <3> QED BY <3>1, <3>2, BatchAt
  <2>3. PICK landed : canon' = [k \in Keys |-> IF k \in landed THEN b ELSE canon[k]]
    BY <1>4 DEF LoadCommit
  <2>4. b # Null
    BY CreatedSlots, NullAssumption DEF IInv, Created
  <2>5. Held' = Held \cup (landed \cap Keys)
    BY <2>3, <2>4 DEF Held
  <2> QED BY <2>2, <2>5, LifecycleStep
<1>5. CASE Reconcile(b)
  <2>1. PICK x : batches' = [batches EXCEPT ![b] = x] /\ x.status = "COMPLETED"
    <3>1. PICK r : batches' = [batches EXCEPT ![b] =
                         [batches[b] EXCEPT !.status = "COMPLETED", !.report = r]]
      BY <1>5, BatchAt DEF Reconcile
    <3> DEFINE y == [batches[b] EXCEPT !.status = "COMPLETED", !.report = r]
    <3>2. y.status = "COMPLETED"
      BY <1>1 DEF Batch, Fields
    <3> HIDE DEF y
    <3>3. batches' = [batches EXCEPT ![b] = y]
      BY <3>1 DEF y
    <3> QED BY <3>2, <3>3
  <2>2. Phase(b) = "loaded" /\ PhaseMap' = [PhaseMap EXCEPT ![b] = "completed"] /\ b \in Slots
    <3>1. PhaseOf("COMPLETED") = "completed" /\ PhaseOf(batches[b].status) = "loaded"
      BY <1>1, <1>5 DEF Batch, Control, Reconcile, PhaseOf
    <3>2. Phase(b) = PhaseOf(batches[b].status) /\ PhaseMap' = [PhaseMap EXCEPT ![b] = PhaseOf("COMPLETED")]
      BY <2>1, TouchPhase
    <3> QED BY <3>1, <3>2, BatchAt
  <2> QED BY <1>5, <2>2, SameHeld, LifecycleStep DEF Reconcile
<1>6. CASE MarkFailed(b)
  <2>1. PICK x : batches' = [batches EXCEPT ![b] = x] /\ x.status = "FAILED"
    <3>1. batches' = [batches EXCEPT ![b] = [batches[b] EXCEPT !.status = "FAILED"]]
      BY <1>6, BatchAt DEF MarkFailed
    <3> DEFINE y == [batches[b] EXCEPT !.status = "FAILED"]
    <3>2. y.status = "FAILED"
      BY <1>1 DEF Batch, Fields
    <3> HIDE DEF y
    <3>3. batches' = [batches EXCEPT ![b] = y]
      BY <3>1 DEF y
    <3> QED BY <3>2, <3>3
  <2>2. Phase(b) \in {"received", "staged", "loaded"} /\ PhaseMap' = [PhaseMap EXCEPT ![b] = "failed"] /\ b \in Slots
    <3>1. PhaseOf("FAILED") = "failed" /\ PhaseOf(batches[b].status) \in {"received", "staged", "loaded"}
      BY <1>1, <1>6 DEF Batch, Control, MarkFailed, PhaseOf
    <3>2. Phase(b) = PhaseOf(batches[b].status) /\ PhaseMap' = [PhaseMap EXCEPT ![b] = PhaseOf("FAILED")]
      BY <2>1, TouchPhase
    <3> QED BY <3>1, <3>2, BatchAt
  <2> QED BY <1>6, <2>2, SameHeld, LifecycleStep DEF MarkFailed
<1>7. CASE SetRecomputeOutcome(b)
  <2>1. PICK x : batches' = [batches EXCEPT ![b] = x] /\ x.status = batches[b].status
    <3>1. batches' = [batches EXCEPT ![b] = [batches[b] EXCEPT !.recompute = task[b].outcome]]
      BY <1>7, BatchAt DEF SetRecomputeOutcome
    <3> DEFINE y == [batches[b] EXCEPT !.recompute = task[b].outcome]
    <3>2. y.status = batches[b].status
      BY <1>1 DEF Batch, Fields
    <3> HIDE DEF y
    <3>3. batches' = [batches EXCEPT ![b] = y]
      BY <3>1 DEF y
    <3> QED BY <3>2, <3>3
  <2>2. Phase(b) = PhaseOf(batches[b].status) /\ PhaseMap' = [PhaseMap EXCEPT ![b] = PhaseOf(batches[b].status)]
    BY <2>1, TouchPhase
  <2>3. UNCHANGED PhaseMap
    BY <2>2, BatchAt DEF PhaseMap
  <2> QED BY <1>7, <2>3, SameHeld DEF SetRecomputeOutcome
<1>8. CASE UNCHANGED <<batches, canon>>
  BY <1>8, SamePhase, SameHeld
<1>9. ASSUME NEW i \in Indices(b), LoadRow(b, i) PROVE UNCHANGED <<batches, canon>>
  BY <1>9 DEF LoadRow, RowPending, RowUnresolved, RowUpdates, RowNotFound, OnlyTask
<1>10. NoMapping(b) \/ BeginLoad(b) \/ Unsupported(b) \/ InsertRow(b) \/ InsertCollides(b)
         \/ DeadlockVictim(b) \/ Recompute(b) => UNCHANGED <<batches, canon>>
  BY DEF NoMapping, BeginLoad, Unsupported, InsertRow, InsertCollides, DeadlockVictim, Recompute,
         OnlyTask, Abort
<1> QED BY <1>2, <1>3, <1>4, <1>5, <1>6, <1>7, <1>8, <1>9, <1>10 DEF Work

LEMMA NextMaps == IInv /\ [Next]_vars => [Lifecycle!Next]_<<PhaseMap, Held>>
<1> SUFFICES ASSUME IInv, [Next]_vars PROVE Lifecycle!Next \/ UNCHANGED <<PhaseMap, Held>>
  OBVIOUS
<1>1. CASE UNCHANGED <<batches, canon>>
  BY <1>1, SamePhase, SameHeld
<1>2. ASSUME NEW k \in Kinds, CreateMapping(k) PROVE UNCHANGED <<batches, canon>>
  BY <1>2 DEF CreateMapping
<1>3. ASSUME NEW u \in Uploaders, NEW f \in Files, NEW k \in Kinds, UploadLookup(u, f, k)
      PROVE  UNCHANGED <<batches, canon>>
  BY <1>3 DEF UploadLookup
<1>4. ASSUME NEW b \in Created, Fault(b) \/ RecordFails(b) PROVE UNCHANGED <<batches, canon>>
  BY <1>4 DEF Fault, RecordFails, Abort
<1>5. Crash \/ UNCHANGED vars => UNCHANGED <<batches, canon>>
  BY DEF Crash, vars
<1> QED BY <1>1, <1>2, <1>3, <1>4, <1>5, UploadMaps, WorkMaps DEF Next

\* The pipeline implements the promise of an import: every batch moves forward only, and keys enter
\* the canonical tables in the load step of a staged batch alone, whatever the others do.
THEOREM PipelineImplementsLifecycle == Spec => ImplementsLifecycle
<1>1. Init => Lifecycle!Init
  BY InitMaps
<1>2. IInv /\ [Next]_vars => [Lifecycle!Next]_<<PhaseMap, Held>>
  BY NextMaps
<1> QED BY <1>1, <1>2, AlwaysIInv, PTL DEF Spec, ImplementsLifecycle, Lifecycle!Spec, PhaseMap, Held
=============================================================================
