--------------------------- MODULE ImportPipeline ---------------------------
(* The import path: POST /imports (check, then insert a batch) and the       *)
(* background task run_pipeline of each batch, one database transaction per  *)
(* phase, several batches at once under READ COMMITTED.  The load phase is   *)
(* modelled row by row, because another batch may commit between a row's     *)
(* lookup and its insert.  A row is the natural key it writes, the parent it *)
(* references, the mapping versions it validates under, whether resolution   *)
(* queues it for review when its key is new, and whether it is anomalous.    *)
EXTENDS Integers, Sequences, FiniteSets, FiniteSetsExt

CONSTANTS
  Files,         \* file contents: one (source_system_id, content_hash) each
  Rows,          \* the rows of a file
  KindOf,        \* the entity type a file's columns are meant for
  Kinds,         \* the entity types an upload or a mapping may name
  Supported,     \* SUPPORTED_ENTITY_TYPES
  RiskRelevant,  \* _RISK_RELEVANT_ENTITY_TYPES
  Keys,          \* natural keys of canonical rows
  Uploaders,     \* requests that run at the same time
  Null,
  MaxBatches, MaxUploads, MaxVersion, MaxFaults, MaxCrashes   \* bounds

RowType == [key : Keys, parent : Keys \cup {Null}, ok : SUBSET (1..MaxVersion),
            review : BOOLEAN, odd : BOOLEAN]
ASSUME RowsAssumption == Rows \in [Files -> Seq(RowType)] /\ KindOf \in [Files -> Kinds]
ASSUME KindsAssumption == Supported \subseteq Kinds /\ RiskRelevant \subseteq Supported
ASSUME BoundsAssumption ==
  {MaxBatches, MaxUploads, MaxVersion, MaxFaults, MaxCrashes} \subseteq Nat
ASSUME NullAssumption == Null \notin Keys \cup Nat

VARIABLES
  mappings,   \* latest column-mapping version of each kind, 0 when there is none
  upload,     \* per uploader: the file and kind it is about to insert, or Null
  answer,     \* per uploader: the batch of its last response, and its status
  batches,    \* the committed import_batches, each with its staging rows
  canon,      \* per natural key: the batch in the canonical row's provenance
  stale,      \* keys whose last change no risk recompute has covered
  pc,         \* where the background task of a batch is
  task,       \* the uncommitted work and local variables of that task
  used        \* how often the bounded events happened
vars == <<mappings, upload, answer, batches, canon, stale, pc, task, used>>

Slots == 1..MaxBatches
Created == 1..Len(batches)
RowsOf(b) == Rows[batches[b].file]
Indices(b) == DOMAIN RowsOf(b)

NewBatch(r) ==
  [file |-> r.file, kind |-> r.kind, status |-> "RECEIVED", raw |-> 0, quarantined |-> 0,
   loaded |-> 0, staging |-> <<>>, resolved |-> {}, report |-> Null, recompute |-> Null]

\* todo: rows left; inserting: the row looked up and not found; ins: keys inserted;
\* done: rows with an entity; bad: rows without their parent; outcome: the recompute's
Blank == [todo |-> {}, inserting |-> Null, ins |-> {}, done |-> {}, bad |-> {}, outcome |-> Null]
Running == {"parse", "clean", "begin", "load", "reconcile", "fail", "recompute", "outcome"}

Init ==
  /\ mappings = [k \in Kinds |-> 0]
  /\ upload = [u \in Uploaders |-> Null] /\ answer = [u \in Uploaders |-> Null]
  /\ batches = <<>>
  /\ canon = [k \in Keys |-> Null] /\ stale = {}
  /\ pc = [b \in Slots |-> "none"] /\ task = [b \in Slots |-> Blank]
  /\ used = [uploads |-> 0, faults |-> 0, crashes |-> 0]

Spend(what, bound) == used[what] < bound /\ used' = [used EXCEPT ![what] = @ + 1]

-----------------------------------------------------------------------------
(* The request handlers.                                                     *)

CreateMapping(k) ==
  /\ mappings[k] < MaxVersion
  /\ mappings' = [mappings EXCEPT ![k] = @ + 1]
  /\ UNCHANGED <<upload, answer, batches, canon, stale, pc, task, used>>

\* Mutant: an import that has not started yet does not count as an upload of the file.
ExistingStarted(f) == {b \in Created : batches[b].file = f /\ batches[b].status # "RECEIVED"}

Existing(f) == {b \in Created : batches[b].file = f}

\* create_import up to the lookup: an upload of known content gets the old batch back,
\* whatever its status and whatever entity type this upload names
UploadLookup(u, f, k) ==
  /\ upload[u] = Null
  /\ Spend("uploads", MaxUploads)
  /\ IF Existing(f) = {}
     THEN upload' = [upload EXCEPT ![u] = [file |-> f, kind |-> k]] /\ UNCHANGED answer
     ELSE /\ \E b \in Existing(f) :
               answer' = [answer EXCEPT ![u] = [batch |-> b, status |-> batches[b].status]]
          /\ UNCHANGED upload
  /\ UNCHANGED <<mappings, batches, canon, stale, pc, task>>

\* the insert, the commit of the request's session and the start of its background task
UploadCommit(u) ==
  /\ upload[u] # Null /\ Len(batches) < MaxBatches
  /\ LET b == Len(batches) + 1
     IN  /\ batches' = Append(batches, NewBatch(upload[u]))
         /\ pc' = [pc EXCEPT ![b] = "parse"]
         /\ answer' = [answer EXCEPT ![u] = [batch |-> b, status |-> "RECEIVED"]]
  /\ upload' = [upload EXCEPT ![u] = Null]
  /\ UNCHANGED <<mappings, canon, stale, task, used>>

-----------------------------------------------------------------------------
(* run_pipeline.  An exception rolls the phase's transaction back.           *)

\* Mutant: the rows inserted before the exception stay.
AbortKeepsInserts(b) ==
  /\ pc' = [pc EXCEPT ![b] = "fail"] /\ task' = [task EXCEPT ![b] = Blank]
  /\ canon' = [k \in Keys |-> IF k \in task[b].ins THEN b ELSE canon[k]]
  /\ UNCHANGED <<mappings, upload, answer, batches, stale>>

Abort(b) ==
  /\ pc' = [pc EXCEPT ![b] = "fail"] /\ task' = [task EXCEPT ![b] = Blank]
  /\ UNCHANGED <<mappings, upload, answer, batches, canon, stale>>

Parse(b) ==
  /\ pc[b] = "parse"
  /\ batches' = [batches EXCEPT ![b].status = "PARSED", ![b].raw = Len(RowsOf(b))]
  /\ pc' = [pc EXCEPT ![b] = "clean"]
  /\ UNCHANGED <<mappings, upload, answer, canon, stale, task, used>>

\* validate_record: REQUIRED_FIELDS of an unsupported kind is empty, so every row passes
Valid(b, i) ==
  LET kind == batches[b].kind
  IN  \/ kind \notin Supported
      \/ kind = KindOf[batches[b].file] /\ mappings[kind] \in RowsOf(b)[i].ok

\* under the mapping version that is the latest when the phase runs
Clean(b) ==
  /\ pc[b] = "clean" /\ mappings[batches[b].kind] > 0
  /\ batches' = [batches EXCEPT ![b].status = "CLEANED",
       ![b].staging = [i \in Indices(b) |-> IF Valid(b, i) THEN "valid" ELSE "quarantined"],
       ![b].quarantined = Cardinality({i \in Indices(b) : ~Valid(b, i)})]
  /\ pc' = [pc EXCEPT ![b] = "begin"]
  /\ UNCHANGED <<mappings, upload, answer, canon, stale, task, used>>

NoMapping(b) ==
  pc[b] = "clean" /\ mappings[batches[b].kind] = 0 /\ Abort(b) /\ UNCHANGED used

BeginLoad(b) ==
  /\ pc[b] = "begin" /\ batches[b].kind \in Supported
  /\ pc' = [pc EXCEPT ![b] = "load"]
  /\ task' = [task EXCEPT ![b].todo = {i \in Indices(b) : batches[b].staging[i] = "valid"}]
  /\ UNCHANGED <<mappings, upload, answer, batches, canon, stale, used>>

Unsupported(b) ==
  pc[b] = "begin" /\ batches[b].kind \notin Supported /\ Abort(b) /\ UNCHANGED used

\* what b's transaction sees: its own rows and what is committed by now
Visible(b, k) == k \in task[b].ins \/ canon[k] # Null

Loading(b, i) == pc[b] = "load" /\ task[b].inserting = Null /\ i \in task[b].todo
OnlyTask == UNCHANGED <<mappings, upload, answer, batches, canon, stale, pc, used>>

\* resolve_student queues the row for review and upsert_student returns None
RowPending(b, i) ==
  /\ Loading(b, i) /\ RowsOf(b)[i].review /\ ~Visible(b, RowsOf(b)[i].key)
  /\ task' = [task EXCEPT ![b].todo = @ \ {i}]
  /\ OnlyTask

\* the row goes on to its parent: resolution did not queue it
Resolves(b, i) == Loading(b, i) /\ (RowsOf(b)[i].review => Visible(b, RowsOf(b)[i].key))

\* Mutant: a row is loaded without its parent.
MissingParentNever(b, i) == FALSE

MissingParent(b, i) == RowsOf(b)[i].parent # Null /\ ~Visible(b, RowsOf(b)[i].parent)

\* UnresolvedReferenceError: this row is quarantined and the transaction goes on
RowUnresolved(b, i) ==
  /\ Resolves(b, i) /\ MissingParent(b, i)
  /\ task' = [task EXCEPT ![b].todo = @ \ {i}, ![b].bad = @ \cup {i}]
  /\ OnlyTask

RowUpdates(b, i) ==
  /\ Resolves(b, i) /\ ~MissingParent(b, i) /\ Visible(b, RowsOf(b)[i].key)
  /\ task' = [task EXCEPT ![b].todo = @ \ {i}, ![b].done = @ \cup {i}]
  /\ OnlyTask

RowNotFound(b, i) ==
  /\ Resolves(b, i) /\ ~MissingParent(b, i) /\ ~Visible(b, RowsOf(b)[i].key)
  /\ task' = [task EXCEPT ![b].inserting = i]
  /\ OnlyTask

InsertKey(b) == RowsOf(b)[task[b].inserting].key
Inserting(b) == pc[b] = "load" /\ task[b].inserting # Null
\* the unique index makes the insert wait for the transaction that holds the key
Blockers(b) == {c \in Created \ {b} : pc[c] = "load" /\ InsertKey(b) \in task[c].ins}

InsertRow(b) ==
  /\ Inserting(b) /\ Blockers(b) = {} /\ canon[InsertKey(b)] = Null
  /\ LET i == task[b].inserting
     IN  task' = [task EXCEPT ![b].inserting = Null, ![b].ins = @ \cup {InsertKey(b)},
                              ![b].todo = @ \ {i}, ![b].done = @ \cup {i}]
  /\ OnlyTask

\* Mutant: the unique violation is taken for a transient error and the insert retried.
InsertCollidesRetries(b) ==
  /\ Inserting(b) /\ Blockers(b) = {} /\ canon[InsertKey(b)] # Null
  /\ UNCHANGED vars

\* IntegrityError: another batch committed the key after this one had looked
InsertCollides(b) ==
  /\ Inserting(b) /\ Blockers(b) = {} /\ canon[InsertKey(b)] # Null
  /\ Abort(b) /\ UNCHANGED used

\* PostgreSQL aborts one of the transactions that wait for each other
DeadlockVictim(b) ==
  /\ Inserting(b)
  /\ \E C \in SUBSET {c \in Created : Inserting(c)} :
       b \in C /\ C = UNION {Blockers(c) : c \in C} /\ \A c \in C : Blockers(c) # {}
  /\ Abort(b) /\ UNCHANGED used

KeysOf(b, S) == {RowsOf(b)[i].key : i \in S}

LoadStaging(b) ==
  [i \in Indices(b) |-> IF i \in task[b].bad THEN "quarantined" ELSE batches[b].staging[i]]

\* Mutant: rows quarantined while loading are counted afresh.
LoadedRecordRecounts(b) ==
  [batches[b] EXCEPT !.status = "LOADED", !.staging = LoadStaging(b), !.resolved = task[b].done,
     !.loaded = Cardinality(task[b].done), !.quarantined = Cardinality(task[b].bad)]

LoadedRecord(b) ==
  [batches[b] EXCEPT !.status = "LOADED", !.staging = LoadStaging(b), !.resolved = task[b].done,
     !.loaded = Cardinality(task[b].done), !.quarantined = @ + Cardinality(task[b].bad)]

LoadCommit(b) ==
  /\ pc[b] = "load" /\ task[b].todo = {}
  /\ batches' = [batches EXCEPT ![b] = LoadedRecord(b)]
  /\ LET landed == KeysOf(b, task[b].done)
     IN  /\ canon' = [k \in Keys |-> IF k \in landed THEN b ELSE canon[k]]
         /\ stale' = IF batches[b].kind \in RiskRelevant THEN stale \cup landed ELSE stale
  /\ pc' = [pc EXCEPT ![b] = "reconcile"] /\ task' = [task EXCEPT ![b] = Blank]
  /\ UNCHANGED <<mappings, upload, answer, used>>

\* detect_anomalies: the anomalous canonical rows whose provenance names this batch
Odd == {k \in Keys : \E f \in Files : \E i \in DOMAIN Rows[f] : Rows[f][i].key = k /\ Rows[f][i].odd}
\* Mutant: only the rows no earlier batch had loaded are looked at.
AnomaliesOfNew(b) ==
  {k \in Odd : canon[k] = b /\ \A c \in 1..(b - 1) : k \notin KeysOf(c, batches[c].resolved)}
Anomalies(b) == {k \in Odd : canon[k] = b}

Reconcile(b) ==
  /\ pc[b] = "reconcile"
  /\ batches' = [batches EXCEPT ![b].status = "COMPLETED",
       ![b].report = [valid |-> batches[b].raw - batches[b].quarantined,
                      pending |-> batches[b].raw - batches[b].quarantined - batches[b].loaded,
                      anomalies |-> Anomalies(b)]]
  /\ pc' = [pc EXCEPT ![b] = "recompute"]
  /\ UNCHANGED <<mappings, upload, answer, canon, stale, task, used>>

\* any other exception of a phase: storage, parser, database
Fault(b) ==
  /\ pc[b] \in {"parse", "clean", "begin", "load", "reconcile"}
  /\ Spend("faults", MaxFaults)
  /\ Abort(b)

MarkFailed(b) ==
  /\ pc[b] = "fail"
  /\ batches' = [batches EXCEPT ![b].status = "FAILED"]
  /\ pc' = [pc EXCEPT ![b] = "done"]
  /\ UNCHANGED <<mappings, upload, answer, canon, stale, task, used>>

\* the outcomes of a recompute that is to cover the keys in due and covers those in covered
\* Mutant: an error of a single student is not reported.
OutcomeHidesErrors(due, covered) ==
  {o \in {"ok", "partial", "skipped", "failed"} :
     CASE o = "skipped" -> due = {}
       [] o = "ok" -> due # {}
       [] o = "partial" -> FALSE
       [] OTHER -> covered = {}}

Outcome(due, covered) ==
  {o \in {"ok", "partial", "skipped", "failed"} :
     CASE o = "skipped" -> due = {}
       [] o = "ok" -> due # {} /\ covered = due
       [] o = "partial" -> covered # due
       [] OTHER -> covered = {}}

\* _phase_risk_recompute: the students of the rows this batch resolved; a student's error
\* is recorded and the others are kept, an error of the transaction keeps none
Recompute(b) ==
  /\ pc[b] = "recompute"
  /\ LET due == IF batches[b].kind \in RiskRelevant THEN KeysOf(b, batches[b].resolved) ELSE {}
     IN  \E covered \in SUBSET due : \E outcome \in Outcome(due, covered) :
           /\ IF outcome = "failed" \/ covered # due
              THEN Spend("faults", MaxFaults) ELSE UNCHANGED used
           /\ stale' = stale \ covered
           /\ task' = [task EXCEPT ![b].outcome = outcome]
  /\ pc' = [pc EXCEPT ![b] = "outcome"]
  /\ UNCHANGED <<mappings, upload, answer, batches, canon>>

SetRecomputeOutcome(b) ==
  /\ pc[b] = "outcome"
  /\ batches' = [batches EXCEPT ![b].recompute = task[b].outcome]
  /\ pc' = [pc EXCEPT ![b] = "done"] /\ task' = [task EXCEPT ![b] = Blank]
  /\ UNCHANGED <<mappings, upload, answer, canon, stale, used>>

\* _mark_failed or _set_recompute_outcome raises: the task ends and nothing records it
RecordFails(b) ==
  /\ pc[b] \in {"fail", "outcome"}
  /\ Spend("faults", MaxFaults)
  /\ pc' = [pc EXCEPT ![b] = "lost"] /\ task' = [task EXCEPT ![b] = Blank]
  /\ UNCHANGED <<mappings, upload, answer, batches, canon, stale>>

\* the API process dies: requests and background tasks are gone, no task is resumed
Crash ==
  /\ Spend("crashes", MaxCrashes)
  /\ upload' = [u \in Uploaders |-> Null]
  /\ pc' = [b \in Slots |-> IF pc[b] \in Running THEN "lost" ELSE pc[b]]
  /\ task' = [b \in Slots |-> Blank]
  /\ UNCHANGED <<mappings, answer, batches, canon, stale>>

LoadRow(b, i) == RowPending(b, i) \/ RowUnresolved(b, i) \/ RowUpdates(b, i) \/ RowNotFound(b, i)
Work(b) ==
  \/ Parse(b) \/ Clean(b) \/ NoMapping(b) \/ BeginLoad(b) \/ Unsupported(b)
  \/ \E i \in Indices(b) : LoadRow(b, i)
  \/ InsertRow(b) \/ InsertCollides(b) \/ DeadlockVictim(b) \/ LoadCommit(b)
  \/ Reconcile(b) \/ MarkFailed(b) \/ Recompute(b) \/ SetRecomputeOutcome(b)

Next ==
  \/ \E k \in Kinds : CreateMapping(k)
  \/ \E u \in Uploaders : UploadCommit(u) \/ \E f \in Files, k \in Kinds : UploadLookup(u, f, k)
  \/ \E b \in Created : Work(b) \/ Fault(b) \/ RecordFails(b)
  \/ Crash

Spec == Init /\ [][Next]_vars
\* a background task runs in a thread of its own and blocks only on the database
FairSpec == Spec /\ \A b \in Slots : WF_vars(b \in Created /\ Work(b))

-----------------------------------------------------------------------------
(* Properties.                                                               *)

Staged(b) == batches[b].staging # <<>>
Loaded(b) == Staged(b) /\ (batches[b].status \in {"LOADED", "COMPLETED"} \/ batches[b].resolved # {})
Quarantined(b) == {i \in DOMAIN batches[b].staging : batches[b].staging[i] = "quarantined"}
Reviewed(b) == Indices(b) \ (Quarantined(b) \cup batches[b].resolved)

\* No row is lost: every raw row has a staging row, the counts of the batch are those of its
\* staging rows through both phases that quarantine, and a row that is neither quarantined
\* nor loaded is one queued for review ("raw count = valid + quarantined, always").
RowsConserved ==
  \A b \in Created : Staged(b) =>
    LET batch == batches[b]
    IN  /\ DOMAIN batch.staging = Indices(b) /\ batch.raw = Len(RowsOf(b))
        /\ batch.quarantined = Cardinality(Quarantined(b))
        /\ batch.loaded = Cardinality(batch.resolved)
        /\ Loaded(b) => \A i \in Reviewed(b) : RowsOf(b)[i].review
        /\ batch.report # Null =>
             /\ batch.report.valid = Cardinality(Indices(b) \ Quarantined(b))
             /\ batch.report.pending = Cardinality(Reviewed(b))

\* A batch's rows are in the canonical tables together or not at all, also when the task
\* fails, deadlocks or dies between two rows: no canonical row carries the provenance of a
\* batch whose load did not commit, and all resolved rows of one that did are there.
AllOrNothing ==
  /\ \A k \in Keys : canon[k] # Null =>
       canon[k] \in Created /\ k \in KeysOf(canon[k], batches[canon[k]].resolved)
  /\ \A b \in Created : \A k \in KeysOf(b, batches[b].resolved) : canon[k] # Null

\* A canonical row's parent is in the canonical tables: the row was quarantined otherwise,
\* whatever other imports did while it was being loaded.
NoOrphans ==
  \A b \in Created : \A i \in batches[b].resolved :
    RowsOf(b)[i].parent # Null => canon[RowsOf(b)[i].parent] # Null

\* No anomalous row escapes the reports: the batch named in its provenance has it in its
\* report once it is COMPLETED, although a later batch may have taken the row over between
\* another batch's load and its report.
NoAnomalyEscapes ==
  \A k \in Odd : canon[k] # Null /\ batches[canon[k]].status = "COMPLETED" =>
    k \in batches[canon[k]].report.anomalies

EndedBadly(b) ==
  pc[b] \in {"fail", "lost"} \/ batches[b].status = "FAILED"
  \/ task[b].outcome \in {"partial", "failed"} \/ batches[b].recompute \in {"partial", "failed"}
Responsible(b, k) ==
  k \in KeysOf(b, batches[b].resolved) /\ (pc[b] \in {"reconcile", "recompute"} \/ EndedBadly(b))

\* Canonical data a risk recompute has not covered is always some batch's unfinished work
\* or the trace of a failure a reader can find: a batch with recompute status "ok" or
\* "skipped" leaves no stale student behind, even when it overlapped other imports.
StaleHasAnOwner == \A k \in stale : \E b \in Created : Responsible(b, k)

\* An upload is called idempotent ("don't re-create raw rows", imports.py), but two requests may
\* both look before either commits, and no unique index stops the second insert.  What the lookup
\* does achieve: the batches of a content are those of requests that were in flight together, so
\* there are never more of them than requests at once, however often the file is sent again,
\* whatever became of the first batch, and across a restart.
BatchesWithinRequests ==
  \A f \in Files : Cardinality(Existing(f)) <= Cardinality(Uploaders)

PhaseOf(status) ==
  CASE status \in {"RECEIVED", "PARSED"} -> "received"
    [] status = "CLEANED" -> "staged"
    [] status = "LOADED" -> "loaded"
    [] status = "COMPLETED" -> "completed"
    [] status = "FAILED" -> "failed"
Phase(b) == IF b \in Created THEN PhaseOf(batches[b].status) ELSE "none"

\* Every batch ends: unless the process dies or the end cannot be recorded it is COMPLETED
\* or FAILED in the end, whatever other imports it waited for, collided or deadlocked with.
EveryImportEnds ==
  \A b \in Slots :
    b \in Created ~> pc[b] = "lost" \/ Phase(b) \in {"completed", "failed"}

Lifecycle == INSTANCE ImportLifecycle WITH
  Batches <- Slots, phase <- [b \in Slots |-> Phase(b)], held <- {k \in Keys : canon[k] # Null}

\* The pipeline implements the promise of an import: forward only, all or nothing, and
\* nothing lands outside the load step of a staged batch.
ImplementsLifecycle == Lifecycle!Spec
=============================================================================
