# Forevue in TLA+

Forevue is a campus-data service: a FastAPI backend (`apps/api/app`) over PostgreSQL and an
optional Redis, and a React client (`apps/web/src`).  Colleges upload extracts of their source
systems; an import pipeline cleans them into canonical rows; the Student Success Engine turns
those rows into explained risk assessments; staff read them, act on them and ask a copilot
about them.  This directory holds the TLA+ models of its core logic, the TLC configurations
that check them, and TLAPS proofs of the results that matter most.

## 1. The system

| Component | State it keeps | Operations | Talks to |
|---|---|---|---|
| Risk scoring (`services/risk/signals`, `rules`, `scoring.py`, `evaluator`) | none | signals from rows, five rules, score, tier | called by the engine |
| Risk engine (`services/risk/engine.py`, `alerts.py`) | `risk_assessments` (one current per student, history kept), `risk_findings`, `risk_alerts` | recompute for students, tenant, import batch | reads canonical rows and configuration; called by `POST /risk/recompute` and by the end of every import |
| Risk configuration (`config.py`) | `risk_configs`, versioned, one active | get or seed, set new | read once per recompute |
| Interventions (`interventions.py`) | `interventions`, outcomes | create (gated), update, record outcome | reads the current assessment |
| Import upload and pipeline (`routes/imports.py`, `services/ingestion/pipeline.py`) | `import_batches` and its status, raw rows, staging rows | upload, parse, clean, resolve and load, reconcile, mark failed | background task; calls the loader, the resolver and the engine |
| Canonical loading (`loading/canonical_loader.py`, `reconciliation/conflicts.py`) | canonical rows with provenance, `data_conflicts` | one upsert per entity type, per-field precedence | inside the pipeline's load transaction |
| Identity resolution (`resolution/`) and cleaning (`cleaning/`) | `entity_identity_map`, `merge_review_items` | normalise, validate, link, exact match, fuzzy match, queue for review | inside the load transaction |
| Sign-in and refresh tokens (`core/refresh_tokens.py`, `services/auth_service.py`, `user_service.py`) | per-family active token, revoked tokens, family index (key-value store); users (database) | register, login, refresh, logout, revoke all | key-value store operations are single calls, not transactions |
| Web session (`apps/web/src/api/client.ts`, `auth/`) | tokens in `localStorage`, one refresh promise per tab | request, refresh on 401, retry, sign out | `/auth/*`; tabs share the storage |
| Key-value store, rate limit (`core/kv.py`, `core/rate_limit.py`) | values and expiry times, counters | get, set, delete, incr | auth routes |
| Scoping and staff access (`services/risk/scoping.py`, `user_service.py`, `risk_repository.py`) | `users`, `faculty_scopes`, `risk_alerts` | create and update users, assign scopes, every read of `/risk`, alert recipients | reads of risk data, the copilot |
| Copilot (`services/ai`) | session turns, cached responses, document chunks | governed metrics, ask, gateway calls, indexing | model providers (external) |
| Audit (`core/audit.py`), tenant isolation (`core/rls.py`) | `audit_log`; a session setting | listeners | every write |

What is hard in it.  Requests run in threads and imports in background tasks, each in its own
READ COMMITTED transaction: signals, configuration and the current assessment are read at
different moments and used later; only a partial unique index stands between two recomputes of
one student.  A student that fails is rolled back to a savepoint while the rest of its batch
goes on.  An import is four transactions with crashes possible between them.  The token store
and the memory of the copilot have no transactions at all; a question is answered in steps
between which users, scopes and assessments change.  Tabs share a token storage but not the
promise that keeps them from renewing twice.  Precedence between sources depends on provenance that later
imports rewrite.  `PROJECT.json` lists these under `hazards`, each at its line.

What makes each component correct, in a sentence:

* scoring: a flag says of the rows exactly what its rule claims; attending or paying never hurts.
* engine: one current assessment per student, an unbroken append-only history, alerts that match
  it, no stale result once the work is done, and every recompute ends.
* configuration: every assessment can be reproduced from the version it names.
* interventions: no parent contact for a minor without recorded consent.
* pipeline: a batch ends COMPLETED or FAILED, and a failed one has changed no canonical row.
* loading: a lower-precedence source never replaces a higher one's value, and ties become conflicts.
* resolution: one canonical student per source identity; no match without the birthday; no
  like student overlooked whose birthday the database has.
* tokens: a revoked token stays revoked, a family has one usable token, revoking a user ends all of them.
* web session: tabs of one user neither sign each other out nor outlive a sign-out.
* rate limit: a caller is refused for cause, and admitted less than twice the limit in a minute.
* scoping: an alert reaches those who may see the student, and nobody else.
* copilot: its figures are those of the dashboard and of what the asker may see; an answer
  contains no number in digits that the query did not return; the memory is the end of the conversation.

## 2. Modules

| Module | Models | State |
|---|---|---|
| `RiskScoring` | signals, rules, score, tier, accepted configurations | none (pure operators) |
| `StudentRecord` | the canonical rows of one student under imports, and the verdict of each day | `sessions`, `marks`, `fees`, `today` |
| `StudentRecordProofs` | TLAPS proofs about `StudentRecord` and the rules of `RiskScoring` | |
| `RiskEngine` | concurrent recompute transactions, alerts, the intervention gate, the imports and administrators around them | see below |
| `RiskEngineProofs` | TLAPS proofs about `RiskEngine` | |
| `ImportPipeline` | uploads, mappings and the background task of each import, phase by phase and, in the load, row by row | `batches`, `canon`, `stale`, `mappings`, `pc`, `task` |
| `ImportPipelineProofs` | TLAPS proofs about `ImportPipeline`, the refinement among them | |
| `ImportLifecycle` | what one import promises; `ImportPipeline` implements it | `phase`, `held` |
| `CanonicalLoad` | the upserts, the precedence policy, conflicts and provenance, in overlapping transactions | `rows`, `conflicts`, `imports` |
| `CanonicalLoadProofs` | TLAPS proofs about `CanonicalLoad` | |
| `RefreshTokens` | the token store key by key under sign-in, rotation, sign-out and revocation | `active`, `denied`, `families`, `is_active`, `req` |
| `RefreshTokensProofs` | TLAPS proofs about `RefreshTokens` | |
| `StudentIdentity` | cleaning, validation and resolution of the rows of student extracts, in overlapping imports | `students`, `links`, `reviews`, `imports` |
| `StudentIdentityProofs` | TLAPS proofs about `StudentIdentity` | |
| `RateLimit` | the counter of the key-value store and the limit over it | none (operators over a key) |
| `WebSession` | the tabs of one browser, the token storage they share, the server's token family and limiter | `storage`, `shown`, `req`, `leaving`, `active`, `key`, ... |
| `WebSessionProofs` | TLAPS proofs about `WebSession` and the limiter it uses | |
| `StaffAccess` | users, roles, scopes, the reads of the Student Success Engine, alerts and interventions | `role`, `is_active`, `token`, `scopes`, `placed`, `assessment`, `alerts`, `interventions` |
| `Copilot` | governed metrics and questions, over `StaffAccess` | and `cache`, `memory`, `indexed`, `ask` |
| `CopilotProofs` | TLAPS proofs about `StaffAccess` and `Copilot`, that the second implements the first among them | |
| `MC...` | values of the constants for TLC, one per module that is run | |

The modules meet at named places rather than in one composition.  `RiskEngine!ImportLoad` is
the effect of an `ImportPipeline` load on the signals; the recompute that ends an import is one
step in `ImportPipeline` (`Recompute`, with its four outcomes) and the whole of `RiskEngine`.
`ImportPipeline` knows which rows reach the canonical tables and when, `CanonicalLoad` what
values they have, `StudentIdentity` which student they are taken for.  `StudentRecord` is where
the signals of `RiskEngine` come from, and `RiskEngine!Commit` what `StaffAccess!Recompute` takes
as an input.  `WebSession` uses `RateLimit` and the token families of `RefreshTokens`, with each operation
of the server atomic; the interleavings inside those are `RefreshTokens`' own.  `Copilot` extends
`StaffAccess`: everything staff and imports do happens between the steps of a question.

### RiskScoring and StudentRecord

Signals are integers in hundredths of a percent, the precision `round(x, 2)` leaves (`Rounded`);
marks, thresholds, points and weights are any rationals: they are counted in grains, of which
`Grain` make a hundredth, since the schema takes any float and the code compares rounded signals
with them.  `Null` is `None`.  Statuses, marks and fees are taken in the order the queries give them.
`StudentRecord` lets imports insert sessions and marks at any date, correct them, raise and
update fees, and lets days pass; its properties speak of the rows in exact arithmetic, the
code computes with rounded values and slices.  A day is its number.  The
score adds the weights of the five rules one by one, since each yields at most one finding, and
stops at 100.  `AttendanceFlagsWithinRounding` and `DeclineIsAgainstEarlierMarks` say by how
much the roundings may move a flag, for every configuration; `AttendanceFlagsExact` (stated and
proved in `StudentRecordProofs`) where they cannot: whole percents, fewer than 200 sessions, windows below 100.  Quotients are exact here: the
last bit of a float (29 of 100 sessions, times 100, over 100) is not modelled, nor the tie it may decide.

### RiskEngine

A worker is one recompute transaction.  `Begin` is `get_or_seed_config` with the aggregate
queries; `ReadDobs` is the last query of the bulk phase, which also decides who exists;
`SelectCurrent` is `_persist_one` up to its flush for one student, in any order (the code's
order is that of the caller's list); `Flush` is the UPDATE of the row it saw with the INSERT of
the new one; `FlushFails` the rollback to the savepoint after a unique violation or as victim
of a deadlock; `Commit` makes all rows and alerts of the transaction visible at once; `Crash`
loses it.  Rows not yet committed are in `wrote`: `Blockers` and `CurrentRows \subseteq seen`
are what PostgreSQL's partial unique index does with them.  `ImportLoad`, `SetConfig`,
`NextDay` and `CreateIntervention` are the rest of the system.

Abstractions: the aggregate queries are one step (the code runs several SELECTs); the signals
of a student are one of a few records, and do not age by themselves (`StudentRecord` has the
ageing of fees); alerts are one per assessment, without recipients; the first configuration
exists from the start; soft deletion of students is left out, since no code path under `src/`
sets it.  `lone` and `unsettled` are history variables: which students of a worker nobody else
has recomputed meanwhile, and whose last recompute overlapped another, failed, or is still owed
to a new configuration.  Without them the promise of freshness is not true of the code: a
recompute that read old data and commits last wins, and nothing recomputes after a change of
configuration.  `FreshWhenSettled` says precisely when it is true.

### ImportPipeline and ImportLifecycle

`UploadLookup` and `UploadCommit` are `create_import` before and after its check, the gap in
which two uploads of one file pass each other; no unique index stands behind the check.  `Parse`, `Clean`, `BeginLoad` .. `LoadCommit` and
`Reconcile` are the four transactions of `run_pipeline`, `Recompute` and `SetRecomputeOutcome`
what follows them; `pc` says which is next.  The load is row by row because another import can
commit between a row's lookup (`RowNotFound`) and its INSERT (`InsertRow`): an INSERT of a key
another open transaction holds waits for it (`Blockers`), fails when it commits
(`InsertCollides`), and a cycle of waits costs one of them its transaction (`DeadlockVictim`).
An exception anywhere rolls the phase back and goes to `MarkFailed` (`Abort`, `Fault`); a `Crash`
leaves the batch as its last commit left it; `RecordFails` is `_mark_failed` or
`_set_recompute_outcome` failing itself.  A row is the key it writes, the parent it needs, the
mapping versions it validates under, whether resolution queues it and whether it is anomalous.
`canon` keeps the provenance of each key and `stale` the keys whose last change no recompute has
covered (a history variable).  `ImportLifecycle` forgets everything but the phase of each batch
and the keys present; the refinement says that keys appear only in the one step in which a batch
becomes loaded, whatever the other batches do.

### CanonicalLoad

An import is a transaction that reads a row when it first meets its key, merges into the copy in
its session, and at commit writes the attributes that differ from what it read (`Dirty`,
`Written`: the ORM's unit of work).  `Read` is what an upsert leaves in that
session.  Two overlapping imports therefore mix attribute by
attribute.  `Verdict` is `apply_field_with_precedence`, a
chain of the cases in which the old value stays, is replaced or disputed; the eight tables are their governed and
their overwritten fields.  `origin`, `told` and `replaced` are history: who set a value, what
each source said last, what gave way to what.  `existing_source_id` is never None here, since
every row of these tables is written by an upsert.  `MarksAssumption` is what the validator lets through
(`cleaning/validators.py:57`).  Values are compared exactly.  In the code a stored number is a
Decimal and the one of a staging row a float of JSON, and `Decimal("66.7") == 66.7` is false
(`conflicts.py:38`): an import that repeats the value of a source of its own rank can write a
conflict over it, which `conflicts` here does not show.

### RefreshTokens

Each request is a little program over the key-value store, one get, set or delete per step;
`Begin` does what the database and the JWT decide first.  `Fail` ends a request before any step:
the store does not answer (`_ensure_available` or an error), or the response is lost.  A call (`Calls`)
remembers what it has read; the families of a revocation are gone through in any order.  A token's
`held` says the client has it.  `ended` is what the completed requests have promised to end, and
`faulted` the families a failed request touched.  `EndedStaysEnded` and `LiveUntilEnded` together
say that a session lives exactly until it is ended.  Both speak of requests one after another:
the store has no transactions, and when requests overlap both are false (two sign-ins can lose
one family from the index; a refresh can slip past a revocation).  `SettledNotDenied` holds
under every interleaving.

### StudentIdentity

A cell is what it means and how it is written (`form`); the normalizers give what the code makes
of that, so a month-first date with a day up to the 12th becomes another day, a phone number with
a trunk zero another number, "N/A" nothing.  `Load*`, `QueueForReview` and `LoadAsNew` are the
ways through `resolve_student` and `upsert_student` for one row, in the code's order.  An import
is a transaction: it reads what is committed and what it has written, waits for an open import
that has written its key or its student (`RollHeld`, `StudentHeld`), and commits or rolls back.
The blocking query compares what the session has sent (`Sent`): `autoflush` is off
(`core/db.py:10`), so a merge stays in the session until a new student, link or review is flushed.
The score is computed from the session's own versions (`View`).  An import waits for a student here
when it merges, in the code when the merge is flushed; what two overlapping merges leave in the
fields is `CanonicalLoad`'s subject.
`Candidates` is any `Limit` of the students in the block, since the query has no order; `Best` any
of equal ones.  Similarity of names is a constant.  `landed`, `likened` and `missed` are history.

### WebSession and RateLimit

A request (`req`) goes from `sent` through `refreshing` (it started the refresh) or `waiting` (it
joined it) to `resent`; `leaving` is a sign-out between the call and its answer.  `Serve*` is the
server, `RefreshFailed` also a lost answer, `Reload` a page that forgets its promises.  `Expire`
ends an access token, `Revoke` what an administrator does.  `excused` is the set of sessions
something has ended or may have ended; the properties say what holds for the others.  The
counter is [count, expires] as in both stores; `IncrTorn` is Redis failing between INCR and EXPIRE.

### StaffAccess and Copilot

A request is one transaction and one action, and carries the role of the token it came with
(`token`), which outlives a change of role or a deactivation until it expires.  `VisibleIds` and
`FacultyFor` are the two directions of scoping; `Summary`, `SummaryByDepartment`, `ListAtRisk`
the reads.  `Copilot` translates the catalogue and the executor metric by metric, with the join
each uses (`Label`, `UngroupedStudentCount`), and a question step by step: `AskStart`,
`AskIntent`, `AskQuery`, `AskNarrate`, `AskLoad`, `AskStore`.  What the provider answers is any
of `Intents` and `Narrations`, through the gateway's cache.  Values are hundredths, as the code
rounds.  A figure of a text is a value and the form it is written in, for the validation searches
a text with a regular expression (`Found`): a figure with a comma is taken apart, one
that ends in a letter or is a word is not found.  The figures in the codes that label a row are allowed
too (`FiguresIn`).  A memory is said to be some of the questions of the conversation by an increasing choice of
them (`SomeQuestionsOf`).  Monitoring, embedding and the fallback between providers are left out.

## 3. Runs

| Run | Question | Bounds |
|---|---|---|
| `RiskEngine` | do two transactions over two students keep one current row, an unbroken history, matching alerts and fresh results, through imports, an on-demand recompute and a crash? Does the consent gate hold when a date of birth is recorded once, and is a student lost without a rival only to a watch cutoff of zero? | 2 imports, 1 manual, 1 crash, 2 signal records; the gate with 1 student, 1 worker and 2 days; a change to a watch cutoff of zero with 1 student and 2 recomputes (`Focus`) |
| `RiskEngineLive` | do transactions that deadlock still all end, and is every row reproducible from its version when the configuration changes under a running recompute? | 2 students, 2 workers, 2 imports, 2 changes of configuration |
| `RiskEngineGateBroken` (violation) | and when it is corrected? No: an unchanged result keeps the old status | 1 student, 3 imports, 2 days |
| `StudentRecord` | do the flags say what the rows say, to within the rounding of the percentages, and do time, payments and attendance act the right way? | 2 fees, 4 days and at most one mark; or 5 marks in thirds of a hundredth of a percent, at and beside the cutoff; or 7 sessions with window 3 and a threshold of 66.67 |
| `ImportPipeline` | are rows conserved, orphans refused and failed loads undone when a programme file and the students that need it come in any order, under any type, while mappings change? Do overlapping uploads of one content make more batches than there are requests at once, whatever fails or dies in between? | 2 batches, 3 uploads, 2 mapping versions, 1 fault; or 2 uploaders, 3 batches, 4 uploads of 1 file, 1 fault, 1 crash (`Focus`) |
| `ImportOverlap` | two imports that share their students in opposite order: all or nothing, no anomaly lost, every stale student accounted for, every import ends, and the lifecycle is implemented | 2 batches, 2 faults, 1 crash |
| `CanonicalLoad` | do three imports of an internal mark and an enrolment, at most two at once, keep marks in range, the last word of a single source and every known value? | 3 sources, 3 rows in all |
| `CanonicalClobber` (violation) | is a value ever replaced by a lower-precedence source? Yes, at its second import | 2 sources, 3 imports, one after another |
| `RefreshTokens` | do sessions live exactly until they are ended, through failures and lost answers, and does the store settle under every interleaving? | 4 tokens, 5 requests, 2 at a time |
| `StudentIdentity` | does one source identity stay one student, is nobody matched without the birthday, is a like student overlooked only when its birthday is unsent? | 2 sources, 3 imports of which 2 overlap, 3 rows among 8, a block limit of 1 |
| `WebSession` | do tabs keep their session until something ends it, does a sign-out end it, does the limit refuse and admit as it should? | 2 tabs, 3 tokens, 4 requests in one tick; or 1 request at a time, 5 refreshes, limit 2, window 2, 3 ticks (`Focus`) |
| `Copilot` | do all figures a member of staff can read agree, are counts within his rights, numbers in digits grounded, the memory the conversation, and alerts sent to those who see the student? | 2 users, 2 students, 3 programmes, 4 changes, or 3 questions with 2 at once (`Focus`) |

Two workers are enough for the engine: every conflict is between two transactions over one
student, and a cycle of waits needs two students.  Three imports are the shortest history in
which a result returns to an earlier one, and in which a loser wins (`CanonicalClobber`).  The
three domains of `StudentRecord` do not read one another, so the constraint `OneDomain` explores
them one at a time; thirds of a hundredth are the coarsest grain on which marks round both ways.  Two batches give the import pipeline every pair of phases; two shared keys
in opposite order are the least that deadlock.  Five requests are two sign-ins, a rotation, the
reuse of the rotated token and a revocation.  A block limit of one stands for 200: two students in
a block are more than the query returns, and one is a block it returns whole.  Two tabs and two
requests are one refresh joined and one started elsewhere; three ticks with a window of two let a
counter expire in the middle of a window that starts later.  The `Focus` constraints of
`MCRiskEngine`, `MCImportPipeline`, `MCWebSession` and `MCCopilot` leave out combinations that no property relates
(a race of recomputes with the gate of another student; tangled tabs with the passing of
minutes; a third question with further administration; overlapping uploads with a choice of files), so that each half can be larger.  TLC stops at the bounds, so the runs do not check
for deadlock; that work ends is `RecomputesFinish` and `EveryImportEnds`.

Fairness.  `RiskEngine!FairSpec` asks only that a transaction which can take a step takes one:
threads are scheduled, and PostgreSQL breaks a cycle of waits.  `ImportPipeline!FairSpec` asks
the same of the background task of each batch (a thread of the server).  No upload, request,
fault or crash is forced.  `EveryImportEnds` excepts the tasks that died or could not record
their end, for nothing in the code resumes those.

Claims with a premise.  `MarksInRange` and `LatestFromOneSource` are claimed for imports that do
not overlap (`~overlapped`), `EndedStaysEnded` and `LiveUntilEnded` for requests one after another:
with two at once, the code does not keep them and the repository does not say it does.  Four
properties are what is left of a wider claim that the code does not keep: `LoneErrorsNeedZeroWatch`,
`BatchesWithinRequests`, `DigitsGrounded` and `OnlyUnsentTwinsMissed` each name what breaks the rest of it.
`SessionKept`
excuses the sessions that two tabs renewed at once, `SignOutEnds` the sign-outs that a refresh
overlapped, `RefreshesLimited` a counter left without expiry, `MemoryIsTheLog` two appends that
meet, `LikenessNeedsTheBirthday` month-first dates that read day first: without each of these
excuses TLC finds the violation, and section 5 describes it.  Section 4 proves all of these under the
same premises, for any number of actors.  The hazards in `PROJECT.json` say
so at their lines.

## 4. Proofs

Each component that is run has its theorems in a module of its own; those about `StaffAccess` are
with those about `Copilot`, which extends it.
A theorem holds for every value of the constants that the component's ASSUMEs allow: any sets of
students, workers, rows, tables, users, tokens or tabs, any number of steps.  Its proof is an
inductive invariant, a lemma per action that the action preserves it, and a temporal step.  TLC
checked every invariant below on the instance of the component's run before it was proved.

| Module | Theorem, as `Spec => ...` | Hypothesis | Inductive invariant |
|---|---|---|---|
| `RiskEngineProofs` | `[]TypeOK`, `[]OneCurrent`, `[]SupersessionChain`, `HistoryIsAppendOnly` | | `TInv` |
| | `[]RowsReproducible` | | `RInv` |
| | `[]AlertsMatchEscalations` | | `AInv` |
| | `[]LoneErrorsNeedZeroWatch` | | `LInv` |
| | `[]FreshWhenSettled` | | `FInv` |
| | `ConsentGate` | `NeverYounger` | `GInv` |
| `ImportPipelineProofs` | `[]AllOrNothing`, `[]NoOrphans`, `[]RowsConserved`, `[]NoAnomalyEscapes`, `[]StaleHasAnOwner`, `ImplementsLifecycle` | | `IInv` |
| | `[]BatchesWithinRequests` | `IsFiniteSet(Uploaders)` | `OInv` |
| `CanonicalLoadProofs` | `NeverErased` | | `EInv` |
| | `[]MarksInRange`, `[]LatestFromOneSource` | | `MInv`, `TInv` |
| `StudentIdentityProofs` | `[]SameRollSameStudent` | | `IInv` |
| | `[]OnlyUnsentTwinsMissed`, `[]LikenessNeedsTheBirthday` | | `SInv` |
| `RefreshTokensProofs` | `[]SettledNotDenied` | | `IInv` |
| | `[]EndedStaysEnded`, `[]LiveUntilEnded` | | `SInv` |
| `WebSessionProofs` | `[]SessionKept`, `[]SignOutEnds`, `[]RefreshesLimited` | | `KInv`, `LInv`, `RInv` |
| `StudentRecordProofs` | `[]SInv` (the rows have their types) | | `SInv` |
| | `[]FeeFlagNeedsADebt`, `[]AttendanceFlagsExact`, `[]AttendanceFlagsWithinRounding`, `[]DeclineIsAgainstEarlierMarks` | | `SInv` |
| | `TimeAndPayments`, `AttendingNeverFlags` | | `SInv` |
| `CopilotProofs` (of `StaffAccess`) | `ScopingAgrees` (a fact about every state), `EscalationsReachViewers` | | `IInv` |
| `CopilotProofs` (of `CopilotSpec`) | `Spec`, and so `EscalationsReachViewers` | | |
| | `[]FiguresAgree` | `FewGroups`, `NamesApart` | `FInv` |
| | `[]DigitsGrounded`, `CountsWithinRights` | | `QInv` |
| | `[]MemoryIsTheLog` | `EvenTurns` | `MInv` |

### The arguments

**RiskEngine.**  `OneCurrent` is not inductive.  `IInv` adds what makes it so: what a transaction
remembers of the row it selected stays true (`SeenValid`: rows never disappear and never change
their result); an uncommitted row will supersede exactly the row that is current now
(`WroteValid`); and at most one transaction holds an uncommitted row of a student (`OneWriter`,
the unique index).  `Commit` is the hard step: the row it appends retires the one current row, and
no other writer of that student exists whose row could become stale.  The others build on it.
`RInv` carries, from the snapshot through the uncommitted row to the history, that a row is what
`Evaluate` makes of its snapshot under the version it names.  `AInv` counts an alert with the row
that causes it, before and after the commit.  `LInv` says that a student nobody else has recomputed
since a worker began has the history the worker saw, so that nothing can make its flush fail; what remains is the assertion, which only a watch cutoff of
zero and no finding can break.
`FInv` is the longest: every overlap of two recomputes is noted in `unsettled` (`OverlapNoted`), a
lone recompute that no import is about to repeat has read what is committed now (`LoneUpToDate`),
and what it has done already agrees with it (`WroteExpected`, `LoneHandled`).

One of them has a hypothesis on the constants.  `NeverYounger` says that no import moves a date of birth to a later day or removes it;
`RiskEngineGateBroken` is the run that shows what happens otherwise.

**ImportPipeline.**  `IInv` describes a batch phase by phase: what its status, its task, its staging
rows and its report say of one another (`Batch`: `Control`, `Counted`, `Accounted`, `Working`), which
parents its loaded rows have (`ParentsOK`), and who owns the rows of the canonical table and the stale
students (`TablesOK`).  `Touch` names what a phase may change, so that each action has to be
looked at for its own batch and for the tables only.  `PipelineImplementsLifecycle` maps each step:
`LoadCommit` is the step in which a batch becomes loaded and its keys appear, a crash or a failure
is a fall, everything inside the load is a stutter.  For `BatchesWithinRequests` the
requests in flight for a content, past their lookup, are counted with its batches (`Pending`): a lookup that finds
none starts with both at nothing, and each insert turns a request into a batch.

**CanonicalLoad.**  A session that read a row has erased none of its values, and a row a session inserted
is in no other session and not in the table (`Sessions`): so writing the changed attributes over
whatever another import committed meanwhile never puts None over a value, in any interleaving.
For imports that do not overlap (`~overlapped`, the premise of the properties), what a session
read is what the table says (`Alone`); `Marks` and `Told` then follow the merge field by field,
`Told` through what the open import has said so far (`Telling`).  Each mark is
merged by itself; the two stay a pair because the verdict compares the same two sources for both.

**StudentIdentity.**  Links are a function of source and roll number (`LinksFunctional`), what has
landed has its link (`LandedByLink`), an open import has written its links under its own source and in
agreement with all it sees (`OpenLinks`), and no two open imports have written one key
(`OneWriter`, the unique index of `entity_identity_map`): without the last, two imports that both
commit a link for a new roll number would make two students.  `SInv` says that every link leads to a
student, and that every student has the birthday some row gave; name and address together weigh 60
at most, so 70 needs the birthday, whatever the likeness of names.  A student that scores 70 therefore
shares the birthday with the row and is in the block, unless the database has another one of it
(`NewMissesUnsent`).

**RefreshTokens.**  `SettledNotDenied` needs that every active token that is denied has a request
about to remove it, or a failed one (`DenialsRemoved`), and that a request carries what it
read (`Carries`).  Families are revoked in any order, as the code's set gives them.  For requests one
after another `Serial` relates the store to the history at each step of the one request (`Knows`): ended
families have no active token, those the client holds are in the index, and the last token received
is the active one unless the request at hand is replacing it.

**WebSession.**  `Kept` says of each session nothing has excused that its last token is stored and is
the server's, or is on its way in the one refresh; `LInv` that after a sign-out whatever is
stored, and whatever a refresh could still store, is of another session.  `RInv` relates the counter
to the log of the last window: all admitted since it began are counted in it, and fewer than
twice the limit lie in any window, because a window meets at most two counters.

**StaffAccess and Copilot.**  `ScopingAgrees` is that `visible_student_ids` and
`faculty_user_ids_for_student` are inverse to each other, scope type by scope type, whatever codes
programmes and departments share.  `CopilotSpec => Spec`: no step of a question writes anything of
`StaffAccess`.  `QInv` holds for the asks in progress and for the cache what the last
validation found (`AskOk`, `CacheOk`); `CountsWithinRights` rests on a bound for each count of
the catalogue (`RowsBounded`), a cardinality of a set of students the asker reaches.  `MInv`
says of the stored and of each loaded memory that it is some of the turns of the log, and the last of
them unless something tore it; `EvenTurns` because an odd limit would cut a question from its answer,
and
`ai_session_memory_max_turns` is 10 by default (`core/config.py:70`).

`FiguresAgree` is arithmetic in one state; its invariant (`FInv`) only says that roles, placements
and assessments have their types.  The library's sum over a set is a function chosen for its
recursive equation, so that the equation has a solution comes first (`SumFromExists`: the solution up to a
number of elements extends to one more).  From it, by a least counterexample, the number of elements
of a set is the sum over its parts (`Fibres`), which gives the tiles, the departments and the types
of `/risk`.  A governed metric is a set of rows, each a number of students behind one set of labels
(`GroupedIs`, `RowOfLabels`); rows add up to the students behind them as long as no student is in two
of the rows (`RowsAddUp`), which is why a metric by risk type is compared label by label.
`FewGroups` is that no metric has more groups than the 100 rows an answer has: at most 32
departments, times three tiers and with the students of none, and 99 programmes.  Beyond it the rows are cut
off and no total agrees.  `NamesApart` is that no department has the code `Unassigned`.

**StudentRecord.**  The invariant is about the rows alone (`SInv`); the work is in what the rules
compute.  Two lemmas replace induction throughout: a set of natural numbers has a least element
(`LeastElement`, from the library's well-foundedness of finite subsets), and a bounded one a
greatest.  The age of the oldest debt is that of a row which is overdue (`AgeIs`), so a fee flag
has its debt; a payment or a day moves that age one way (`NextDayAges`, `PaymentSettles`), and the
score, as a sum of five terms, follows it (`ScoreMonotonic`).  The statuses in a window are counted
by a bijection with the days they are of (`SliceCounts`), and the rounding of a
percentage is resolved by the quotient it is (`Quotient`, `BelowPercent`, `DropPercent`): so an attendance
flag says what the counts say to within the rounding, and exactly that for whole percentages and few
sessions.  More attendance raises each count (`MoreAttended`).  The mean of the
earlier marks is a fold; that its recursion has a solution is `SumExists`, and that the solution is
the running sum the property speaks of `SumIsRunning`.

### What is only model-checked

* `RecomputesFinish`, `EveryImportEnds`: liveness under fairness, which the backends at hand do not
  prove.  Every other property of a passing run is a theorem above.
* The two violations of section 5 are counterexamples, not theorems.
* `RateLimit` has no state of its own; its counter is covered by `RefreshesLimited`.

## 5. Findings

* A corrected date of birth that leaves tier, score and findings alone writes no assessment, so
  the gate goes on reading the old minor status (`RiskEngineGateBroken`).
* A merge that kept every old value still makes its source the source of the row, and that
  source overwrites the row at its next import (`CanonicalClobber`).

Observed on the way, each in the source at the lines named, not the subject of a run:

* Risk: a watch cutoff of zero is accepted (`schemas/risk.py:24`) and puts every score in a tier that
  must carry a finding, so each student for whom no rule fires is an error at every recompute
  (`engine.py:156-159`) and keeps no assessment or an outdated one.  `LoneErrorsNeedZeroWatch` names the
  case.
* Imports: `imports.py:41` calls the upload idempotent, but the lookup and the insert (lines 29-44)
  have no unique index behind them: two uploads of one file at once make two batches.
  `BatchesWithinRequests` says how many at most.
* Copilot: `output_validation.py:1` says a narration cites no figure absent from its rows.  The
  pattern of line 6 finds numbers in digits that end in no letter: "900k" is not found at all, and
  "1,200" is found as 1 and 200.  `DigitsGrounded` speaks of the figures that are found.
* Identity: a merge into a student is not flushed (`canonical_loader.py:188-209`, `core/db.py:10`), so
  the blocking query of the next row (`resolver.py:133-137`) does not know a birthday that an earlier
  row of the same import filled in, and a like student is taken for a new one.
  `OnlyUnsentTwinsMissed` says that this is the only reason.
* Staff: scopes survive a change of role and a deactivation.
* Scoring: `fee_overdue_days = 0` is accepted (`schemas/risk.py:48`) and flags every student with
  "Fees overdue 0 days" (`fee_rules.py:13`); `FeeFlagNeedsADebt` names the case.  A share just
  below a threshold rounds up to it and is not flagged (`attendance.py:83`): with whole percentages
  from 200 sessions on, and from 100 in the window; with fractions on few (two sessions of three
  attended against 66.67).  `AttendanceFlagsExact`, a theorem, bounds the
  sessions and asks for whole percentages,
  `AttendanceFlagsWithinRounding` says what holds without.
* Copilot: a breakdown of more than a hundred groups is cut off without a word, and a department
  with the code `Unassigned` is counted with the students of none (`executor.py:27`); the hypotheses
  of `FiguresAlwaysAgree` exclude both.
* Imports: a failed import's file, uploaded again, returns the failed batch
  (`routes/imports.py:40`), where `Architecture_Bible_Ch05_ERP_Integration_Architecture.md:207`
  promises a retry.
* Identity: of two equal matches at 90 or more one is taken, though `resolver.py:7` says an
  ambiguous one never is; one name with one birthday already scores 90.  Reviews are queued again
  at every import and nothing in the code decides them.  The loader looks the rows that depend on
  a student up by canonical roll number only (`canonical_loader.py:66`), not by link.
* Rate limit: the docstring (`rate_limit.py:26`) says a sliding window; the counter is a fixed
  one, and one torn between INCR and EXPIRE never expires.
* Web session: a refresh in progress puts tokens back after a sign-out (`AuthContext.tsx:41` says
  the local session is always cleared); two tabs that renew one token end the session; so does a
  429; a 401 that comes late is retried with the tokens of whoever has signed in meanwhile.
* Copilot: an ungrouped `student_count` with a filter ignores the filter; narrations of no rows,
  and texts without a query, are not validated; a figure with a fraction passes if its whole part
  is the number of rows; a cached intent that is not allowed fails for its lifetime.

## 6. Plan and what is not modelled

What would come next: the reports of reconciliation row by row, two administrators writing one
configuration version, the routes of `/risk` that only read, and liveness, should a prover for it be
at hand.

Partly modelled: risk configuration (versions are written one at a time: the unique index aborts
the second writer), reconciliation reports (the predicates of the four anomalies and the
percentages are one mark per row), the key-value store (its counter here, get, set and delete as
steps of `RefreshTokens`; the choice between the stores is left out).

Not modelled: row-level security (PostgreSQL enforces it; every model speaks of one tenant); the
audit listener (same transaction, no state of its own); file connectors and the storage of
uploads (input and output); the declarations of models and schemas, beyond the constraints the
modules use; model providers and their fallback; rendering; migrations and scripts.
