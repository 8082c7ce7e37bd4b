# Quillframe in TLA+

Quillframe writes serial fiction with language models under an author's
control. This directory specifies the parts of it in which an order of events
nobody wrote a test for can do damage: the production run with its durable
journal of model calls, the settlement of accepted chapters into Canon and the
history kept of it, publication, plans and the book tree, projects and model
services, the corpus library, and the hosted copies of a project with the
access to them. TLC checks the specifications on small
instances; TLAPS proves every safety property the passing runs check, for all
instances.

Paths below are relative to the root of the repository; `core/` abbreviates
`native/quillframe-core/src/`.

## 1. The system

| Part | State | Operations | Interacts with |
|---|---|---|---|
| **Production run** (`core/bridge.rs`, `core/store.rs`, `core/execution.rs`) | `runs`, `production_executions`, `production_stage_calls`, `context_freezes`, `checkpoints`, `runtime_events`, `candidates`, `production_releases` | `author_run_start`, `author_run_execute`, `author_run_status`, `author_run_cancel`; in the store `start_production`, `dispatch_stage`, `confirm_stage`, `confirm_derived_stage`, `mark_stage_unconfirmed`, `record_scene_checkpoint`, `persist_writer_context_freeze`, `record_failed_gate`, `set_run_status`, `commit_released_candidate`, `cancel_production` | calls the model service; reads plans, tracking, corpus and preferences; its release is the input of acceptance |
| **Acceptance and settlement** (`core/store.rs`, `core/decisions.rs`, `core/tracking.rs`) | `acceptance_evidence`, `candidate_revision_requests`, `settlements`, `canon_state`, `chapter_dependencies`, `downstream_impacts`, `story_tracking_authority` | `request_candidate_revision`, `accept_candidate`, `settlement_preflight`, `apply_settlement` | decides what later Writer Packs contain; makes frozen contexts stale; feeds publication |
| **Publication** (`core/publication.rs`, `native/quillframe-native`) | `publication_*` tables, stage and final files | preview, build a chapter or a collection, publish, resume | reads settled heads and dependencies |
| **Story tree** (`core/story.rs`, `core/store.rs`) | `story_nodes`, documents, creation receipts | create volume, unit, chapter; validate at every opening | chapters are what runs are started for |
| **Hosted versions** (`cloud/src/workspace-coordinator.ts`, `project-store.ts`, `index.ts`) | pointer, version, preparation, collection and tombstone records in a durable object; objects in a bucket | upload, read, delete, collect | Core verifies uploaded bundles |
| **Hosted sessions** (`cloud/src/workspace-coordinator.ts`, `session-vault.ts`, `core-provenance.ts`) | auth transactions, sessions, session tombstones, nonces, vault entries | begin/consume auth, create/validate/destroy session, consume nonce | guard every hosted request |
| **Planning and Book Setup** (`core/planning.rs`, `core/setup.rs`) | plan proposals, active plans, setup proposals and approvals | propose, activate, approve | a Writer Pack freezes an active plan chain |
| **Learning, corpus** (`core/learning.rs`, `core/corpus*.rs`) | feedback, hypotheses, learning calls, corpus packs | interpret, review, activate, ingest, analyse | candidate pools of a run |
| **Story events** (`core/events.rs`, `core/store.rs`) | event chain, snapshots | append, snapshot, restore, verify | written by settlement |
| **Model services** (`core/models.rs`, `core/global_store.rs`, `native/quillframe-secrets`) | `model_services`, tokens in the system's keyring | add, replace or remove a token, delete, discover | called by runs, learning and corpus studies |
| **Projects, global state and host** (`core/global_store.rs`, `core/store.rs`, `native/quillframe-host`, `native/quillframe-native`) | registry, manifests, `.global.lock`, guarded handles | start, create a project, open per request, register | serialises every request |
| **Studio** (`studio/app/src`) | manuscript buffer, session, view state | edit, save, invoke | client of the Bridge |

What is hard in it:

- *The process may die anywhere.* `author_run_execute` is a chain of up to
  some thirty transactions and model calls. The next execution starts from the
  journal alone, and a model call costs money: a call whose outcome is unknown
  must not be repeated.
- *Requests contend.* The host opens a runtime of its own for every request
  (`native/quillframe-host/src/main.rs`, `invoke`) and with it takes
  `.global.lock` without waiting (`core/global_store.rs`, `open`). This lock,
  and not the journal, keeps two executions of a run apart.
- *The project changes under a run.* Between two executions other chapters
  settle, preferences and corpus packs are activated, the author cancels.
- *The author's decisions race.* Runs started on different Canons are
  accepted and settled in any order; a settled chapter may be settled again
  after others were written on it.
- *Hosted requests interleave at every await.* An upload reads the pointer,
  then receives and verifies its body, writes the bucket, prepares a version
  and swaps the pointer; deletions and collections run in between, and lost
  answers are retried. A login is spread over two durable objects, and a call
  whose answer was lost still takes effect later.
- *No transaction covers two stores.* Files and the project database
  (publication, project creation), keyring and global database (tokens), two
  transactions of one database (the approval of a setup, the last answer of a
  study and the step to its next stage): a crash between them leaves what no
  single request produces.

What makes each part correct is stated as properties in the modules; the list
of hazards, each at its line, is in `PROJECT.json`.

## 2. Modules

| Module | What it is |
|---|---|
| `ProductionRun` | one run, its journal, the executors, the author; the pipeline is a parameter |
| `DraftPipeline` | the route of a DRAFT run, stage by stage, as that parameter |
| `MCProductionRun` | instances: the whole DRAFT route and a short one with a stage of each kind |
| `ProductionRunProofs` | theorems about `ProductionRun`, for every pipeline, and about the DRAFT route |
| `Settlement` | runs, candidates, decisions, Canon, dependencies, tracking authority, export |
| `SerialCanon` | abstract: what settlement promises |
| `MCSettlement`, `SettlementProofs` | instances; theorems, with the refinement of `SerialCanon` |
| `HostedVersions` | pointer, records, receipts and objects of one hosted project and the requests on it |
| `MCHostedVersions`, `HostedVersionsProofs` | instances; theorems |
| `HostedSessions` | logins, sessions, logouts and the secret vault of one workspace |
| `CoreNonces` | the single use of proofs and the bounded index of nonces |
| `MCHostedAccess`, `HostedAccessProofs` | instances of the two; theorems |
| `Publication` | builds, their attempts and files |
| `StoryHistory` | event log, projections, snapshots, verification and restore |
| `MCStoryRecords`, `StoryRecordsProofs` | instances of the two; theorems |
| `PlanLedger` | plans, Book Setups and their approval |
| `StoryTopology` | volumes, units and chapters, and repeated creations |
| `MCAuthoring`, `AuthoringProofs` | instances of the two; theorems |
| `ProjectLifecycle` | the global state and the creation of projects |
| `ModelServices` | services, tokens and catalogs |
| `MCInstallation`, `InstallationProofs` | instances of the two; theorems |
| `CorpusStudy`, `MCCorpusStudy`, `CorpusStudyProofs` | one study of the corpus library; instance; theorems |

Four of the MC modules hold two components each. The components share no
record (of the clock in `MCHostedAccess` each only needs that it moves on), so
a behaviour of both is a pair of behaviours, and a property of one of them
holds of the pair if it holds of the one. `Init` therefore chooses a `subject`,
and TLC explores the components one at a time instead of their product. Where
one component does see another (receipts of other operations in
`StoryTopology`, settlements in `Publication`), its module has an action for
it.

### ProductionRun

Every database transaction is one action, and `Crash` may end an execution
between any two; it also stands for a transaction that fails on its own. The
variables are the columns the code decides on: `status`, `cancelRequested`,
`calls` (one row per stage key, as the table's `UNIQUE(run_id, stage_key)`
demands), `freezes`, `checkpoints`, `events` (the cursor that
`author_run_cancel` compares), `candidate`, `releases`, `abandonedBy`
(receipts of cancellations). `ex` is the local state of the executions: where
the code is (`pc`), the stage it is at, the results it holds (`seen`) and the
material its context was chosen from.

A result is a verdict and a variant: the verdict is what `author_run_execute`
makes of the text (accepts, rejects, does not parse, cites inexact evidence,
falls below the minimum length), the variant tells two texts with the same
verdict apart, as fingerprints do. The input of a stage is the set of results
it was built from and, for the three selection stages, the version of the
tables their pools were read from; comparing inputs is comparing
`input_fingerprint`.

`execute_model_stage` is `LookUpStage`, `DispatchStage`, `SendStage`,
`ConfirmStage` or `MarkUnconfirmed`, and the event. `MayReplay` is its reuse of
a confirmed row of the same input. The two tracking stages the code reads from
the journal before it computes an input are `ReusedStages`. `IsDerived` are the
stages Core answers itself: empty pools, the assembled surface, the length
gate. `DraftPipeline` lists, for each stage and verdict, the next stage, the
failed gate, the release or the error `author_run_execute` goes to. One scene
stands for the scenes of a chapter.

`Unfrozen` names the stages before the freeze, and `FreezeAssumption` says that
the route leads from them to the freeze, a failed gate or an error only, as
`author_run_execute` does: `persist_writer_context_freeze`, which refuses a
cancelled run, cannot be bypassed.

`SettlementElsewhere` and `MaterialChanges` are the rest of the project as this
run sees it. `RuntimeFree` is the global lock.

### Settlement and SerialCanon

A run has one candidate, at most one acceptance and at most one settlement, so
the run names them. Fingerprints of heads are the runs behind them; the
fingerprint of the tracking authority covers its version and `pack` keeps that
version. `StartRun` is `author_run_start` with `freeze_writer_pack_for_chapter`
(continuity is `Recent`, at most `Window` chapters, 12 in the code),
`PersistContextFreeze` adds the selected chapters to the dependencies,
`ApplySettlement` is `apply_settlement` with everything it writes about heads,
dependencies, freezes and tracking: one version more for the record, another
for invalidations. Chapters are created while others are written, before them
too (`CreateChapter`); a settlement writes the reading order of its chapter down
(`order`), by which `Recent` sorts the records. `Publishable` is the check of
`load_current_source`: the head, its dependencies, and its reading order
compared with the one the book has now. A chapter created before a settled one
fails that comparison until it is settled again, without being invalidated, and
`ValidHeadsPublishable` allows for exactly that.

`SerialCanon` says that a run draws on the whole Canon when it starts and may
replace a chapter only if Canon is still what it has drawn on. That
`Settlement` implements it (`ImplementsSerialCanon`; the mapping takes `head`
for `canon` and the history variable `read` for `drawn`) is not obvious: the
code compares a tracking fingerprint and a list of dependencies, never Canon.

### HostedVersions

Each call to the coordinator is one durable-object transaction and each call to
the bucket is one step. A request keeps what it has read (`seen`, `prior`).
`prepareProjectVersion` is split into its three cases (`PrepareAgain`,
`PrepareRecorded`, `PrepareNew`), `casProjectPointer` into `CasStale`,
`CasCurrent` and the refusals. A retry is a request with an operation id that
was used before. `RetentionPasses` makes every record older than the retention
hour and assumes that no request lasts that long. `Abandon` ends a request
anywhere: Core refuses the bundle, the bucket fails, the worker is evicted.
Reading a project changes nothing and has no action. Receipts are pruned when a
collection ends, so what a collection has touched can no longer be told from
the records; the history variable `collected` keeps it for the properties.

### HostedSessions and CoreNonces

Every method of the coordinator and of the vault is one transaction;
`readSecret`, which decrypts between two, is `ReadSecret` and `FinishRead`.
`handleCallback` is the chain `HandleCallback`, `AuthenticateCode`,
`CreateSession`, `Lease` (twice) with its undo `UndoVault`, `UndoSession`, and
`handleLogout` is `HandleLogout`, `LogoutVault`, `LogoutSession`; each may be
cut off anywhere. A lost call stays in `late` and runs when it likes. The time
a lease is stamped with is read before the cipher is awaited, so it may be
older than the transaction. Cookies, encryption and headers are left out.

`CoreNonces` is `consumeCoreNonce` as a whole: purge, consistency check,
capacity, replay and digest conflict, in that order. A refusal is returned,
not thrown, so its transaction commits the deletions and leaves the index
unchanged; that the index may be ahead of the records afterwards is why
`NeverInvalid` needs an argument.

### Publication and StoryHistory

A build is named by what it publishes. `drive_publication_files` and its
callers are split at every transaction and file operation (`write`, `record`,
`publish`, `reopen`, `update`, `finalize`), and a request that finds an attempt
goes on from the row and the files it finds. A file is whole or torn; a file
identity is a number. A source is an acceptance that was settled at some time:
the author's decision marks the candidate, and only the settlement marks the
revision, which `load_accepted_source` asks for as well. A collection takes
heads only. `StoryHistory` has the tables a settlement writes besides
Canon: the narrative rows with their sources, the event, the head of the log
and the snapshot, of which `Retained` are kept. `DamageProjection` and
`DamageHistory` change one row behind the program's back, which is what
`verify_story_history` and `restore_latest_story_snapshot` are there for.

### PlanLedger and StoryTopology

The chain of plans has `Layers` layers; a plan is bound to the plans above it,
and `CurrentPlan` is the lookup that refuses a plan whose ancestors were
replaced. `book_setup_approve` is `ActivateBookSetupPlan` or `ResumeApproval`
followed by `ApproveBookSetup` or `AnswerIncomplete`, with `Crash` in between.
The contents of a setup are abstracted to one plan body per setup; two setups
may have the same body, which is the case the resumption must tell apart. A
plan that an approval activated carries its setup in `decided`; the code tells
it by `decided_at`, the time of the proposal, and by its key, which begins with
`book-setup-plan:`. The titles `approve_book_setup` gives the first nodes of the
book are left out, for nothing compares them.
`StoryTopology` computes ids, ordinals and default parents as the code does and
states `validate_novel_topology` as a predicate over the tree.

### ProjectLifecycle, ModelServices, CorpusStudy

`ProjectLifecycle` has one action per durable step of a creation: stage file,
manifest, reserved database, schema, initial rows, registration. Stage names
recur, for they are made of a process id and a counter. `ModelServices` has one
action per write to the database or the keyring, each of which may fail, with
the code's compensation (`UndoWrite`). `DiscoverService` reads the record, asks
the service and stores the catalog in one step: the runtime of a request holds
`.global.lock` over the await. `CorpusStudy` follows
`corpus_study_execute` through its loop; selection, confirmation, continuation
and cancellation are requests of their own. The selection is a set of works of
the proposal; `NextUnit` is the first unit without an answer, in the order of
the proposal or, in an extraction, of what the last answer asked for. A request
sends at most `jobs` of them (`max_jobs`). `InputAccepted` is what
`stage_input` and the limit of 512 KiB ask of an input: its work is selected,
its file is the one that was scanned (`EditSources` changes files at any time),
and it is short enough (`oversized`, chosen at the start, has the units that are
not). A title of two characters or less (`ShortTitled`) is not looked for in a
pack.

## 3. Runs

States are distinct states.

| Run | Checks | States |
|---|---|---|
| `draft` | the whole DRAFT route with its five gates, two executions, two versions of the material, a cancellation: `ReleaseBackedByGates`, `ReleasedPassedGates`, `TypeOK` | 125,000 |
| `contention` | two executors, two variants, three executions, pools empty or not: `ConsumedOnlyConfirmed`, `SentAtMostOnce`, `ReleaseUsesFrozenContext`, `CancelledNeverReleases`, `CancelClosesJournal` | 92,000 |
| `budget` | budget of two calls, three executions, fairness: `WithinBudget`, `ExecutionEnds` | 3,000 |
| `settlement` | three chapters created in any order, four runs, window 1: `CanonHistoryLinear`, `ValidHeadsPublishable`, `StaleHeadsInvalidated`, `ImplementsSerialCanon` | 519,000 |
| `records` | *Publication*: two chapters with two acceptances, two builds, two crashes: `PublishedIsWhole`, `ResumableUnlessTorn`, `NewestCollectionAnswered`. *StoryHistory*: two chapters, two narrative rows, three settlements, one damaged row, two snapshots kept: `OpenedStateIsHistory`, `DamageIsRepairable`, `CurrentSourcesAreHeads` | 368,000 |
| `authoring` | *PlanLedger*: three layers, three setups with one plan body, three keys, two authors, five activations, one crash: `OneBook`, `KeysActivateOnce`, `ApprovalIsWhole`. *StoryTopology*: four creations, three keys, two titles: `CreationsAreValid`, `RetriesNameOneNode` | 234,000 |
| `installation` | *ProjectLifecycle*: two ids, titles and stage names, three crashes: `RegisteredIsUsable`. *ModelServices*: two services, three tokens, one crash: `TokensMatchServices`, `CatalogIsCurrent` | 633,000 |
| `corpus` | three works, one of two chunks, a file that is edited, inputs that are too long, requests of at most two jobs, one crash: `SentAtMostOnce`, `StudiedAsAllowed`, `StuckOnlyForCause` | 767,000 |
| `hosted` | two contents, three operation ids, five requests two at a time, capacity 2: `PointerBacked`, `NoLostUpdate`, `UploadedOnceAndKept`, `HistoryWithinBound` | 261,000 |
| `access` | *HostedSessions*: two callbacks of one or two logins, one read, times 0 to 3: `OneSessionPerLogin`, `SecretsEnd`. *CoreNonces*: four proofs, three nonces, two calls each, capacity 2: `OnceInWindow`, `FullOnlyOfLive` | 1,871,000 |

Some of these are conjunctions of two invariants that are defined, and
explained, next to them: `PublishedIsWhole`, `OneBook`, `ApprovalIsWhole`,
`TokensMatchServices`, `StudiedAsAllowed`, `UploadedOnceAndKept`, `SecretsEnd`.
Each run is kept to what could go wrong in it; what is proved and easy
(`TypeOK`, `ConfirmedImmutable`, `ReleaseIsFinal`,
`AcceptedNotUnderRevision`, `CreatedOnce`, `AbandonedOnlyAfterCrash`,
`NeverInvalid`, `NonceNamesOneProof`) has a theorem and no run.

### Where the code and the documents disagree

Two runs end in a counterexample:

| Run | Property | What happens |
|---|---|---|
| `repair` | `InvalidatedIsRepairable` | chapter 1 leaves the window, is settled again and invalidates chapter 2, which is in the window: no Writer Pack can be frozen any more, chapter 2's included (spec 036: "must be incrementally rebuildable") |
| `collected` | `ActiveObjectStored` | an upload finds the object of an orphan, a collection deletes it and its record, the upload prepares and activates the version: its object is missing (test "blocks re-reference") |

The modules state more that does not hold; each of these definitions says so in
its comment, and adding it as an INVARIANT to the configuration named shows the
behaviour. The passing runs check what does hold in its place.

| Definition, configuration | What happens |
|---|---|
| `ProductionRun!BudgetCountsModelCalls`, `MCProductionRunBudget` | stages Core computes itself are journal rows and use up the budget (`core/store.rs:3474`; spec 025: "Budgets count actual model dispatches") |
| `Settlement!ContinuityIsPrior`, `MCSettlement` | a chapter before settled ones is written on later chapters (`core/store.rs:2125`; `core/production.rs:178`: "unique settled prior chapters") |
| `Settlement!NewerAcceptanceBlocksExport`, `MCSettlement` | a head stays exportable although a newer acceptance waits (`core/publication.rs:297`; `docs/project-contract.en.md:45`) |
| `Settlement!ValidHeadsStayPublishable`, `MCSettlement` | a chapter is created before a settled one: its head is current and cannot be exported (`core/publication.rs:366`) |
| `Settlement!RecordsInReadingOrder`, `MCSettlement` | a record keeps the number its chapter had when it was settled, so after the book has grown the continuity of a Writer Pack is sorted wrongly (`core/store.rs:2125`) |
| `Publication!CommittedIsAnsweredAgain`, `MCStoryRecords` | a request for a committed collection is repeated with its key after a chapter was settled again: it is refused, for the heads are compared before the key is looked up (`core/publication.rs:188`) |
| `Publication!InterruptedBuildsResume`, `MCStoryRecords` | a crash while a stage file is written leaves a torn file that every later attempt takes for a foreign one (`quillframe-native/src/lib.rs:243`; spec 036: "idempotent replay, and crash recovery") |
| `StoryHistory!LedgerRebuilt`, `MCStoryRecords` (as an operator over `Story`) | a row two chapters touched goes stale with the second, though the first still establishes it (`core/store.rs:4997`; spec 036: "incrementally rebuildable") |
| `PlanLedger!IncompleteIsRetryable`, `MCAuthoring` | setup A is cut off, B is proposed on A's plan, A is resumed: approving B activates its plan, is answered `approval_incomplete` with "retry the same request", and is refused for ever (`core/bridge.rs:888`; spec 036: "recoverable only through the same request") |
| `ProjectLifecycle!InterruptedCreationRecovers`, `MCInstallation` | a crash between the manifest and the registration leaves an id that can be neither created nor opened (`core/store.rs:39`) |
| `ProjectLifecycle!InterruptedStartRecovers`, `MCInstallation` | a crash between the reservation of `global.sqlite` and its schema makes every later start fail (`core/global_store.rs:51`) |
| `CorpusStudy!InterruptedStudyResumes`, `MCCorpusStudy` | a crash after the last answer of the extraction, before the next stage: nothing is left to send and the stage never advances (`core/corpus_store.rs:583`; spec 036: "recoverable Corpus v2 runner") |
| `CorpusStudy!UndisturbedStudyGoesOn`, `MCCorpusStudy` | a unit whose input is over 512 KiB stops its study for good, though nothing was lost, edited or interrupted (`core/corpus_store.rs:591`) |
| `CorpusStudy!PackNamesNoSource`, `MCCorpusStudy` | a work read and then deselected goes into the pack, but its title is not looked for, and neither is a title of two characters (`core/corpus_store.rs:1170`; `docs/adaptive-learning.en.md:45`) |
| `CorpusStudy!PreviewIsComplete`, `MCCorpusStudy` | the number of previews includes those of deselected works, so the study pauses before every selected one was previewed (`core/corpus_store.rs:774`) |
| `CoreNonces!SingleUse`, `MCHostedAccess` | at `now = replay_expires_at` the record is discarded and the proof still accepted (`workspace-coordinator.ts:425` against line 405 and `core-provenance.ts:288`; test "retention covers verifier skew") |

`UploadedOnce` holds until a collection gives the receipt of an upload back;
a retry that comes later than that is a new upload.

### Bounds, and why they are enough

- `MaxExecutions` is 2 or 3: a crash is followed by one execution that finds
  the journal as it is, and a third finds what that one left. The journal
  never shrinks, so later executions meet no other kinds of rows.
- Two executors and two variants are what it takes for two executions to
  contend and for an answer to differ from the recorded one. Two versions of
  the material, one with empty pools, let a pool stage turn from a model call
  into a derived one and back.
- A window of 1 with three chapters lets chapters leave the window; four runs
  let a chapter be written, written on, replaced and written again while
  another run races.
- Two contents and three operation ids make orphans, re-uploads and retries of
  each kind of request; `Capacity` 2 reaches the limits, 3 stays below them.
- In `access` the windows are one or two ticks and time has four, so that
  every instant before, at and after the end of each window occurs while
  another call is under way. Four proofs on three nonces fill an index of two,
  replay a proof and reuse a nonce. Two callbacks are a duplicate or a rival.
- In `records` a second crash interrupts the resumption of a first, and a
  third settlement prunes a snapshot of the two that are kept.
- In `authoring` the approval that is interrupted, the one that is proposed on
  its plan and the one that replaces both are three setups. Four creations
  after the book make a second volume, a unit in either and a chapter.
- In `installation` three crashes end a start, a creation and its repetition.
- In `corpus` three works let a selection be narrowed twice, and two chunks
  let an extraction end early. With at most two jobs a request ends in the
  middle of a stage and at its end. Two files that are edited and three inputs
  that may be too long (a preview, a chunk, the report) give each refusal in
  each kind of stage.
- Symmetry is used for runs, contents, operation ids, requests, keys, titles
  and the like: none is ever compared other than for equality, and no run with
  symmetry checks a liveness property.

Deadlock is not checked: a run that is released or cancelled, a project whose
runs are all settled, and a project whose clients are done may stop.

### Fairness

One run assumes fairness. `budget`: weak fairness of every executor's steps. A
request once started is driven by the host's runtime, every step is a local
transaction that does not wait, and a model call ends by its
`absolute_deadline_ms`, with an answer or with `MarkUnconfirmed`. Nothing is
assumed of the author, of the project or of further executions, and `Crash`
needs no fairness. The loop of a corpus study is bounded by `max_jobs`, so that
its end needs no check.

## 4. Proofs

Every invariant and every action property of the passing runs is a theorem. The
theorems hold for every pipeline, every number of executors, chapters, runs,
versions, operations, requests, projects, services, proofs, logins, builds,
settlements, setups, keys and works, under named assumptions that TLC evaluates
on every instance: `ProductionRunAssumption`, `FreezeAssumption`,
`SettlementAssumption`, `HostedVersionsAssumption`, `NoncesAssumption`,
`SessionsAssumption`, `PublicationAssumption`, `StoryAssumption`,
`LedgerAssumption`, `TopologyAssumption`, `LifecycleAssumption`,
`ServicesAssumption` and `StudyAssumption`. These state the types of the
constants, that model values differ from one another where they must, and that
`Stages`, `Chapters`, `Proofs` and `Nonces` are finite. Two say more, of what
the code is: no route leads around the freeze (`FreezeAssumption`), and the
proposal of a study names no work twice (`StudyAssumption`). The inductive
invariants were checked by TLC on the instances of section 3 before they were
proved.

A theorem about one component of an MC module with two is stated of the
component's own specification or of the pair; the other component leaves its
variables unchanged.

**ProductionRun.** `TypeCorrect`, `InputsConfirmed`, `ReleasesBacked`,
`JournalImmutable`, `CancelledJournalClosed`, `ReleaseStays`,
`StagesSentOnce`, `BudgetKept`, `CancellationHolds`, `ContextFrozen`. The
inductive invariant says of every executor at work that
what it holds is backed by confirmed rows and follows the route up to the stage
it is at; of every row that its input is backed; of the release the same with
the release as its goal; and that a cancelled run has no row that could still
change. `ConsumedOnlyConfirmed` is not inductive by itself: a row is written
from what an executor holds, so that has to be backed first. "Backed" is
preserved because rows only grow (a confirmed row never changes), which is a
lemma about every action. The others add a part each:

- `StagesSentOnce`: at most one executor is at work (the lock), and one about
  to send holds a row that has not been sent (`SentInv`); without the lock the
  second fails, as the mutant `RuntimeUnlocked` shows.
- `BudgetKept`: requests are as many as stages that were sent, and an executor
  about to send has a request to spare (`BudgetInv`). The code compares the
  number of rows when it writes one; a request has a row, so requests never
  outnumber the rows.
- `CancellationHolds`: an execution of a cancelled run has not passed the
  freeze (`CancelInv`). Neither the reuse of a confirmed row nor
  `set_run_status`, which overwrites the status the release looks at, asks for
  `cancel_requested`; an execution that finds every row confirmed is stopped by
  `persist_writer_context_freeze` alone, and that cannot be bypassed.
- `ContextFrozen`: an executor works on the tables it has read, the rows it
  has consumed from pool stages name them, and once a selection led to the
  freeze they are frozen (`ContextInv`). A row never changes its input.

`GatesPassed` is about the DRAFT route (`Draft` fixes the constants that
`DraftPipeline` defines, and no other). That route can be numbered
(`DraftRank`), so it comes to no stage twice; hence everything an executor has
consumed was led to by something it consumed earlier (`PathInv`), back from the
release to the first stage, and a gate answers only what its contract allows
(`AnswersInv`). Walking back from the release then meets each gate with its
acceptance, the Surface audit with its acceptance or with an inexact answer and
an accepting repair, and the tracking audits with a rejection each but the
last.

**Settlement.** `TypeCorrect`, `HistoryLinear`, `StalenessComplete`,
`ValidHeadsExportable`, `RevisionsOnlyInReview` and `Refinement`. The inductive
invariant relates Canon to the version of the
tracking authority: what a run has read is the current Canon whenever the
version in its pack is the current one. This is why comparing fingerprints of
the tracking authority amounts to comparing Canon. It also says
that a dependency is the current head of its chapter or marked stale
(`DepsOK`), that a head is a settled run of its own chapter and invalidated if
one of its dependencies is stale (`HeadsOK`), that the head a settlement
replaced is not a head any more (`RowsOK`), and that the reading order written
down for a chapter is at most its place in the book, which only grows
(`OrderOK`).

**Publication.** `PublicationTyped`, `PublicationsAreWhole`, `BuildsResume`,
`CollectionsAreNewest`. A build is always in one of six places, told from its
row, its two files and its record: unknown, staging, recorded, renamed,
updated, committed (`Placed`). The request in progress knows the place
(`RequestPlaced`), and every file operation and transaction moves the build one
place on; so a crash leaves it where a later request finds it, except in
staging with a torn file, which is what `ResumableUnlessTorn` says. Heads move
forward only, and never while a request is at work; a published collection is
therefore behind the heads, and the one in progress is made of them
(`HeadsLead`).

**StoryHistory.** `StoryTyped`, `OpenedIsHistory`, `DamageRepairable`,
`OfferedRowsAreCurrent`. The log is contiguous and the head names its chain
(`LogKept`); the latest snapshot has a fingerprint of what the settlements of
that chain make of an empty project, whatever happened to its content or to the
tables (`SnapshotsKept`). A project that opens was compared with it.
`Replay` is a recursive function over the log. That two solutions of its
equation agree, and that a settlement extends it, is proved by least
counterexample (`WFMin` of the library), since induction over data is out of
the prover's reach. That no more than `Retained` snapshots are kept
(`RetainedInv`) needs that no two are of one revision: of those that are kept,
the oldest has all others after it.

**PlanLedger.** `LedgerTyped`, `BooksAreOne`, `SavesActivateOnce`,
`ApprovalsAreWhole`. A plan that an approval activated is the next version
after the one its setup was proposed under (`DecidedPlans`), and the head is
bound to such a plan (`HeadBound`). An approval that was cut off left its plan,
and its key stays its own until the head moves on (`InterruptedKept`), so as
long as that plan is active the same request completes it. Without a crash a
proposal the head has passed is refused by its version of the book plan before
the first transaction (`WithoutCrash`), so the second never refuses.

**StoryTopology.** `TopologyTyped`, `BookGrows`, `RetriesAreAnswered`.
`validate_novel_topology` itself is inductive together with the facts that
receipts name their nodes (`ReceiptsTrue`) and that what was answered is in the
receipt of its key (`AskedAnswered`); an ordinal or number that is one more
than the greatest is new (`GreatestElement`, again by a least element).

**ProjectLifecycle.** `TypeCorrect`, `RegisteredUsable`, `CreatedAtMostOnce`,
`RefusalsLeaveNothing`. A creation past its manifest owns the directory: no
other creation got so far, for the manifest is never replaced (`CreationOwns`),
and no database comes before its manifest (`ManifestFirst`), so a reservation
is refused only after a crash.

**ModelServices.** `ServicesTyped`, `KeyringAgrees`, `CatalogCurrent`. A
reference is allocated once and belongs to one service (`RefsAllocated`,
`RefsDistinct`); a new one is nobody's until it is saved, with its token in the
keyring by then (`NewIsFresh`), and one that is being deleted is nobody's any
more (`OldIsUnused`). Until it saves, a request works on the record that is
stored (`ReadsStored`), which is the lock's doing and the reason why a catalog
recorded after the network is current.

**CorpusStudy.** `StudyTyped`, `SentOnlyOnce`, `StudiesAreAllowed`,
`StuckForCauseOnly`. A call that has a row was sent once; stage and status
move together (`Phases`); the stages that were left have what they needed
(`PassedWhole`), since a selection can be narrowed only before the first stage
is left. Without a crash, and
unless a call was lost, an extraction that goes on has something to send
(`ExtractionGoesOn`): the answer that asks for nothing more and the step to
the next stage are in one request. `NextUnit` exists because both orders are
free of repetitions.

**HostedVersions.** `TypeCorrect`, `PointerAlwaysBacked`, `UpdatesNotLost`,
`HistoryBounded`, `UploadsHold`. Pointer
versions only grow and each names one pointer, so a request that has read the
current version number has read the current pointer (`SeenOK`): that is what
`NoLostUpdate` rests on. `PointerBacked` also needs `ActiveOK`, that the record
of the active version was prepared for the pointer version just before it;
without it a late compare-and-swap of the version that is already active could
orphan its record. `HistoryBounded` maps records one to one to the receipts
they were made with (`ReceiptsKept`). `UploadsHold` rests on the record of a
version naming the pointer version it was prepared for (`BehindInv`): until it
is collected a version is activated at most there, so a late deletion finds
another pointer, and a late upload another pointer version (`StoredInv`).

**HostedSessions.** `SessionsTyped`, `LoginsMakeOneSession`, `SecretsAreEnded`.
Of the callbacks of a login one is admitted, for admission consumes it
(`LoginConsumed`). A session is ended after its vault (`VaultFirst`), the
vault's tombstone stays, and no lease of a destroyed session is listed
(`LeasesOwned`), also not by a late call or the second half of a read. That the
alarm covers every lease is inductive by itself; it is rescheduled in the
transaction that changes a lease.

**CoreNonces.** `TypeCorrect`, `AcceptedOnce`, `IndexNeverInvalid`,
`NonceOfOneProof`, `CapacityOfLive`. The
invariant says that an accepted proof is recorded and listed until the end of
its window (`HeldInWindow`), and that a live entry of the index has its record
(`LiveRecorded`), which a refused call preserves because it deletes records of
dead entries only. `CapacityOfLive` maps the live entries one to one to accepted
proofs. The window must be half open: at its last instant `HeldInWindow` fails,
which is the disagreement `SingleUse` shows.

Only model-checked: `ExecutionEnds`, because liveness under fairness is outside
the prover; and the counterexamples of section 3, which are no theorems. No module uses a RECURSIVE operator.

## 5. Not modelled, and the plan

Left out for good: the text of prompts, manuscripts and findings, the field
validation of setups and endpoints, the normalisation of provider payloads, the
ingestion of text files, the guarded file handles of the two operating
systems, HTTP transport, encryption, rendering, the marketing site and the
corpora. These are functions of their input without state, or presentation.

Not modelled yet:

1. The REVISE route: repair sources, bounded repair with inherited evidence,
   repair comparison, and the lineage of failed runs.
2. Learning: feedback, hypotheses and the durable learning call, whose journal
   has the shape of the one in `ProductionRun`.
3. The start-up of the hosted Core container.
4. The Studio's manuscript buffer against the Bridge.

Proofs to add: that `ExtractionGoesOn` and the other parts of the invariants
that need `crashes = 0` have a counterpart after a crash (what a crash may leave
is today only shown by the counterexamples of section 3), and the theorems of
the REVISE route once it is modelled; `PathInv` is stated for any route that can
be numbered and applies to it.
