# A formal model of ArgonMemory

ArgonMemory is a server that keeps a team's project knowledge: documents, records and
evidence in an immutable, revisioned file store, a durable queue of maintenance packets,
and maintainer processes that turn the packets into new revisions with the help of a
language model. These TLA+ modules model its core protocols from the TypeScript source
under `src/src`, check them with TLC on small instances, and prove the most important
properties with TLAPS for every value of the constants. Paths below are relative to
`src/src/project` unless they say otherwise.

`PROJECT.json` lists, in machine-readable form, the components, the runs, the source
lines of every definition ("map"), a mutant for every property, the findings, the hazards
and the theorems.

Contents: 1 the system, 2 the modules, 3 the store, 4 the queue, 5 conflict resolution,
6 memory, work and documents, 7 artifacts and the corpus, 8 the retrieval index, 9 uploads
and sessions, 10 the plan harness, 11 findings, 12 proofs, 13 what is not modelled,
14 plan, 15 running the checks.

## 1. The system

One knowledge root on disk is shared by several processes: one or more MCP servers (HTTP
or stdio), each with a runtime and a store object, the maintainer, and command-line tools.
Inside a process Node runs one callback at a time, but every `await` lets others run;
between processes every file-system call and every SQL statement interleaves.

| component (source) | state it keeps | operations | interacts with | what is hard | what makes it correct |
|---|---|---|---|---|---|
| Canonical revision store (`revision-store.ts`) | `knowledge/current-revision.json`, `revisions/<hash>/`, `staging/`, the lock directory `.write-lock`; a promise queue per process | `publish` (with an optional `expectedParent`), `pointer`, `activeDirectory` | everything canonical goes through it | file-by-file steps, several processes, crashes, breaking of old locks | publication is one compare-and-swap; nothing published is lost or changes; every revision is complete |
| Maintenance queue (`maintenance/queue.ts`) | `maintenance/jobs.sqlite`: status, attempts, lease, retention of each packet | `enqueue`, `lease`, `complete`, `fail`, `get` | runtimes enqueue, maintainers drain | leases that expire, crashes, limits under concurrent admission, rows of older releases | limits hold, no accepted packet is lost, one worker per lease, bounded retries, every packet settles |
| Maintenance worker (`deployment/maintenance.ts`) | the job it leased; at most three proposals per lease | `runDeploymentMaintenance` | queue, plan harness, advisor, model | stale bases, death between publishing and reporting | a packet reported complete had its effect, once |
| Conflict resolution (`runtime.ts` 1241-1293) | `conflict` records: open, resolution_pending, resolved ...; `user_conflict_resolution` records: locked, applied | `submitUserConflictResolution` | store, queue, worker | look-up, publication and enqueue are separate steps; replays of the same key | one answer per conflict at a time; only that answer is applied, once |
| Plan harness (`runtime.ts` 1309-1449, `maintenance/contracts.ts`, `maintenance/blocks.ts`) | none of its own | `refreshMaintenancePacket`, `applyMaintenancePlan`, `validateMaintenancePlan`, block patches | worker, store | pointer and records are read at different times | a plan is applied to the base it was made for, or not at all |
| Memory policy and work lifecycle (`runtime.ts` 590-960, 1739 ff.) | `memory`, `work_item`, `checkpoint` records | `startWork`, `captureContext`, `finishWork`, `evaluateMemory`, `validateAndStore`, `reconcileMemory` | store, queue | read-modify-write without expected parent, packet enqueued after the write, idempotent replays | no update lost, closeout at most once, an accepted memory stays within its scope and evidence |
| Artifacts (`runtime.ts` 684, 1525-1735, `ingestion.ts`, `retrieval/backfill.ts`) | `artifact` records, evidence units, blobs | `publishResourceBytes`, `ingestInventory`, `normalizeArtifactLocal`, `parseArtifactWithMinerU`, `retryFailedParses`, `backfill` | store, parsers, retrieval index | minutes of parsing between read and write; stale cascades in several publications | evidence of a stale artifact supports nothing accepted |
| Documents and views (`runtime.ts`, `views.ts`, `validation.ts`) | project and section documents with their block structure | update, projection, lint, graph, brief | store | section and main document go together | views are functions of one revision |
| Retrieval index (`retrieval/index.ts` and helpers) | per-project corpus, embeddings, ranking cache, cursors | `synchronize`, `search`, cursor pages, `inspectCoverage` | store, embedding provider | caches that outlive what they were computed from | an answer is of one revision the caller may read |
| Retrieval planner, reader, providers (`retrieval/planner.ts`, `reading.ts`, `preview.ts`, `multimodal/`) | none | building of requests, network calls | index, server | network | - |
| Jev advisor (`maintenance/jev-*.ts`) | circuit breaker: three failures open it for 60 s | `prepare` | worker | advice on a snapshot, used on a later one | stale advice is not used |
| Model adapter (`maintenance/ms-agent-adapter.ts`, a Python worker) | none | the proposal of a plan | worker | slow or failing model; which errors may be retried | a failure never looks like a plan |
| MCP tools and chunked uploads (`src/src/mcp/tools/project.ts`) | uploads with reserved bytes, per principal and in all | `kb_begin_resource_upload`, `kb_append_resource_chunk`, `kb_commit_resource_upload`, the sweeper | artifacts | expiry against a running chunk or commit | reservations equal what is held, given back once |
| HTTP server (`src/src/mcp/project-http-server.ts`) | sessions and reservations | initialize, request, close, sweep, stop | tools | connections that close during the handshake | the session limit, nothing leaks |
| Client notices (`client-notices.ts`) | SQLite receipts | `deliverClientNotice` | server | limits, expiry of receipts | a notice is announced once |
| Deployment and members (`deployment/config.ts`, `principals.ts`) | configuration, registry, invitations, registry lock file | `issueMember`, `revokeMember`, `atomicJson` | server | a lock that nothing breaks, several files | a revoked member has no access |
| Client skill release, document back ends, command line | none | - | - | - | - |

How a change travels: a client writes a record (`publish`) and a packet is enqueued; a
maintainer leases the packet, refreshes it to the current revision, asks the model for a
plan on that base, validates it, publishes the outcome with `expectedParent` and completes
the packet. Every arrow of that chain can be cut by a crash, a refusal or another
publisher, and the store's compare-and-swap together with the queue's leases are what the
rest relies on. They are therefore modelled first.

## 2. The modules

| module | models | code it stands for |
|---|---|---|
| `RevisionChain` | abstract: a chain of batches with an atomic compare-and-swap publication | what callers of `publish()` rely on |
| `RevisionStore` | every step of `publish()`, the lock directory, crashes | `revision-store.ts` |
| `RevisionStoreProofs` | theorems about it, and that it implements `RevisionChain` | - |
| `MaintenanceQueue` | every statement of the queue and the loop of its workers | `maintenance/queue.ts`, `deployment/maintenance.ts` |
| `MaintenanceQueueProofs` | theorems about `MaintenanceQueue` | - |
| `AnswerLedger` | abstract: answers that are locked and applied in one step each | what users who answer conflicts rely on |
| `ConflictResolution` | a user's answer from submission to application | `runtime.ts` 1241-1449, `maintenance/contracts.ts`, `deployment/maintenance.ts` |
| `ConflictResolutionProofs` | theorems about it, and that it implements `AnswerLedger` | - |
| `WorkMemory` | work items, closeouts, checkpoints, resources, and the memories they submit | `runtime.ts` 585-960, 1739-1759 |
| `ProjectDocuments` | main file, sections and their links, legacy proposals; extends `WorkMemory` | `runtime.ts` 1102-1205, 1295-1306, 1467-1481 |
| `ProjectDocumentsProofs` | theorems about both | - |
| `ArtifactLifecycle` | ingestion, stale cascade, normalisation, cloud parsing, retries, backfill | `runtime.ts` 1484-1736, `ingestion.ts`, `retrieval/normalize.ts`, `retrieval/backfill.ts` |
| `EvidenceCorpus` | the corpus made of those artifacts, its cache and its reuse; extends `ArtifactLifecycle` | `runtime.ts` 500-522, `retrieval/evidence.ts`, `retrieval/index.ts` |
| `EvidenceCorpusProofs` | theorems about both | - |
| `RetrievalIndex` | searches with cursors and caches against an indexer that embeds | `retrieval/index.ts`, the indexer's loop in `src/src/cli/knowledge.ts` |
| `Diversification` | the loop of `diversify`, compared with its result in `RetrievalIndex` | `retrieval/index.ts` 77-117 |
| `RetrievalIndexProofs` | theorems about `RetrievalIndex` | - |
| `ChunkUploads` | uploads in chunks, their quota, expiry and sweeper | `src/src/mcp/tools/project.ts` 34-141, 472-577 |
| `McpSessions` | sessions and the places they hold | `src/src/mcp/project-http-server.ts` |
| `ProjectServer` | the process both live in; composes the two | `src/src/mcp/project-http-server.ts` |
| `ProjectServerProofs` | theorems about uploads, sessions and the process | - |
| `MaintenanceHarness` | one maintainer: refresh, Jev's advice, proposal, application, retry | `runtime.ts` 1309-1449, `deployment/maintenance.ts`, `maintenance/jev-*.ts`, `maintenance/ms-agent-adapter.ts`, `maintenance/blocks.ts`, `maintenance/contracts.ts` |
| `MaintenanceHarnessProofs` | theorems about it | - |
| `MC...` | small instances for TLC | - |

`ConflictResolution`, `WorkMemory`, `ProjectDocuments`, `ArtifactLifecycle` and
`MaintenanceHarness` rest on the first two at the level of what they promise: `publish()`
is one atomic step (what `RevisionStore` is shown to refine as long as no lock is broken
under a writer), and a packet is leased to one maintainer until it reports or is dead (what
`MaintenanceQueue` shows). Everything around that step - the reads before it, the further
publications and the packet after it - is interleaved step by step.

In the modules of sections 6 to 10 a call that is refused at its first reads, or answered
from a stored result, changes nothing and has no action. Their `Workloads` (in
`MaintenanceHarness`, `Setups`) are sets of records that say which operations a behaviour
has and how many; `Init` picks one. One run so covers several mixtures of operations, each
deep enough for its races, that would be too large together.

Every module follows the same layout: constants and a named assumption, variables, `Init`,
helpers, one action per step of the code, the environment, `Next`, `Spec` and, where
progress matters, `FairSpec`, then the properties. Some helpers have a second definition
just before them (`ApplyToLegacy` before `Apply`, `HasRoomIfPending` before `HasRoom`,
...). Those are plausible bugs; nothing uses them. Each pairs with a property that TLC
must find violated when the bug takes the place of the helper.

## 3. The canonical revision store: `RevisionStore`

### State and code

| variable | code |
|---|---|
| `pointer` | `current-revision.json`, `<<>>` when absent |
| `snapshots` | the directories under `revisions/`, with the canonical content of each |
| `lock` | `.write-lock`: absent, fresh, or old (mtime more than five minutes ago) |
| `pc`, `request`, `base`, `staged`, `result` | the local state of one running `publish()` per process; the others wait in its promise queue |
| `committed`, `acked` | history: what the pointer has named; what `publish()` has returned |

A revision directory is named by a hash over its parent and its mutations, so the model
names it by the sequence of batches that led to it. Two publications with the same parent
and batch therefore have the same directory, as in the code, and the second `rename` fails.

| action | code |
|---|---|
| `Request` | `publish()` captures the batch, before it waits in the queue |
| `AcquireLock`, `SeeStaleLock`, `RemoveStaleLock`, `TimeOut` | the loop of `withWriteLock`: `mkdir`; `stat` shows more than five minutes; `rm`; 15 s are over |
| `ReadBase` | reads the pointer, compares `expectedParent`, checks names and quotas |
| `Stage` | links unchanged files from the base, writes the changed ones and the manifest |
| `PublishDirectory`, `SwitchPointer`, `Complete` | the two renames, the last `fsync` |
| `FailPublish` | any file operation throws: the clean-up of the `catch` and `finally` blocks |
| `ReleaseLock` | the `finally` of `withWriteLock`, which removes the lock unconditionally |
| `Crash`, `AgeLock` | environment: the process dies; five minutes go by |

`SeeStaleLock` and `RemoveStaleLock` are two actions because `stat` and `rm` are two calls
and another process can run between them. The wait in the loop needs no state: every
iteration is the same test again.

### Runs

`Aging` says when a lock may grow old, so that the three questions below are asked
separately.

* `store_exclusive` (`Aging = "never"`). As long as no lock is broken: one writer at a time
  (`SingleWriter`), what `publish()` returned stays in the history for ever
  (`AckedInHistory`), and the whole protocol, crashes and failing file operations included,
  refines one atomic compare-and-swap (`AtomicPublication`).
* `store_overlap` (`Aging = "any"`). Even when writers overlap because locks are broken
  under them: every revision directory is the replay of its whole history, orphans included
  (`SnapshotsReplayHistory`), what the pointer has named never changes or vanishes
  (`CommittedImmutable`), the pointer never dangles (in `TypeOK`). With `FairSpec`, a lock
  left by a dead process does not keep publishers out for ever (`LockRecovered`).
* `store_stale` (`Aging = "abandoned"`, violation of `CompareAndSwap`): finding 1.

Bounds: two writers, two records, two batches (one touches a record the other leaves
alone, so a snapshot built from a wrong base shows), two crashes, and no new request once
the history has `MaxDepth` revisions (3 in `store_exclusive`; 1 in the others, where the
two overlapping writers still make histories of length two and orphans beside them). Every
race of the protocol is between two processes at the lock, and between one publication and
the next; a third process or a longer chain repeats them. `CHECK_DEADLOCK FALSE`, because
the system stops when the bound on requests is reached and, with `Aging = "never"`, a lock
left by a crash ends all work - which is what five minutes are for.

### Fairness

`WF(Proceed(w))`: Node runs a promise that can continue, and the waiting loop of
`withWriteLock` is a timer. It does not include `Request` (nobody must publish),
`FailPublish` or `Crash`. `WF(AgeLock)`: time passes. `LockRecovered` is conditional on
writers that keep coming, since nothing but a waiting publisher ever breaks a lock; the
publishers of the run stop when `MaxDepth` is reached, but the condition is also satisfied
by those that come, time out and come again, which is the behaviour the property is about.

## 4. The maintenance queue: `MaintenanceQueue`

### State and code

`rows` is the table. A row has the columns the statements test: `status`, `attempts`,
`owner`, and three that stand for timestamps: `created` (its place in `created_at` order),
`lapsed` (`lease_expires_at` is in the past) and `aged` (settled longer ago than the
retention period). `parses` is false for a row of an older release that `toJob` does not
accept. `packet_id` is a digest of the idempotency key, so one identity stands for both.
Per worker, `pc`, `job` and `verdict` say where its loop is.

| action | code |
|---|---|
| `EnqueueNew`, `EnqueueAgain` | the transaction of `enqueue()`: collection of expired rows, look-up by key, limits, insert. A refusal rolls back and leaves no trace |
| `LeaseNext`, `PollEmpty` | the transaction of `lease()`: collection, expired leases given back, the oldest queued row leased |
| `QuarantineUnreadable` | the separate `UPDATE` of `lease()` for a row that does not parse |
| `CompleteJob` | `complete()`; without the lease it throws, and the worker's `catch` treats it as a failure |
| `WorkThrows` | advisor, model or harness throws, retryable or not |
| `CheckLease`, `RecordFailure` | the `SELECT` and the `UPDATE` of `fail()`, two statements |
| `Crash`, `Restart` | the process dies or ends; the supervisor starts it again |
| `LeaseExpires`, `RowAges` | time |

A worker whose `fail()` throws leaves its loop, and its process ends (`"stopped"`).

### Runs

* `queue`: two workers, three packets of two principals in one project, one of them a row of
  an older release that does not parse. There is room for one row of a principal and for two
  of the project, and the other principal's packet does not fit beside the bytes of the old
  row, so both kinds of limit refuse packets; two
  attempts (the code: five), one expiry under a worker at work, one crash, two inserts.
  `JobsWithinLimits` and `BytesWithinLimits` (admission), `RetriesBounded`,
  `OneWorkerPerJob` (two workers on one packet only after a lease expired),
  `ActiveRetained` (a packet accepted is not collected), `SettledStays` (late reports and
  second enqueues do not change an outcome during retention), and, under `FairSpec`,
  `EveryJobSettles`. The statements of `fail()` run back to back (`Stall = FALSE`): they are
  synchronous calls with nothing between them but the suspension of the whole process.
* `queue_stall` (`Stall = TRUE`, violation of `FailsOwnJob`): finding 2.

The system never stops in these runs: deadlock is checked.

### Fairness

`WF(Work(w) \/ RecordFailure(w) \/ Restart(w))`: the loop polls every two seconds while it
runs, the model call has a time limit, and the compose files under `src/deploy` say `restart:
unless-stopped`. `WF` of the expiry of an abandoned lease: time passes. A lease under a
worker at work need not expire, and does so at most `MaxLapses` times: were it to expire
at every attempt the packet would never be reported, and that is no promise of the code.

## 5. Conflict resolution: `ConflictResolution`

### State and code

`rev` is the knowledge revision, as a number, since only equality with the current one is
ever tested. `conflicts` and `resolutions` are the canonical records; a record digest is a
version number that every change increases. `queue` and `bound` are the packets by key
and the resolution each was made for. Per client `pc`, `call`, `base`, `found`, `made`;
for the maintainer `phase`, `packet`, `plan`, `tries`.

| action | code |
|---|---|
| `Submit`, `Resubmit` | a call of `submitUserConflictResolution`, which reads the pointer first; a user answers what is there, or sends the same answer again |
| `LookUp` | a resolution with the key exists: replay, or refusal of another authorization |
| `Inspect` | the conflict must be open and the one the user saw |
| `LockAnswer`, `LockRefused` | `publish` with the pointer read at first |
| `EnqueueAnswer`, `EnqueueRefused` | `enqueueMaintenance`; the queue may have no room |
| `Lease`, `Refresh`, `ProposalFails`, `CheckBase`, `Validate`, `ApplyAnswer`, `ApplyRefused`, `Complete` | the worker loop and `applyMaintenancePlan`, with a retry on a stale base |
| `Observe`, `PublishOther`, `CrashClient`, `CrashMaintainer` | other publications, crashes |

Outcomes other than `remain_open` all close the conflict and are one value, `"settle"`;
`remain_open` makes it open again, so a conflict is locked and applied several times.
`ProposalFails` covers a failing model, a plan without the typed resolution and every
check on the document part of a plan.

`AnswerLedger` is what a user may rely on, without pointers, packets, retries and steps: an
answer is stored with its key and locks its conflict in one step, if the key is unused and
the conflict is open at the version the user saw; a locked conflict waits for its answer,
which is applied in one step and at most once; a user is told that an answer is pending only
if that very answer is stored. `ConflictResolution` maps to it at its end: `asked` is
`call`, `answer` and `applied` are read off the resolutions by key, `standing` off the
conflicts with the key of the resolution that locks them, `told` is `replied`.

### Runs

* `conflict`: `OneLockPerConflict` (a pending conflict is locked by exactly the answer it
  names), `OnlyTheAnswerApplies` (a pending conflict changes only by its own answer, to the
  version the user saw, with the outcome the user chose), `CompletedIsApplied` and the
  refinement `AnswersAreAtomic`, with two clients, two keys, two conflicts, three calls, one other
  publication, one crash, two proposals per lease (the code: three). Three calls are what it
  takes to lock, reopen and lock a conflict again while another call still runs; one edit is
  what it takes to make a plan stale at each of its two checks, and `MaxTries = 2`
  separates the retry from the last try. The first three also hold with `MaxTries = 3`
  and `MaxEdits = 2` (7.1 million states). Symmetry over clients, keys and conflicts is
  sound: no definition tells them apart and the run has no liveness property.
  `AnswersAreAtomic` adds three things: a key never makes a second resolution, although it is
  looked up and used in two steps; a replay is told `resolution_pending` only for the very
  outcome it asked for (`resolutionAuthorization()` binds the key to all of the answer);
  and whatever crashes, retries and losers of a race do in between has no effect that a
  user could see.
* `conflict_replay` (violation of `PendingIsQueued`): finding 3.

`CHECK_DEADLOCK FALSE`: when the bounds on calls are used up the system rests.

## 6. Memory, work and documents: `WorkMemory`, `ProjectDocuments`

### State and code

`rev` is the knowledge revision as a number. `work`, `memory`, `checkpoints`, `artifacts`
(published resources) and `doc` (main file and sections with `revision`, `parent_ref` and
linked children) are the canonical records; `standing` says of each evidence record whether
`eligibleEvidenceRecord` takes it; `queued` holds the idempotency keys of packets; per
caller `pc`, `call` and `frame` (what it has read). `vouched`, `judged`, `closedAt`,
`setAt` and `solo` are history variables of the properties.

| action | code |
|---|---|
| `BeginFinish`, `BeginCapture` | `finishWork`, `captureContext` up to the first submission: look-ups, `MayClose`, refusals, replays |
| `ReadExisting`, `WriteCandidate` | `persistMemorySubmissions`: an existing record with a verdict is listed, otherwise a candidate is written |
| `Evaluate`, `StoreVerdict`, `VerdictRefused` | `validateAndStore`: pointer and records are read, the gates of `evaluateMemory` run, record and event are published with `expectedParent`, or the call throws |
| `StoreResult`, `Enqueue` | the closeout or checkpoint is stored; then its packet is enqueued |
| `BeginPublish` | `publishResourceBytes`: the artifact is stored; `Enqueue` follows |
| `BeginReconcile`, `Rewrite` | `reconcileMemory`: the changed memory is written, then validated |
| `BeginBootstrap`, `BeginMain`, `BeginSection` and the action that ends each | read, comparison of the expected revision, and the later `upsertRecord` of the whole document |
| `ReadPrevious`, `Unlink`, `ReadParent`, `Link`, `ReadWritten`, `NoteAudit` | `updateSectionParentLinks` for the previous and the new parent, then the section is read and written once more |
| `BeginProposal`, `Propose` | `enqueueLegacyProposal`: look-up, then the record |
| `Reassess`, `Fail` | environment: evidence loses or regains its standing; the process of a call dies, or the queue is full |

### Run and properties

`knowledge`:

* `VouchedAgree`: two accepted memories of one kind and scope never say different things,
  as far as their records are what `validateAndStore` wrote. The gates look at the records
  long before the publication; the compare-and-swap is what makes them hold. A record that
  `reconcileMemory` has rewritten (accepted, with a scope nobody has checked yet) or that a
  late retry has put back to candidate is not vouched for until it is judged again.
* `AcceptedOnEligible`: a verdict "accepted" is published only in a revision in which the
  evidence, and the artifact behind it, is eligible, and of the kind the policy asks for.
* `ListedWasJudged`: a stored closeout or checkpoint lists only memories that were judged.
  A call that dies between candidate and verdict is the danger; its retry has to judge the
  candidate it finds.
* `CloseoutLostOnlyByOverlap`, `OverwrittenOnlyByOverlap`: a stored closeout, a document,
  is replaced only by a call that began before it was stored, or by one that named the very
  revision it replaces. The first alternative is the price of `upsertRecord` without an
  expected parent: two overlapping calls can lose an update, two consecutive ones cannot.
* `SequentialIsExact`: if calls followed one another and none was cut short, every section
  is linked by exactly its parent, a proposal has one packet, and all that was stored has
  its packet. (A call that dies before its packet leaves the replay nothing to repair with,
  as in finding 3; hence the condition.)

Bounds: two callers, one work item, three evidence records (a slide and the paper behind
it, and a directive), submissions of two lessons that contradict each other and of a
decision, two hashes, two sections with two contents, one proposal. Two submissions of one
lesson with different statements, a decision that needs a directive and the narrower scope
of `reconcileMemory` are what tell the gates apart. The workloads: finish, capture and
reconcile with two calls, one change of evidence and one death; the same with three calls;
main file and sections with three calls; bootstrap, main file, proposals, resources and
closeouts with three calls and one death. Every lost update is between two calls; the third
is a reader or a retry after them. Symmetry over callers and hashes is sound: no definition
tells them apart and the run has no liveness property. `CHECK_DEADLOCK FALSE`: when the
calls are used up the system rests.

## 7. Artifacts and the corpus: `ArtifactLifecycle`, `EvidenceCorpus`

### State and code

An artifact is named by its content (its id is made of the file's hash). `disk` is the
source root, `artifact` the records, `local`, `source` and `locked` the files under
`normalized/<id>` with the lock directory, `stale` the derived records the cascade has
reached, `deferred` the retry map of `RetrievalBackfill`. `restored`, `cut` and `torn` are
history variables of the properties. `builds` is the chain of
corpora a server builds one after the other, `projection` the corpus in the index's tables.

| action | code |
|---|---|
| `BeginIngest`, `ReadCurrent`, `ReadFile`, `StalePrior`, `StaleDependent`, `EndIngest` | `ingestInventory` file by file, `staleArtifactAndDependents` record by record |
| `ReadMarkdown`, `FileIsGone`, `CopyMarkdown`, `Register` | the registration of one file: Markdown is read a second time, copied to `document.md`, and only then is the record written |
| `BeginNormalize`, `MoveAway`, `MoveIn`, `Unlock`, `NormalizeFails` | `normalizeProjectDocument`: lock, extraction, the two renames, the way back |
| `PublishNormalized`, `OfferNormalized` | the record is written back as it was read before; the packet |
| `BeginParse`, `MarkParsing`, `PublishParsed`, `OfferParsed`, `ParseFails`, `PublishFailed` | `parseArtifactWithMinerU` |
| `BeginRetry`, `RetryOne`, `EndRetry` | `retryFailedParses` |
| `BeginBackfill`, `BackfillOne`, `BackfillOCR`, `EndBackfill` | a round of `RetrievalBackfill.run` |
| `BeginBuild`, `BeginRebuild`, `ReadUnit`, `Proceed`, `Synchronize`, `Forget` | `evidenceCorpus`, `rebuildRetrieval`, `buildEvidenceCorpus`, `synchronizeLexical`; a server that starts anew |
| `Edit`, `Crash`, `RetryTimePasses` | environment |

### Run and properties

`evidence` (with `FairSpec`):

* `CascadeDone`: once no cascade is under way, nothing accepted rests on an artifact that
  was marked stale. What a death in the middle of a cascade leaves is marked by `cut` and
  excepted: the next ingestion finds the artifact stale already and has nothing to do.
* `StaleStaysStale`: a stale artifact comes back only after its content did (`restored`),
  or by a call that had listed the content, or copied the record, before it went stale. The
  first alternative is wider than the code's intention and cannot be narrowed: the hash of
  the source is compared when the record is copied and again when the text is there, and
  `parseArtifactWithMinerU` writes `parsing` in between. A parse that copies the stale record
  while the old content is back for a moment makes the artifact live although another file is
  there by then. It takes an ingestion and three edits; one workload has them.
* `TextKept`: a cloud text is lost to a poorer one only by copies made before it, or of
  another state, or by an ingestion that found the artifact not live. Both properties say how
  far the write-back of a copy that is minutes old can do harm.
* `OutputIsThere`: a record that names the local text finds it, except behind the lock of a
  run between its two renames - or of one that died there, since nothing breaks that lock.
* `CorpusIsCurrent`: a complete corpus of the current records shows every text as its file
  is now, although files were replaced while it was built and unchanged units were taken
  over. Excepted is a replacement that is still under way (`Touching`: between the first
  rename of an extraction, or the copy of a Markdown file, and the record that tells of it)
  or whose record was never written (`torn`). Both are states of the code: `document.md` is
  written two awaits before its record, so a second ingestion after an edit shows the new
  file under the old record, until its `upsertRecord`, or for good if it dies there. The run
  reaches that state: without the exception it is a counterexample.
* `NormalizedInTheEnd`: a readable artifact is normalised in the end, whatever fails, unless
  such an orphaned lock is in its way.

Bounds: one caller and the indexer, two files (a PDF scan and a Markdown note), two
contents, one quotation and one memory citing it; eight workloads of two or three calls (one
of them two overlapping ingestions with an edit and a death between),
with edits, failures, corpus builds and backfill in the mixtures in which they meet (the one
with three edits has one caller). A path whose file is missing at the inventory is an empty
slot of the list, which `ReadFile` passes over. A death (`Crash`) also stands for a call
that ends because its record could not be written.
Fairness: weak fairness of every call in progress (Node runs what can run), of the
indexer's loop (`delay(30_000)` between rounds) and of the retry time. Nobody need ingest,
edit, or ask for a corpus. `CHECK_DEADLOCK FALSE`: without backfill a behaviour ends.

## 8. The retrieval index: `RetrievalIndex`

### State and code

One database (`tables`: the revision of the lexical tables; `embedded`, `generation`: the
vectors; `pages`: stored result pages), and per process the caches of its index object
(`missing`: contents known to have no vector; `known`: the generation; `snapshots`,
`rankings`). `made` keeps every ranking that was computed, for the properties.

| action | code |
|---|---|
| `Arrive`, `Begin` | `queryEvidence` obtains the corpus; `search()` up to its first wait: scope, ranking cache, lexical hits |
| `AnswerText`, `AnswerImage` | the answers of the provider: semantic hits |
| `Store` | fusion, `diversify`, the snapshot and its page in the database, the caches |
| `Continue` | a call with a cursor: memory, else the stored page, else "expired" |
| `BeginRound`, `Rebuild`, `LookUp`, `EmbedBatch`, `FailBatch`, `EmbedSingle`, `FailSingle`, `EndRound` | the indexer's loop and `synchronize()`: batches, single tries after a failed batch, coverage |
| `Change`, `Expire`, `Forget`, `Restart` | environment: other records, 30 s, a full cache, a new server process |

Scores are left out: hits come in the order of their ids. `diversify()` is modelled by the
order it produces: it takes content after content and source after source in rounds, so
every further hit of a content comes one round later (`ContentRound`) and, within a round,
every `MaxPerSource`-th further hit of a source (`SourceRound`); `Diversify` is the sequence
of all hits in that order. `Diversification` has the loop itself (`Pass`, `Rounds`,
`BySource`, `ByContent`, within one score band), and the run evaluates, as an assumption of
its module (`MCDiversification`), that the loop arrives at `Diversify` for every set of hits
of the run's corpora and of all corpora of four units with three contents and two sources,
with one and with two hits of a source in a round. That a band ends where the score falls
below a share of its first is left out with the scores. The model takes the intent
"collect", which has no candidate window.

### Run and properties

`index` (with `FairSpec`):

* `CollectedOnce`: a client that follows the cursors to the end is given exactly the
  ranking its first page was cut from, without repetition, and every visible text with its
  words is in it, whatever changes, evicts or restarts come between. A ranking during which
  the other process replaced the lexical tables (`torn`) is excepted from the last part.
* `VectorsCount`: what is similar and had its vector when the search began is found:
  neither the cache of misses nor the ranking cache hides it.
* `EmbeddedInTheEnd`: if the records stop changing, everything that may be sent to the
  provider is embedded, although batches fail.

Bounds: two clients, three ids, two revisions (in the second a memory is superseded) and a
corpus of images, batches of two, one hit per source, one snapshot in memory, two stored
pages and rankings (the code: 16 texts or 4 images, 2, 32, 100, 32), chosen so that every
limit is reached. Fairness: the indexer's loop only (it catches every error and goes on).
`CHECK_DEADLOCK FALSE`: the searches are bounded.

## 9. Uploads and sessions: `ChunkUploads`, `McpSessions`, `ProjectServer`

### State and code

`chunkUploads` is the map of the same name (busy, live, received), `files` the temporary
files; `pid` and `orphans` the directories of this and of dead processes, `sweeper` whether
this process has started its sweeper of uploads. `reservations`
and `sessions` are the maps of the HTTP server, `named` the transports with a session id.
`ProjectServer` puts both in one process: they meet in its death, and where the session of
a writer makes the directory of the uploads.

| action | code |
|---|---|
| `Begin`, `Create`, `Created` | `kb_begin_resource_upload`: reservation before the first `await`, directory and file, the clean-up of a failure |
| `Acquire`, `Append`, `Read`, `Publish`, `Discard` | append and commit: `acquireChunkUpload`, the check after the write, the read, the publication, `discardChunkUpload` |
| `Cleanup`, `CleanupOrphans` | the sweeper of uploads; `Cleanup` is also run by each call |
| `OpenSession`, `PrepareDirectory` | `createSession`, which registers the tools; for a profile other than `project-read` that calls `prepareUploadDirectory`, and the sweeper starts once the directory is made. `Begin` starts it at once |
| `Connect`, `Handle`, `Answer` | `createSession`, `handleRequest`, delivery |
| `Disconnect`, `Request`, `Sweep`, `Stop` | closing connections and DELETE, requests that renew, the sweeper, `stop()` |
| `Expires`, `GrowOld`, `Restart` | environment: clocks, a killed process |

### Run and properties

`server` (with `FairSpec`):

* `UsageWithinQuota`: the bytes on the disk and in the memory of publishers stay within the
  quotas, in sum and per principal, although reservations are given back on many paths.
* `PublishedOnce`: an upload is published at most once, although a commit that could not
  remove it may be repeated and the sweeper runs at the same time.
* `SessionsHoldPlaces`: every session that requests find holds a place, so the limits on
  places limit sessions, also when the client goes during the handshake.
* `EverythingIsReleased`: reservations and the places of clients that have gone are released
  in the end, and so are the directories of dead processes once the sweeper is on. Nothing
  starts it when the process starts: a restarted server whose sessions are all of readers
  leaves the orphans where they are, and the model has that behaviour. Excepted is also what
  the code gives up on: a failed begin whose file cannot be removed leaves its reservation
  busy until the process ends (`Stuck`), and the directory of a dead process with the new
  process's number.

Bounds: two calls in progress, three uploads of two principals, quotas of one upload and
two chunks per principal and two in all, one failed removal; three connections of two
principals for two places, one per principal; one upload, the session of a writer and one
death in a mixture of both. Two calls on one upload, or two uploads at a quota, are all the
races there are; sessions and uploads share nothing but the process and its sweeper, so
their mixtures are separate but for the one with the death. Fairness: calls in progress go
on, clocks advance, and the intervals fire: the one of the sessions is set when the server
starts, the one of the uploads is on whenever an upload is reserved, and the orphans' is fair
only where it was started. `OpenSession`, `Connect`, `PrepareDirectory`, `Begin` and
`Disconnect` are not fair. `CHECK_DEADLOCK FALSE`: the system rests when all is done.

## 10. The plan harness: `MaintenanceHarness`

### State and code

`kb` is revision, records and extracted texts; a record has a status, a text version (its
mutable block) and a version (its digest). `queue` has status, leases and the class of
`last_error` of each packet: a verdict on the plan (`refused`), or anything else that was
thrown (`fault`). `packet` is the packet as last refreshed, with
the records seen then and Jev's advice; `pointer`, `view` and `snap` are what was read and
not yet used; `plan` the operations, `left` what the catalog plan still has to consider.

| action | code |
|---|---|
| `Lease`, `TryAgain`, `Complete` | the loop of `runDeploymentMaintenance` with its three tries; `TryAgain` is part of the refusals below |
| `Fails` | any other error, at any place of the loop: a late or malformed proposal, a file that cannot be read or written, a quota of the store, 15 s without its lock, an error after the plan was committed. `fail()` follows, and the text decides between quarantine and another lease |
| `ReadPointer`, `Refresh` | `refreshMaintenancePacket` (twice if Jev advises) |
| `SnapshotPointer`, `SnapshotRecords`, `SnapshotDone`, `Judge`, `Guided`, `JevFails`, `CircuitCloses` | `JevMaintenanceAdvisor.prepare`, `buildRoutingSnapshot`, `judgeRouting`, the circuit breaker |
| `CatalogNext` | `sourceCatalogPlan`, one reference at a time |
| `ModelProposes` | any plan within the packet's capabilities (`Routed`) |
| `CheckBase`, `CheckRecords`, `Commit`, `CommitRefused` | `applyMaintenancePlan`: pointer, records with every check of every operation, publication, which is refused for a stale base |
| `PublishOther`, `ReplaceText`, `Crash` | environment; a death counts as a fault |

`Fatal` are the checks that quarantine, `Outdated` those the loop retries;
`Written` is what each kind of operation does to the records. Typed resolutions of locked
packets are in `ConflictResolution`; here such a packet only shows that the harness gives
it up in catalog mode.

### Run and properties

`catalog`:

* `CommittedPlanStillHolds`: a plan is committed only if every operation still holds of the
  very records it replaces; no other change is overwritten; and it changes only documents
  that the packet named or that advice on this very revision suggested. The pointer, the
  records, the advice and the publication are of four moments.
* `GivenUpOnlyByInterference`: a plan that fits its packet is refused for good only if
  others published: in catalog mode in each of its tries, since the worker never makes its
  own base stale and every retry starts from a fresh packet. One publication between the
  pointer and the records of `applyMaintenancePlan` can make a check fail that is not
  retried; the property counts it. It is about refusals. A packet is also quarantined for a
  fault (`Fails`), without anybody else's doing: "Timed out acquiring canonical single-writer
  lock" (`revision-store.ts` 104), a quota or a file error are not retried by the loop, nor
  are their texts retryable. That is what the code does, and nothing promises otherwise.

Bounds: three sections, two sources, one conflict; one packet of work and one locked;
`MaxSections` and `MaxCreated` 2 (the code: 6), three tries (as in the code), two leases
(5), one operation per plan of the model, the circuit opens after 2 failures (3). Catalog
mode with three publications of others and one fault or death is what exhausts the tries;
Jev in both modes with one publication, and the model with one publication and one fault or
death, are the interleavings of a single snapshot.
The run has no liveness property: whether a packet is completed depends on others.
`CHECK_DEADLOCK FALSE`: it ends when the packets are settled.

## 11. Findings

1. `store_stale`: the stale lock is found by `stat` and removed by an unconditional `rm`
   (`revision-store.ts` 99-103). Two waiters can both see the lock of a dead process; the
   slower one then removes the lock that the faster one has just taken, both are inside,
   and the later of the two replaces a pointer that is not its expected parent.
   `docs/security-remediation-2026-10.md:29` promises that the comparison is made while
   holding the write lock. The trace needs a crash and a wait of five minutes, then two
   publishers in one short interval.
2. `queue_stall`: `fail()` reads the lease in one statement and updates by `packet_id` alone
   in another (`queue.ts` 118-124). A process suspended between them while its lease expires
   requeues or settles a row that belongs to another worker. The window is small: two
   consecutive synchronous statements.
3. `conflict_replay`: if a process dies, or the queue refuses, after the answer was locked,
   the retry with the same key answers `resolution_pending` without enqueueing
   (`runtime.ts` 1249-1254), nothing else does, and the conflict stays pending.

## 12. What is proved

The proofs hold for any number of processes, packets, records, files, contents and calls,
and any bounds. They use the named assumptions of the modules, which TLC evaluates on every
run, and what a theorem states as its hypothesis. The assumptions say that constants are of
their types and that markers such as `NoCall` are none of the values they stand beside;
beyond that:

* `UploadAssumption`, `QueueAssumption`, `WorkAssumption`: uploads, packets and evidence
  references are finite sets, since bytes and sources are counted;
* `ArtifactAssumption`: evidence records and derived records are disjoint (they are
  different record types);
* `IndexAssumption`: every unit of a corpus has one place in the order of the hits (scores
  break ties by id), and every limit is at least one;
* `HarnessAssumption`: different sources have different catalog pages (the id of the page is
  made of the source's).

All invariants below were checked by TLC on the instances of the runs before they were
proved. They have one idea in common. Every decision in this code is taken on records that
were read some time ago, so no invariant can say that what a process has read is true. It
says that it is true *as long as nobody has published since* - the revision it read at is
still the pointer, the copy is as old as the record - and the compare-and-swap, the lock, or
in their absence the property's own exception, is what lets the next step rely on it.

| theorem | of | states |
|---|---|---|
| `TypeCorrect`, `SnapshotsComplete`, `CommittedNeverLost` | `RevisionStore` | `TypeOK`, `SnapshotsReplayHistory`, `CommittedImmutable` |
| `MutualExclusion`, `NoLostPublication`, `PublicationIsAtomic` | `RevisionStore`, no lock broken | `SingleWriter`, `AckedInHistory`, `AtomicPublication` |
| `QueueTypeCorrect`, `ActiveKept`, `LeaseExclusive` | `MaintenanceQueue` | `TypeOK`, `ActiveRetained`, `OneWorkerPerJob` |
| `FailuresBounded`, `OutcomeStays` | `MaintenanceQueue`, `~Stall` | `RetriesBounded`, `SettledStays` |
| `AdmissionBounded`, `BytesBounded` | `MaintenanceQueue`, old rows within the limits | `JobsWithinLimits`, `BytesWithinLimits` |
| `PendingHasOneLock`, `KeyMakesOneResolution`, `CompletedWasApplied`, `PendingChangesByItsAnswer` | `ConflictResolution` | `OneLockPerConflict`, `KeyUsedOnce` (implied by `AnswersAreAtomic`), `CompletedIsApplied`, `OnlyTheAnswerApplies` |
| `SubmissionsAreAtomic` | `ConflictResolution` | `AnswersAreAtomic`: it implements `AnswerLedger` |
| `AcceptedMemoriesAgree`, `AcceptedWithItsEvidence`, `ListedMemoriesWereJudged`, `CloseoutsOverlap` | `WorkMemory` | `VouchedAgree`, `AcceptedOnEligible`, `ListedWasJudged`, `CloseoutLostOnlyByOverlap` |
| `DocumentsOverlap`, `SequentialCallsAreExact` | `ProjectDocuments` | `OverwrittenOnlyByOverlap`, `SequentialIsExact` |
| `NamedOutputIsThere`, `CascadesFinish`, `StaleComesBackAsSeen`, `CloudTextKept` | `ArtifactLifecycle` | `OutputIsThere`, `CascadeDone`, `StaleStaysStale`, `TextKept` |
| `CompleteCorpusIsCurrent` | `EvidenceCorpus` | `CorpusIsCurrent` |
| `SessionsHaveTheirPlace`, `SessionsBounded` | `McpSessions` | `SessionsHoldPlaces`, and the limits on sessions it is for |
| `UploadPublishedOnce`, `UsageBounded` | `ChunkUploads` | `PublishedOnce`, `UsageWithinQuota` |
| `EverythingIsCollectedOnce`, `NoVectorIsHidden` | `RetrievalIndex` | `CollectedOnce`, `VectorsCount` |
| `CommittedPlansHold`, `GivenUpForOthers` | `MaintenanceHarness` | `CommittedPlanStillHolds`, `GivenUpOnlyByInterference` |

**`RevisionStoreProofs`.** The invariants of the runs are not inductive.

* `StoreInv` is `TypeOK`, `SnapshotsReplayHistory` and three facts: what was committed has
  its directory (`Retained`), a renamed directory whose pointer is not yet switched belongs
  to one writer and was not committed (`OwnsPublished`: this is why the clean-up of a failed
  publication never removes somebody else's revision, and it holds because `rename`
  refuses a name that is there), and a staged snapshot is the content of its base with the
  batch applied, the base being committed (`StagedFromBase`). `StoreInvariant` holds for
  every `Aging`, that is without any mutual exclusion.
* `ExclusiveInv` adds, for `Aging = "never"`: a writer inside means the lock is there
  (`LockHeld`), one writer inside, its base is the pointer until it switches it
  (`BaseCurrent`), afterwards its target is the pointer (`TargetCurrent`), and
  `AckedInHistory`. `PublicationIsAtomic` is the refinement of `RevisionChain`:
  `SwitchPointer` is the abstract commit, `Request` the invocation, the end of a call its
  closing, and every other step stutters (`ChainStep`).

The hypothesis `Aging = "never"` is needed: finding 1 is what happens without it.

**`MaintenanceQueueProofs`.** `QueueTypeCorrect` proves `TypeOK`, split into the table, the
workers and the counters. `EveryRowStep` says what any step can do to one row; `ActiveKept`
follows. `LeaseExclusive` uses `LeaseHeld`: as long as no lease expired under a worker, a
worker with a job owns its row. `FailuresBounded` and `OutcomeStays`, for `~Stall`: a worker
about to write a verdict holds the lease and its verdict is what `fail()` computed
(`ChecksHold`), and recorded failures are at most the attempts (`FailuresCounted`); with
`Stall` neither would hold. `AdmissionBounded` and `BytesBounded` assume that the rows found
at the start are within the limits (`OldRowsWithinLimits`, `OldBytesWithinLimits`): the
code does not remove old rows because of a limit. A sum of bytes is the cardinality of the
set of these bytes (`BytesIn`: packet and position), so that what one more packet adds
follows from the library's facts about finite sets (`BytesOfOne`, `BytesForOne`) and needs no
induction over a sum.

**`ConflictResolutionProofs`.** `Inv` says how records agree (`RecordsAgree`: a locked answer
and its pending conflict name each other, with matching versions), that keys differ, what a
client knows while its base is the pointer (`ClientKnows`: no resolution has its key, the
conflict is open and is the one its user saw), what each packet is bound to, and what the
maintainer knows (`MaintainerKnows`: while its plan's base is the pointer, the answer is
still the locked one). The last two make the retry after a crash harmless: a packet that
runs again finds its answer applied and cannot lock on to another one.
`SubmissionsAreAtomic` is the refinement of `AnswerLedger`, with one more invariant (`Asks`:
what a call has locked is what it was asked). `LockAnswer` maps to the abstract lock (its
guards hold because `ClientKnows` does at the moment the compare-and-swap succeeds),
`ApplyAnswer` to the abstract application, the return of a call to `Tell` or `Leave`, other
publications that touch a conflict to `Observe`, and every other step stutters.

**`ProjectDocumentsProofs`.** Memories: the verdict of a call is that of the gates on the
present records while its base is the pointer (`VerdictHolds`), and whatever has a validation
event, or is on its way into a list, was judged (`EventsAreJudged`; `reconcileMemory` copies
the event along). Closeouts: one under way began before the result that is now stored
(`CloseoutBegan`). Documents: a call has the revision it goes by, or the document was stored
after the call began (`Fetched`), at each of up to three read-modify-write pairs of a section
with its two parents. `SequentialIsExact` needs how far a lone call has come with its links
(`Progress`, `LinksInv`) and that what is stored has its packet or a call about to enqueue it.

**`EvidenceCorpusProofs`.** `LockInv`: the normalisation lock excludes, and the output is
there between `MoveIn` and `Unlock`. `OutputInv`: if any record *or any copy that may still
be written back* says the output is there, it is, or the holder of the lock has it set aside.
`RestoredInv`: a copy that is as old as a stale record was made when the content was on disk.
`CascadeInv`: whatever should follow a stale artifact and does not yet is among the
dependents of a cascade under way, the evidence first. This holds although the dependents
were computed from the records before the first publication of the cascade. `CorpusInv`: a
unit was read from its record at an age not newer than the present one, and if the record
is the present one and the artifact is settled, the unit is its text; this is inductive
because every replacement of a text, the local output or the Markdown copy, is followed by a
new record, or leaves the artifact in `torn`; between the two the artifact is not settled.
`Writers` says which steps change records at all, for the two action properties.

While this invariant was written, `StaleStaysStale` as it was first stated (a stale artifact
comes back only if the content is on the disk, or by an old copy) turned out to hold in the
run only because of the run's bound of one edit: the inductive step failed for a parse that
copies the stale record while the old content is back. TLC confirms it with three edits; the
property in section 7 is what the code does, and the workload with three edits is there.

**`MaintenanceHarnessProofs`.** `PacketInv`, `ReadInv`: records seen or read at a revision
are the present ones while it is the pointer (`Fresh`), and advice is of the packet's
revision. `PlanInv`: an operation of a plan names documents of the packet, and the catalog's
holds until somebody publishes. `MetInv` counts: in catalog mode the tries made, plus the
revisions published since the packet's base, never exceed the publications of others the
packet has met. Hence the number of tries pays for a final refusal; `Fails` ends a lease with
the error `fault` and never counts as one.

**`ProjectServerProofs`.** `SessionsHoldPlaces` is inductive, and the limits follow from it.
`UploadsInv`: a call that waits for the disk has its upload reserved, busy and for itself;
what may happen meanwhile ends the upload's life, not the reservation. `UsageWithinQuota`
then compares the set of chunks that are held with those that are reserved.

**`RetrievalIndexProofs`.** The lemma `DiversifyKeepsHits` says that `Diversify` is well
defined: its order is total on any set of hits, and a finite set with a total order is sorted
by counting predecessors (`Sortable`), which needs no induction. That the loop of the code
arrives at it is only model-checked (section 8): it would take an induction. `SearchInv` is the invariant of searches. The central part is what a
generation number says. The server and the indexer are different processes on one database,
so a cached miss or ranking may be outdated at any time; what holds is that it is right *if
the generation it was made at is still the stored one* (`MissesOK`, `CachedOK`,
`ChoosesOK`), and every use compares the two. For a call that waits for the provider,
`CollectsOK` says what it has found, or has the vectors to find, of everything that was
embedded when it began; a batch stored while it waits makes its key old, so what it caches
is not used with the new generation. `ReadsOK`: what a client has read is a prefix of one
ranking, which has all it should have. A search that fails at the provider caches nothing:
without that guard (`failed` in `Store`) `CachedOK` is not inductive.

**Only model-checked.** Every invariant, action property and refinement that a passing run
checks is also proved. What stays with TLC are the five liveness properties `LockRecovered`,
`EveryJobSettles`, `NormalizedInTheEnd`, `EmbeddedInTheEnd` and `EverythingIsReleased`, since
TLAPS does not reason about fairness and ENABLED, and the comparison of `diversify`'s loop
with its result. The properties of the three runs that end
in a violation are not theorems, being false; the hypotheses `Aging = "never"` and `~Stall`
above exclude two of them, and the third, `PendingIsQueued`, is no hypothesis of any theorem.
The theorems are about the same definitions that the runs check; no run and no proof
replaces one.

The composition with the store is by hypothesis: the modules of sections 5 to 7 and 10
publish in one step, and `PublicationIsAtomic` is what justifies that while no lock is
broken.

## 13. What is not modelled

Inside the modelled parts: hashing, manifests and their verification, permissions and file
names (a batch may be refused for them at any time); quotas of the store (a
nondeterministic refusal); the history a reader sees; the bound of 64 unreadable rows per
`lease()` (a later call goes on); the text of errors, which only decides retry or reject:
that "timed out" is not retryable, or that digits in an id look like a status 5xx
(`ms-agent-adapter.ts` 22-23), makes a failure of the other class. Both classes are possible
wherever a text is not fixed: for any error that is thrown (`WorkThrows`, `ProposalFails`,
`Fails`) and, in `MaintenanceHarness`, for a refusal whose message names a record; a stale
base and the checks of `Fatal` have texts that are never retryable. Headings and the parsing of blocks, scores, tokens, query expansion and
reranking; the files of image units; audit events; the requests to providers.

* Only the first 30 open or pending conflicts are routed in a packet (`runtime.ts` 1323), so
  the locked answer of a later one can never be validated. Instances that large are out of
  TLC's reach.
* In catalog mode no plan carries a typed resolution, so packets of locked answers are
  always quarantined and the conflict stays pending. `MaintenanceHarness` has this
  behaviour; it is what the mode is, and no property states it.
* An artifact stays `parsing` if the process dies during the remote call; `retryFailedParses`
  takes only failed ones (`runtime.ts` 1662, 1727). `ArtifactLifecycle` has this behaviour;
  nothing promises that such an artifact is parsed in the end.
* A receipt of a client notice expires after 30 days (`client-notices.ts` 110), and a
  process that dies with the registry lock leaves it for ever (`deployment/config.ts` 106):
  `ClientNotice` and `MemberRegistry` of the plan.

Left out for good: `configureSourceRoot` and the import of a runner's output (one write
each); views, graph, brief and lint (projections of one revision); the retrieval planner,
reader, preview and providers (stateless request building and network calls); document
back ends (child processes that extract text); the client skill bundle (generated);
argument parsing of the command line and the legacy search.

## 14. Plan

1. `RevisionStore`, `RevisionChain` and their proofs - done.
2. `MaintenanceQueue` and its proofs - done.
3. `ConflictResolution` and its proofs - done.
4. `WorkMemory` and `ProjectDocuments`, `ArtifactLifecycle` and `EvidenceCorpus`,
   `RetrievalIndex`, `ChunkUploads`, `McpSessions` and `ProjectServer`,
   `MaintenanceHarness`, and their proofs - done.
5. `AnswerLedger` and the refinement by `ConflictResolution` - done.
6. Left: an abstract specification of a closeout, refined by `WorkMemory`;
   `ClientNotice` and `MemberRegistry`: receipts and limits, the registry lock.

## 15. Running the checks

    tlc -workers 2 -config MCRevisionStore_exclusive.cfg MCRevisionStore.tla
    tlapm RevisionStoreProofs.tla

| run | distinct states | result |
|---|---|---|
| `store_exclusive` | 76 709 | holds |
| `store_overlap` | 43 510 | holds, with liveness |
| `store_stale` | - | counterexample of 21 states |
| `queue` | 150 020 | holds, with liveness |
| `queue_stall` | - | counterexample |
| `conflict` | 1 200 780 | holds |
| `conflict_replay` | - | counterexample of 8 states |
| `knowledge` | 986 073 | holds |
| `evidence` | 667 212 | holds, with liveness |
| `index` | 241 290 | holds, with liveness |
| `server` | 71 794 | holds, with liveness |
| `catalog` | 4 586 667 | holds |

Each run takes between a second and three minutes with two workers, and each proof module
between some seconds and some minutes.
