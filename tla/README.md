# TLA+ models of Crate

Crate syncs an Obsidian vault through a Cloudflare Worker. Devices keep a local
manifest and a queue of changes; the Worker keeps the vault's files in D1 (rows)
and R2 (objects); web apps read and edit reminders and saved articles over the
same Worker. This directory holds TLA+ models of the parts whose correctness
depends on interleavings, crashes, retries and lost answers, TLC configurations
that check them on small instances, and TLAPS proofs of what holds for every
instance. Source paths below are relative to the repository.

## 1. Inventory

| Component | State | Operations | Interacts with | Hard part | Correct when |
|---|---|---|---|---|---|
| Committed-file store, `src/cloudflare/worker/sync` | D1 `files`, `file_versions`, `changelog`, `upload_operations`, `staged_uploads`; R2 objects | upload, restore, note write, delete, batch and multi-file writes | maintenance, coordinator, projections | D1 and R2 share no transaction; requests interleave between any two calls; answers are lost | every referenced object exists, an operation takes effect at most once, a refusal and a deletion are final, the changelog agrees with the files |
| Maintenance, `worker/maintenance` | `object_cleanup_queue`, leases, operation floor, alarm | lease clean-up, queue drain, version expiry, receipt and changelog pruning | file store, shared checkpoints | a check and a delete are separate calls; passes fail anywhere | nothing referenced is deleted, nothing unreferenced is forgotten |
| Staged batches and multi-file writes, `worker/sync/staging`, `batch`, `atomic-markdown-*` | `staged_upload_batches` | bulk create, pair write, move | file store | snapshots read before the batch; members refused alone | as the file store, for several keys at once |
| Shared checkpoints, `worker/sync/history-checkpoints.ts` | R2 index and inventories, retention mark | create, list, open, download, prune | retention, maintenance | inventory read page by page while files change; compare-and-swap of the index | an inventory is one instant of the vault, and its files stay downloadable |
| Initial import, `worker/sync/import` | import token, unpublished keys | upload, publish, abandon | file store | publication races a second device | the import is all or nothing |
| Changelog and manifest paging, `worker/sync/metadata-handlers.ts` | cursors | page changes, page files | devices | pages read while rows are added and pruned | a device that follows the cursor misses nothing |
| Coordinator, `worker/coordinator` | Durable Object lock, alarms | commit, reminders, maintenance wake-up | all writers | alarm slots shared by several jobs | mutations are serialised, no wake-up is lost |
| Notifications, `worker/notifications` | projection jobs, outbox, schedules, per-reminder alarm objects | project, schedule, cancel, deliver | file store, policy | stale snapshots, duplicate delivery | an alarm that fires belongs to the current file and policy |
| Reminders and Reading on the server, `worker/reminders`, `worker/reading` | operations, identity owners, captures, library index | commands, extraction, publish | file store | retried commands, late extraction | a command is applied once |
| Encryption, `worker/encryption` | vault state, reset receipts, pairing requests | reset, pair, rotate | every writer | reset over many requests beside late writers | no write of an old generation is published |
| Deployment, restore, server reset, `src/cloudflare` | fence row, update record | acquire, mutate, recover, finish | provider API | outcome of a provider call unknown | at most one deployment acts, and none is abandoned half-way |
| Device manifest and journal, `src/sync/manifest`, `src/sync/durability` | checkpoint, temporary checkpoint, log, journal records | save, append, load, prepare, accept, prune | sync engine, adapter | writes are not atomic; crash at any write | no acknowledged change is forgotten, no sent upload without a record |
| Sync engine, `src/sync/engine`, `planner`, `transfer`, `local` | cursor, manifest, vault | full, incremental and queued sync | file store, vault | the vault and the server change while a plan is executed | no edit is lost, devices converge |
| Sync queue, `src/sync/queue` | pending and in-flight keys, revisions, timers | event, flush, verify, reconcile | engine, vault events | events during a flush | every edit is eventually flushed, none is settled unseen |
| Merge and conflicts, `src/sync/merge`, `conflict` | bases, review files | merge, review, resolve | engine | three-way merge of structure | both sides survive |
| Web apps, `src/pwa` | outboxes, caches, session | queue, drain, review | reading and reminder routes | several tabs, lost answers | a command is sent once or kept for review |
| Vault features, `src/reminders`, `src/reading`, `src/ui` | Markdown files | parse, edit, index | vault | byte-exact edits | an edit touches its reminder only |

`PROJECT.json` lists the same components with their status, and under `hazards`
the places where each of them can go wrong in a way a test hardly reaches.

## 2. Plan

Done, in this order:

1. `FileStore` with `FileRegister`: the server's single-file writes, deletions,
   restores and clean-up, and the abstract registers they implement (sections 3).
2. `LocalManifest`: the device's checkpoint, log and upload journal under torn
   writes, failed writes and crashes (section 4).
3. `SharedCheckpoints`: page-wise inventories, retention while saves are
   coalesced, the index's compare-and-swap, eviction, the orphan sweep (section 5).
4. `SyncQueue`: pending set, flush, verification, start-up gate, rename
   dependencies (section 6).
5. `DeviceSync`: changelog and manifest paging, full and incremental plans, and
   their application against a vault and a server that move (section 7).

They compose along narrow interfaces: what `FileStore` promises a client
(an operation is applied once, a refusal is final, a precondition is compared and
swapped) is the atomic `SendUpload` and `SendDelete` of `SyncQueue` and
`DeviceSync`; what `LocalManifest` promises (an acknowledged entry and the outcome
of a sent upload stay) is their `base` and `journal`; what `SyncQueue` promises
(a change has a key) is why `DeviceSync` may begin a sync at any time.

Not done, in the order of their weight: staged batches, pair and move writes, the
import and the reset as extensions of `FileStore`; `Notifications`;
`CommandOutbox`; `DeploymentFence`; and the pure algorithms (recurrence, merge of
structure) as functions checked against reference definitions.

## 3. FileStore

`FileStore.tla` models D1 and R2 as two services. A D1 batch is one atomic
action; every other call (a put, a lookup, a delete, a dequeue) is an action of
its own, so that requests, retries and maintenance interleave between any two
calls. State and code correspond as follows.

| Variable | Code |
|---|---|
| `request` | what each operation ID stands for; the device's journal fixes it before the first send |
| `now`, `floor` | the server clock in days, and the persisted operation floor (`OPERATION_FLOOR`) |
| `receipts` | `upload_operations`: the published revision, a refusal, or nothing |
| `files`, `versions`, `expired` | `files`, `file_versions`, and which versions are past `expires_at` |
| `changelog` | `changelog` in `seq` order |
| `queue`, `staged`, `age`, `tries` | `object_cleanup_queue` and the lease rows of `staged_uploads` |
| `put`, `bucket` | issued and landed puts, and the objects in R2 |
| `pc`, `job`, `answer` | the request attempts, from `handleUpload`, `handleRestoreFileVersion` and `writeCommittedMarkdownFile` |
| `sweep`, `claim` | the running `deleteQueuedBucketObjects` and `cleanStagedUploads` |
| `deletion` | the deletions of `handleBatchDelete` |

An attempt begins (`Begin`, `BeginNote`), leases its key and issues the put
(`Stage`), sees it return (`PutReturns`), and commits in one of five outcomes:
`Publish`, `Refuse` (the refusal is recorded), `Abort` (outside the window, the
batch fails), `Miss` followed by `ReadReceipt`, or for a note by `ReadNames`,
`ReadRow` and `ReadBytes` (somebody else decided; the namespace, the row and the
object are read one after the other). An attempt that gave its key up queues it and runs the same sweep as
maintenance (`QueueDiscard`, `SweepCheck`, `SweepDelete`, `SweepLeases`,
`SweepDequeue`, `SweepFails`). Maintenance expires versions, drains the queue,
prunes receipts, and claims leases, looks for references (`ClaimCheck`) and for the
objects (`ClaimLook`), deletes and finishes them.

Abstractions:

- A content is its hash, and an attempt and its random key are one element.
- Whether a replaced copy is kept or coalesced (`keepReplacedVersionSql`) is a
  free choice, except that a restore always keeps it.
- A pass works on all due keys; the code's batch limits only make it work on
  fewer, which is a pass that fails for the others.
- Lease and version expiry are steps of their own. A lease is `due` when the
  Worker's clock is past `expires_at` and D1's is not, the skew in which claim
  and publication compete, and `expired` when both are.
- A crash is an attempt that takes no further step; a lost answer is one nobody
  reads; a retry is another attempt of the same operation.
- The coordinator's lock is not assumed, so the model has more interleavings
  than the code.
- A namespace conflict is answered like a version conflict.
- Encryption, reset and import guards and multi-file writes are left out.

`FileRegister.tla` is what the store promises: each path is a register with a
content and a revision, an operation is one conditional write, decided once.
`ImplementsRegister` maps an operation to its published revision, or to `closed`
once it was refused or the persisted floor passed its day.

### Runs

All run in `MCFileStore`. The requests are finite and the system may go quiet,
so deadlock is not checked.

| Run | Instance | Shows |
|---|---|---|
| `FileStoreRetry` | 1 path, 1 operation, 2 attempts, 1 deletion, 2 days | `TypeOK`, `RejectionIsFinal`, `OperationAppliedOnce` |
| `FileStoreClean` | 1 path, 2 operations, 2 attempts, 1 deletion | `NoDanglingRevision`, `ObjectsTracked`, `DeletedStaysDeleted`, `OnlyNamedRevisionsDeleted`, `ChangelogAgrees`, `ImplementsRegister` |
| `FileStoreNotes` | 1 operation, 1 note write and 1 deletion, on 2 clashing paths or with 2 contents of one | `LiveNamesCompatible`, `SuccessIsReal` |
| `FileStoreReclaim` | 1 attempt, 1 deletion, 2 tries | `UnreferencedReclaimed` |

Why the bounds are enough: two attempts of one operation are a replay, two
operations are a competition for one path, and a deletion makes a precondition
true again; two days with a window of one day have a day inside and a day
outside, in both directions of the clock. A note needs either a second name to
clash with or a second content to mistake for its own, so `FileStoreNotes` is
constrained to one of the two (`NamesOrContents`). One try (`MaxTries`) suffices
where only safety is asked; the liveness run has two, so that a lease is claimed
again.

Fairness (`Fairness`): expiry times are reached (weak fairness of ageing), and
maintenance passes recur and no call fails for ever (strong fairness of each
maintenance step). The code arms a maintenance alarm after every mutation
(`armMaintenanceCoordinator`) and rearms it while work is left
(`runMaintenanceEpisode`), and each task is tried in every pass whatever the
others did (`runScheduledMaintenance`); episodes are bounded, so the assumption
is that the vault keeps being used. Requests, clients and puts owe nothing.

### Proofs

`FileStoreProofs`, `FileStoreSafetyProofs` and `FileStoreOperationProofs`
prove every safety invariant above, and the refinement of `FileRegister`, for all
values of the constants, from the assumptions `ClashAssumption` (clashes are
symmetric and irreflexive), `NoteAssumption`, `NumberAssumption` and
`MarkerAssumption` (the markers are no values: in particular "no value" is no
request, no content and no row).

- `TypeInv` is `TypeOK` with what it needs: an attempt that runs a
  sweep is in its sweeping step (`SweepersPast`), a started attempt carries a
  request (`JobsFixed`), published revisions belong to answered attempts
  (`PublishedAnswered`), deletions name published revisions
  (`DeletionsNamed`), and tries stay below the limit (`TriesBounded`).
- `KeyInv` proves `NoDanglingRevision` and `ObjectsTracked`. Neither is
  inductive: it must also be known that a key is referenced only after its put
  landed (`ReferencesPublished`, `PutOrder`), that a key a sweep is about to
  delete can never be published again (`SweepsDiscarded`), and that a key a
  claim is about to delete has a claimed lease or none (`ClaimsDiscarded`).
- `OperationInv` proves `OperationAppliedOnce`, `RejectionIsFinal` and
  `SuccessIsReal`: a published operation has its receipt or lies below the floor
  (`PublishedReceipted`), a refused one keeps its refusal or lies below it
  (`ConflictsClosed`), and the floor never goes back.
- `LiveNamesCompatible`, `DeletedStaysDeleted`, `OnlyNamedRevisionsDeleted` and
  `ChangelogAgrees` follow from how a step changes `files` (`FilesChange`): only by
  publishing an attempt that was never published, or by deleting the revision that a
  request names. (`ImplementsRegister` says nothing of this: a register may be deleted
  whatever it holds.)

- `ImplementsRegister` (`StoreImplementsRegister`) maps the steps of the store to
  those of `FileRegister`, through `Rows` and `Outcomes`, the values its variables
  have in a state. `Submit` maps to `Submit`; a publication to `Apply` of its
  operation, or to `WriteNote`; a deletion that finds its revision to `Delete`; a
  recorded refusal and a pruning to `Close`; everything else to a stutter. It
  needs `KeyInv` (a live revision was published at its path, so a row does not
  change while the attempt that wrote it goes on), `OperationInv` (an operation
  whose batch can still commit has neither a revision nor a floor above its day) and
  `RefusedAsked`: only what somebody asked for is refused, so that submitting an
  operation finds it undecided.

Only model-checked: `UnreferencedReclaimed` (liveness).

## 4. LocalManifest

`LocalManifest.tla` models the device's durable state: `LocalManifest` (memory,
checkpoint, temporary checkpoint, change log), `UploadJournal` (one file per
upload) and the part of `DurableUploads` that prepares, sends and accepts.

| Variable | Code |
|---|---|
| `entries`, `changed`, `dirty`, `touched` | `manifest.files`, `changedPaths`, `dirty`, and whether `revision` moved since the save read it |
| `generation`, `logActive`, `logStarted`, `persisted` | the same fields; `logBytes` is zero or not; `persistedState` |
| `completed`, `held`, `preparing`, `active` | the journal's `completed` and `entries`, the record being written, the uploads being sent |
| `step`, `taken`, `data`, `pruning` | where the load or save stands, and what it captured |
| `main`, `tmp`, `log`, `journal` | the files |
| `edits`, `acked`, `sent`, `accepted`, `refused` | history: change numbers, what saves and loads reported, what was sent and how it was answered |

Each write, rename and remove of the adapter is an action, and entry changes,
new uploads and receipts interleave between any two. A save takes the changes at
`head` (the loop of `persist`), appends a record (`StartAppend`, `FinishAppend`)
or compacts (`StartCompact`, `FinishTmp`, `FinishMain`, `FinishCompact`), repeats
while the revision moved, and prunes the receipts it had at its start.
`Crash` stops the program anywhere: the file being written is old, torn or new,
and a log may end in a torn line, in a record without its newline, or in the
whole record. `WriteFails` is an error the program survives. `Recovered` reads
the disk as a load does; the properties compare it with the history.

Abstractions:

- An entry's value is the number of the change that made it; a removal is a
  change. Renames, restore intents, import state and diagnostics are written
  beside the receipts by the same code and are not told apart (`Touch`). A save notes
  the receipts it found as `checkpointed`, and so makes the manifest dirty itself
  (`BeginSave`), unless they have no diagnostics to note it in.
- A record fits the log or not (8 MiB) by choice.
- Callers save whenever they like (every 64 receipts, every 16 replays, at the
  end of each sync); a save queued behind another is a later save.
- Closing a manifest stops a save between two writes, which a crash does too.
- A remove that reports an error has removed nothing; an append that reports an
  error may have written any part of its line (the code says so); other writes
  only if `WriteErrorsTear`.
- The engine runs one sync at a time, so an upload is not sent twice at once.
  The server's answers to one operation agree, which `FileStore` shows
  (`OperationAppliedOnce`, `RejectionIsFinal`).
- The server a checkpoint is bound to (`authority`) never changes.

| Run | Instance | Shows |
|---|---|---|
| `LocalManifestSaves` | 2 entries, 3 changes, 4 generations, or 2 uploads of 1 path | `TypeOK`, `CheckpointReadable`, `SavedIsDurable`, `ReceiptsHeld`, `CheckpointsAtomic` |
| `LocalManifestTorn` | 1 entry, 3 generations, errors may tear files | `TemporaryKept` fails |

Four generations are a checkpoint, a record, a compaction and a record after it,
with a failed write in place of any of them; two entries make a record that names
one of them; two uploads of one path are one that is accepted while the other is
pruned. The constraint `EntriesOrUploads` leaves out instances with many changes
and two uploads together.
Deadlock is not checked: a program that stops during its very first checkpoint
leaves a torn temporary file and no main one, and the code refuses to load until
sync is reset (`manifest.ts` 120-122). `CheckpointReadable` therefore speaks of
devices that have a main checkpoint.

`LocalManifestTorn` records a finding. `docs/sync-pipeline.md` says that a corrupt main
file recovers from the temporary one (442), and that a failed promotion keeps it (408).
The save after a failed write of the
main file begins by overwriting the temporary one; if the first error left the
main file torn, and the second write is cut short too, neither file parses and
the next load is refused. The other runs assume that a write of a checkpoint
that reports an error left the old file.

### Proofs

`LocalManifestProofs` proves `TypeOK` whatever writes tear, and the other four properties
above from `~WriteErrorsTear`, for every set of paths and uploads and every bound. The
hypothesis is the one `LocalManifestTorn` shows to be needed: a write that reports an
error left the old file. A crash may still leave any part of any write. Constants:
`UploadAssumption`, `BoundAssumption`, `MarkerAssumption` (the markers of an absent and
of a torn file are no values).

- `TypeInv` adds to `TypeOK` what the log looks like (`LogShape`), because a load counts
  the generation along the log it finds: records are numbered from the base, an active
  log ends after a newline, and its last record has the generation in memory.
- The lemmas about `Replay` (`ReplayTyped`, `ReplayNone`, `ReplayAppend`) say what one
  more record does; with them `AppendedIs` shows that the checkpoint with the log the
  save wrote is exactly the snapshot, although the record names only what changed.
- `KeepInv` proves the rest. What a load would find is `Good`: it has every acknowledged
  entry, and the outcome of each sent upload whose journal file it would not replay. That
  is not inductive: the snapshot being written must be good too (`DataOK`), as must the
  checkpoint with its log when a torn temporary file uncovers it (`OpenOK`); memory must
  be ahead of both (`MemoryOK`); an active log must extend the checkpoint and lack only
  what is marked as changed (`LogOK`); generations must order the files (`DiskOK`,
  `GenerationOK`); and a receipt may be pruned only if the files have it (`PruneOK`).
- `InterruptLeaves` is the lemma about crashes: at every step, and however far its write
  came, a load finds what it would have found, the snapshot, or what a torn temporary
  checkpoint uncovers. `CheckpointsAtomic` is the same fact as an action property.

## 5. SharedCheckpoints

`SharedCheckpoints.tla` models `createSharedCheckpoint`, the retention of the
revisions a checkpoint names, and `pruneSharedCheckpoints`.

| Variable | Code |
|---|---|
| `now`, `sequence` | the clock, and the newest changelog sequence (the generation a request verifies) |
| `files`, `versions`, `mark` | live rows, `file_versions`, and `shared_checkpoint_at` of `keepReplacedVersionSql` |
| `index`, `objects` | the index object and the inventories, in R2 |
| `pc`, `start`, `after`, `rows`, `seen`, `attempts`, `dropped` | the memory of each request |
| `sweep`, `listed`, `more`, `named`, `indexedAt`, `cursor` | one pass of the sweep, and its persisted cursor |
| `vault` | history: the live rows at each sequence |

A request begins with the current sequence (`Begin`), returns a checkpoint of the
same sequence (`Lookup`), raises the mark (`Mark`), reads pages (`ReadPage`),
verifies that the sequence did not move (`Verify`), stores the inventory, and adds
its entry to the index by compare-and-swap (`FetchIndex`, `Publish`,
`PublishConflict`, `Superseded`), deleting what it evicted (`DeleteDropped`). It may
end at any step (`Abandon`). Files are written and deleted between any two of its
steps, and each write keeps the replaced copy or not by the rule of the code.

Assumed, as a comment of the code does ("Objects younger than a day may still be
publishing their index."): a publication, and a pass of the sweep between reading
the index and deleting, each take at most `Life`, and twice that is at most a day
(`LifeAssumption`, `InTime`). The mutant that ignores the age shows that the
assumption is needed.

| Run | Instance | Shows |
|---|---|---|
| `CheckpointsRestore` | 2 paths read one a page, 4 writes and deletes, 1 request; or 3 requests for an index of 1 | `InventoryIsAnInstant`, `CheckpointsRestorable`, `ListedIsStored`, `IndexBounded`, `EvictsOldest`, `TypeOK` |
| `CheckpointsSweep` | 2 requests, a listing of 1 key | `ListedIsStored`, `GarbageCollected` |

Two paths and pages of one row are the least reading that is not atomic; four
changes are a coalesced save, a kept one, a deletion and a new file. An index of
one entry is the smallest that evicts, and three requests let one race a writer
that evicts another. Fairness of the sweep: maintenance wakes daily, and a pass may
fail, but not for ever (strong fairness of its steps). The system stops when the
bounds are used up, so deadlock is not checked, here and below.

### Proofs

`SharedCheckpointsProofs` proves the six safety properties above for every set of
requests, number of paths, page size, number of checkpoints and bound, from
`RequestAssumption` (requests are numbers, the order of their object keys),
`SizeAssumption`, `LifeAssumption` and `MarkerAssumption` (no inventory is the marker of
an absent one). The set of requests may be infinite; what was stored is finite.

- `FirstOnes` is the lemma about a page, a listing and the index alike: the elements that
  fewer than a limit precede are a downward closed set no larger than the limit, and
  exactly that large if they leave anything out. `IndexBounded` and `EvictsOldest` follow
  (`NewestOnes`, `PublishedOnes`), because a publication changes only the index it read and
  only adds a sequence that is not there.
- `IndexInv` proves `ListedIsStored`. An entry belongs to a request that no longer
  publishes (`EntriesEnded`), so what a request is about to delete can neither be listed nor
  become so (`DroppedUnlisted`); and what was listed after the sweep read the index is at
  most twice `Life` old (`Published`, `SweepInTime`), so the sweep's age check spares it.
- `RowsInv` proves `InventoryIsAnInstant`: as long as the sequence has not moved, the pages
  read so far are the live rows up to the last path read (`ReadUpTo`, `PageRead`), and the
  vault of a sequence that is over is never rewritten.
- `KeptInv` proves `CheckpointsRestorable`: a revision that is named is live and no newer
  than the mark, and then the write that replaces it keeps it, or it is a version that
  expires no sooner than the checkpoint (`Kept`). The mark must be raised before the rows
  are read (`Marked`).

Only model-checked: `GarbageCollected` (liveness).

## 6. SyncQueue

`SyncQueue.tla` models one device's queue: `PendingSet`, the debounced flush
(`flush.ts`), the verification (`pending-verification.ts`), reconciliations and
retries (`controller.ts`), `RenameDependencies`, and the start-up gate
(`vault-event-gate.ts`), around a vault whose events arrive late.

| Variable | Code |
|---|---|
| `disk`, `server`, `base` | the vault, the live rows, the manifest's entries; a content is a number |
| `renames`, `journal` | `RenameDependencies`; uploads whose receipt is not known |
| `gate`, `recorded`, `events` | `VaultEventGate`, `startupEvents`, and vault events on their way |
| `pending`, `verifying`, `timer`, `check` | `PendingSet` (queued, in flight, revisions), `verificationKeys`, the debounce timer, the verification under way |
| `work`, `reports`, `applied` | the flush, reconciliation or sync under way; results being recorded; the second settlement of a sync |
| `owed`, `parent`, `used` | history: changes nothing could see, the content each was edited from, and how much of each bound is used |

`BeginFlush` takes the queue in flight; the work then recovers journalled uploads
(`Recover`), plans (`Plan`), deletes names that clear the way for an upload,
uploads (`Prepare`, `SendUpload`), deletes the rest (`CheckDeletes`, `SendDeletes`)
and ends (`EndFlush`; `EndSync`, `EndApplied`). Its result is recorded while the next
flush may begin; then its finalizer releases the batch a second time (`Finalize`, which
must do nothing), and the timer or a reconciliation follows (`EndReport`). Every request
may be lost, or its answer, or be refused for a reason that a retry does not change, or
for revoked access (`Failures`, `Judged`; `LoseUpload`, `LoseDeletes`); `RecoverFails`
and `ScanFails` end the work; `Stop` restarts the program, which forgets the queue. A
sync lists the vault once (`work.listed`), a reconciliation looks at each path in its
turn (`work.looks`), and a path that loses a race more than `MaxAttempts` allows fails
(`Rescan`).

Coarser than the code: a path is read on both sides, decided and applied in one step,
by what the server has then rather than by the entries read at the start of the sync
(`DeviceSync` takes these steps apart); each upload is a request of its own; automatic
merges are left out, a conflict keeps a copy.

| Run | Instance | Shows |
|---|---|---|
| `QueueEdits` | 2 files, or 2 names that differ in case; 1 change of the user with a lost or refused request and a restart, 2 with either, or 3; 1 result recorded beside the next flush, with 3 changes only outside a sync; 3 attempts | `TypeOK`, `InFlightIsTheFlush`, `NoChangeForgotten`, `NoVariantRefused`, `RenameKeepsACopy` |
| `QueueSettles` | 1 file; a change of the user, one of another device, a lost request, a restart (3 of them); 1 attempt | `Settles` |

`MaxUsed` bounds all of these together. Three changes are a rename and a rename
back, or an edit before, during and after a flush. `Settles` is liveness: once users
and faults stop, the vault and the server agree and the queue is empty. Fairness:
requests are answered, promises resume and events are delivered (weak fairness of
`Work`, `Verification`, `EndApplied`, `Deliver \/ Record`, `EndReport`, `Start`); the
debounce of seconds and the periodic interval of minutes both come round between each
other's work (strong fairness of `BeginFlush` and `PeriodicSync`, which a running sync
disables again and again); and a verification, which starts 250 ms after the work that
deferred it, now and then ends before the next periodic sync (strong fairness of its
steps while nothing has made its verdict stale).

### Proofs

`SyncQueueProofs` proves `TypeOK`, `InFlightIsTheFlush`, `NoChangeForgotten` and
`NoVariantRefused` for any paths, variants and bounds, with a periodic sync or without,
from `PathAssumption`, `BoundAssumption` and `NoneAssumption` (the marker for nothing is
no journal entry).

`NoChangeForgotten` speaks only of the end points of a key's way: that a file that
differs from its baseline has a key somewhere. That is not inductive, because at the
end of a flush or a sync the key goes, and the file must match its baseline then,
though the user, an event, a failed request or a verification may have come at any
moment before. `Inv` therefore says where the key that names what each file is now
(`KeyFor`: its upload, or its delete when it is gone) stands at every step:

- `EventsInOrder`: after an event that no longer says what a file is, one that does
  follows. So when the last event of a file is heard, its key is right.
- `KeyInv`: the key of a file that differs from its baseline is queued, recorded, on
  its way or owed (`Held`), or the flush under way has still to send it (`FlushHas`:
  in the batch while it recovers, planned while it clears, prepared or out while it
  uploads, planned while it deletes).
- `Later`: a newer event is on its way, recorded, or has queued the key at a revision
  above every one of the snapshot (`After`). A settlement compares revisions, so such a
  key survives whatever is settled. `SendingInv`, `MissedInv`, `UploadsInv`, `SyncInv`
  and `CheckInv` say of each thing a flush, a sync or a verification has read of a file
  that it is still true or `Later` holds.
- `SyncInv`: what a sync or reconciliation will settle matches its baseline, is still to
  be decided or sent (`SyncHas`), or has a newer event; a reconciliation covers only the
  paths of the keys it settles (`Covers`).
- `JournalInv`, `JournalOpen`: a journalled upload of an older content than the file's
  can still become the baseline by a recovery, so while there is one the file's key must
  not be settled away (`Safe`, `Unwritten`); between recovery and a failure the journal
  holds only what is out.
- `RevisionsInv`: a key has a revision only while an event for it is queued or in flight,
  which the conjunct of `TypeOK` about revisions says; and a result that is being recorded
  has released its batch, so that `Finalize` changes nothing.
- `GateInv`, `PhasesInv`, `BatchInv`: what is empty before the gate opens and in each
  phase, and that a flush sends what its batch names.

Each action has one lemma of what it changes (`...Facts`) and one that it keeps `Inv`
(`...Keeps`). Most of them rest on two arguments: a step of the work only requeues keys
(`QuietFrame`, `StayFacts`), and a step of anything else leaves the work alone
(`AroundKeeps`).

`NoVariantRefused` is proved by two more invariants over `Inv`. `ServerInv` says what
the server has while no other device writes: of each file the baseline, nothing, or an
upload that the journal still holds (`ServerKnown`, the theorem `ServerIsKnown`); it needs
what a sync has read and still has to do with each path (`SyncApart`), and that nothing
but the batch is journalled while requests are out (`JournalApart`). `NamesInv` then
follows a flush from its look at the queue (`work.seen`): while nothing has come since
(`Still`), a name that differs only in case from an upload's is on the server only if its
delete is one the flush sends first, and at the uploads such a name is gone, or its delete
failed and the upload waits (`ClearedInv`); so a refusal has a cause that the flush could
not know (`RefusedInv`). The proof showed that two such causes exist beside a later change
of the user, and the property names them: another device, and the old name of a file that
was renamed while nothing ran, whose delete nobody has queued yet.

Only model-checked: the action property `RenameKeepsACopy`, because "an earlier version
of the file" is a chain through `parent`, and what such a chain contains is an induction
over data (and with a third name it fails, see below); and `Settles` (liveness).

### What the model showed, beside the properties

- `Settles` exempts the delete of a file that is there again. A comment
  (`controller.ts` 310) leaves failed keys to a "periodic/manual sync", but a sync
  settles only the upload key of a file that matches its baseline
  (`planner/incremental.ts` 56, `engine/full-sync-workflow.ts` 50), and the
  verification skips the delete of a file that has a baseline
  (`pending-verification.ts` 35). Such a key stays, and every periodic check starts
  another sync, until the vault reports an event for the file.
- A flush holds an upload back when the delete of the name in its way failed; a sync
  sends it all the same (`engine/full-sync-workflow.ts` 85-90: the uploads follow the
  deletes that clear the way, whatever these returned), and the server refuses it.
  `NoVariantRefused` therefore speaks of flushes.
- A comment says "Deleting an old remote copy waits until its destination is uploaded."
  (`manifest/rename-dependencies.ts` 9-10). What the code waits for is a baseline of the
  destination with the file's bytes, which can be stale. A file is renamed and uploaded;
  the delete of its first name reaches the server, but the answer is lost, so the first
  name keeps its baseline. Renamed back, the file matches it: its upload is skipped as
  unchanged, the check passes, and the delete of the second name takes the last copy from
  the server. The next sync finds the file unchanged here and gone there, and moves it to
  the trash. `RenameKeepsACopy` therefore asks for a version that the server has, or that
  this device was told it has.
- `RenameKeepsACopy` speaks of moments when no rename is on its way to the queue. A
  file renamed offline or during the start-up sync has no dependency; renamed once
  more during its upload, the upload finds nothing to send (`transfer/prepare.ts`
  87-92), the workflow records no failure, and the delete of the first name goes out
  before the third name is uploaded. The file is then only on the device for a while.
- A delete that reached the server with its answer lost, followed by the return of the
  same content, makes the next sync move the file to the trash (`docs/recovery.md` 66
  says deletes are trashed; the content survives there).

## 7. DeviceSync

`DeviceSync.tla` models one device's syncs against the server's changelog: the
server's paging (`worker/sync/metadata-handlers.ts`, `d1/db.ts`) and the readers,
planners and transfers of `src/sync`. Where `SyncQueue` reconciles a path in one step,
here a read and the write that depends on it are steps of their own. Coarser than the
code, or wider: a path that is decided again reads the server and the vault in one step
(`AgainFrom`; the guards of what follows compare both again), a full sync gives the paths
that agree their baseline when it plans rather than at its end, after which it reads them
again (`PlanFull`), and the deletion an incremental sync applies while it reconciles may
come later (`HashLocal`). An expired cursor is noticed by its rows, not also by the
snapshot's sequence, and a changelog that cannot be read does not fall back to a full
sync (`ReadChanges`).

| Variable | Code |
|---|---|
| `rows`, `log`, `pruned` | `files`, `changelog` with the pruned rows (the n-th line has sequence n), how many are pruned |
| `disk`, `base`, `saved`, `cursor` | the vault, the manifest in memory and as saved, `lastSeq` |
| `copies` | what conflict copies and the trash hold |
| `sync` | the sync under way: what was read (`remote`, `changed`, `local`), the plan and the progress of each path (`plan`, `job`), the new cursor (`last`) |
| `origins`, `dropped`, `made` | history: the contents each content was made from, what somebody removed or went back from, how many were made |

A sync with a cursor pages through the changes (`ReadChanges`), then scans, plans the
paths without remote changes (`PlanIncremental`) and reconciles the others one by one
(`Reconcile`). Without one, or with one that expired, it pages through the manifest
(`ReadManifest`), replays what changed since the first page (`ReplayChanges`), scans
meanwhile, and decides every path by three states (`Decision`, `PlanFull`). Then the
paths are applied, interleaved: a download is fetched and written only over the
content it was planned for; a conflict is merged and uploaded over the version it
merged, or the local content is copied aside; a remote deletion hashes and then
trashes; an upload is prepared and sent with its precondition; deletions come last. A
path that loses a race is decided again (`Again`) or fails (`Fail`). `EndSync` saves the
manifest, and advances the cursor if nothing failed. The user writes, undoes and
removes files, and other devices publish and delete, between any two steps; changelog
rows are pruned (`Prune`); a sync may stop anywhere (`Stop`), with each path's entry as
it was last saved before the sync, or as the sync made it.

| Run | Instance | Shows |
|---|---|---|
| `DeviceSyncs` | 1 file with 3 changes on the server, or 2 with fewer; 5 contents, 1 removal, 1 stop, no undo during a sync; a merge that was edited before it was written, and removed elsewhere | `PlansFromAnInstant`, `NothingHidden`, `NoContentLost`, `QuietSyncAgrees`, `TypeOK` |
| `DeviceReverts` | 1 file, the user may undo during a sync | `DeletionsReachTheVault` fails |

`NoContentLost` is the promise of the whole device: whatever anybody wrote and nobody
removed is part of a file in the vault, on the server, in a conflict copy or in the
trash. `origins` makes "part of" exact: an edit contains what it edited, a merge both
sides. `MaxTries` and `MaxCopies` are 2 (3 in the code): one more of the same. Pages
hold one row, so that every reading of two rows is interleaved.

`DeviceReverts` records a finding: a file deleted on the server and edited on the
device is planned as an upload; if the user undoes the edit before the upload is
prepared, the upload is skipped as unchanged, the cursor passes the deletion, and the
file stays on this device alone. `DeviceSyncs` therefore runs with `Undo = FALSE`, where
the user undoes between syncs only. A second observation, without a run: after a
device's own upload, its line is still ahead of the cursor; if the file is in the vault
at the scan and removed before it is reconciled, the reconciliation downloads it again
(`incremental-remote-reconciliation.ts` 115-123). The removal of a file is then undone,
and no content is lost.

### Proofs

`DeviceSyncProofs` proves `TypeOK`, one step per action, and `PlansFromAnInstant`, by the
invariant `PlanInv`: each row is what the changelog's lines leave (`RowsLogged`); a page
of the changelog shows the rows at the line it ends with (`Changing`); a page of the
manifest shows each row at some instant since the snapshot (`Listing`), and the changes
that are replayed bring all of them forward to one instant (`Replaying`), unless the
lines they need were pruned, which starts the sync over. `DeviceSyncKeptProofs` proves
`NoContentLost` for every set of files and every bound, from `PathAssumption` and
`BoundAssumption`. `NoContentLost` is not inductive: a step may only replace a file
because of what it believes of both sides. `KeptInv` says what those beliefs are worth:
both sides have the baseline or a later form of it (`BaseOK`, and `SavedOK` for the
manifest a stopped sync falls back to); what was read of the server is still part of
what the server has (`RemoteOK`, `LogOK`); what was scanned is still part of the vault
until the path is planned (`ScanOK`); and what a decision is about to replace or delete
is part of what takes its place (`JobOK`). "Part of" counts only what nobody dropped and
no copy holds (`Under`). Every step is shown to satisfy `Grows`: no content is forgotten,
and each file is replaced by one that contains it unless what it loses is safe; all the
beliefs survive such a step (`Stays`).

`NothingStaysHidden` proves `NothingHidden` if `Undo` is `FALSE`, which the finding shows
to be necessary. Its invariant `HiddenInv` follows a change from the server to the
baseline. Behind the cursor the baseline is what the server has, or the server has
removed the file and the vault holds nothing that could become the baseline again by
going back (`Shown`; `OriginsClosed` is why going back between syncs cannot reach it
either). While the row is still the one the sync read (`Current`), each decision and each
stage of a transfer must lead there: what is held is the row, a skipped upload had its
baseline on the server, a path that is done is shown unless the sync failed (`Decided`);
a file that has its baseline had it when it was scanned (`Scanned`). A publication needs
no decision, its line is after both the cursor and what the sync read (`LineAdded`). So
when every path is done and none failed, the cursor may pass (`EndSyncHidden`); a stop
falls back to a baseline that is shown as well.

`QuietSyncsAgree` proves `QuietSyncAgrees`, also with `Undo` as `FALSE`: with an undo the
finding's hidden deletion stays hidden from a quiet sync too. Nothing of earlier syncs is
assumed, so the proof must know what races, failures and stops leave behind. It takes two
invariants beside those above:

- `ExactInv`: a version with the content that the server has is the server's version, also
  in its revision (`Exact`), and one of an absent file has none (`Whole`). Contents do not
  determine this: a merge that was not written leaves a baseline without a revision, and
  an upload could bring the server a content that the baseline of a stopped sync still
  names with an older one. `Pending` excludes both: a path under way has the baseline of
  the last save, or its file is neither that nor the present one (`Away`), and an upload
  or merge publishes what no baseline of the path has. `BaselinesNameTheRevision` states
  the result on its own: it is what lets an unchanged file's deletion pass the server's
  precondition.
- `QuietInv`: while nothing else happens, what was scanned is in the vault, what was read
  is on the server (no line follows the last one read), and every decided path settles
  (`Settling`): a download or conflict is about both sides as they are, a held version is
  the row, a done path agrees everywhere. Only one thing can still be wrong: a path
  without remote changes whose baseline the server has left (`Shown` allows that after a
  deletion), so that its upload or delete is refused. It is then decided again by what
  both sides hold, and that decision cannot lose: `tries` stays below 2, within any
  `MaxTries`.

Left out: a forced full sync and the replacement of the vault, reviews of files that
are no text, skipped files, the restore of an old version, names that differ in case
(`SyncQueue` has them), encryption, the snapshot of an initial import, and lost answers
(`SyncQueue` has them).

## 8. Findings

- `LocalManifestTorn` (section 4): the failed promotion of a torn checkpoint.
- `DeviceReverts` (section 7): a remote deletion that an undone edit hides.

## 9. Not modelled

`PROJECT.json` gives the reason for each component. In short: what section 2
lists as not done has no model yet; user interface, Markdown parsing, cryptographic
formats and provider calls have little state of the kind a model checker helps
with, or their content is out of its reach. Of the properties that runs check, these have
no proof: `UnreferencedReclaimed`, `GarbageCollected` and `Settles` (liveness under
fairness), and `RenameKeepsACopy` (section 6).
