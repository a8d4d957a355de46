# Verification of confidential-sync

TLA+ models, TLC runs and TLAPS proofs kept beside the confidential-sync enclave
(Go sources under `src/`). Paths below are relative to `src/internal/`.

## 1. The system

Clients hold content keys (CEKs) and send them with each request. The enclave
(`server/`) seals chats into v2 envelopes and stores the ciphertext in the
*controlplane*, an external service mirrored in memory by
`localstack/stub_cp.go`; attachments, staged import chunks and search index
objects go to a *buckets* sidecar; embeddings come from an inference service.
Several enclave replicas may serve the same user at the same time: they share
nothing but the controlplane and the sidecar.

### Inventory

| Component | State | Operations | What is hard | Correct when |
|---|---|---|---|---|
| Chat sync (`server/ops.go`, `controlplane/client.go`) | none of its own | Push, Pull, Delete, RegisterKey | compare-and-set against other devices, lost and late puts, retries under idempotency keys, lazy rewrap and activity backfill during a pull | no committed write is overwritten unseen; an etag a device holds stands for the content it saw; an acknowledged delete happened |
| Controlplane (`localstack/stub_cp.go`) | blobs with etags, tombstones, source revision, current key, search publication record, attachment index | put, get, delete, list, rewrap, register key, publish index, claim and ack of deletions | atomic wipe and fence | etags and revisions only grow; a fence stops writers of the old key |
| Search coverage (`server/search_ops.go`) | the publication record; per-user lock | inline index after push, cleanup after delete, reindex page, checkpoint | interleaving of replicas, stale snapshots, resumed rebuilds, failures between pages | an index not marked incomplete covers every event up to its revision |
| Search publication and cache (`search_ops.go`, `search_cache.go`) | immutable objects, record, decoded index per process edited in place | load, save, publish, reconcile, best-effort delete, query | lost answers, late requests, crashes, aliasing of cached data | the index is atomic; a query sees persisted contents |
| Reindex jobs (`search_reindex_job.go`, the embedding repair of `search_ops.go`) | one job per user and process | StartOrGet, Cancel, run, retention | superseding, identity recheck after an unlocked question | no two uncancelled rebuilds; every job ends |
| Migration (`ops.go`, `rewrap.go`, `migration_jobs.go`) | one job per user | migrateOne, migrateAll, StartOrGet | three attempts against concurrent writes, cancellation between any two steps | a rewrap never loses a write; a run ends, and reports what it left |
| Attachments and sweepers (`attachment_ops.go`, `rewrap.go`, `attachment_purge_worker.go`, `orphan_reaper.go`) | pending reservations, index rows, bucket objects, purge leases | put, get, delete, promote, purge, reap | partial failure between controlplane and bucket, leases that expire | a referenced attachment is readable; an unreferenced one goes away |
| Fork (`fork_ops.go`) | ids derived from the idempotency key | copy attachments, push, cleanup | replays that share ids with a committed attempt | a committed fork keeps its attachments |
| Import (`import_*.go`) | job with chunks, staging objects, tallies | create, upload, start, run, watchdog, reap, retire | reaper against upload and start, stalls, repeated imports, unclear pushes, keys that change under a run | every run ends; staging data goes away; nothing is imported twice; what is reported as imported is there |
| Inference gate (`search_inference_gate.go`) | limiters per user, slots per user and global, rates | acquire, release, evict | several resources taken in sequence, eviction at the limit | what is taken is given back; limits hold |
| Search index structure (`searchindex/index.go`) | slots, postings, entries | upsert, remove, compact, search | tombstones and compaction | a search finds live entries only |
| Deletion worker, shares, run credentials, envelope, importers, HTTP, auth, local stack | little or none | | | see PROJECT.json |

`PROJECT.json` lists every component with its status, and the hazards, each at
its line, with the properties that cover it.

## 2. Modules

| Module | Contents |
|---|---|
| `SearchCoverage` | chat commits, publication record, inline indexing, delete cleanup, reindex jobs; the coverage properties |
| `SearchCoverageInv` | the inductive invariants of the coverage properties |
| `SearchCoverage_proofs`, `CoverageInv_proofs` | type correctness, no lost update, recreated chats; coverage, checkpoints and deletes |
| `IndexContents`, `AtomicIndex` | the contents of an index version; abstract specification: an index changed by one request at a time |
| `SearchPublication` | the protocol of objects, record, cache and queries that implements `AtomicIndex` |
| `SearchPublication_proofs` | type correctness, the published object, honest answers, the refinement |
| `BlobStore` | the controlplane's row operations: what a put, a rewrap and a backfill accept and store |
| `BlobSync` | devices that push, pull, delete and register keys against `BlobStore`, over a lossy connection |
| `Migration` | the migrate-all job next to the devices of `BlobSync` |
| `Attachments` | upload, promotion, delete, chat push, fork, the sweepers and the purge workers |
| `ImportJobs` | the import coordinator: create, staging, start, reaper, watchdog, retention |
| `ImportRun` | what a run does: legacy parser and worker pool, native restore; the user's edits, deletes and fresh starts |
| `ReindexJobs` | the reindex coordinator and the runner of its jobs |
| `InferenceGate` | user and global slots, rate reservations, eviction of limiters |
| `Migration_proofs` | every safety property of `BlobSync` and `Migration` |
| `Attachments_proofs` | type correctness, no forgotten object, readable references |
| `ImportRun_proofs` | every safety invariant of `ImportJobs` and `ImportRun` |
| `ReindexJobs_proofs`, `InferenceGate_proofs` | one uncancelled rebuild; limits and accounts of the gate |
| `MC...` | the instances for TLC |

`Migration` extends `BlobSync` extends `BlobStore`; `ImportRun` extends
`ImportJobs`. Each of the two pairs is one system in TLC: the migration really
races the devices, and the run really races the coordinator's timers.

### SearchCoverage and the code

* `chat`, `sourceRev`, `curKey`, `pub` are controlplane state. `pub.ix` is the
  index stored under the published object; `pub.inc` and `pub.published` are the
  record's incomplete flag and published source revision.
* `task[w]` is the search part of a push or delete: `IndexRead` and `IndexProbe`
  are one attempt of `indexChatForSearchWithHook` with the hook of
  `indexCurrentChatForSearch`, `DropCheck` and `DropRead` are
  `removeDeletedChatFromSearch`, `TaskPublish` and `TaskConflict` the answer of
  the controlplane and the retry loop.
* `job[j]` is a reindex job. `JobStart` reads the record and a checkpoint,
  `JobList` and `JobFetch` are the `Pull` of a page, `JobRead` is the top of an
  attempt of `searchReindexPage`, `JobProbe` one item of its loop, `JobPublish`
  and `JobConflict` its end.
* `lock[r]` is the per-user mutex of a process.
* An entry's plaintext is identified by the source revision that wrote it, so
  "has the current contents" is an equality of numbers.

Decisions worth knowing:

* The state read and the load of the index are one step: the object is
  immutable, and when it is deleted in between, the generation has moved and the
  publication is rejected. `JobStart` publishes nothing, so there the load may
  fail on its own. Errors of loads and probes end a request
  (`TaskAbandon`, `JobAbort`).
* Accounts without any source revision are left out (`JobStart` and `DeleteMiss`
  ask for one); with revisions present the timestamp fallback of
  `searchEntrySupersedes` is never reached.
* A repeated delete of an absent chat refreshes its tombstone in the stub; the
  listing position of the tombstone is kept instead, since rows of deleted chats
  are skipped by the page fetch.
* The limit of entries of an index (`Upsert` failing) is out of reach of the
  small instances and is not modelled.
* The embedding repair republishes the same coverage and is modelled in
  `SearchPublication`.
* The job coordinator itself is in `ReindexJobs`; here a job just runs.

### SearchPublication and the code

* `rec` is the record, `body` and `present` the sidecar (what was ever stored
  under a name, and which names exist), `flight` publish requests that outlive
  their sender.
* `writer[r]` is the request that holds the exclusive side of the lock:
  `ReadRecord`, `Load` (with the edits up to the next remote call), `Probe`,
  `Save`, then one of `PublishOK`, `PublishConflict`, `PublishUnknown`, then
  `Reconcile` and `Cleanup`.
* `cache[r]` is the decoded index of the process. A writer that loaded through it
  changes it in place; the model changes the cache entry whenever it stands for
  the object the writer loaded.
* `query[d]` is a reader: `SearchQuery`, or `searchIndexNeedsRepair`
  (`fresh`), which drops the cache first. The two loads of a query are two
  readers one after the other.
* `reset` is `Handler.registerKey`: state read, fence, then `resetSearchForUser`.
* The refinement (`Atomic`) maps `value` to the contents stored under the object
  the record names, whether or not the object still exists, and `lost` to its
  absence. A late publish request can name an object its sender has already
  deleted; `AtomicSpec` then still says that nothing but the whole index is lost,
  while `PublishedPresent` is checked without late requests.
* `ProbeFails` is on only where no reader is checked: with it, `QueryHonest` and
  `AtomicSpec` are violated (`publication_cache`).

### BlobSync, Migration and the code

* A content is numbered by the push that wrote it, so "the same plaintext" is an
  equality of numbers. `blob[r]` has the etag, the sealing key, the format (legacy
  or v2), the content and the activity time. `life` counts deletions of a row.
* `op[d]` is the request of a device, `view[d]` what it last saw. A put travels
  through `wire`: it is answered, arrives late, is dropped or refused
  (`PutAnswered`, `PutLate`, `PutDropped`, `PutRefused`). `PutAmbiguous` is the
  loop of `Client.PutBlob`; the device may repeat an unclear push under its
  idempotency key.
* `PullGet`, `PullSeal` and `PullFill` are the read, the lazy rewrap and the
  backfill of `pullOne`, with writes of others in between.
* `DeleteGet` and `DeleteCas` are a round of `Delete`. The retry counter is in the
  idempotency key; the If-Match is in the operation hash.
* `RegisterKey` with `start_fresh` wipes the rows.
* `Remembers`: that the controlplane keeps a table of idempotency keys is an
  assumption. The enclave counts on it (`ops.go:259`), the stub does not have it
  (`stub_cp.go:9`). With it, a repetition of a committed put or delete is answered
  from the table (`Replayed`, `SameKey`); without it, it is judged by its If-Match
  like any other request. No property depends on it: the theorems hold for both,
  `blob_sync` runs with the table, `migration` and `import` without.
* `mig` is the migration job: `NextPage`, `NextRow`, `RowGet`, `RowSeal`,
  `PageEnd` are the loops of `migrateAllWithProgress`, `Migrate` and `migrateOne`;
  `Cancel` is the end of the budget or of the enclave and can come between any
  two of them; `Cooldown` is the controlplane forgetting a recorded failure.
  The job walks every valid scope (`envelope/aad.go:31`), whatever rows it finds
  there. The code ignores an error of the call that records a failure, so a row that
  could not be migrated may or may not enter its cooldown. The look at the context
  (`ops.go:1011`, `RowBlocked`) and the call (`ops.go:1015`, `RecordFailure`) are two
  steps: a run cancelled between them may still put its row into the cooldown, although
  the comment at `ops.go:1007` wants such a row to stay retryable. `mig.cool` is history: the rows whose
  cooldown hid them from the run when it began, which is what a run that reports
  everything done may have left.
* Etags start over at 1 when a row is deleted and created again
  (`stub_cp.go:317`), so a request that read a row in a former life of it may
  match by accident. The properties exclude exactly that case (`life`).

### Attachments and the code

* `obj` is the bucket; `index`, `legacy`, `ledger` and `queue` are the
  controlplane's rows. Ids are pairs of a chat and an image, since ids are derived
  from both: a repeated upload or fork meets the same ids.
* An upload is `Reserve`, `PutObject`, `Register`, and `Rollback` after a refusal;
  a promotion is `Promote`, `PromotePut`, `PromoteRegister`; a delete is `Drop`
  and `DropObject`; a fork is `ForkBegin`, a `ForkCopy` per image (each a nested
  upload), `ForkPush`, and `ForkClean` after a refusal. A purge worker is `Claim`,
  `PurgeDelete`, `PurgeStop`, `PurgeAck` with the lease budget in between.
* Assumed of the controlplane (not in the repository): a reservation is refused
  while the id's queue row is leased and takes a free row out of the queue; the
  orphan sweep hands out no id that is reserved or indexed. Refusing at the
  registration only is not enough: TLC finds a worker that deletes the object of
  an upload that has just been confirmed.
* Uploads that reuse an id a sweeper was handed already are excluded by the
  sweep's windows (`MayUpload`, `MayDelete`); `RacingUploads = TRUE` allows them
  and violates `RefsReadable`.
* Bucket calls that take effect after their timeout are not modelled; deletes by
  the user are modelled for the source chat; one promotion per id runs at a time.
* A refused retry of an upload rolls back the object even when an earlier attempt
  of the same upload, whose answer was lost, had registered it
  (`attachment_ops.go:234`). That leaves an index row without an object; no client
  has a confirmation of it, so no chat references it.
* A delete that fails at the bucket is answered 404 at the index when it is
  repeated, although the comment at `attachment_ops.go:344` counts on the retry.
  `leaked` is the set of objects left that way, and `Accounted` and `Reclaimed`
  except it.

### ImportJobs, ImportRun and the code

* `cur` is the coordinator's map; jobs are numbered. `upl` are chunk handlers
  between `beginChunk` and the answer of buckets, `sweep` chunks a cleanup is
  about to delete. `Reap` is the staging timer, `Retire` the retention timer,
  `Watchdog` cancels a run that does not move (`Wedge`).
* A legacy run is a parser (`Emit`, `ParseEnd`, `LegEnd`) and a worker per
  conversation (`Probe`, `PushChat`, `Check`). A native run handles a project, a
  document and a chat with an image in the order of the code (`NatNext`,
  `Inspect`, `Build`, `PushEntity`, `Verify`, `Clean`).
* A row is ours (with its restore marker), edited (without) or of an earlier
  release, and it has the key it was sealed under. A run goes on with the key it was
  started with; the account may start afresh under a new key meanwhile (`Rotate`).
  What a look finds depends on the key it looks with (`Ours`, `Occupied`): a row that
  does not open counts as occupied (`import_native.go:635`), an unedited copy of the
  same entity included. A chat of the earlier release may be sealed under a lost key,
  which ends a legacy run (`Probe`).
* A push that has no clear outcome may still arrive (`late`). A put is the row, what
  the plaintext says (image, project) and the key, all of which the operation hash
  covers. The idempotency key has less (`IdemKey`): the one of a document names neither
  its project nor the key. With a controlplane that remembers, a document that is
  restored again into another generation of its project is refused, as is every
  entity that is imported again after a fresh start; it counts as failed, and the
  theorems include these cases.
* Images of legacy chats are left out. A project that was edited makes a re-import
  restore a new generation of it, so `NoDuplicate` is about unedited copies in the
  same place. It is about the copies that open under the user's key: of all copies it
  is false (`NoSecondCopy`, `restore_rotation`). And it excepts entities of which the
  user deleted a row (`gone`): a deleted row makes its id free again, so that an
  import restores beside later generations, on purpose or not. Of conversations it
  excepts nothing.
* A restart forgets the jobs; what they had staged is `leaked`.

### ReindexJobs, InferenceGate and the code

* `kick` are handlers in `StartOrGet`: the question whether the index needs a
  repair is asked outside the lock (`ask`), the predecessor is cancelled after it
  (`launch`). A job waits for its predecessor, loads, pages and publishes; pages
  and their embedding calls succeed or fail. What a page does to the index is
  `SearchCoverage`.
* `lim` are the limiters ever made and `tracked` the one in the gate's map per
  user: a call keeps its limiter when it is evicted. A call takes rate, user slot
  and global slot in the order of the code (`held`) and gives them back on every
  way out (`GiveBack`). Time is abstracted: a wait may end at any moment
  (`TimeOut`), and rate tokens may or may not be available.
* Gate and jobs together were tried and are too large for TLC; in `ReindexJobs`
  the gate's answer is nondeterministic, which allows more than the gate does.

## 3. Runs

All runs but `inference_gate` say `CHECK_DEADLOCK FALSE`: clients may stop, and
every counter is bounded, so a run of the model may end. Calls to the gate repeat
for ever, so there a deadlock would be one of the gate.

| Run | Shows |
|---|---|
| `coverage_replicas` | two handlers and a job in three enclaves, with rewraps, lost objects, repeated deletes and failures: `TypeOK`, `NoGhostChat`, `NoLostUpdate` |
| `coverage_two_jobs` | jobs of two enclaves and one handler, two keys with a rotation or a wipe: `NoMissingChat`, `CheckpointSound` |
| `coverage_live` | one enclave, chats recreated under the same id: `ReindexConverges` under `FairSpec`, `DropKeepsRecreated` |
| `publication_atomic` | pushes of two enclaves and a reader, lost answers, requests delivered after their sender gave up, failed writes and deletes, crashes: `QueryHonest`, `AtomicSpec` |
| `publication_objects` | rebuilds (their probes may fail), lexical updates and embedding repairs of two enclaves, a key registration: `TypeOK`, `PublishedPresent` |
| `blob_sync` | two devices on one row, with lost, late, refused and repeated requests and a key registration: `TypeOK`, `NoSilentOverwrite`, `EtagNamesContent`, `DeleteHonest`, `ActivityOfContent` |
| `migration` | a run of the job over two legacy rows, one per page, against a device that pushes and deletes, with failures and cooldowns, cancelled anywhere: `MigrateComplete`, `NoSilentOverwrite`, and `MigrationEnds` under `FairSpec` |
| `attachments` | upload, promotion, delete, push and two attempts of a fork next to the sweepers and two purge workers, one failure anywhere: `TypeOK`, `RefsReadable`, `Accounted`, `Reclaimed` |
| `import` | the same archive, native or legacy, imported twice around failures, lost and late requests, stalls, restarts, and an edit, a delete or a fresh start under a new key: `TypeOK`, `LiveReachable`, `StagedForRun`, `NoDuplicate`, `RestoredReadable`, `Placed`, `ReportedThere`, `StagingReclaimed`, `ImportsEnd` |
| `reindex_jobs` | kickoffs of two tabs with different keys, repairs, a reset and the timers: `TypeOK`, `OneRebuild`, `JobsEnd` |
| `inference_gate` | five callers of three users at a gate that tracks two: `TypeOK`, `UserLimit`, `SlotsAccounted`, no deadlock |
| `coverage_rewrap` | finds a violation, see below |

`NoSilentOverwrite` is in two runs because it is about two kinds of writers: in
`blob_sync` other devices and late puts, in `migration` the rewrap of a job.

### Where code and text disagree

`coverage_rewrap` is the run of the finding in PROJECT.json: a rewrap between
fetch and probe makes a page skip a chat and still complete. The other
configurations below each show a sentence of the repository that the code does
not keep in the case named; run them with the module given
(`tlc -config X.cfg M`), TLC prints the sequence of steps.

| Configuration, module, property | What happens |
|---|---|
| `coverage_lost_object`, MCSearchCoverage, `NoMissingChat` | a first page that finds the index unreadable keeps a published revision above its target, and is declared complete with entries lost (`search_ops.go:1350`; `search_ops.go:140` "anything built on top of it is known-incomplete") |
| `coverage_delete_echo`, MCSearchCoverage, `NoMissingChat` | the answer to a delete of an absent chat carries the revision of another write, and the cleanup advances over it (`search_ops.go:774`) |
| `coverage_drop_race`, MCSearchCoverage, `DropKeepsRecreated` | two enclaves: the cleanup of a delete removes the recreated chat (`search_ops.go:747`; `:729` "without removing a newer generation recreated under the same id") |
| `publication_cache`, MCSearchPublication, `QueryHonest` | a page that fails half way leaves its edits in the cache (`search_ops.go:1316`; `search_cache.go:37` "every mutation is persisted before it is served") |
| `fork_cleanup`, MCAttachments, `RefsReadable` | the first put of a fork commits and its answer is lost, the repetition is refused for a reason of its own (an expired token), and the cleanup deletes the images of the committed fork (`fork_ops.go:134` "Only a definitive rejection proves the row was not written"; the retry is `client.go:404`) |
| `migrate_partial`, MCMigration, `PartialWhenWorkRemains` | a run cancelled in a page that migrated nothing leaves the loop at `ops.go:1152` as complete, although the comment at `ops.go:1036` says that Partial is set when work remains |
| `import_stall`, MCImport, `StallReported` | a native run that the watchdog cancels ends as completed: the failed entities are only counted (`import_native.go:548`; `import_jobs.go:26` "so the failure classifier can report the job as timed out") |
| `restore_late`, MCImport, `RestoredReadable` | the look after an unclear push finds nothing of it and its images are cleaned up, but the push is there or comes: it arrives after the look, or the user edited or deleted the row under the restore (`import_native.go:600`); `RowsMove` is the constant that allows these |
| `restore_rotation`, MCImport, `NoSecondCopy` | a restore that goes on under the old key after a fresh start leaves rows that the next import cannot open; it counts them as occupied and restores the entities once more (`import_native.go:635`) |
| `import_panic`, MCImport, `NoWorkerOutlivesRun` | a panic of the parser ends the job while workers still run (`import_jobs.go:477`, `import_ops.go:123`); without a panic the property says no more than `workers.Wait` |
| `slow_upload`, MCImport, `StagingReclaimed` | a chunk handler that looked up its job before the reaper took it stores its chunk afterwards (`import_jobs.go:130`, `:388`) |
| `reindex_overlap`, ReindexJobs, `RebuildsApart` | a third kickoff cancels the second job, which waits for the first and now ends at once; the third pages beside the first (`search_reindex_job.go:286`; `:256` "Two rebuilds must not interleave writes to the same index object") |

The last five need a long delay, a fresh start during a run, a panic or three
kickoffs in a row; the generation
check keeps interleaved rebuilds apart in the index.

### Bounds

Two chats are enough to tell "my chat" from "another chat"; two handlers and a
job give every pair of writers of the same and of different kinds. `PageSize` is
1 (16 in the code), so that two chats make a rebuild of several pages with a
checkpoint between them. `MaxAttempts` is 2 (3 in the code): the first attempt,
a retry after a conflict, and giving up all occur. `MaxRev` 2 or 3 allows
push, push, delete and push, delete, push of the same chat. `MaxGen` stops new
rebuilds, not work that has begun. `MaxObjects` 3 allows a conflict, its
retry and a publication in between; with the fence the retry can conflict again. `MaxFence` 1 is one
registration against writers before and after it. `MaxEtag` bounds rewraps.
Chats, workers and replicas are symmetric; liveness is checked without symmetry.

`blob_sync` has one row (rows are independent), two devices, two new contents
after the initial one, one delete, one pull, one key registration and two faults:
a lost answer and its retry, or a late put next to one. The attempts of a put (2),
a delete (3) and a migrated row (3) are those of the code. `migration` has two
rows and pages of one, so that there is a page before and after each event, and three
contents (a push that meets the rewrap as a conflict and one that overwrites it).
One run is enough for `MigrationEnds`, since runs follow one another;
`migration_runs.cfg` (module MCMigration, safety only) has a second one, which
meets the cooldowns of the first. Pulls, whose lazy rewrap is another writer, are
in `blob_sync`.
`attachments` has an image of each storage form, two uploads of it (a repetition),
two attempts of a fork, two workers (a lease that passes from one to the other)
and one fault; `Reclaimed` needs no fault to be interesting, and the fault may hit
any call. `import` has one chunk (chunks are independent of each other), a listing that repeats a conversation under
another time, one conversation that an earlier release imported, two generations,
two jobs, two faults and one act of the user: an edit, a delete or a fresh start (`MaxEdits`). `reindex_jobs` has three jobs: a
predecessor of a predecessor exists. `inference_gate` has one slot per user and
two global ones, three users and room for two: every limit is reached.

### Fairness

`SearchCoverage.FairSpec` assumes that a handler or job that can take a step
eventually does (a goroutine is not starved, calls return), that steps which take
the user lock are strongly fair (Go's mutex hands itself to a waiter after a
millisecond), and that a client which is told `needs_reindex` starts a job with
the registered key again and again (`JobStart`, strongly fair: it is re-enabled
whenever a job ends). No fairness is assumed of pushes, deletes and registrations.

`Migration.FairSpec`: the job's goroutine goes on. `Attachments.FairSpec`: running
requests go on (every call has a deadline) and the workers' tickers tick.
`ImportRun.FairSpec`: timers, handlers under way and the run's goroutines go on,
requests on their way arrive or get lost; a wedged run does not go on, only the
watchdog ends it. `ReindexJobs.FairSpec`: goroutines go on, and the budget of a job
runs out (a context with a timeout). Nothing is assumed of clients and users.

## 4. Proofs

The theorems hold for every value of the constants: any sets of chats, rows,
devices, workers, jobs and keys, and any bound. The assumptions on constants are
the named `ASSUME`s of the modules, which TLC evaluates on every run. An
assumption of a theorem beyond those is named below, with the configuration of
section 3 that shows why it is needed.

### Search coverage

* `TypeCorrect`: `Spec => []TypeOK`, including that no writer exceeds
  its attempts.
* `LostUpdateFree`: `Spec => NoLostUpdate` in any environment. The invariant
  (`WritersFresh`): as long as the generation is the one a writer read, the index
  it is about to publish differs from the published one in its own chat at most.
* `RecreatedKept`: `Spec => DropKeepsRecreated` for one enclave (`OneEnclave`), in an
  otherwise unrestricted environment. `coverage_drop_race` is the counterexample
  with two. The invariant (`RecreationInv`): contents are known by the revision that
  wrote them, which precedes every later write (`ContentsWritten`); whoever is
  about to publish or to drop holds the lock of its process (`PublishersLock`);
  hence, when a chat comes back after a cleanup found it gone, the index does not
  have its new contents until that cleanup has ended (`Unindexed`).
* `DeletesHonest`: `Spec => []NoGhostChat` in any environment but one
  (`MissesHarmless`): deletes of absent chats report the revision of another
  write *and* chat ids are used again. Rewraps, unreadable objects, unregistered
  keys, repeated deletes, rotations and failures are all included. The invariant
  (`GhostInv`): an entry labelled at or past the last event of its chat is of a
  live chat (`Vouched`), in the published index, in every snapshot and in every
  half merged page; and the revision a cleanup may advance over is that of its
  own chat, or lies past a delete that is already covered (`EventOf`).
  In the excluded environment the property fails, with three enclaves: a rebuild to
  revision 3 has paged chat d; d is deleted (4); a repeated delete of an absent chat
  c is told 4 and finds c gone; c is created again (5) and indexed; the rebuild
  completes at 3 with d; the cleanup of c then drops c and advances to 4.
* `CoverageInvariant`, and from it `CoverageHonest` (`NoMissingChat`) and
  `CheckpointsSound` (`CheckpointSound`), in an *orderly* environment. Failing chats,
  dying jobs, conflicts, rotations and wipes are all included, and each condition
  of `Orderly` is needed for `NoMissingChat`:
  no rewrap runs (`coverage_rewrap`); the published object is readable
  (`coverage_lost_object`); all clients have one key, or use the registered one
  (otherwise, before a registration, a job with another key cannot read the index,
  and the story of `coverage_lost_object` follows); and where chat ids are used
  again, one enclave serves the user (otherwise the cleanup of
  `coverage_drop_race` drops the chat between two pages of a rebuild and keeps the
  checkpoint) and a delete of an absent chat reports no revision
  (`coverage_delete_echo`).

The argument of `CoverageInv`: whatever an index may claim is *stable*. A chat
changes only at a source revision above every one claimed so far (`ChatGrows`),
so a true claim about events up to some revision stays true while the index
waits in a snapshot, in a checkpoint or in a half merged page. `Labelled` and
`Honest` say that an entry labelled at or past the last event of its chat is the
current one; `Covers` is what "complete up to p" means; `Rebuilt` is what the
pages before a cursor have achieved; `PageOK`, `PageFull` and `MergeOK` carry a
page from its listing through the fetch and the probes; `SnapFresh` ties the
snapshot of a job to the generation it will be published against.
`NoMissingChat` alone is not inductive: it says nothing of the snapshots that
writers are about to publish. The induction is on `CoverageInv` together with
`GhostInv`, which says whose revision a task carries, and, where ids are used
again, with `RecreationInv`, by which a late cleanup drops no entry that counts.
The proof shows that a chat table that grows preserves each part, and then has
one lemma per action. It does not need the job's memory of an earlier failure
(`prior`): a failed page leaves no checkpoint, and the next page of that job then
ends it.

### Search publication

* `PublicationTyped`: `Spec => []TypeOK`, in any environment, together with `Named`:
  nobody knows the name of an object that was not drawn yet.
* `PublishedObjectKept`: `Spec => []PublishedPresent`, assuming `~LatePublish`. A
  publish that takes effect after its sender gave up can name an object that the
  sender deleted. The invariant (`ObjectInv`): an object that may still be published
  is there and known to its writer only (`CandidatesKept`), and what is about to be
  deleted is not published, and will not be again (`DoomedKept`).
* `AnswersPersisted`: `Spec => []QueryHonest`, assuming `~ProbeFails`
  (`publication_cache` is the counterexample). The invariant (`HonestInv`): a cached
  index is what was stored under its name, unless the writer of that process is just
  editing it under the lock, which keeps readers out (`CacheKept`).
* `PublicationAtomic`: `Spec => AtomicSpec`, the refinement of `AtomicIndex`,
  assuming `~ProbeFails`. The invariant (`AtomicInv`) adds that a writer, or a
  request in flight, whose generation is current carries a version that is one
  request away from the published one (`Follows`); every step then is a step of the
  abstract index or changes nothing it shows. Late publishes, lost answers, lost
  objects and crashes are included.

### BlobSync and Migration

`SyncInvariant` is the inductive invariant `Inv`; `MigrationTyped` (`TypeOK`),
`DeletesHonest` (`DeleteHonest`), `ActivityTrue` (`ActivityOfContent`),
`MigrationComplete` (`MigrateComplete`), `OverwritesKnown` (`NoSilentOverwrite`)
and `EtagsTrue` (`EtagNamesContent`) follow from it, with and without a table of
idempotency keys (`Remembers`). They are about the composed system: any
number of devices and rows next to the job. Assumed of the constants: finitely
many rows, each in a scope the job walks.

The heart is `SeenIn`: within one life of a row its etag only goes forward, and
an etag determines the content. What anybody read of a row, in the life they read
it, is therefore either still what the row holds or has a smaller etag, so that a
compare-and-set with it fails. The invariant says this of every view, every put that is
waited for or may still arrive, every pull between its read and its rewrap, every
idempotency record, and the row the job has in hand. `Grows` is the matching fact
about every action: a row moves forward in its life, or its life ends.
`DeletesKept`: a delete under way has noted every absence of its row, those it
caused itself without hearing of it included. `RunKept`, for
`MigrateComplete`: a run in which nothing went wrong has settled the scopes behind it;
of the page in work it counts each row as moved, in hand or still to do; and a page
that the limit did not cut short holds every unsettled row of its scope. Hence
the two exits of the loop, a page that moved nothing or nothing left beyond it,
both mean in such a run that the scope is settled.

### Attachments

`AttachmentInvariant` (`FileInv`), `AttachmentsTyped` (`TypeOK`) and
`ObjectsAccounted` (`Accounted`) assume `~RacingUploads`, the time windows of the
sweepers: an id that a sweeper was handed is not uploaded again meanwhile.
`ReferencesReadable` (`RefsReadable`) also assumes `~ReplayRefused`; `fork_cleanup`
is the counterexample without it. Each part of `FileInv` says who may delete an
object: an upload under way is guarded by its ledger row and nobody deletes its
object (`UploadsKept`); a legacy row is the only trace of its attachment but for
the object of a promotion (`LegacyKept`); a worker deletes only under its lease
and acknowledges only what it deleted (`PurgesKept`); what a client had confirmed
and is still indexed is present and nobody is about to delete it (`ConfirmedKept`,
`SourceKept`; `ForkKept` for the copies of a fork). `ObjectsKept` generalises
`Accounted` by the deletes under way. `TargetKept`: a fork that cleans up, or may
come to, was never committed, so the images a committed fork references stay;
this is the part that a refused replay breaks.

### Imports

`ImportInvariant` (`ImportInv`), and from it `ImportTyped` (`TypeOK`),
`ImportReachable` (`LiveReachable`), `ImportStaged` (`StagedForRun`),
`ImportPlaced` (`Placed`), `ImportNoDuplicate` (`NoDuplicate`), `ImportReported`
(`ReportedThere`) and `ImportReadable` (`RestoredReadable`, assuming `~RowsMove`;
`restore_late`). They hold for any number of fresh starts, with and without a table of
idempotency keys (`Remembers`).

`Kept`, about the coordinator: nothing of a live job is about to be swept, and what it
counts as received is staged. `KeysKept`: no run and no request has a key that is not
registered yet, and a put under the current key that the controlplane remembers is
there, unless the user deleted it; otherwise an answer from the table would not mean
that the row exists. `RowsKept`, for `NoDuplicate`: a row that was written, or that a
late push may still write, was put there for a reason that stays true (`Justified`): an
entity under the current key only after every earlier generation was taken by a row
that this key does not find to be its own, edited or sealed under another key
(`Passed`); a conversation only in the variant its first listing has and only when no
chat of the earlier release was left; a document or chat only beside its project
(`HasProject`). Of entities sealed under a former key nothing is claimed, which is what
`restore_rotation` shows to be necessary. `NatKept` and `LegKept` carry these facts
through the steps of a run, as long as its key is the current one.
`PicsKept`, under `~RowsMove`: a row that opens and has an image, or may still be put
with one, has it stored, and a cleanup has seen that there is no such row and knows of
no request that could still write it; a run under a former key is the only one, so what
it cleans up is of no row under the current key (`PicsApart`).

### Reindex jobs and inference gate

`ReindexTyped` and `ReindexOneRebuild` (`OneRebuild`) rest on `ReindexInv`: a kickoff
between its locked section and its launch is the only one to launch that job, and
the job it replaces is another one.

`GateInvariant` (`GateInv`), `GateTyped`, `GateAccounted` (`SlotsAccounted`) and
`GateLimits` (`UserLimit`): each counter is the cardinality of the set of calls it
counts (`Counted`), what a call holds follows from where it is (`PhaseOf`), and a
limiter that a call uses is still the tracked one of its user (`Current`), since
eviction takes only limiters without calls. Without `Current`, `UserLimit` would
be true of each limiter and false of the user.

### Only model-checked

Every safety property of the runs is stated by a theorem. Out of the prover's
reach, and left to TLC, are liveness under fairness (`ReindexConverges`,
`MigrationEnds`, `Reclaimed`, `StagingReclaimed`, `ImportsEnd`, `JobsEnd`), ENABLED,
and induction over data.

## 5. Not modelled

* Cryptography, encodings and authentication: a load succeeds exactly with the
  sealing key, a request is one of the user's.
* The inverted index (`searchindex/index.go` below its entries): slots, postings,
  compaction and ranking are sequential code on one value. The limit of entries of
  an index is out of reach of small instances.
* Chunking and embedding vectors beyond present or pending; the embedding repair's
  match by etag (`search_ops.go:1127`).
* The search deletion worker (its queue is the controlplane's), shares and bundles
  (a stateless seal and open), run credentials.
* The parsers of foreign exports, and the cache of chunks of a staged archive
  (`import_archive.go:82`): functions of bytes. The restore of legacy images.
* HTTP routing, configuration, process entry points, the local stack.
* Late effects of bucket calls that timed out.

## 6. Plan

1. Done: `SearchCoverage` with proofs; `SearchPublication` refining `AtomicIndex`.
2. Done: `BlobSync` with `Migration`, `Attachments` with forks and sweepers,
   `ImportJobs` with `ImportRun`, `ReindexJobs`, `InferenceGate`.
3. Done: proofs of the safety properties of `InferenceGate`, `ReindexJobs`,
   `ImportJobs` and `ImportRun`, `BlobSync` and `Migration`, `Attachments`.
4. Done: proofs of `SearchPublication` with its refinement, of
   `DropKeepsRecreated`, and of the coverage properties under conditions each of which is needed.
5. Later: etags in the index entries, so that the embedding repair's match can be
   checked; slots and compaction of the inverted index against a reference.
