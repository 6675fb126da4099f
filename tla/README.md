# Verification of the storage backend

TLA+ models of the NestJS storage backend in `src/` (a multi-tenant file store on S3 with
document editing, Redis for shared state and BullMQ for background jobs), the TLC
configurations that check them, and theorems about them that TLAPS proves.

The backend runs as several Node processes over three shared stores. Nothing in it is a
transaction: an HTTP request is a chain of `await`s, each a call to S3, Redis or Postgres, and
between any two of them other requests run, keys lapse, or the process dies. The code uses no
conditional writes (no `SET NX`, no `If-Match`, no database transaction around a read and its
write). So the question that every module here asks is the same: *what does a component still
promise when its handlers are cut into their awaits and interleaved, and where does the promise
need the requests to come one at a time?*

Contents

1. The system: components, state, operations
2. How components interact, and what is hard
3. The modules and how they correspond to the code
4. The runs: what each checks, its bounds, its fairness
5. The theorems: what is proved, from what, and how
6. Where the code and its documentation disagree
7. What is only model-checked, and what is not modelled
8. Plan

To repeat the checks, inside this directory: `tlc -config <cfg> <module>` for each run of
`PROJECT.json`, and `tlapm` on each `…_proofs.tla` for the proofs.

---

## 1. The system: components, state, operations

Paths are below `src/src/modules/`. "State" names the store that holds it: **S3** (objects and
their versions), **R** (a Redis key, mostly with a TTL), **PG** (Postgres rows), **Q** (BullMQ).

| component | state | operations that change it | what makes it correct | module |
|---|---|---|---|---|
| Document edit lock `document/document.lock.service.ts` | R `document:lock` (TTL 5 min) | acquire, extend (heartbeat), release, lapse | a grant lasts as long as was answered; only the owner releases; an abandoned lock lapses; one holder at a time (which fails: section 6) | `DocumentLock` ⇒ `ContestedLock` |
| Document content `document/document.service.ts`, `document.content.service.ts` | S3 object with `contenthash` metadata, R save throttle | save, restore a version, upload of the same key | nobody overwrites what he has not seen; nobody writes past somebody else's lock; a restore restores | `DocumentEditing` |
| Document drafts `document/document.draft.service.ts` | R draft, counter, throttle; S3 `.drafts/` backup | auto-save, clear, lapse | cleared drafts stay away; the backup lags by less than N saves | `DocumentDraft` |
| Object versions `cloud/cloud.version.service.ts` | S3 versions of a key | write, clean up, restore, delete a version, purge | the current version survives; retention keeps what it promises and no more; a purge is complete | `CloudVersion` |
| Files `cloud/cloud.object.service.ts`, `cloud.conflict.service.ts`, `cloud.upload.service.ts` | S3 keys and versions | move (files, directories), rename, update, upload, delete, with conflict strategies | nothing is lost on the way; nothing is left twice; strategies mean what they say | `CloudMove` |
| Directories `cloud/cloud.directory.service.ts` | S3 keys, S3 manifests of encrypted / hidden folders, R manifest cache, R unlock / reveal sessions | create, mark, unmark, rename, delete, unlock, lock, reveal, conceal | content stays marked wherever renames take it; a stale cache has a known cause; the token of an unlock is accepted | `FolderManifest` |
| Duplicate scan `cloud/cloud.duplicate.service.ts` | R active lock, status, cancel flag, result per scan; Q job | start, cancel, the worker's phases, failure, crash and re-run | every scan settles; what is announced is what is stored; the owner is not locked out | `DuplicateScan` |
| Usage and limits `cloud/cloud.usage.service.ts`, `cloud.service.ts` | R `cloud:usage` counter | seed, increment, decrement, lapse; checks before and after an upload | the counter is the sum of the objects; uploads are admitted iff they fit | `CloudUsage` |
| Archive jobs `cloud/cloud.archive.service.ts`, `cloud/archive/` | Q jobs, R cancel flags, S3 objects | extract, create, cancel, re-run after a crash | an extraction replaces nothing it was not told to; "complete" means quiet and extracted; each job ends and says so; secured folders stay out of archives | `ArchiveExtract`, `ArchiveCreate`, `JobQueue` ⇒ `ArchiveJobs` |
| Directory jobs `cloud/cloud.directory-job.service.ts` | Q jobs | enqueue, run | as above | `ArchiveJobs` |
| Listing `cloud/cloud.list.service.ts`; the operations of `cloud/cloud.service.ts` around it | R kept listings by key, kept pictures, idempotency keys | list, list by pages, search, fill; change, delete pictures and listings | a page is a slice of what there is; a kept listing is that of the storage | `FileListing` |
| Sessions `authentication/session/` | R session, R index key per session | create, touch, complete the second factor, revoke one / all / others, list, lapse | "all" is all; nothing undoes a verification | `Sessions` |
| Login, second factor, passkeys `authentication/`, `account/`, `user/` | PG user, factor, passkeys; R cached answers, challenges, attempts | login, verify, set up, disable, regenerate, register, reset, change, administrate | cached answers are those of the rows; a code that was shown opens | `Account` |
| Teams `team/` | PG team, members, invitations; R membership, list, detail | create, update, delete, change role, remove, leave, transfer, invite, cancel, accept, decline; the context guard | exactly one owner; the role the guard uses is the member's | `Team` |
| API keys `authentication/api-key/` and public API `api/` | PG key; R cached key, counters, nonces, answers; memory buffer, Mongo log | authenticate, sign, count, check, replay, record, flush; update, rotate, revoke | a revoked key is refused; limits are not reached too early; a kept answer is replayed; no usage entry is lost | `ApiGate` |
| Webhooks `api/services/api-webhook*` | PG webhook, deliveries; R list | update, delete, list, test, attempt, retry | what is settled stays settled; a delivery is given up only after all its tries | `Webhooks` |
| Subscriptions, notifications, audit log, mail, definitions, health, core, CASL, common | PG / Mongo rows, sockets | single saves and reads | — | not modelled (section 7) |

The components that are not modelled are listed in `PROJECT.json` with the reason, component
by component.

## 2. How components interact, and what is hard

* **Requests and Redis.** `RedisService` offers `Get`, `Set` with TTL, `Delete` and deletion by
  pattern. Every lock, throttle, flag and cached copy is built from these, hence a *read*, a
  *decision* and a *write* that are separate steps. A lock can lapse between them.
* **Requests and S3.** The bucket is versioned. An overwrite adds a version, a deletion of an
  object is a listing followed by one `DeleteObject` per version, a move is a copy and such a
  deletion. Copy, listing and each deletion are steps; a listing of more than 1000 entries is
  several.
* **Requests and jobs.** A job gets its input once, reports through a Redis record and reads a
  cancel flag at checkpoints. BullMQ hands a job out again when its worker dies.
* **Documents over files.** A document is an S3 object. The document API knows about lock,
  throttle, hash and draft; the file API, which can replace, move or delete the same object,
  does not.
* **Files over versions.** Uploads, moves and saves all end in `CleanupOldVersions` of the
  target; moves and deletions in `PermanentlyDeleteAllVersions` of the source. Their failures
  are swallowed: the caller is answered as if they had worked.
* **Everything over usage.** Writers tell the usage counter after the fact.
* **Everything over the kept listings.** An operation of `CloudService` checks, changes S3, deletes
  the pictures it spoils, keeps its answer under the idempotency key and then deletes every kept
  listing of the owner; a listing that is being computed meanwhile is kept afterwards.
* **Guards over rows.** Session, membership, API key, "is the second factor on" are read through
  Redis by every request. Who changes a row saves it and then deletes the cached copy; who found
  no copy reads the row and then caches it.
* **TypeORM entities.** A handler finds an entity, checks it, changes it and saves it: all columns
  that differ *from what it found* are written. Two such handlers on one row, or on the rows of
  one team, know nothing of each other.
* **Directories over files.** A rename of a directory moves the objects one by one, and only
  then brings the two manifests up to date.

Hard, therefore, and listed one by one with their lines under "hazards" in `PROJECT.json`:
two requests inside each other's read–write windows (lock, content hash, manifest, counter,
scan lock, membership, session, rate limit), values that are stale when used (listings that a cleanup works from, a cache
filled after it was invalidated, a counter summed up after the change it should count),
processes that die half way (moves, renames, scans), swallowed failures (cleanups, draft
deletions), order (result before status, copy before deletion, event and status of a cancel that
races the end, uploads a job does not await), retries (a delivery that two attempts work on, a
call repeated with its idempotency key), and things that have to happen eventually (a lock that
lapses, a scan that settles, a job that is answered).

## 3. The modules and how they correspond to the code

Common to all modules:

* One *request slot* per concurrent request (`Requests`, `Tasks`). A slot has a program counter
  that names the await the request is at, plus what the handler keeps in local variables. One
  action is the stretch of code from one await that touches shared state to the next, with all
  guards and early returns in it; what the code does after its last await is part of the same
  action.
* `Abort` / `Stop` / `Crash` ends a request between two of its steps: a failed call that throws,
  or a process that dies. What was done stays done. There are no `finally` blocks or
  compensations in the handlers except where a module shows them.
* A TTL is a countdown where its length matters (the lock), and a key that may vanish at any time
  where it does not (throttles, caches, counters, sessions).
* Names, texts and hashes are model values or small numbers; a hash stands for its text.
* Variables called *history* in the modules are not in the code. They record what a property
  speaks about (what a request has seen, what somebody deleted on purpose) and no guard reads
  them.
* Operators commented "Mutant" are plausible faulty versions of a definition of the code. No
  specification uses them. They show that a property can fail: with `of` replaced by `as`, the run
  finds a violation of that property (`PROJECT.json`, "mutants").

### DocumentLock, ContestedLock

`lockHolder` and `lockLeft` are the Redis record and its remaining TTL, `granted[u]` what
user *u* was last told (`ExpiresAt`). `AcquireGet` is the read and the decision of `AcquireLock`
(lines 31–55: free → go on to set, own → the heartbeat path, other → 423), `AcquireSet` the
unconditional `Set`; `Extend*` and `Release*` likewise. `Tick` passes one unit of time for the
key and for every grant. `LoseAnswer` is a `Set` whose answer does not reach the client. Nothing
serialises the requests, in the code or in the model. `contested` is a history: the users whose last write of
the key found a request under way that had read the key before and might still write or delete it.

`ContestedLock` is the lock that the code implements: granted if it is free or one's own, lapsing by
itself, and for the rest of the time only in the hands of *late* users, whose request decided on what
it read before the present tenure. Nobody becomes late during a tenure. It is the abstract specification
`DocumentLock` is measured against (`ImplementsContestedLock`), and what `DocumentEditing` builds on.

### DocumentEditing

`doc` is the S3 object (`text`, and whether its metadata carries the hash), `holder`, `left` and `late`
the lock of `ContestedLock`. A save goes `lock` → `throttle` → `meta` → `write` → `mark`, as
`UpdateContent` does (lines 303–419): 423, 429, 409 are the early returns of the first
three. A restore is `copy` → `reread` → `rewrite`: `CloudVersionService.RestoreVersion`
copies the version over the object, then the document service reads the content back and writes it
again with a fresh hash. `Upload` is the file API writing the same key without a hash.

### DocumentDraft

`draft`, `counter`, `throttled` are the three Redis keys, `backup` the S3 object. A save is
throttle check, throttle mark, set, counter read, counter write, and (every `Interval`-th)
`PersistDraftToS3`. A clear starts three deletions at once (`Promise.all`, line 93), which
`DeleteKey` and `DeleteS3Draft` do in any order. The S3 calls fail silently, as in the code.
Drafts are numbered in the order in which saves are accepted.

### CloudVersion

Versions of one key are numbered by creation; the current one is the newest that is present.
`SweepList`/`SweepDelete` are `CleanupOldVersions` (listing, then one `DeleteObject` per
version, newest first), `Restore*`, `DropCheck`/`Drop` and `BeginPurge`/`PurgeList`/
`PurgeDelete` the other three, with the purge's pages and its marker.

### CloudMove

All keys of one owner, each with the contents of its versions, newest first. `Begin*` are the
handlers, `CheckConflicts` and `CheckDirectory` the conflict service, `NextItem` the loop over the
items with each item's strategy, `Copy`/`Write`/`Touch` the S3 write, `Prune` the
`CleanupOldVersions` of the target, `Purge` the deletion of the source. The calls of
`CleanupOldVersions` and `PermanentlyDeleteAllVersions`, whose inside is `CloudVersion`, are
single steps here.

### FolderManifest

`items` places each object in a directory, `manifest[kind]` is the S3 manifest, `cache[kind]` its
Redis copy, `sessions[kind]` the unlock or reveal sessions. A request first reads the manifest
(`ReadCache`, or `ReadS3` and `FillCache`), then acts on the copy it holds, and saves it
(`PutManifest`, `InvalidateCache`). `Rename` checks the target, moves object by object
(`MoveItem`) and then follows in both manifests (`Follow`).

`sessions[kind][path]` is the token Redis keeps for a path, 0 if none; tokens are numbered as they are
drawn. An unlock keeps its token under the innermost marked folder (`Open`) and, in a second
`Set`, under the path that was asked for (`OpenLater`, `OpenNext`), over whatever was there; a failure
may come between the two. A reveal does so folder by folder (`RevealBelow`). The access check compares the token a client
sends with the session of the marked folder it finds first. `given` is a history: the
unlocks (path and token) that nothing named in `UnlockOpens` has undone. Passphrases are not
modelled; a wrong or missing one is `Refuse`.

### DuplicateScan

Start requests (`StartRead` … `StartEnqueue`), cancel requests (`CancelRead` …
`CancelUnlock`) and the worker (`Take` … `FinishScan`) over the four Redis keys and the queue. The
phases from listing to finalising are one program point, "working", at which the worker reports
progress (`ReportRead`, `ReportWrite`: a read-modify-write of the status record) and looks at the
cancel flag any number of times. `ScanFails` is a throw that `HandleFailure` catches, `HandlerThrows` a throw
of `HandleFailure` itself, which nobody catches. `StartFails` and `CancelFails` end a request between two of its
steps. `Crash` is the death of the process, which is one and the same for the worker and the requests:
all of them end where they are. BullMQ queues a stalled job again up to `MaxStalls` times and then fails
it without running any handler. Histories: `halfCancelled`, the scans a cancel request began to
cancel and did not finish; `abandoned`, the scans whose job ended without its handler.

### CloudUsage

`stored` is the size of each file, `counter` the Redis key. Each handler is the chain of awaits
it has in the code: read or seed the counter (`GetUsage`, `ComputeUsageFromS3`, `Seed`), the check
(`Admit`), the S3 write or deletion (`Write`, `Erase`), the counting (`Count`, `SetUsage`) and, for
uploads, the second check that undoes the upload (`CheckLimit`).

### JobQueue, ArchiveExtract, ArchiveCreate, ArchiveJobs

`JobQueue` is what the three kinds of background jobs share: the state BullMQ keeps of each job,
the worker (`Take`), how a processor ends (`Tell` or `Throw`, then `Clean`, the `finally` that
deletes the cancel flag, then `Settle`), the cancel request (`CancelLook`, then `CancelRemove` or
`CancelFlag`: the state it saw may be over), and `Crash`, after which BullMQ hands active jobs out
again, up to `MaxStalls` times. `files` are the owner's objects with who wrote them.

`ArchiveExtract` is an extraction: `Probe…` and `ListExisting` are `ResolveExtractTarget`, then one
action per archive entry. `Target` and `Stays` are the strategies over the keys that were *seen* at
the listing and those *claimed* since. Uploads are started (`UploadEntry`), fly side by side, land
(`UploadLands`) or fail in any order, and are awaited only when `EntryConcurrency` are in flight,
or at the end; the handlers for ZIP, TAR and RAR differ in when they look at the cancel flag and
in what an entry nobody reads does to the stream. `ArchiveCreate` is a creation: `ReadMarks`, the
expansion of the selection without the secured folders one is not in (`SecureFoldersToExclude`),
packing entry by entry. `ArchiveJobs` composes the two with the directory jobs, one queue each.
Bytes are left out, and so are the formats beyond the differences named.

### FileListing

Objects are numbered in the order in which S3 lists them and lie in the listed directory or in one
of its folders, which are plain, encrypted or hidden. A viewer goes from the kept listing
(`AskListing`) over pages (`FetchList`, `FetchObjects`, `FetchDirectories`, `CountObjects`, …), the
pictures of the folders (`AskPictures` … `Pictured`) to `KeepListing`. A changer is an operation of
`CloudService`: access check (`RefuseChange`), the change, the second limit check of an upload,
`ForgetPictures`, `KeepResult` (the idempotency key), `FindListings`, `ForgetListings`; `Cut` ends it
anywhere. `Expected` is what a listing should be, computed at once: the reference definition.
What a viewer has seen, and the pictures of a folder, are sets of pairs (an object and its version, an
object and its turn): the order is that of S3. A folder list is always `Paged`, since a `Skip` or `Take`
that is not given is 0 (`pagination.model.ts:23-30`); an object list is unless it asks for just the first page
(`Take`). `lateListings` and `latePictures` are histories: what is kept though a change overtook it.
A search stops with the page that reaches its limit (`Scanned`).

### Sessions, Account

`session` and `index` are the two Redis keys of each session of one user, `ends` says how far its
`ExpiresAt` is off. Every Redis call of the session service is an action; a request remembers what
it read (`saw`). `Account` EXTENDS `Sessions` with the ways to a session: login with its two
cached answers (`Ask`, `Look`, `Fill`), registration, second factor with codes, attempts and
backup codes, passkeys with their challenges, password reset and change, the administrator. A
password is a name with the number of times it was hashed, a backup code says whether it has its
dash: the conversions are modelled by what they do.

### Team

`member`, `invitation`, `team` are the rows; `tcache` the three kinds of cached keys. Each request
passes the guard (`TAsk`, `TLook`, `TFill`) and the policies (`Allowed`), reads and checks the rows
(`Read`, `FindTarget`, …) and saves what it has read (`Save`, `RemoveRow`, `Join`). `Fails` is what
the unique pair of team and user does to a save. A handler ends by deleting cached keys one after
the other (`DropKey`).

### ApiGate

A call passes the key (`AskKey` … `Verify`), the signature and its nonce, the quota, the rate limits
(`Compare`, then `Put`: all counters are read and set in two steps), `Replay`, `Run`, and leaves its
answer and its usage entry behind, the latter by an unawaited recorder (`recorder`). Updates and
rotations (`ReadRow`, `SaveKey`) and the revocation (`Revoke`, `DropCopy`) of the key run beside
it, and so do the flush of the usage buffer with failing batches, and time (`Turn`,
`ResultLapses`, `KeyCopyLapses`, `KeyExpires`).

### Webhooks

`hook` and `delivery` are rows, `attempt` what runs in the process: the post, the save of the
delivery and the save of the webhook, each with the entities read before. `ProcessRetry` is the
cron job, `Restart` forgets the attempts. `TestWebhook` is the only way a delivery begins, because
`DispatchEvent` is called by nothing.

### Composition

`DocumentEditing` EXTENDS `ContestedLock`, which `DocumentLock` implements. `CloudMove` uses
`CloudVersion`'s operations as single steps, on the ground of what is proved of them there
(`PurgesAreComplete`, `HistoryIsKept`). `ArchiveJobs` composes extractions, creations and
directories over one queue module and one set of objects; `Account` is `Sessions` with everything
that creates and ends sessions. `FileListing` takes the marks of folders and their sessions as
`FolderManifest` leaves them. `MC…` modules extend a component with TLC's symmetry sets, paths and
workloads; `MCDocuments`, `MCAccess` and `MCCloudUsage` put several components that share no state into one run,
each behaviour being of one of them. `…_proofs` modules extend components with their
theorems: `Documents_proofs` drafts and lock, `Storage_proofs` usage, versions and scans, `Folders_proofs`
directories, `Access_proofs` sessions, account, teams, API keys and webhooks; the other
four have the name of their component.

A *workload* is a choice of what there is at first and of the requests that come, in any order and
interleaving. Where the number of kinds of requests is large (archive jobs, account, team, API,
listing), a run takes its initial states from a set of workloads instead of letting every slot be
any request: each brings requests together that can meet in an interesting way.

## 4. The runs: what each checks, its bounds, its fairness

Eight runs must pass, four must find a violation (section 6). State counts are distinct states.

| run | instance | states | checks |
|---|---|---|---|
| `documents` | drafts: 2 requests, every 2nd save persisted, 4 saves, 2 clears; lock: 3 users, 2 requests, TTL 2; versions: 2 operations, 1 old version kept, pages of 2, 4 versions | 759 k | `ClearedDraftsGo`, `FallbackLags`, `GrantsAreBacked`, `AbandonedLockLapses` (liveness), `ImplementsContestedLock` (refinement), `HistoryKept`, `HistoryBounded`, `PurgeIsComplete`, `CurrentSurvives` |
| `editing` | 2 users, 2 requests, 2 texts, TTL 2 | 340 k | `StaleBaseNeverWrites`, `LockedOutNeverWrites`, `RestoreYieldsVersion` |
| `cloud_move` | 3 directories, 2 names, 2 files at first, 2 requests in all, concurrent | 138 k | `OneCopy`, `NothingLost` |
| `folder_manifest` | 2 folders with a subfolder each, 1 object, 2 slots, 3 requests in turn or 2 that race | 1.37 M | `MarksFollowContent`, `CacheIsFresh`, `UnlockOpens` |
| `scan_outcome` | 2 scans of one owner with their cancels, 1 worker, 1 stall, 2 faults | 626 k | `OutcomeAnnounced`, `EveryScanSettles`, `LockIsReleased` (liveness) |
| `cloud_usage` | usage: 2 files, sizes 1 and 2, limit 2, largest upload 1, 2 slots, 3 requests in turn or 2 that race; listing: 7 objects, 2 folders, 2 viewers, 2 changers, 10 workloads | 522 k | `CountsStorage`, `UploadsFitExactly`, `AnswersAreSlices`, `ListingsAreCurrent`, `PicturesAreDealt` |
| `archive_jobs` | 2 jobs with a cancel each, archives of up to 4 entries, 2 uploads at once, 10 workloads, 1 failure, crash or act of the user | 253 k | `CompleteIsQuiet`, `LeakOnlyByNavigation`, `NothingKnownIsReplaced`, `EveryJobIsAnswered` (liveness) |
| `access` | 3 requests each: 15 workloads of an account, 10 of a team, 6 of the public API, 4 of a webhook with 2 deliveries and 1 fault | 788 k | `LogoutAllLeavesNone`, `VerifiedStaysVerified`, `FlagStaleOnlyIfRaced`, `OneOwnerUnlessOverwritten`, `CachedRoleIsCurrent`, `RevokedKeyIsRefused`, `CountersNeverLead`, `KeptAnswersAreReplayed`, `EntriesKeptUnlessABatchFails`, `SettledStaysSettled`, `GivesUpOnlyAfterRetries` |
| `backup_codes` | as `access` | stops | refutes `BackupCodeOpens` |
| `archive_loss` | as `archive_jobs` | stops | refutes `CompleteMeansExtracted` |
| `lock_race` | 2 users, 2 requests, TTL 2 | stops | refutes `MutualExclusion` |
| `blind_overwrite` | 1 user, 2 requests, 2 texts | stops | refutes `NoBlindOverwrite` |

Each takes two minutes or less with two workers. The type invariants (`LockTypeOK`,
`EditTypeOK`, `DraftTypeOK`, `VersionTypeOK`, `MoveTypeOK`, `FolderTypeOK`, `ScanTypeOK`,
`UsageTypeOK`, `JobsTypeOK`) document the state. They are theorems or parts of an inductive
invariant where section 5 says so, and hold in their runs when they are added to the `.cfg`; the
`.cfg` files list the properties that say something about the code.

### What the properties say, and why they could fail

* **GrantsAreBacked** (and `OnlyOwnerReleases`, which is a theorem) relates what users were *told* to the
  Redis record, over time and with requests that overlap: a grant ends early only if it was contested
  when it was written, by a request that had read the key before, or by a release of the user's own.
  **ImplementsContestedLock** says the same of the lock as a whole. `MutualExclusion` fails (section 6).
* **AbandonedLockLapses**: once a user sends no more requests, the key stops naming him for good,
  whatever the others do.
* **StaleBaseNeverWrites, LockedOutNeverWrites** are what is left of the two checks of a save when
  requests interleave: the base was the document's content, or the document carried no hash to compare
  with, *at some moment of the request*; and so was the lock open (neither need be so when
  it writes: section 6).
* **RestoreYieldsVersion**: the two writes of a restore leave the version asked for, or what
  somebody wrote in between, never a mixture.
* **ClearedDraftsGo**: a draft whose save was over when a clear came does not come back, from Redis
  or S3, though other saves that are in flight put theirs back. **FallbackLags**: the backup
  after undisturbed saves is the draft of the last N-th.
* **CurrentSurvives, HistoryKept, HistoryBounded**: cleanups work from listings that other
  cleanups, restores, deletions and writers make stale; still they never take one of the newest
  `MaxOldVersions + 1` ever created, and a later cleanup makes up for one that failed. They take the current version only if a purge removed a newer one, so that
  what was old when it was listed has become the current one: not before the purge took the newest,
  and not after the next write. The direction of the deletion order matters, and so does that the marker of a
  purge only goes down (**PurgeIsComplete**).
* **NothingLost** (and `CopiedBeforeDeleted`, of which it follows): with crossing moves, renames onto each other and deaths
  anywhere, the last copy of a content goes only if some request was to remove it. The exception
  is `overtaken`: a file that is written between the copy and the deletion of its own move is
  deleted with it. That does happen in the code, and the properties say nothing from then on.
  **OneCopy**: undisturbed requests leave nothing at the old place.
* **MarksFollowContent**: any sequence of marks, renames (with and without replacing), deletions
  and unmarks of nested folders keeps marked content marked, as long as writers do not overlap,
  none dies on the way, and none works on a cached manifest that is not the one in S3. Readers may
  overlap with them: what they may do is fill the cache too late, and that is no excuse until a
  writer uses it. **CacheIsFresh** names, for any overlap, the three ways to such a cache. **UnlockOpens**
  follows the token of each unlock, through further unlocks, reveals, renames and checks, to the session
  the access check compares with; it relates the two different searches for "the" marked folder of a path.
* **OutcomeAnnounced**: when cancels, a completion, failures and a crash race, the status that
  remains is one whose event was sent. Two scans are excepted, because there it is not so in the code
  (section 6): one left CANCELLED by a cancel request that stopped half way, and one whose job ended without its
  handler. **EveryScanSettles, LockIsReleased** hold of half-way cancels, too: a progress report may
  write SCANNING over CANCELLED, but not for ever, and no scan keeps the lock except one whose
  start failed after taking it or whose job ended without its handler.
* **CountsStorage, UploadsFitExactly**: the counter is the sum of the files while requests come one
  at a time, and then an upload is accepted exactly if it fits.
* **AnswersAreSlices** compares the listings, computed page by page with their limits, marks and
  sessions, with a reference definition; only for a viewer nothing changed under. **ListingsAreCurrent**:
  what is *kept* is right whenever all changes are announced, except for keys in `lateListings`, into which
  a listing comes when a change overtook the viewer that filled it, or by one of the changes
  that announce nothing. **PicturesAreDealt**: the pictures of a folder are dealt round-robin over its
  subfolders whatever the pages they come in.
* **NothingKnownIsReplaced**: with copies of copies, entries of one name, uploads that land in any
  order, after the job has failed or in its second run, an extraction that is not to replace changes
  no object that it had seen, and one that keeps both none of its own. **CompleteIsQuiet**: no
  upload is left when the job is announced as complete. **LeakOnlyByNavigation**: an archive
  contains files of an encrypted or hidden folder only if everything selected lies in it.
  **EveryJobIsAnswered**: every queued job ends in a state its user was told of, through cancels at any
  moment, failures and a crash, unless it stalled too often, was removed, or an extraction hangs
  because nobody reads one of its streams.
* **LogoutAllLeavesNone**: "log out everywhere" and a password reset scan index keys that others
  create, delete and outlive; what they miss is only what a request in flight wrote back.
  **VerifiedStaysVerified**: two read-modify-writes of one session record never take the second
  factor back. **FlagStaleOnlyIfRaced**: the cached "factor on", "has a passkey" is wrong only inside the
  window of a writer, or after a fill that a writer overtook.
* **OneOwnerUnlessOverwritten**: transfers, role changes, removals, leaving and joining keep
  exactly one owner as long as no row is saved that changed since it was read; `overwritten` is
  what two concurrent transfers reach. **CachedRoleIsCurrent** is the same kind of statement about the
  membership cache, its warm-up included.
* **RevokedKeyIsRefused**, **CountersNeverLead**, **KeptAnswersAreReplayed**,
  **EntriesKeptUnlessABatchFails**: what non-atomic reads and writes leave of each promise of the
  public API. The counters err to one side only: concurrent calls can be undercounted, but
  nobody is refused before the limit, unless a value read in one window is set in the next.
* **SettledStaysSettled**, **GivesUpOnlyAfterRetries**: the attempts of one delivery may overlap,
  fail to be saved, and be forgotten by a restart.

### Bounds, and why they are enough

* *Two requests or operations at a time* exhibit every conflict between a read and a write of one
  key. Where a conflict needs a third party (a lock that lapses and is taken by another) time and
  expiry are separate actions, so that two suffice. The safety properties have theorems for any
  number (section 5).
* *`MaxOps`, `MaxSaves`, `MaxClears`, `MaxVersions`, `MaxFaults`* bound counters that only a run
  needs. After the bound a request cannot begin; whatever runs goes on to its end, so that no
  property is cut short. `MaxRaced` is a smaller bound for `folder_manifest` and `cloud_usage` once
  writers overlap or work on a stale copy: `MarksFollowContent` and the properties of the usage except such
  runs, so that deep ones only cost time; `CacheIsFresh` and `UnlockOpens` do not, and are proved for any
  number of requests.
* *Interval 2, MaxOldVersions 1, PageSize 2, LockTTL 2* are the smallest values with all cases:
  a save that persists and one that does not; an old version that stays and one that goes; a page
  that is full and a last one that is not; time before, at and after the lapse. With four versions
  a purge takes two pages and the look at the empty one while another operation writes; the theorems say the rest.
* *Two folders with one subfolder each* are what renames can turn into one another, with a mark
  inside a mark; one object is enough, since the objects of a folder do not depend on each other.
* *Workloads* bring together at most three requests, since the races of these parts are between a
  reader, a writer and one more that profits; each set contains every operation at least once. Listings have
  folders with and without placeholder, with images in and below them, more objects than a page
  (`MaxListObjects` 2) and more than is processed or scanned (3, 3).
* *`MaxOutside` 1, `MaxStalls` 1, `MaxFaults` 1*: one failing call, crash or act of the user per
  behaviour, at any point; after a crash every job runs a second time. Two faults multiply the
  states without a new case there: the state after a re-run is one that a first run can be in. In `scan_outcome`
  two faults are needed, and allowed: a second stall ends the job, and a handler throws only after its scan
  did. There, no two cancel requests are under way at once (`MCScanSpec`); one after the
  other, also of one scan, they are.
* *`MaxAttempts` 1, limits 1 and 2, `MaxRetries` 2, `MaxFailures` 2, `BatchSize` 1*: below, at and
  beyond each limit with two or three requests; two batches in one flush.
* *Sizes 1 and 2, limit 2*: below, at and above the limit, and above the largest upload.
* `SYMMETRY` is used over requests, files, directories and names, texts. No run with a
  liveness property uses it.
* `CHECK_DEADLOCK FALSE` is set where the requests of a behaviour are bounded, so that it ends.
  `editing` has no such bound, and deadlock is checked.

### Fairness

* `FairLockSpec`, and `DocumentsSpec` for the lock's part of its run, add weak fairness of `Tick` alone: Redis drops a key when its TTL is over. No
  request is assumed ever to go on.
* `FairScanSpec` (`MCScanSpec` in its run): a start or a cancel that has begun goes on (weak fairness; Node resolves its
  awaits), and so does the worker, whom BullMQ gives the next job. The worker's loop is the one
  place with strong fairness, of "reaches the next checkpoint that ends the loop": a
  scan has finitely many files, so it cannot report progress for ever. Nothing makes a client start
  or cancel. Faults are bounded by `MaxFaults`. A job that stalls more than `MaxStalls` times (BullMQ's
  default is 1) is failed without its handler; nothing then settles its scan, which the properties except by
  name (`abandoned`).
* `FairJobsSpec`: the worker goes on with the jobs it has taken (weak fairness of `Work`), and takes
  waiting jobs again and again whenever a slot is free (strong fairness of `Take`: BullMQ's queue is
  first come, first served, so a slot that keeps getting free reaches every job). Requests,
  cancels and failures are never assumed. An extraction that waits for a stream nobody reads
  (`hung`) has no step left: that is the code's, and the property excepts it.
* The other modules claim no liveness: their requests may stop anywhere, and nothing takes up what
  they left.

## 5. The theorems: what is proved, from what, and how

15 831 proof obligations in eight modules, all checked. "For every instance" means: any sets of users, requests, keys,
any limits and any number of concurrent requests, under the module's own assumption on its
constants (named `…Assumption`). These say that model values differ, that bounds are natural numbers,
that there are finitely many files (`UsageAssumption`), that paths are sequences and a renamed path is a
path (`FolderAssumption`, `PathsAreClosed`, `CreateAssumption`), and what a workload may contain: known
operations and strategies, and, for teams, a team that has one owner if it is there at first
(`AccountAssumption`, `TeamAssumption`, `HookAssumption`, `WorkloadAssumption`), and, for listings, that there are
finitely many objects, that S3 lists a folder's together, and that a search asks for at least one hit
(`ListingAssumption`). TLC evaluates all of them.

| theorem (module) | statement |
|---|---|
| `LockTypeCorrect` (Documents_proofs) | `LockSpec => []LockTypeOK`, any number of concurrent requests |
| `GrantsStayBacked`, `ReleasesSpareSettledLocks`, `LockRefines` (Documents_proofs) | `GrantsAreBacked`, `OnlyOwnerReleases`, `ImplementsContestedLock`, any users, TTL and number of concurrent requests |
| `ClearedDraftsStayAway`, `BackupLagsAnInterval` (Documents_proofs) | `ClearedDraftsGo`, `FallbackLags`, any interval |
| `StaleBasesNeverWrite`, `LockedOutUsersNeverWrite`, `RestoresYieldVersions` (DocumentEditing_proofs) | the three action properties, any number of requests |
| `VersionTypeCorrect`, `CurrentVersionSurvives`, `HistoryIsKept`, `HistoryIsBounded`, `PurgesAreComplete` (Storage_proofs) | types, `CurrentSurvives`, `HistoryKept`, `HistoryBounded`, `PurgeIsComplete`, any page size and retention |
| `CounterIsTrue`, `UploadsFit` (Storage_proofs) | `CountsStorage`, `UploadsFitExactly`, any files, sizes and limits |
| `ScansAnnounce` (Storage_proofs) | `OutcomeAnnounced`, any number of scans, workers and faults |
| `MoveTypeCorrect`, `MovesCopyBeforeTheyDelete`, `MovesLoseNothing`, `MovesLeaveNoCopies` (CloudMove_proofs) | types, `CopiedBeforeDeleted`, `NothingLost`, `OneCopy` |
| `MarksAreKept`, `ManifestsAreFresh`, `UnlockedStaysOpen` (Folders_proofs) | `MarksFollowContent`, `CacheIsFresh`, `UnlockOpens`, any tree of paths |
| `ListingInvariant`, `AnswersAreExpected`, `KeptListingsAreCurrent`, `KeptPicturesAreDealt` (FileListing_proofs) | `ListInv`, `AnswersAreSlices`, `ListingsAreCurrent`, `PicturesAreDealt`, any objects, page sizes, viewers and changers |
| `CompleteJobsAreQuiet`, `NothingSecuredLeaks`, `KnownObjectsStay` (ArchiveJobs_proofs) | `CompleteIsQuiet`, `LeakOnlyByNavigation`, `NothingKnownIsReplaced`, any archives, trees and number of uploads at once |
| `LogoutEverywhereLeavesNone`, `VerificationIsKept`, `CachedAnswersAreTrue` (Access_proofs) | `LogoutAllLeavesNone`, `VerifiedStaysVerified`, `FlagStaleOnlyIfRaced`, any workloads |
| `TeamsHaveOneOwner`, `CachedRolesAreCurrent` (Access_proofs) | `OneOwnerUnlessOverwritten`, `CachedRoleIsCurrent`, any users, invitations and workloads |
| `RevokedKeysAreRefused`, `CountersDoNotLead`, `AnswersAreReplayed`, `EntriesAreKept` (Access_proofs) | `RevokedKeyIsRefused`, `CountersNeverLead`, `KeptAnswersAreReplayed`, `EntriesKeptUnlessABatchFails`, any limits, batch size and number of windows |
| `DeliveriesAreRetried`, `SettledDeliveriesStay` (Access_proofs) | `GivesUpOnlyAfterRetries`, `SettledStaysSettled`, any deliveries, attempts and limits |

**The lock.** `LockInv` adds to `LockTypeOK` and `GrantsAreBacked`

* `Settled`: while a lock stands that was not contested when it was written, every request that is about to
  write or delete the key is its holder's. Overlapping requests come in here: whoever else reads the key
  during that tenure is refused, so a request that acts against it must have read before, and then the
  write that began the tenure was contested;
* `ReleasersHoldNothing`: who asked for a release no longer counts on the lock, unless his last write was
  contested by that release. Without it the delete would break `GrantsAreBacked`.

The refinement maps a write of the key to `Grant`, a release to `Free` or a stutter (the key lapsed), `Tick` to
`Elapse` or a stutter, and a request that ends or is answered to `Withdraw` or a stutter. `late` are the users whose
request is past its read while somebody else holds the key: during a tenure that set only shrinks.

**Editing.** `SeenInv`: who is past the lock check saw the lock open, who is about to write saw his
base or a document without a hash. `seen` only grows while a request runs, and each check takes what it compares from the same
state in which `Observe` records it. `RestoresOnTheirWay`: as long as `"disturbed"` is not
recorded, the document holds the version when the restore looks again, and then the text it is
about to write is that version.

**Drafts.** `DraftIInv`: what a clear is to remove are saves that are over, whatever it has deleted
already is not one of them (`Removed`), and `cleared` consists of saves that are over. The key
fact is that what is over stays over (`EndedGrows`): only a save in flight can write, and it can
only write its own text, so a store that a doomed text has left never holds it again. `FallbackLags` speaks of calm runs, in which
one request at most is at work; `Lagging` says at each of its steps how far the backup is behind what
the counter has counted, and that a save which is to persist stands at a multiple of the interval.

**Versions.** `OnlyOlderGoes`: the newest version ever created is still there or was removed by a purge, and
whatever a cleanup or a `DeleteVersion` is about to remove is older. New versions only make that truer: this is why a stale
listing is harmless as long as no purge takes the newest version, and why it is not when one does. `Retention` says the same in numbers: what a sweep is about to delete was at
least `MaxOldVersions + 1` behind the newest when it was listed, and the distance only grows. It
rests on a lemma that counts the versions newer than one that is in excess. `Bounded` is the converse:
what a cleanup under way leaves, up to the version it is for, is no more than retention allows; so
when it has run to its end that bound holds of what is there, and new versions are above it. `PurgeIsComplete`
needs that a page consists of the newest entries below the marker, and that versions created
during the purge are above it.

**Moves.** `MoveIInv` is `MoveTypeOK`, `Shape` and `CopiedBeforeDeleted`. `Shape` says which
fields a request has at which point (a deletion has no target, an upload no source).
`CopiedBeforeDeleted` is itself nearly inductive: it carries, for every file between its copy and
its deletion, that each content the deletion will take is one it is to remove (`old`), was removed
on purpose, or is kept by a file no move is about to delete it from. Each write extends it
(`GrowKeeps`); each deletion re-establishes it for the other moves, because "kept by a file
that no move is about to delete it from" cannot point at the file that is deleted now. That is the
argument why a chain or a cycle of crossing moves does not lose a file, except when something is
written to a file on its way (`overtaken`). `OneCopy` is about calm runs: `AloneIInv` says that one
request at most is at work, that what is in the bucket is older than the next upload, and that no two
files have the same newest content (`Apart`), save the source a move has copied and is about to purge
(`Leaving`).

**The usage counter.** `exact` is the history of the property: requests that write ran one at a time, and
to their end. `Total` is the number of bytes in the bucket (`Bytes`, a set), so that a write changes it by
the difference of two sizes (`TotalChanges`). While the counter is exact, any number of readers and one
request that writes are at work; the counter, if it is there, is the total but for what that request
has changed and not counted yet (`Due`), and what each has read or measured still holds (`Sure`).
`UploadsFitExactly` is in `Sure` at "accepted" and "refused".

**Scans.** `ScanShape` says of each scan by itself which status it can have where its job, its worker and
its cancel are; the status of a scan that nobody works on any more is one its job announced, or
CANCELLED; and what says CANCELLED comes from a cancel that is still to announce it, has done so, or stopped
half way (`halfCancelled`).

**Folders.** There are three invariants. `FolderInv` says where the writing request is, what it has read and what it is about to write
(`Sure`, `Prepared`), while such requests come one at a time on fresh copies (`clean`); it says nothing of the cache, which readers
may fill with anything. The heart is a rename. While its objects move
and until the manifest of a kind is rewritten (`Pending`), each secured object was under a mark at the place
it came from (`Moved`). That it is under one again afterwards is a fact about paths: objects and
marks that are moved alike stay within one another, also for marks on the way to the renamed
directory (`MoveTogether`); outside of a rename they just are (`Kept`). `CacheIsFresh` holds for any overlap and needs no more than itself: each
step but four leaves the cache alone (`CacheApart`). `UnlockOpens` with the types of the sessions is inductive, too (`SessionInv`). It rests on "within" being a
partial order on paths, the two searches for the marked folder being the outermost and the
innermost of a chain; an unlock that writes over the session of a folder takes what was given within it out of `given`.

**Listings.** `ListInv` has four parts. `Shape`: the fields of the requests. `LookIs` says of each viewer, by the
step it is at, what it has seen, counted and built, in terms of the entries up to the place it has
reached (`Listed`); it says nothing once a change has overtaken the viewer, so that a change only has to be
noticed (`DisturbMoves`), and the steps of a viewer are proved as if nothing else ran.
`ListingsAre` and `PicturesAre`: what is kept is as expected, was kept late, or some changer has still to
delete it (`WillForget`, `WillSpoil`); a changer that looked for the keys too early to find one is no longer such a
changer, and this is why a listing that is kept after that must have been overtaken. The work is in the
lemmas about sets of numbers in order. Pages add up (`NextPage`): a page that is not the last one is full, and what
is listed then is the first so many entries, common prefixes counted once. Of what has been fetched, skip and take choose
what they would of everything (`ChosenIs`). Adding later images to the buckets gives what adding them to all earlier images would,
though those beyond the buckets were dropped (`AddLater`), and with as many groups and images as `Enough`
asks for, images still to come change nothing of what is dealt (`EnoughIsAll`). A search that ran into its limit saw
the first multiple of the page size at or above it (`ScannedIs`).

**Archive jobs.** The invariant speaks of one job at a time (`JobOk`), so that a step of another job matters only
by the objects that one writes. `Life` is what BullMQ's states allow; `Quiet`: who announces that a job is
complete has no upload in flight; `Plan` how the strategy became a mode of resolving names; `Flight` and `Claims`
which keys the uploads in flight may land on: none that was seen at the listing unless the job is to
replace, and, when both are kept, only keys claimed by no other upload and written by this job at
no earlier entry. That leaves out the folder entries of an archive, which claim nothing. The attempt
to prove it without that exemption failed, and TLC has the reason: a folder named twice is written
twice (the second placeholder, empty as the first, takes the key of the first). Leaks: what
is packed was expanded outside of the marks that do not lie above everything selected; this rests on the
common parent being the longest common prefix (`CommonParent`), for which a greatest element of
a bounded set of numbers is needed.

**Sessions and accounts.** `Given` is a session its user was told of. `SessionsInv`: each one has its index key
unless it is gone or somebody is about to end it (`Gone`), so that a scan of the index finds it;
who ends all sessions has each one he had been given behind him or still to do (`Ending`); and what a request has read of the
session it will write back is verified if the session is (`Knows`). `FlagsInv`: a cached answer is that of the row, unless
a fill raced or the request that changed the row is still about to delete the answer; a request that is
about to save, cache or drop knows which answer it is about (`Holds`).

**Webhooks.** `TriesInv`: the tries that a row, saved or held by an attempt, tells of are no more than the posts made and the faults that
happened (`Accounted`), and a row that says FAILED tells of `MaxRetries`. `SettledStaysSettled` needs that
attempts of one delivery do not overlap and no save is lost, the exceptions the property itself makes
(`overlapped`, `faults`): then a saved row is the row that was read.

**Teams.** One owner is not inductive by itself: a request saves what it found several steps ago.
`Informed` says what it still knows then (the member to be given a role was no owner and is
not made one, the old and the new owner are two people and the old one was the owner), `Ownership`
that a team that is not there has no members and no request among them. As long as nothing was
overwritten, a row that is saved *is* the row that was read, so a role change or removal leaves the
owner alone and a transfer moves the ownership. The cached role: `CacheInv` adds to
`CachedRoleIsCurrent` the domain of the cache and the type of the keys still to be deleted. Every
step that changes a role leaves the key among those its request is about to delete
(`RoleChange`); every step that fills a key records whether it was current.

**The public API.** All four rest on `Shape`, the fields of the request records. `CountInv`: a value a
request has read and is about to set was at most what had been counted in the counter's current
life, or was read in an earlier one. `KeyInv`: once a revocation has deleted the cached row, the
row is marked as revoked unless a save undid it, and the cache is empty unless a fill was late;
a call that came later is past the key check only in those two cases. `ReplayInv`: a call is
`known` as long as the answer that was there when it came in has not lapsed, and then `Replay`
does not let it through. `EntryInv`: a batch and
what is behind it make up the entries being flushed (`BatchParts`).

Where a proof attempt changed a model:

* `CloudUsage`: `Measure` was a `CASE` whose guards overlapped, so that TLC evaluated the first and the prover knew
  of none; it is a disjunction now.
* `ArchiveExtract`: `NothingKnownIsReplaced` was false for folders named twice, see above.
* `FileListing`: the pages of pictures advanced the place in the listing from which the rest is counted, so that a
  folder list of several pages could count folders twice. The code has two continuation tokens,
  and so has the model now; a workload that counts on after pictures is among those of `cloud_usage`. The reference
  had a search stop at its limit exactly, and not with the page that reaches it (`Scanned`); and which lists are
  paged followed from `Take` alone, where the code also looks at `Skip` (`Paged`).
* `Webhooks`, `Account`, `ArchiveCreate`, `ArchiveJobs`, `FolderManifest`: what every workload satisfied became
  a named assumption.

## 6. Where the code and its documentation disagree

Four runs look for a violation of one sentence of the documentation, and find it.

| run | sentence | what happens |
|---|---|---|
| `backup_codes` | "use this endpoint to complete authentication with a TOTP code or backup code" (`authentication.controller.ts:124`) | A typed code loses its dash before it is compared with hashes of codes that have theirs (`two-factor.service.ts:172`, `42`): no backup code opens a session. |
| `archive_loss` | "has been extracted successfully" (`cloud.archive.service.ts:874`) | An upload that fails while the handler does not await it is removed from the pending uploads and forgotten; the extraction goes on and is announced as successful. |
| `lock_race` | "If locked by another user, returns 423" (`document.controller.ts:152`) | Two `AcquireLock` requests read the key as absent before either sets it. Both are answered that they hold the lock (`MutualExclusion`). |
| `blind_overwrite` | "If ExpectedContentHash is provided and does not match the current hash, returns 409 Conflict" (`document.controller.ts:104`) | Two saves compare their hash before either writes. Both succeed, the second replaces the first unseen (`NoBlindOverwrite`). |

Two more are found when a property is added to a run (the modules define it):

| property, run | sentence | what happens |
|---|---|---|
| `ClearsOnlyOwnLock` in `scan_outcome` | "the lock clear is compare-and-delete so it can never free a newer scan's lock" (`cloud.duplicate.service.ts:1023`) | The comparison and the deletion are two calls. A start that finds the lock stale takes it in between, and loses it. |
| `FailReplacesNothing` (an INVARIANT) in `cloud_move` | "Default: FAIL (return 409)" (`cloud.model.ts:825`) | One item with a strategy switches the 409 off for all; an item left with FAIL is copied over its target as with REPLACE. |

Observations of the same kind that no run reports, because nothing in the repository promises the
opposite, or because they need no model:

* *Lock.* A release, or a heartbeat, that read the key just before it lapsed deletes or replaces
  the lock of whoever acquired it meanwhile.
* *Editing.* After an upload of the same key through the file API the object carries no hash, and
  the comparison of hashes is off although a client sends one. A restore asks neither the lock nor
  the throttle and does not adjust the usage. The save throttle is set after the write, so
  concurrent saves all pass it.
* *Drafts.* They are not deleted when the file is deleted, moved or uploaded anew through the file
  API: an old draft can shadow a newer document of the same key. The failure of the deletion in S3
  is swallowed although `document.controller.ts:235` promises it. A draft saved between the write
  of `UpdateContent` and its `DeleteDraft` is deleted. When the counter lapses, "every 5th save"
  starts anew.
* *Versions.* A `DeleteVersion` or a cleanup that listed the versions before a purge removed the newest can
  delete the one that has become the current one.
* *Files.* A file that is uploaded while it is moved is deleted with the source (the exception
  `overtaken`). An upload that replaces a file and is then rejected by the second limit check
  deletes the replaced file and its versions, too. `Update` in place adds a version and cleans
  none up. Moving or deleting a marked directory through the *file* endpoints leaves its
  manifest entry behind.
* *Listings.* `InvalidateListCache` is to be called "after any mutation"
  (`cloud.list.service.ts:1075`), and `DeleteVersion` does not call it. The answer is kept under the
  idempotency key before the listings are deleted, so that a retry after a crash in between
  returns at once and leaves them stale; so does a deletion whose later `Find` fails. A session that
  ends deletes no listing. The key of a kept listing holds only *whether* a session token came, so
  that two holders of different tokens read one another's view. `TotalCount` counts everything when
  a page is asked for, and one page of S3 without placeholders when none is; `take` beyond 1000 is
  cut to a page. The pictures of a folder whose name has a dot are looked up without the
  slash at the end, with those of siblings whose name goes on. The pictures do not depend on how
  S3 pages them only because there are no more pictures (`ThumbnailLimit`) than folders they may come
  from (`ThumbnailFolders`), both 4: the loop over the pages ends as soon as every bucket has one.
* *Archives.* An extraction that was run by a team member deletes the listings of the user, not of
  the team. A refused entry whose stream nobody reads stops the extraction for good when the handler
  waits for the stream (`hung`), and with it the queue of that process.
* *Sessions and accounts.* An activity update or a verification in flight writes a revoked session
  back, and no index key leads to it any more. Passwords are hashed by the service and again by
  `UserSubscriber` in a reset and a change, after which the password is not accepted. A flag that
  is cached by a reader whom the writer overtook stays wrong until it lapses.
* *Teams.* Two transfers of one owner leave two owners, and a transfer to a member who is removed
  meanwhile brings the row back. The detail view that is cached shows every reader the role of the first.
* *Public API.* A row read before a revocation and cached after it keeps the key working until
  the cached row lapses; an update or rotation that read the row before undoes the revocation.
  `ExpiresAt` of a cached row is a string, so that the comparison with the time never says that it
  has passed. The counter of a key gets its lifetime anew with each call. Replayed calls are not
  counted in the quota. `FlushBufferToDatabase` re-queues the batch that failed, but not those
  behind it.
* *Webhooks.* `DispatchEvent` is called by nothing. A delivery that is PENDING when the process
  restarts is never tried again. An attempt saves the webhook it read before the post, and
  undoes what the user changed meanwhile. Enabling a webhook does not reset its failures, so that
  one more disables it.
* *Directories.* Two requests that save the same manifest: the last one undoes the other's mark. A
  reader that began before a save can fill the cache with the old manifest after it was
  invalidated; the next writer that works on it writes it back, and a mark is lost. A second unlock replaces
  the token of the first, whose client is refused from then on. An unlock that fails between its two
  `Set`s leaves the innermost folder open and its client without a token. A rename that dies between moving
  and following leaves encrypted content unmarked.
* *Scans.* Two starts that both find the lock free both run. A start that fails after taking the
  lock keeps it until its TTL is over. A cancel after the last checkpoint is answered as if it had
  worked, and the scan completes. A cancel request that stops after setting the flag leaves a scan that
  the worker settles as CANCELLED without an event: `HandleCancellation` takes it that the request has announced it
  (1017–1024). A `HandleFailure` that throws, and a second stall, leave the scan in the status it had; the
  owner is answered 409 until a cancel, or until the lock lapses after six hours.
* *Usage.* Concurrent changes overwrite each other; a change that finds the counter lapsed is
  counted twice; what an upload replaces stays counted; saved drafts and manifests are only counted
  when the counter is seeded. An upload whose counting fails stays, uncounted.
* *List cache.* The document service invalidates `team:<id>` (`document.service.ts:157`, `426`,
  `703`), the listing is cached under `team/<id>`: team listings stay stale after document changes.

## 7. What is only model-checked, and what is not modelled

Only model-checked, on the instances of section 4:

* liveness (`AbandonedLockLapses`, `EveryScanSettles`, `LockIsReleased`, `EveryJobIsAnswered`): the
  proof system has no rules for fairness that its backends could use;
* the type invariants of modules that section 5 does not name (the proofs use what they need of
  the types), and what the recursive definitions of the community modules compute: a fold is
  cited only for what follows from its definition. Induction over the natural numbers is available in the form
  "a non-empty set has a least element", which `ArchiveJobs_proofs` uses.

Abstractions that limit what the modelled parts show:

* *S3* is strongly consistent per key (as AWS documents) and refuses copies from what is gone.
  Multipart uploads are their completion. A listing is one step except in a purge.
* *Paths.* Names have no case mapping, no normalisation and no "/" in a new name; prefixes that
  are also the beginning of another name (`a`, `ab`) do not occur. `KEEP_BOTH` picks any free name.
* *Failures.* A failed call had no effect, except where a lost answer is an action of its own
  (`LoseAnswer`). A dead process does not come back for its request.
* *Keys that never lapse in the model*: those of a duplicate scan (6 to 24 hours, against scans of minutes).
* *One owner, one document, one object, one user, one team, one key, one webhook* per module: no key
  of Redis and no row is shared between them.
* *Redis, S3 and Postgres do not lose what they have*; a cached key may lapse at any time.
* *Passphrases, hashes, pixels, metadata, download links, archive formats* are not modelled;
  the cryptography of passkeys, TOTP codes and signatures is a guess that is right or not.

Not modelled at all, because nothing interleaves in them that the properties of another part could
tell apart: controllers, DTOs and the mapping of metadata; the S3 client; the document diff (one
library call on two texts); CASL (a table of abilities; `Allowed` of `Team` has what the team
routes use); subscriptions and definitions (single rows, saved and read, except that subscribing
ends the current row and saves a new one); notifications, mail and the audit log (written, read by
no decision); geolocation (a lookup no decision rests on); health, core and the framework code.
Left out of modelled components: previews and status requests, download speeds, presigned URLs,
the user's profile and its cached copy, administrative lists.

## 8. Plan

1. **Compositions**: `DocumentEditing` with `DocumentDraft` and `CloudVersion` (a save and all its
   consequences), `CloudMove` with `CloudUsage`.
2. **Subscription**, if two subscriptions at once turn out to matter to a limit.
