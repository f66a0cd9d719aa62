# Verification of Vaulx: TLA+ specifications, TLC checks, TLAPS proofs

Vaulx is a small team file vault: a Go HTTP server that keeps metadata in
PostgreSQL (`internal/db`, generated by sqlc), the bytes in an S3 bucket
(`internal/storage`) and renders HTML with htmx (`web/templates`). Two kinds of
background loops run inside the server process: one prepares zip archives of
folders, one makes thumbnails.

There is one server process, and no SQL statement of the server runs inside a
transaction with another: every handler and every loop is a sequence of single
statements and single bucket calls, and anything can happen between two of
them. That is what the modules here are about. **One SQL statement, or one
call to the bucket, is one step.**

## 1. Inventory

| Component (source) | State | Operations | Talks to | What is hard |
|---|---|---|---|---|
| Prepared-zip worker (`internal/zipjobs/worker.go`) | `zip_jobs` rows, `zips/` objects, locals of the loops | `RecoverStale`, `Start`, `RunOnce`, `run`, `fail`, `CleanupExpired` | table, bucket, zip builder | several loops and an hourly sweep on one table; kills between two steps; a failed mark; the folder deleted meanwhile |
| Prepared-zip requests (`internal/handler/zip.go`) | none of its own; the fragment in the browser | `prepare`, `status`, `findJob`, the shared variants, `StreamZip` | table, folder listing, worker through the table | find-then-create; a snapshot that is compared later; polling |
| Zip builder (`internal/zipbuild/zipbuild.go`) | writer position, names seen | `Build`, `dedupe` | fetches objects, writes a pipe | an error in the middle must never look like a whole archive; names that collide with names made unique |
| Thumbnail worker (`internal/thumbnail/worker.go`) | `thumb_*` columns of `files`, `thumbs/` objects | `RecoverStale`, `Start`, `RunOnce`, `run`, `fail` | table, bucket | the same claims and kills, on rows that handlers delete |
| Thumbnail backfill (`cmd/thumbnail-backfill`) | a listing taken at its start | `main`, `process` | same rows and objects, from another process | its listing grows stale while the worker works |
| File lifecycle (`handler/files.go`, `bulk.go`, `admin.go`) | `files.status`, original objects | soft and permanent delete, bulk delete and move, restore, rename, move | thumbnails, shares, zip fingerprints | bucket and row change in separate steps; check-then-act |
| Uploads (`handler/upload.go`, `multipart.go`, `web/static/upload.js`) | pending rows, multipart uploads in the bucket | create, list parts, presign, abort, complete; init, confirm | bucket, files table, audit | the client drives it and may vanish, retry or resume |
| Folders (`db/folders.sql.go`) | `folders` rows | create, rename, delete with cascades | everything keyed by folder | `ON DELETE CASCADE` and `SET NULL` behind everybody's back |
| Shares (`handler/share.go`) | `shares` rows, view counts | get-or-create, resolve, count, revoke, folder tree check | files, folders | get-or-create, check-then-increment |
| Permissions (`handler/permission.go`) | `permissions` rows, on files and folders | grant (upsert), revoke | listings, previews, folder pages | rows outlive what they are about; revoking by an id on a page |
| Listings, pages and cards (`handler/files.go`, `db/pagination.sql.go`, `viewmodel`, `web/templates`) | none; the page in the browser | list, search, breadcrumbs, paginate, offer actions | folders, files, permissions | a page is several statements, the next page is cut from another listing, the card decides by other rules than the handler |
| Downloads and previews (`handler/download.go`, `files.go`) | none | check, sign a link | permissions, bucket | |
| Sessions and accounts (`auth`, `handler/auth.go`, `profile.go`, `admin.go`, `seed`) | users, cookies | log in, change, deactivate, seed the admin | everything | a session keeps the role it began with; two-statement updates |
| Audit log (`db/audit.sql.go`) | `audit_logs` rows | append | all handlers | errors are dropped, rows follow the act |
| Storage wrapper (`internal/storage`) | clients | put, get, delete, multipart, presign | S3 | calls fail half way |
| Wiring (`cmd/server/main.go`) | | recovery, loops, listener | all | order at start; no graceful stop |

Correctness, by component, in a sentence each: *zip worker* - an offered archive
exists and is stable, jobs are built once, and each settles, whatever is killed;
*zip requests* - the clicks of one tab archive a folder once, a tab gets the
archive of the folder as it is; *zip builder* - all entries or an error, no two
with one name, nobody left waiting; *thumbnails* - a file that says it has one
has one, each image is made once; *files and uploads* - an active file has its
bytes, a permanently deleted one leaves no object; *shares* - only what is in
the shared folder is served, a link works until it is revoked, expires or loses
its target, and there is one per item; *folders, listings and permissions* - an
admin can reach everything, pages offer what handlers allow, what is revoked is
gone, whoever pages to the end has seen everything; *sessions and accounts* -
log-ins are answered truthfully, a session has a role its account was given, a
log-out lasts, the servers come up with an admin; *audit* - what is logged
happened.

Modules and who composes whom:

| Module | Models | Abstract specification | Proofs |
|---|---|---|---|
| `ZipJobs` | jobs, loops, sweep, tabs | `ArchivePromise` | `ZipJobsProofs` |
| `ZipBuild` | one archive, what `Upload` of `ZipJobs` is inside | `WholeArchive` | `ZipBuildProofs` |
| `Thumbnails` | thumbnails, backfill, permanent deletion | | `ThumbnailsProofs` |
| `FileLifecycle` | uploads, trash, deletion, audit | `FilePromise` | `FileLifecycleProofs` |
| `Shares` | public links | | `SharesProofs` |
| `Browsing` | one session's pages and clicks among others' | | `BrowsingProofs` |
| `Paging` | walks through long listings | | `PagingProofs` |
| `Accounts` | booting, sessions, accounts | | `AccountsProofs` |

Each `MC` module gives the constants of its namesake values for TLC.

## 2. Prepared archives: `ZipJobs`

### How it corresponds to the code

| Model | Code |
|---|---|
| `status`, `row` | the `zip_jobs` columns; `"none"` is a row not yet inserted, `"gone"` one that the cascade from `folders` removed |
| `stored`, `archive` | the `zips/<id>.zip` objects and what is in them |
| `folders`, `fstatus`, `at`, `born` | `folders`, and `status`, `folder_id`, `created_at` of `files` |
| `wpc`, `wjob`, `entries` | where a claim loop of `Worker.Start` is in `run`, its job, and the listing it archives |
| `sweep`, `reaped` | the loop of `CleanupExpired`: rows listed, and the one whose object is deleted and whose row is not marked yet |
| `cpc`, `page`, `seen`, `chip` | per browser tab: the request in flight, the folder shown, the listing `findJob` made, the status fragment |
| `clock`, `horizon` | `NOW()`; the timestamps more than 24 hours old |
| `blind`, `asks` | history: tabs whose last look for a job met a database error; the jobs a tab has inserted because it found none |
| `up` | the server process |

Actions of the loops: `Claim` and `SetRunning` (the subquery of
`ClaimNextPendingZipJob` that locks a row, and its update), `ListEntries`,
`Upload`, `MarkReady`, `MarkFailed`. Of the sweep: `ListExpired`,
`DeleteArchive` or `DeleteFails`, `MarkExpired`. Of a tab: `Browse`,
`ClickPrepare` or `Poll` (the listing), then `FindJob`, `FindNothing`, or
`NeedJob` and `CreateZipJob`; `LookupFails` when the query for a job fails, which
`findJob` takes for "no such job" (`zip.go:205-211`); `RequestFails`, a 500, when
another statement does. Around them
`CreateFile`, `CompleteUpload`, `MoveFile`, `DeleteFolder` change what is
listed, `Crash`, `Restart` (which is `RecoverStale` before anything else runs)
and `Tick`.

Abstractions, each with its reason:

- A soft delete and a restore change which files a folder lists and keep
  `created_at`: to this component they are a move to `Root` and back.
- An object that is permanently deleted while an archive is built makes the
  build fail: that is one of the reasons for `Upload` to fail (`"bucket"`).
  The pipe between builder and uploader yields the whole archive or an error
  here; that it does is checked in `ZipBuild` (section 5).
- A claim is two steps, because `FOR UPDATE SKIP LOCKED` lets two loops claim
  at the same time; the deletion of a folder waits for the locked row. Jobs
  are locked oldest first, but a claim that fails after another loop has
  skipped its row leaves the older job waiting, so no order of starting is
  claimed as a property.
- `created_at` values are distinct. A `files.created_at` equal to a job's is
  not.
- `expires_at` is `NOW()` plus 24 hours, set by `MarkZipJobReady`: the row
  keeps the moment of the mark and `horizon` says what is older than a day.
  `Tick` moves it to the next such moment; values between two tell no row from
  another. The instant where `expires_at` equals `NOW()` is not modelled.
- Names and paths are not state; a fingerprint is a count and a sum of sizes,
  as in the code.
- `Job` bounds the jobs ever created. When ids run out, `CreateZipJob` is a
  failed request.
- The start state is a freshly started server with any files already active.

The constants `Faults` and `Edits` switch on what may go wrong and how folders
may change, so a run names what its property needs (`"look"` is the database error of
`findJob`'s query, `"db"` that of every other statement). The proofs hold for every
value of both.

### The promise: `ArchivePromise`

One archive, with no tables, loops or sweeps: asked for, begun, stored, offered,
over. `Offer` needs the object, `Discard` needs the job to be over, and
nothing leaves "over". `ZipJobs!KeepsPromise` is `Promise!Spec` under the
refinement mapping `PromisedPhase`: pending is queued, running is building,
ready and not expired is offered, everything else is over. A restart, a folder
deletion and the end of a day are each one `GiveUp` of several jobs at once.

### The runs

All use folder `d1` and, where named, its subfolder `d2`.

| Run | Instance | Properties | Shows |
|---|---|---|---|
| `zip_faults` | 2 folders, 1 file, 2 jobs, 2 loops, 1 tab; all faults; folder deletion | `ReadyHasArchive`, `ExclusiveBuild`, `ArchiveStable`, `KeepsPromise` | safety under kills, database and bucket errors and cascades |
| `zip_uploads` | 1 folder, 2 files of one size, 2 jobs, 1 loop, 1 tab; uploads; looks that fail | `OneJobPerTab`, `ServedIsCurrent`, `ReadyShown` | repeated clicks add no job; while files only arrive, a tab never gets a stale archive nor loses the one it waited for |
| `zip_live` | 1 folder, 1 file, 2 jobs, 1 loop, 1 tab; bucket errors and kills; moves | `RunningIsBuilt`, `JobsSettle`, `PollingEnds`, `OffersReclaimed` | recovery and progress |
| `zip_stale` | as `zip_uploads`, and moves; no faults | `ServedMatches` | violated: see below |

Why the bounds are enough. Two jobs and two loops are what claims, order and
exclusiveness can go wrong with; the proofs remove these bounds for the safety
properties. Two folders make a cascade reach a subfolder's job. Two files of
the same size are the smallest instance in which a fingerprint confuses two
different contents. With a second tab `zip_uploads` takes too long for a run of the
project; with two tabs and one file it holds as well (4 million states), and the
three properties are proved for any number of tabs.
Symmetry is used only where no liveness is checked (here, and of requests in
`files_bulk`). The files of `zip_live` move
because a move is the only edit that can take a finished archive's snapshot
away and bring it back while a tab waits.

### Fairness

Weak fairness of each claim loop and each request: goroutines are scheduled,
and every call the code makes returns. Weak fairness of the sweep: a ticker
starts it every hour. Strong fairness of `Poll`: the fragment's timer fires
every 3 seconds whatever else the tab does. Strong fairness of `DeleteArchive`:
each sweep retries what an earlier one could not delete, and a bucket does not
fail for ever. Weak fairness of `Restart` (the container's restart policy) and
of `Tick` (a day passes). Nothing is assumed of clicks, edits, faults. The
liveness properties have `StaysUp` as their premise: a process that is killed
again and again need never finish a job. Database faults are off in
`zip_live`, for the reason under "Known behaviour" below. `OffersReclaimed` is about
archives that were offered: one that was stored and never offered is not reclaimed
(there as well).

### What the runs found

**Stale archive** (`zip_stale`). `findJob` compares the folder with the counts
that `prepare` took before its INSERT; what the worker lists later, and archives,
is compared with nothing. So a file that moves out before the worker's listing
and back again after it (or in and out again) leaves count, bytes and newest
`created_at` as the row has them, and an archive without that file (or with it)
is offered, although the comment says "a ready one whose snapshot still matches
the folder contents" (`zip.go:197`). `ServedMatches` is stated so that no change
during the request that makes the offer can violate it: it looks at files that
the folder had both when the request listed it and when it answers, or at neither
time. In the same way a file that is replaced, after the archive was built, by
another of the same size that is older than the job goes unnoticed; the design
document (`2026-07-08-folder-zip-download-design.md:59`) would compare deletions
as well.

Known behaviour without a run of its own:

- `prepare` (`zip.go:214-234`) looks and then inserts; nothing makes that one
  step, so two tabs that click together insert two jobs and the folder is
  archived twice. The design document says "job dedupe already collapses
  repeat clicks" (`:64`), and for the clicks of one tab it does: `OneJobPerTab`.
- `findJob` drops the error of its query (`zip.go:205-211`): a `prepare` that
  meets a database error there inserts a second job although the tab's first is in
  flight, and a poll empties the slot although the archive is ready, and stops
  polling. `OneJobPerTab` does not count such an insert (`asks`, `blind`), and
  `ReadyShown` excepts such a poll (`blind`).
- `GetReusableZipJob` does not return failed rows, so the poll after a failure
  renders the empty slot and the `"failed"` case of `renderJobStatus` is never
  reached; the design document (`:68`) promises an error message.
- The cascade of a folder deletion drops the job rows, and with them the only
  record of their archives in the bucket.
- A folder without files gets an archive that is never offered: the newest
  `created_at` of nothing is NULL and no comparison with NULL holds. The tab's
  slot goes blank and another click builds another archive. `ReadyShown`
  therefore speaks of folders with files.
- A kill between `Upload` and `MarkZipJobReady` leaves an object no sweep
  lists, because recovery makes its row `failed`. `OffersReclaimed` is about
  archives that were offered.
- If `MarkZipJobReady` or `MarkZipJobFailed` fails, the row says `running`
  until the next restart, and every `prepare` of the folder finds it and shows
  "Preparing". `JobsSettle` is false with `"db"` among the faults.
- The offer says "expires in 24h", of the archive; the link itself is signed
  for 15 minutes (`storage/presign.go`).
- A share that is revoked while its page polls: the poll is a 404, which htmx
  does not swap, and the fragment goes on polling.

### The proofs: `ZipJobsProofs`

TLAPS checks these for any set of folders, files, jobs, loops and tabs, and but
for what the table says any faults and any edits, from the named assumptions of
`ZipJobs` (`FolderAssumption`: `Below` is reflexive and transitive;
`JobAssumption`; `FileAssumption`: file ids are UUIDs, of which there are finitely
many; `SwitchAssumption`), which TLC evaluates on each instance.

| Theorem | States |
|---|---|
| `TypeCorrect` | `Spec => []TypeOK` |
| `InductiveHolds` | `Spec => []Inductive` |
| `ReadyJobsHaveArchives` | `Spec => []ReadyHasArchive` |
| `BuildsAreExclusive` | `Spec => []ExclusiveBuild` |
| `RunningJobsAreBuilt` | `Spec => []RunningIsBuilt` |
| `OffersAreStable` | `Spec => ArchiveStable` |
| `OffersAreHeld` | `Promise!Spec => []Promise!OfferHeld`: what the promise is for |
| `PromiseKept` | `Spec => KeepsPromise`: `ZipJobs` implements `ArchivePromise` |
| `RepeatClicksCollapse` | `Spec => []OneJobPerTab` |
| `ServedArchivesAreCurrent` | for `Edits \subseteq {"upload"}`, `Spec => ServedIsCurrent` |
| `AwaitedArchivesAreShown` | for `Edits \subseteq {"upload"}`, `Spec => ReadyShown` |

`ReadyHasArchive` is not inductive: nothing in it forbids a loop about to mark a
job whose object is not there, or a sweep holding a job that is still offered.
`Inductive` adds `MarkedIsStored` (a loop about to mark a *running* job has
stored its archive), `SweepIsOver` (what the sweep holds is expired, failed or
gone, and none of these can become offered again), `ExclusiveBuild` (or another
loop, a restart or the sweep could take the row in between), `DownIsIdle` (a
restart moves only rows nobody works on) and `TimeOrder` (`expires` is in the
past of the clock, so a fresh mark is beyond the horizon). Most actions touch
none of this: `StepCases` splits a step into those that do and a `Quiet` rest,
and the preservation proof has a step for each of those and a sub-step per
conjunct.

The refinement proof shows that each step is a step of the promise or leaves
`<<phase, held>>` alone; `GivingUp` (several jobs at once) and
`MovingOn` (one job) are the two ways a phase changes.

`OneJobPerTab` is about the moment of the insert, and the tab decided at its look.
`AskedOnce` says what holds in between: a tab that looked, saw no job and is about
to insert has none of its own in flight. Others may insert meanwhile, and do not
matter, because `asks` keeps each tab's jobs apart; jobs of this tab can only
settle (`FewerAskedOnce`), because only its own request can add one.

`ServedIsCurrent` and `ReadyShown` compare counts, so their proof is about what
counts cannot tell. `Current` says of every job that there is a set of files,
what its tab had listed (`Snapshot`), which has the fingerprint of the row, is
older than the row, is still in the folder, is in what the loop has listed and
stored, and is comparable to every listing of the folder that a request holds: of
two listings of a folder that only grows, one has all the other has. Sets of
which one contains the other and which have as many elements are equal
(`SameFiles`), so what was asked for, what is offered and what is there now are
the same files. `Waiting` ties a tab that polls to a job of its folder. `Built` says
in one formula what the loops, the sweep, a restart and time may do to this, so
that each of their steps needs to be looked at once. The run `zip_stale` shows
that the premise on `Edits` is needed: when files leave as well, two listings need
not be comparable. The number of tabs does not matter, nor do faults other than
the look of the poll itself, which the run `zip_uploads` could not show.

All liveness stays with TLC; the violated property is, of course, not provable.

## 3. Thumbnails: `Thumbnails`

### How it corresponds to the code

| Model | Code |
|---|---|
| `status`, `thumb`, `linked` | `status`, `thumb_status` and whether `thumb_s3_key` is set, of the `files` rows; as in `FileLifecycle` |
| `originals`, `thumbs` | the objects under `s3_key` and under the key `ThumbKey` makes of the id |
| `pc`, `job` | where a claim loop of `Worker.Start`, or the backfill command, is, and its file |
| `listed` | what a backfill has listed and not come to yet |
| `apc`, `victim`, `knew` | a permanent deletion: its step, the file, and whether the row it read had a `thumb_s3_key` |
| `up` | the server process |
| `doomed` | history: files whose permanent deletion has begun |

A loop does `Pick` and `Claim` (the subquery of `ClaimPendingThumbnail` and its
update), then, like a backfill, `Fetch`, `Upload`, and `MarkReady` or
`MarkFailed`. A backfill starts with `List` and takes `NextListed` until none
is left; `Kill` interrupts it anywhere. A deletion is `ReadVictim`,
`DeleteOriginal`, `DeleteThumb` when the row had a key, `HardDelete`. `Crash`
takes the loops and requests of the server, not the backfill, and `Restart` is
`RecoverStale` before anything else.

Abstractions:

- `ClaimPendingThumbnail` has no `SKIP LOCKED` and locks nothing when it
  selects; PostgreSQL evaluates the outer condition again on the row as it then
  is. That condition is `thumb_status = 'none'`, not `status = 'active'`, and
  so is the guard of `Claim`.
- An image that cannot be decoded is a `Fetch` that fails; it comes with the
  fault `"bucket"`, like every other reason why a thumbnail cannot be made.
- The file is a raster image: the statements select no other.
- Two backfill runs that overlap are two members of `Batch`.
- An upload is the row, the bytes and the row again (`Register`, `Arrive`,
  `Activate`): its requests, retries and failures are in `FileLifecycle`, and
  the statements of this component see active rows only. `Activate` is
  `UpdateFileSizeAndStatus`, which looks at no status: once the bytes have been put
  together it also takes a file out of the trash (a completion that is repeated, section 4).
- Bulk and single permanent deletion do the same to one file, in the order
  original, thumbnail, row.

### The runs

| Run | Instance | Properties | Shows |
|---|---|---|---|
| `thumb_live` | 1 file, 2 loops, 2 backfills, 1 deletion; bucket errors, kills | `ReadyHasThumb`, `ExclusiveClaim`, `PendingIsMade`, `ReadyStays`, `ThumbsSettle` | safety and progress of one image against everybody |

One file is enough: a maker holds one file at a time and looks at
another only when it picks, and the safety properties are proved for any
number of files. `StaysUp` is the premise of `ThumbsSettle`, as for jobs.
With database errors on, a failed mark leaves a row pending until the next
restart: `PendingIsMade` excepts them by name, and they are off in `thumb_live`.

Fairness: weak, of each loop, of a started backfill, of the requests in flight
and of `Restart`. Nobody has to start a backfill, a deletion or an upload.

Known behaviour without a run of its own:

- A permanent deletion that reads the row while a loop is making its thumbnail
  finds no key, removes the original and the row, and leaves the thumbnail the
  loop has stored or is about to store; the mark updates no row.
  `bulk.go:86-88` says a permanent deletion "removes the original and its
  thumbnail from storage". Nothing lists `thumbs/` objects without a row.
- The backfill is documented to skip "files that already have a thumbnail"
  (`cmd/thumbnail-backfill/main.go:7`), but it decides by the listing it made
  at its start. A file that the server has thumbnailed since is made
  again, and if that fails the ready row says "failed" until the next restart
  makes it again. `ReadyStays` speaks of servers without a backfill.
- A permanent deletion that ends between its object and its row (a kill, a
  database error) leaves a row that names no object. `ReadyHasThumb` excepts
  such files by `doomed`.

### The proofs: `ThumbnailsProofs`

For any number of files, loops, backfills and deletions and any faults, from
`ThumbnailAssumption`: `TypeCorrect`, `InductiveHolds`, `ReadyFilesHaveThumbs`,
`ClaimsAreExclusive`, `PendingThumbsAreMade` (`Spec => []` of `TypeOK`,
`Inductive`, `ReadyHasThumb`, `ExclusiveClaim`, `PendingIsMade`) and
`ReadyThumbsStay` (`Spec => ReadyStays`).

None of the three invariants is inductive alone. `MarkHasThumb` says that nobody
is about to mark a file whose thumbnail is not there (this needs
`VictimsAreDoomed`, since only a deletion takes a thumbnail away);
`ExclusiveClaim` carries its second half, that a claimed row does not say
`"none"`, because that is why a second claim fails; `DownIsIdle` and
`NewIsBlank` say what recovery and activation start from; `AloneIsPending`,
that without a backfill only the claimer changes a claimed row, is what
`ReadyStays` needs when a loop marks its file failed.

## 4. The life of a file: `FileLifecycle`

### How it corresponds to the code

| Model | Code |
|---|---|
| `status` | `files.status`; `"none"` before the row, `"gone"` after a hard delete |
| `multipart`, `bytes` | the multipart upload of a file, and the object, in the bucket |
| `audit` | `audit_logs`: which act, on which file |
| `client`, `asked` | how far `upload.js` (or the single PUT) is with a file, and the request whose answer it waits for |
| `req` | the requests in flight: the step they are at, what they do, their files, and those left of the loop they are in |
| `up` | the server process |
| `shown`, `trashed`, `doomed` | history: files that have been listed in a folder, in the trash, and whose permanent deletion has begun |

An upload is `Create` and `InsertRow` (the bucket first, then the row), `Send`,
then `Complete`, `CompleteS3`, `UpdateRow`, `WriteAudit`; or, with a single PUT,
`InitUpload`, `Send`, `Confirm`, `WriteAudit`. `GiveUp` aborts, or closes the
browser. A deletion is `Delete`, `DeleteRows`, `WriteAudit`; a permanent one
`Destroy` and a `DeleteObject` for each file before that; `BulkDelete` begins
either for several files. `Restore` is one statement and its audit row. Every
call may fail by `Fails` (the database, the bucket, or the request's context
that ended with the browser's connection), and a bucket call that fails may
have done its work. `Crash` takes every request in flight.

Abstractions:

- Deletions come from pages, and a page lists files that have been active
  (`shown`) when it was rendered. A bulk deletion reads its rows and their
  status in one statement and changes them in a later one; only what it read
  is kept in between, as in the code.
- A request that is refused before it has done anything (a role, a 404, a row
  that is not active) is not a step.
- Parts are one step, done or not; listing and signing them change nothing.
- `Again` is a fact about the bucket. The vault runs on Hetzner Object Storage,
  whose gateway answers a repeated `CompleteMultipartUpload` as it did the
  first, while the object is there; other S3 servers answer `NoSuchUpload`.
  Both are instances.
- Which object a key names is not state: a key has random bytes and belongs to
  one file. Thumbnails are the business of `Thumbnails`.
- The audit row of an upload, deletion or restoration is a pair; user, time and
  metadata are left out.

### The promise: `FilePromise`

What all this amounts to for one file, without requests, browsers, statements or
the audit log: it is registered, its bytes arrive, it is listed, put into the
trash and taken out, doomed, and destroyed. `List` asks for the bytes, `Erase`
for a file that was doomed, `Destroy` for bytes that are gone (while the bucket
is `Reliable`), `Arrive` for a file that was not listed yet, and nothing leaves
"gone". `FileLifecycle!LivesAsPromised` is `Promise!Spec` under the refinement
mapping `phase <- status`, `held <- bytes`, `Reliable <- "bucket" \notin Faults`.
The mapping forgets most of the state, and what it shows is about what it
forgets: the statements and bucket calls of any number of requests, some of
them without a guard on the status, find every file in a phase where what they
do is one of these steps, or nothing. It is the same promise for both
kinds of bucket: a late completion that takes a file out of the trash is a
`Restore` nobody asked for. The promise does not say who may restore a file.

### The runs

| Run | Instance | Properties | Shows |
|---|---|---|---|
| `files_live` | 1 new file, 2 requests, `Again`; kills, lost answers | `ListedHasBytes`, `UploadsFinish` | retries and deletions of one upload, and its progress |
| `files_bulk` | 1 old and 1 new file, 2 requests, `Again`; kills, database errors | `GoneIsClean`, `LoggedHappened`, `LivesAsPromised` | concurrent uploads, completions that come again or late, single, bulk and permanent deletions and restoring |

One file is enough where a file meets its own retry; two files are what makes a
bulk deletion overlap with another that has only one of them. Two requests are
the smallest number that can race; the proofs remove these bounds for the safety
properties. Deadlock is allowed: when everything is gone there is nothing to do.

Fairness: weak, of each request in flight (every call returns) and of `Restart`;
strong, of the browser's asking for a completion, which it or its user repeats
after an error. That is generous: nothing in `upload.js` asks again by itself,
and Uppy's resume lists the parts first, which fails once the bucket has
completed the upload. `UploadsFinish` says what a client that does ask again
gets. `Calm` is the premise of `UploadsFinish`: the server is not killed, nor
are answers lost, for ever. Database and bucket errors are off there, for the
same reason; bucket errors are also off in `files_bulk`, because `GoneIsClean`
is about a bucket that answers. The theorems cover both for the other
properties.

Known behaviour without a run of its own:

- `UpdateFileSizeAndStatus` (`multipart.go:206`) makes the row active whatever
  it was. With the bucket the vault runs on (Hetzner, `README.md:7,23` of the
  repository), which recognises a repeated completion: the answer of a
  completion is lost, the file is listed and somebody puts it into the trash,
  the browser asks again, and the file is back. So the code does not keep what
  its plan says, "Trash and restore are admin-only"
  (`2026-06-12-vaulx-phase6.md:11`). `ActivateFile`, the statement of the other
  way to upload, has `AND status = 'pending'`. No property says that only an
  admin restores, because it is not so; both runs and all theorems of this
  section contain that behaviour.
- With a bucket that completes only once, a completion whose answer is lost, or
  whose row update fails, leaves a pending row whose object is in the bucket;
  the retry is an error for ever. `UploadsFinish` has `Again` as its premise.
- Pending rows, and multipart uploads without a row, are never cleaned up.
- A permanent deletion that ends between object and row leaves a listed file
  without bytes. `ListedHasBytes` excepts `doomed` files.
- Audit rows are written last and their errors dropped, so an act may be
  missing from the log although `README.md:11` says that every one is logged.
  `LoggedHappened` is the direction the code can keep.
- `SoftDeleteFile` has no guard either. A caller of the API, not a page, could
  put a pending file into the trash, and restoring makes it active without
  bytes. No page asks for that, and the model has no such request.

### The proofs: `FileLifecycleProofs`

For any number of files and requests, any faults and both kinds of bucket, from
`LifecycleAssumption`:

| Theorem | States |
|---|---|
| `TypeCorrect`, `InductiveHolds` | `Spec => []TypeOK`, `Spec => []Inductive` |
| `ListedFilesHaveBytes` | `Spec => []ListedHasBytes` |
| `DeletionsAreClean` | `Spec => []GoneIsClean` |
| `LogIsTrue` | `Spec => []LoggedHappened` |
| `PromiseKept` | `Spec => LivesAsPromised`: `FileLifecycle` implements `FilePromise` |
| `PromiseIsWorthHaving` | `FilePromise` keeps what it lists in the bucket, leaves nothing of what it destroyed, and that never comes back |

What a handler may rely on at a step is an invariant per step: `RowHasBytes`
(a row about to be made active has its object), `ObjectsFirst` (rows are deleted
when the objects are), `LogIsLast` (what is about to be logged has happened),
`InsertIsFirst`. They are kept by other requests because the bucket and the
rows move one way only: `Uploading` says that an open upload belongs to a file
nobody could yet delete, `ShownWasActive` that the status remembers what was
listed. `NextType` proves the types first, from
three of the others; then each action has a step and each conjunct a sub-step.

`PromiseKept` needs one more, `Registered`: a browser or a completion that is
busy with an upload has its row, so bytes arrive only for pending files. It is
kept apart from `Inductive`, on which its own step rests. Then every action is
mapped: `UpdateRow`, `Confirm` and `Restore` to `List`, `Restore` or nothing by
the status they find, a deletion to `Trash` of those of its files that are still
active, and to `Destroy` of all it hits, which `ObjectsFirst` says are doomed and
out of the bucket.

## 5. One archive: `ZipBuild`

### How it corresponds to the code

| Model | Code |
|---|---|
| `active`, `folders`, `objects`, `spot` | what the two listings of a tree would return, the objects in the bucket, and each file's place and name |
| `dirs`, `list`, `at` | the results of `ListFolderTreeFolders` and `ListFolderTreeFiles` merged and sorted by `collectEntries`, and the entry `Build` is at |
| `given`, `seen` | the names `dedupe` gave, and its set of names in use |
| `sent`, `pipe` | what `Build` wrote, and how the writing end was closed |
| `taken`, `gone`, `rpc`, `got` | how far the uploader or the browser has read, whether it has closed its end, and what it has when it is done |

`ListFolders`, `ListFiles`; then per entry `Header`, `Fetch`, `Copy`; then
`Close` and `Flush`; `Fail` and `WriteFails` end it early. The reader does
`Take`, `Finish` or `GiveUp`. `Leave`, `Erase` and `RemoveFolder` change the
tree and the bucket meanwhile, as long as that makes a difference.

Bytes travel in blocks (header, body, an incomplete body, the end of the
archive). The zip writer and the response buffer, so the writer may be `Buffer`
blocks ahead; a write to a closed pipe may therefore be noticed late
(`WriteFails` may or may not happen while there is room). `Dedupe` follows
`dedupe`: names are a stem and the counters at its end, so that a file whose real
name is `a (2)` meets the name that a counter makes of `a`. Sorting by path puts
`a (2).x` before `a.x` and `a` before `a (2)`; `Rank` says so for each name.

### What is promised: `WholeArchive`

Somebody asks for the files of a folder and gets an archive of all of them, or
nothing. `AllOrNothing` is that specification under a mapping in which the
bucket has an archive when the upload completes, and a browser when the download
has an end. A response cannot be taken back, so what a browser gets when `Build`
fails is a file without the end of an archive, and counts as nothing.

### The run

| Run | Instance | Properties | Shows |
|---|---|---|---|
| `zip_build` | 3 files in 5 placings, 2 folders of the same path, 2 filters, both readers, a buffer of 2 blocks; all faults | `DistinctNames`, `NoSilentLoss`, `AllOrNothing`, `BothEnd` | a whole archive or none, whatever fails; no deadlock across the pipe |

Three files are the fewest for a name that a counter makes to meet its real
owner before, between and after the two files of one name; each order is a
placing. Two folders with one path (names are not unique) are what makes two
equal directory entries. A buffer of two blocks lets the writer be ahead by an
entry. Deadlock is allowed: an archive ends.

Fairness is weak, of the builder's goroutine and of whoever reads. Nobody has to
fail or to give up, and `BothEnd` does not need them to.

Known behaviour without a run of its own: `collectEntries` lists folders before
files, so a folder deleted in between leaves an empty directory in the archive.

### The proofs: `ZipBuildProofs`

For any finite sets of files and folders, any names, filters, buffer and faults,
from `ZipBuildAssumption`:

| Theorem | States |
|---|---|
| `TypeCorrect` | `Spec => []TypeOK` |
| `InductiveHolds` | `Spec => []Inductive` |
| `NamesAreDistinct` | `Spec => []DistinctNames` |
| `NothingIsLostSilently` | `Spec => []NoSilentLoss` |
| `PromiseKept` | `Spec => AllOrNothing`: `ZipBuild` implements `WholeArchive` |

`NoSilentLoss` speaks only of an archive that has its end. `Inductive` says of
every moment that each name given so far has a header (`HeadsWritten`; for a
directory that was skipped, that of an equal one), each file before `at` its
bytes (`BodiesWritten`), each block its entry (`BlocksBelong`), and that the end
comes last, after the last entry (`EndIsLast`). `EndsWell` connects it with the
reader: the pipe ends in EOF only when the reader has all of an ended archive.
`DistinctNames` needs that `Dedupe` finds a counter at all: among one more
counters than there are names, one is free (the pigeonhole principle), and a
finite set of counters has a first one.

## 6. Public links: `Shares`

### How it corresponds to the code

| Model | Code |
|---|---|
| `rows`, `target`, `owner`, `views`, `expired` | `shares`: which rows there are, `file_id` or `folder_id`, `created_by`, `view_count`, and `expires_at` against `NOW()` |
| `folders`, `status`, `at`, `Chain` | folders, files, `folder_id`; `parent_id`, which no statement changes |
| `pc`, `ask` | where each request is and what it asks for |
| `root`, `start`, `cur`, `steps` | locals: the share's target, the folder that is served, and where `folderInTree` is |
| `excuse`, `doubled` | history: what was asked for was not to be had meanwhile; the item's links were created together or after an error |

Creating is `FindItem`, `Lookup`, `Insert`; following a link `ReadShare`, then
`ReadFile` and `Walk` for a file of a folder, or `Walk`, `FindFolder`,
`ListContents` for a subfolder, or `ReadFile` for a shared file, then `Count`;
revoking `ReadOwner`, `Revoke`. The archive of a link (`kind = "zip"`) resolves
as `resolveShareForZip` does. `Trash`, `Restore`, `Erase`, `Move`,
`DeleteFolder` and `Expire` happen at any time, with the cascades of the schema.

`max_views` is left out: the code checks it, but no statement or page ever sets
it. Links are followed once they were given out; the revoke button is on the
page that lists the link, which may have gone by the time it is pressed.

### The run

| Run | Instance | Properties | Shows |
|---|---|---|---|
| `shares` | 4 folders in a chain, 1 file, 2 users, 2 requests, 2 links, walks of at most 2 rounds, 1 counted view; database errors | `TypeOK`, `SharedOnly`, `RefusalHasReason`, `SingleActive` | nothing outside the shared folder, no refusal without a reason, one link per item |

`d1` is above the shared folder `d2`, `d3` is as deep below it as the walk gets,
`d4` one too deep: every outcome of the walk. The code's limit is 64; the model's
is 2, and 2 of 4 levels stand to each other as 64 to 66. Two requests are the
smallest race. `SharedOnly` is about `start`, the folder a file was in when it
was read: a file that is moved out between that and the answer was in the shared
folder when it was asked for. No liveness: a request ends when its statements
return.

Known behaviour without a run of its own:

- Two creators at the same time make two links to one item, and so does a
  lookup whose database error is taken for "none" (`share.go:56`, `:395`).
  `SingleActive` excepts those items by name.
- The request for a file that is moved, and whose old folder is then deleted, is
  a 404 even if the new folder is shared too: `RefusalHasReason` takes the
  disappearance of the folder it was found in for a reason.
- A database error while a link is resolved is answered 404, as if there were
  no such link (`share.go:110-117`, `:140`, `:217`). In the model every such error
  is `Error`, which ends the request: `RefusalHasReason` counts the refusals of a
  database that answers.
- A page at depth 63 lists subfolders that it cannot open, and the archive has
  no such limit.

### The proofs: `SharesProofs`

For any folders, files, users, requests and links, any tree and any depth of the
walk, from `SharesAssumption`: `TypeCorrect` (`Spec => []TypeOK`),
`OnlySharedIsServed` (`Spec => []SharedOnly`), `RefusalsHaveReasons`
(`Spec => []RefusalHasReason`) and `OneLinkEach` (`Spec => []SingleActive`).

`SharedOnly` and `RefusalHasReason` are about the two ends of a walk, and need
to know where it is: `Climbed` says that after `steps` rounds `cur` is that many
levels above `start`. A walk that meets `root` is then in its tree, and one that
ends without it was too deep or found a folder gone. That a missing folder is a
reason is `Closed`: whatever exists has its parents, because deletion cascades.
`Timely` says that a request nothing has happened to could still be answered,
and `Fresh` and `Once` relate what a creating request has looked up to the rows
there are now. `Room` keeps the ids of links from running out, which is a bound
of the model, by counting the requests that may still insert one.

## 7. Pages and clicks: `Browsing`

### How it corresponds to the code

| Model | Code |
|---|---|
| `folders`, `parent`, `owner`, `used` | `folders`, `parent_id`, `owner_id`; ids that were given |
| `active`, `at` | files that are `active`; the others are in the trash; `folder_id` |
| `granted`, `grants` | rows of `permissions` by id |
| `me`, `pc`, `place`, `cur`, `click` | the session, where its request is, the folder of its page, where `buildBreadcrumbs` is, and what will be clicked on |
| `excuse` | history: what is clicked on has not been on offer any more |

A page is `LookAtTop` or `Enter`, then `ReadFolders`, `ReadFiles`, `ReadCrumb`;
`LookFor` with its two statements; or `LookAtPermissions`. Each statement adds
what the cards it leads to offer (`FileOffers`, `FolderOffers`, `Toolbar`,
`PermissionOffers`, a breadcrumb). `Run` sends the click: `ReadFolder` and
`CheckFolder` for a folder page, `ReadItem` and `CheckFile` for what a handler
reads before it acts, `Act` for the statement itself, which creates a folder,
renames, moves one or several files or puts them into the trash, deletes a
folder with its cascades, makes a link (`CreateShare`, `CreateFolderShare`),
grants or revokes. `Error` is a database error that is answered 500; `Amiss` is
one that is answered 404 or 403 as if the item or the permission did not exist
(`files.go:147`, `:160`). `Others` is every other session, statement by
statement: creation, deletion, moving, the trash, grants and revocations.

Names and audit rows are left out; permanent deletion, which only admins are
offered, is in `FileLifecycle`, the links that are made are in `Shares`. The
preview panel repeats two entries of the file's card and is not a page of its
own. The click is chosen while the page is read and carried until it is made,
which is the same as choosing it later from everything the page shows. That an
admin's listing comes in pages is in `Paging`.

### The run

| Run | Instance | Properties | Shows |
|---|---|---|---|
| `browsing` | sessions of an admin, an editor and a viewer; 1 folder and 1 to be created, 1 file, 2 permissions; database errors | `TypeOK`, `AllReachable`, `RefusalHasReason`, `RevokeEnds` | no folder below one that has gone, pages and handlers agree but for the list below, revoked is gone |

Two folders make a parent and a child, which is what cascades and breadcrumbs
need; two permission ids make the one that is revoked and the one that is granted
anew. Ownership of the folder is chosen by `Init`, so every role meets its own and
somebody else's. No fairness, and no liveness.

`AllReachable` is about the tree of folders: an admin, who is listed every folder
and may open it, gets everywhere from the top. It says nothing of others: a folder
they own, or have a permission for, below one that is hidden from them is not
listed at the top and is not reached by opening folders (`files.go:156-173`,
`ListFoldersByParentForUser`).

`RefusalHasReason` excepts what pages offer although the handler will refuse it
(`OfferedAnyway`); these are the disagreements of the code:

- Search finds everybody's files and folders, and breadcrumbs lead to parents
  the user has no permission for.
- A folder card offers renaming and deleting to everybody who sees it.
- Every card has "Copy link", outside `if canEdit` (`file_card.templ:66-74`,
  `folder_card.templ:45-53`); `CreateShare` and `CreateFolderShare` answer a viewer
  403 (`share.go:32`, `:372`).
- A permission is enough to see a file's card and preview, not to download it
  (`download.go` asks for the owner or an admin), nor to move or delete it with
  others.
- The card's entry "Root (no folder)" sends a form, and `MoveFile` decodes JSON:
  400.

Known behaviour without a run of its own:

- A revocation from a page that is out of date, after the permission has been
  revoked and granted anew, is answered "Access revoked" and deletes nothing.
- "Delete folder? All contents will be removed": the subfolders go, whoever owns
  them, and the files move to the top (`ON DELETE SET NULL`).
- A file moved into somebody else's folder disappears from its uploader's pages,
  who cannot open that folder.
- A database error in `GetFolder`, `GetFile` or `CheckPermission` is answered "Not
  found" or "Access denied". These answers are `"amiss"`, not `"refused"`: nothing
  about the page was wrong.
- The audit row of a bulk move names files that were put into the trash between
  the check and the statement.

### The proofs: `BrowsingProofs`

For any users with any roles, folders, files and permissions, from
`BrowsingAssumption`: `TypeCorrect` (`Spec => []TypeOK`), `RefusalsHaveReasons`
(`Spec => []RefusalHasReason`) and `RevocationsEnd` (`Spec => RevokeEnds`). The
inductive invariant adds four facts: nobody has two permissions for an item
(`OneGrantEach`, without which a revocation could leave one behind); a click is
of a shape its page makes, by a role that page makes it for (`Fits`, which must
survive everything others do: ids of deleted folders are never given again and
keep their owner); what the checks so far have found out (`Underway`); and a
click is still on offer or excused (`Offered`). Each statement is shown to keep
the tables in order once (`Kept`), whoever issues it.

`EverythingIsReachable` is `Spec => []AllReachable`. What is below a folder is a
recursive function, so it takes induction over the naturals, which is derived
from the library's fact that `<` is well-founded (`LeastNatural`, `AllNaturals`).
With it a function can be iterated (`Iteration`), so the function that `Below`
chooses exists; it grows with every step until it stops, and stops within as many
steps as there are folders (`GrowthStops`, by counting); and so `Below(d)` is the
smallest set that has `d` and the children of its elements (`ClosureBelow`). From
then on no step of the proof knows how it is computed. `FromTop` is the
invariant: the smallest set that has the folders at the top and is closed under
children has all folders. A new folder is put into one that exists, or at the
top. A deletion takes away a closed set, also when its folder is gone already,
because a folder that exists is never in one that does not (`ParentsExist`). That
the tables start with finitely many folders is the one new assumption.

## 8. Long listings: `Paging`

### How it corresponds to the code

| Model | Code |
|---|---|
| `listed`, `Born` | the entries an unlimited listing would have, and their `created_at` |
| `view` | files of a folder, or the audit log, whose entries never leave |
| `page`, `rows`, `pages` | `?page=`, the entries shown, `TotalPages` |
| `seen`, `stayed`, `left`, `blind` | history of a walk: shown; there all the time; some entry left; a count of the audit log failed |

`Open`, `GoOn`, `GoBack`, `Reload` ask for a page; `ReadPage` and `ReadCount` are
its two statements; `MissCount` is the audit log's count whose error is dropped
(`admin.go:199-206`); `Error` any other. `Enter` and `Leave` change the listing.

`created_at` values are distinct here. The statements have no tie-breaker, so
entries with equal timestamps could come in either order on each page; both have
microseconds.

### The run

| Run | Instance | Properties | Shows |
|---|---|---|---|
| `paging` | 5 entries in any subset, pages of 2, both views; database errors | `NothingMissed` | who reaches the last page has seen what was there all the time |

Five entries make three pages, the middle one of which has both links, with an
incomplete last one. The theorem removes the bound.

`NothingMissed` excepts a walk during which an entry left: OFFSET then skips the
entry that moves to the page before. Known behaviour without a run of its own: a
deleted last page says "This folder is empty" and has no bar; a filtered audit
log shows 100 rows and has no pages; a failed count of the audit log hides the
pages behind the first.

### The proofs: `PagingProofs`

For any finite set of entries, any order, any page length, from
`PagingAssumption`: `TypeCorrect` (`Spec => []TypeOK`) and `PagingIsComplete`
(`Spec => []NothingMissed`). `NothingMissed` speaks of the last page only;
`Ahead`, the inductive strengthening, says of every moment that an entry which
has stayed and was not shown has at least a page's worth of newer ones for every
page read so far. New entries only add to those; a page that is cut shows
everything whose rank is below its end; and an entry whose rank is at least
`page * Limit` makes the count of pages exceed `page`, which is where the lemmas
on ranks, cardinalities and division are used.

## 9. Sessions and accounts: `Accounts`

### How it corresponds to the code

| Model | Code |
|---|---|
| `known`, `role`, `active`, `password` | `users` |
| `boot` | how far each process is in `main`: before `seed.AdminUser`, between its count and its insert, serving (`"up"`), or serving although it could not count (`"unseeded"`) |
| `sessions` | rows of `http_sessions`: key, and the `user_id` and `role` of the values |
| `cookie`, `pc`, `ask`, `key`, `held` | the browser's cookie; each request's place, what it wants, its session's key and the values or the account it has read |
| `could`, `couldnot`, `given` | history: the answer would have been yes, or no; the roles an account has had |

`Count` and `Seed` boot; `FindAccount`, `LoadSession` and `OverwriteSession` or
`InsertSession` log in; `DestroySession` logs out; `RequireAuth` begins every
other request, which goes on with `Rename`, `RewriteSession`, or `CheckPassword`,
`SetPassword`, or `CheckAdmin`, `CreateAccount`, `SetRole`, `SetActive`. `Error` is
a crash or an error that is told (500). An error that is not told has the place
`"amiss"`: a log-in whose query fails is answered "Invalid email or password"
(`auth.go:31-34`), a log-out whose `Save` fails goes to the log-in page although
row and cookie stay (`auth.go:66-73`), a change of name whose `Save` fails is
answered like one that worked. A change of password says whether the new one is
`fit`: confirmed, and of eight characters or more (`profile.go:124-131`).

pgstore is modelled from how it is used (external): `Get` returns the row of the
cookie's key or a new session that keeps that key, `Save` updates the row of a
session that was found, which does nothing if it has gone, and inserts a new one,
a negative `MaxAge` deletes. A bcrypt hash stands for its password. Names are
left out, but not that a change of name writes the whole session back.

### The run

| Run | Instance | Properties | Shows |
|---|---|---|---|
| `accounts` | 2 servers, 2 accounts, 2 tabs of one browser, 2 passwords, 1 session key, 1 fault of booting; database errors, told or not, kills | `AnswersAreTrue`, `RoleWasGiven`, `LogoutSticks`, `BootEnds` | truthful log-ins (but for a failed query), honest roles, lasting log-outs, a seed that races itself |

Two servers are the smallest race for the seed; the deployment runs one, and an
old and a new one overlap during an upgrade. One tab logs in as the first admin
and manages the other account; the other tab logs in with that account in the
same browser, so that both rewrite one session, which is why one key is enough.
`MaxFaults` bounds the kills and the faults of booting.

Fairness: weak, of booting, which the restart policy of `docker-compose.yml`
(`unless-stopped`) repeats until it succeeds. No request need finish.

`BootEnds` asks for the admin after a kill at any point, between count and insert
too, and after an insert that failed; it excuses only a server that serves
although it could not count. `LogoutSticks` lets any log-in in progress with a key
bring its row back, also one that will fail: that is a little more than the code
does.

Known behaviour without a run of its own:

- A log-in with the right password is answered "Invalid email or password" when
  the query for the account fails. `AnswersAreTrue` excepts that answer by its
  place (`"amiss"`) and no other.
- A log-out whose `Save` fails ends nothing and looks like one that did.
- A changed role or a deactivation does not reach sessions: they keep the role
  of the log-in for up to seven days. `RoleWasGiven` says "has had", not "has".
- The last admin can be demoted or deactivated.
- A change of name that overlaps a log-in with another account in the same
  browser can write the earlier account's values back.
- Two changes of one password at the same time both succeed; the last one wins.
- An account deactivated between check and update still gets its new password.
- A server that cannot count the users serves without seeding.

### The proofs: `AccountsProofs`

For any servers, accounts, tabs, passwords and keys, from `AccountsAssumption`:
`TypeCorrect` (`Spec => []TypeOK`), `AnswersHoldTrue` (`Spec =>
[]AnswersAreTrue`), `RolesWereGiven` (`Spec => []RoleWasGiven`) and
`LogoutIsFinal` (`Spec => LogoutSticks`). The inductive invariant adds what a
request in the middle knows: the values it holds are those of an account and a
role that account has had (`Given`, which `RewriteSession` needs, because it
writes back what it read), and the outcome it is heading for was right at some
moment (`Honest`); `Honest` is where a request that is about to be refused must
have met an account that did not match, or be one of those that `AnswersAreTrue`
excepts.

## 10. What is proved and what is only checked

Proved for every instance: the type invariants and all safety invariants and
action properties that the passing runs check, of every module. Two of them have
a premise without which they are false: `ServedIsCurrent` and `ReadyShown` of
`ZipJobs`, that files only arrive. Proved as well: that `ZipJobs` implements
`ArchivePromise`, `FileLifecycle` implements `FilePromise` and `ZipBuild` implements
`WholeArchive`.
The type invariants of `ZipJobs`, `ZipBuild`, `Thumbnails`, `FileLifecycle`,
`Paging` and `Accounts` are theorems and are not checked once more by the runs.

Checked by TLC on the instances in the tables: all liveness (the proof system
reasons about neither fairness nor `ENABLED`) and the violated property.
Induction over data is out of the provers' reach too, because the library's
induction theorems take an operator; where a proof needs one (the rounds of the
walk in `Browsing`) it takes the least counterexample, a natural number, instead.

Assumed: PostgreSQL's READ COMMITTED statements are atomic except where two
steps are said above; the bucket's calls are atomic and, once
answered, durable; ids and object keys are unique (UUIDs, random bytes); one
server process, except while booting.

## 11. What is not modelled, and why

- Rendering, toasts, formatting, names and their validation: no state. What
  pages offer is in `Browsing`, `Shares` and `Paging`.
- `max_views`: nothing sets it.
- Presigned links after they are signed: the bucket's affair.
- Storage clients, connection pools, generated scan code, rate limits, headers:
  calls that succeed or fail.
- Audit rows of folders, links and accounts: written after the act like those in
  `FileLifecycle`, and nothing reads them but the admin's pages.
- The image arithmetic of `thumbnail.go`: one outcome, made or not.

## 12. Plan

Done: `ZipJobs` with `ArchivePromise`, `ZipBuild` with `WholeArchive`,
`FileLifecycle` with `FilePromise`, `Thumbnails`, `Shares`, `Browsing`, `Paging` and
`Accounts`, all with proofs. What is left, in order of what matters most:

1. An abstract life of a thumbnail (wanted, made, lost with its file) beside
   `FilePromise`, for the archives and pages that use files to be composed with.
2. Two folders of one owner in `Shares` with links to both, which needs more
   states than one run has time for.
