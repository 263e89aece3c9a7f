# Drift-Import in TLA+

Drift-Import is a FastAPI application that copies camera footage to a NAS, keeps a ledger of what it
has archived, reviews and corrects recording dates, reads journeys from Home Assistant, and has films
of rides made on another machine. It runs as one process with a few threads on a Raspberry Pi (and
as a second one, the *processor*, on a wired server), with an SQLite database, a NAS that may go away,
and cameras that come and go. This directory holds TLA+ specifications of the parts where order
matters, TLC configurations that check them on small instances, and TLAPS proofs of the theorems that
hold for every instance.

    tlc -workers 2 -config Safety.cfg MCSafety.tla        # a run
    tlapm JobQueue_proofs.tla                             # the proofs

## 1. Inventory of the system

| Component | State it keeps | Operations | What is hard | What makes it correct |
|---|---|---|---|---|
| **Job queue** `jobs.py` | table `jobs`, pause flag and claim lock in memory, three slots (ffmpeg, NAS, location) | claim, run, finish, fail, enqueue, retry, cancel, pause / resume / stop all, start | sessions that read first and commit later; restarts; lost camera hosts; slots taken one after the other | a row says *running* only while a thread works on it; a cancelled job stays cancelled; every job ends; no two jobs wait for each other |
| **Upload** `tasks.handle_upload`, `destinations/` | `uploaded_clips`, the final file and its partial one | check existing, resume, send, publish, verify, record | cancellation anywhere, resumption by position, values read before the semaphore | the final name never shows a partial file; the ledger says *done* only of a whole copy; what was stored is not lost |
| **Full verification** `workflow.handle_verify` | the same ledger row, `full_verification_failed` | hash both, condemn | races with uploads; the sampled fingerprint cannot see everything | what decayed is repaired and not declared good by the fast check |
| **Trip movies** `workflow.py`, `merge.py` | `trip_movies`, movies on the NAS | queue, check inputs, merge, publish | other clients change the clips meanwhile | a movie is of one state of the clips, that of their import as far as a sampled checksum tells |
| **Date review** `date_review.py` | `recording_dates` | scan a card, judge, suggest, decide | headers are read outside a transaction; camera clocks that are reset | decisions and warnings stand; suggestions lie between their neighbours |
| **Date correction** `date_review.py` | `recording_dates`, `date_corrections` (the move journal), ledger paths, files | preview, confirm, correction job, retry | several files and rows change in a job that may die anywhere; stale previews; uploads of the same recording | the ledger names an existing file; a hold is released; one of two previews is applied |
| **Ride film spool** `ride_render*.py` | per ride: `request.json`, `state.json`, `cancel`, parts, film | queue, cancel, pick, render, publish, stop | two machines and no lock; stale writes of whole state files | *done* means a whole film; every request ends |
| **Automatic films** `auto_rides.py`, `auto_ride_jobs.py` | `auto_rides`, `auto_ride_renders`, the spool | discover, prepare, monitor | three threads write one index from what they read earlier | the gallery shows films of present inputs; outdated films are stopped |
| **Home Assistant refresh** `auto_ride_ha.py` | saved days, refresh rows, journeys | plan, fetch, merge, rebuild | commits day by day, rebuilds at the end; purged history | GPS is never lost; every needed day is checked; stale journeys are remembered |
| **Location import** `roadtrips.py` | day files and rows, outings | import a month, import an export, home zone | file replaced before row committed; partial exports | saved fixes stay saved |
| **Import** `tasks.py` | `media_items`, queued uploads | index, deduplicate, enqueue | concurrent imports, names used again after formatting, jobs that start over, dates under correction | an item keeps its recording; what is indexed is uploaded, once, unless its date was just being corrected |
| **Camera detection** `devicescan.py` | connections seen and imported | scan, auto-import | reconnects, pending imports | one import per connection |
| **Camera agents** `camera_agents.py`, `agent/` | manifest, connection number, stream slots | inventory, range reads, final check | files rewritten between two ranges | the bytes of one file identity only |
| **Metadata sync** `processing_sync.py`, `processing.py` | digest, seed, copies of the Pi's tables | conditional fetch, import | snapshots older than local corrections | corrections stand; the processor ends with the Pi's rows |
| **Pi gateway** `pi_gateway.py` | response cache with a generation, one lock per key | read, refresh, command | answers that arrive after a command | no read shows what was before a confirmed command |
| **Archive** `archive*.py` | `archive_files` | scan, verify, hardlink | other NAS clients, unmounts, stale rows | no name ever loses its contents; hashes are proofs |
| **State backup** `state_backup.py` | key and database on the NAS | snapshot, publish | failures between two renames, another card | never a database without its key |
| Trip ranking and maps, telemetry, web interface, settings, deployment | tables and files of their own | ranking, presentation, shell | numerical or plain I/O | see `PROJECT.json` |

Interactions. Every long operation is a job of the queue; jobs that touch the NAS share the NAS slot
(`max_concurrent_uploads = 1`), those that run FFmpeg the ffmpeg slot. Upload, Verify and correction
meet in the ledger; correction, review, upload and the planning of uploads in the date row; import,
correction and uploads in the media rows; discovery, preparation and monitor in the film index; the
spool, the archive and the backup share nothing but files with their other side. `PROJECT.json` lists the hazards of each with the lines
where they bite.

## 2. Plan

1. **Done**: `JobQueue` with the abstract `JobBoard` and its proofs, `UploadLedger`, `DateCorrection`,
   `RenderQueue`; then `Destinations`, `DateReview`, `TripMovies`, `RideFilms`, `HaRefresh`,
   `LocationDays`, `LocationImport`, `Intake`, `CameraRead`, `ProcessingSync`, `PiGateway`, `Archive`,
   `StateBackup` and the two compositions.
2. **Theorems**: every safety property that a passing run checks is proved for all values of the
   constants (section 5), and `JobQueue` is proved to implement `JobBoard` as long as nobody pauses.
3. **Still to model**: deletion of media, the metadata copy of a corrected recording, month batches.

## 3. The modules

Each component module holds its constants with their bounds, its variables, one action per critical
piece of code (a transaction, a file operation, the code between two awaits), its next-state
relation, its fairness where it has threads that owe something, and its properties. The names of
`Init`, `Next` and `vars` carry the component's prefix, so that modules can be extended together.

Definitions named `Name_Fault` are seeded faults, plausible bugs in the code behind `Name`, listed under
"mutants" in `PROJECT.json`: with the fault in place of `Name`, the property named there fails. They
are not part of the specifications.

Modules named `..._proofs` hold theorems and nothing else: `JobQueue_proofs`; `Storage_proofs`
(`UploadLedger`, `Destinations`, `StateBackup`, `Archive`); `Cameras_proofs` (`CameraRead`, `Intake`); `Pi_proofs`
(`PiGateway`, `ProcessingSync`); `Dates_proofs` (`DateCorrection`, `DateReview`); `Movies_proofs`
(`TripMovies`, `RideFilms`, `RenderQueue`); `Locations_proofs` (`LocationDays`, `HaRefresh`,
`LocationImport`); `MCSafety_proofs`, which extends them all, for the composition.

**JobQueue, JobBoard.** One row per job (`status`, `kind`, `cancel`, `later`), one
program counter per worker and one pending session per request thread. `audit`, `discover` and
`upload` stand for the three classes of kinds the claim distinguishes. `_claim_next` is `Poll` (the
pause flag, outside the lock), `Pick` / `NothingToClaim` (the queries) and `Claim` / `Discard` (the
commit). A job ends by `Returns` and `Record`, `Stops`, `Fails` or `CameraGone`. Every request is a read
(`PauseAll`, `ResumeAll`, `StopAll`, `RequestCancel`) and a `Commit`: pysqlite begins a transaction at the
first write and an ORM update names only the row's id, so another thread's commit can fall in
between. `Crash` forgets memory, `Start` offers running rows again. `JobBoard` is what the queue
promises: a job is posted, taken by one worker, settled or given back, and never taken up after it
was settled; `ImplementsBoard` is the refinement.

**UploadLedger.** One video and one NAS: the ledger row, the `.part` file and the final file as sequences
of source chunks, upload jobs (`Slot`) and one Verify job. The steps follow the sessions of
`handle_upload`: `Begin`, `Decide`, `CheckCopy`, `RecordMatch`, `Resume`, `Acquire`, `Open`, `Copy`,
`PublishCopy`, `VerifySent`, `Record`. `Looks` is the sampled fingerprint, which reads only the chunks in
`Sampled`; `Rot` is decay of the archived copy.

**Destinations.** The same job over SFTP (`.part`, then remove and rename), Nextcloud (chunked upload,
then MOVE) and rsync (in place of the partial file, skipped when a checksum agrees). `SampledChecksum`
and `Sha256` are kept apart as the different functions they are. `stored` is a history variable: the
whole video was once at the destination.

**DateReview.** A card whose recordings are ordered by the counters in their names, in rounds (`Takes`);
the camera's clock may be reset. `queue_check` is a look and an insert under a lock; the scan reads the
listing, the headers (`scan.pc = "reading"`), and then re-reads the rows it has and writes in one
transaction. New rows are flushed before old ones are re-read, so the transaction holds SQLite's
write lock and is one step. `Suggestion` is `date_suggestions`: runs split at clock resets (`OneRun`),
carried offsets, neighbours of either side.

**DateCorrection.** One recording, two possible folders and `Holding`. `Preview` and `ConfirmCheck` /
`ConfirmCommit` are requests, `JobBegin` ... `JobFinish` the correction job, one action per session or
file operation, `Upload*` what `handle_upload` does about the date. `overlap` is a history variable: an
upload and a correction were under way together. `Doubt` stands for the date scan.

**TripMovies.** `QueueTrip` and the steps of `handle_trip` once its slots are there; `ChangeClip` is any
other client of the NAS, `Recapture` any change of a capture time (it changes the manifest). `TakeSlot`
takes the next slot in the order `Needs` gives for the kind of job, and `SlotsNeverDeadlock` says that
among the jobs that have begun one has its slots or can take the next. A clip's fingerprint is its change
counter: size, modification time and inode never return to earlier values. A clip's content is as
imported, or *alike* (same size, same 4 MiB at either end, other bytes in between), or other: the
checksum that `handle_trip` compares tells only the last from the first two (`LooksImported`), so
`MovieIsOfItsClips` promises one state of the clips that looks like the imported one, and not more. A clip
that was alike before the first look goes into a movie unnoticed.

**RenderQueue.** One directory per ride. A request thread writes `cancel`, `state.json` and `request.json`
one after the other; the worker picks by `state.json` and writes its own copy of it back. `older`
orders the rides by `queued_at`. A clip's encoding is one step. The file lock keeps a second worker out.

**RideFilms.** One ride whose input signature changes. `Discovery*`, `Prepare*` and `Monitor*` are the
three threads, one action per session or NAS call; the spool is abstracted to the state and the
cancel mark of each film; `Insert` and `looked` are the check and the insert under `_QUEUE_LOCK`.
Visitors ask for the film (`WebAsks`), the NAS fails, the service restarts.

**LocationDays** is pure: `Cleaned`, `Merge`, `Outings` and `LatestFix` over numbered fixes, of which some are
poor, some at home and some impossible after others. **HaRefresh** is `refresh_ha_days`: the plan, which
is a list of days that the task keeps while footage goes on arriving (`Selections`), the answer of each
day (with purges), the merge, the commit per day, the rebuild per month. What Home
Assistant adds to a day is later than what it answered before. **LocationImport** is the import of a
month by hand: day by day from Home Assistant, or an export in one transaction that may be rolled back
after its files were replaced. Fixes are at least a minute and at most `max_gap_s` apart.

**Intake.** From a plugged camera to queued uploads: the agent's connection number, the server's copy of
the manifest, the monitor (`Scan`, `QueueImport`), `handle_import` file by file (`Read` is `import_one` up to
its insert, `StoreItem` the insert with the unique path), and the upload queue under its lock
(`PlanUploads`, `InsertUploads`). A camera is away long enough to be missed (`Plug`). `Redate...` is what a
correction of dates has to do with imports: from its confirmation on, the plan leaves the file out
(`DatePauses`), its job may index the file, and at its end it asks for an import of the file, if the
camera is there and has no import pending. `paused` in a job is a history field: what it left out for that
reason; no guard reads it.

**CameraRead.** `RemoteFile` over range requests: identity of the manifest, of the agent's table and of the
open file, stream slots, interruptions, the closing HEAD request.

**ProcessingSync.** The monitor's loop: conditional GET, digest, `import_snapshot` with seed, revision guard
and retirement, while this side corrects dates and imports days. A digest is injective, so rows serve
as digests and ETags.

**PiGateway.** One event loop, so an action is the code between two awaits: cached, shared, fresh and
fallback answers, background refreshes, commands and invalidation, eviction, closed tabs. `Evicted` is
the eviction loop: the fewest of the oldest entries after which the limits of bytes and of number hold. It
goes by the count `cacheBytes`, as the code does, and `CacheIsCounted` says that the count is right.

**Archive.** Names, inodes and contents of the NAS, and the inventory that mirrors them: walk, sample,
verify and hardlink job with their re-checks, rows that uploads refresh, clients that write, replace
and remove, an empty mount point. All contents have equal sizes and samples, the worst case. An inode is
used again only when no name has it and no job holds it open (`HeldOpen`); each change of a file gets a
time that no row has seen.

**StateBackup.** Key and database on the card and on the NAS, the staged copy and the two renames, between
which the NAS, the program or the operator may intervene.

**MCSafety, MCLiveness** put the components side by side. They share no variable, so interleaving them
would only multiply the states: the variable `component` names the one that runs, and the others rest
in an initial state. A behaviour of the composition is a behaviour of one component, and every
behaviour of every component occurs. Where components do meet, the meeting is inside one module:
upload, verification and date correction act on common rows in `UploadLedger` and `DateCorrection`, the
spool is in `RideFilms` as the calls see it, uploads refresh inventory rows in `Archive`, end in `Intake`
and compete for slots in `TripMovies`. `MCUploadLedger`, `MCDateCorrection`, `MCRenderQueue`, `MCHaRefresh`
and `MCIntake` instantiate one component for the runs that find a violation.

## 4. The runs

| Run | Question | Bounds | States |
|---|---|---|---|
| `JobQueueButtons` | is every *running* row held, does a cancellation stand, under all buttons? | 2 workers (symmetric), 1 request thread, 2 jobs, 1 restart, 1 lost camera | 540,000 |
| `JobQueueProgress` | single execution, refinement of the board, every job settles | as above without pause | 110,000 |
| `Safety` | types, 18 invariants and 8 properties of steps of all other components | see below | 1,490,000 |
| `Liveness` | what the threads of six components owe in the end | 1 recording and file; 2 films; 3 days; 2 rides; 1 upload of 3 chunks; 1 plan | 96,000 |
| `JobQueueAudits` | *violation*: two archive jobs at once after pause and resume | 2 workers, 2 jobs | - |
| `UploadResume` | *violation*: an offset that is no longer the file's length | 2 jobs, 3 chunks | - |
| `UploadFlagged` | *violation*: a fast check overwrites a failed verification | 1 job, 1 decay | - |
| `RemoteUploads` | *violation*: a whole remote copy is recorded as an error | 3 chunks, no failure | - |
| `DateOverlap` | *violation*: a confirmed recording stays in its old folder | 1 plan, no troubles | - |
| `RenderItems` | *violation*: a ride is picked before its request is there | 1 ride, 1 clip | - |
| `HaRebuildLost` | *violation*: nobody remembers that journeys are out of date | 1 month, 2 fixes | - |
| `ReconnectMissed` | *violation*: a camera that came back is not imported again | 1 import job, 2 connections | - |

Bounds of `Safety`, per component, and the cases they are chosen for:

* `UploadLedger`: 1 job, 3 chunks of which the fingerprint reads the first and the last (the smallest file
  in which decay can hide), 2 troubles, 2 decays.
* `Destinations`: each backend, 3 chunks, 3 breakdowns: one during the first transfer, one while the copy
  is sent again, one more.
* `DateCorrection`: 2 dates, 2 plans, 2 troubles: a plan is overtaken, a recording moves away and back.
* `DateReview`: 3 counters in 2 rounds, headers of two days and one without a date, 3 changes of the card,
  1 decision: a reset between two approved recordings.
* `TripMovies`: 2 workers, 2 clips, 2 manifests, 1 change by another client, 1 trouble.
* `RenderQueue`: 1 ride of 2 clips, 2 request threads that ask for and cancel the same film, 2 stops or
  crashes: one before and one after a part is made. `Liveness` has 2 rides, so that one may overtake the
  other, and no stop: with one stop its graph is four times as large and takes too long.
* `RideFilms`: 2 inputs with a film each, 1 change (and back), 1 visit; the troubles (NAS outages,
  cancelled jobs, restarts) are in `Liveness`, which also checks `ShownFilmIsMade`.
* `HaRefresh`, `LocationImport`: 3 days in 2 months, 5 fixes of which one is poor and one at home, two
  impossible pairs with a fix in common, so that what displaces a fix can be displaced itself; 2 of the
  3 days per call, so that days compete and one is planned while another is fetched (1 of them in
  `Liveness`); 2 imports.
* `Intake`: 1 name on the card and a row of an earlier recording under it, archived or not; 2 import jobs,
  2 connections, 2 requests by hand (imports or corrections of dates), 1 mishap: a row is retired while
  another import reads the same file, and a date is corrected while two imports meet.
* `CameraRead`: 2 readers on 2 streams, 3 parts, 2 versions, 1 break. `ProcessingSync`: 1 recording, 1 file,
  2 revisions, 4 edits, 1 outage. `PiGateway`: 2 keys, 2 tabs, a cache that holds 1 of the small answers and none of
  the large ones, 1 command, 1 step of age.
  `Archive`: 2 names, 3 inodes, 2 contents, 1 change, 1 unmount. `StateBackup`: 2 keys, 2 edits, 3 losses.

Three conjunctions of named properties are defined in `MCSafety`: `WorkIsAskedOnce` (uploads, date scans,
automatic films), `GpsIsKept` (both ways locations arrive) and, of `DateCorrection`, `CorrectionsApply`.
`ImportsKeepGps` is weaker than the refresh's `GpsNeverLost` for a reason: `clean_points` keeps the earlier
of two impossible neighbours, so an early outlier of a later import does displace saved fixes. It speaks
of the file of a day, not of its row, because an export that is rolled back leaves its files behind: the
next import merges with the file, and a fix that the row still counts may then be gone for one that was
itself displaced since.

`ReconnectMissed` checks that its bounds end in states where nothing more can happen; the other
configurations for components say `CHECK_DEADLOCK FALSE`, because bounded users, failures and edits let
them come to rest, as the system does when nobody asks for anything.

Fairness. A behaviour of `Liveness` runs one component, and each fairness condition carries the conjunct
`component = ...`, so it binds only there. `JobQueue`: each worker is scheduled (weak fairness of its steps,
which includes that handlers end), a request that has read commits, retry times pass, the service
manager restarts the process (`Restart=` in the units). Users and cameras owe nothing; `JobsSettle` assumes
that the job is, from some time on, neither paused nor without its camera. `UploadLedger`: a running job
goes on, with strong fairness where it competes for the semaphore, which `threading.Semaphore` hands to a
waiter whenever it is free; `ArchiveIsRepaired` also assumes that the user imports and verifies again and
again ("importing again repairs those copies"). `DateCorrection`: the same for its two jobs. `RenderQueue`: the
worker's loop goes on and a request that has begun finishes. `ProcessingSync`, `HaRefresh`: their loops go on
(`processing.py` and the discovery job run at intervals). `RideFilms`: weak fairness of each of the three
threads and of an insert that has been decided. `Intake` (in `ReconnectMissed`): agent, monitor and workers
are loops. Failures, restarts, outages and users are never fair.

What the violations say is in "findings" of `PROJECT.json`, with the lines of code and the sentences they
contradict. They come from a few patterns: a session that reads before another commits (`pause_all`), a
value read before a semaphore and used under it (resume offset, repair flag), a check outside the
transaction that relies on it (running uploads), two files written in the order opposite to the one they
are read in (render request), a mark of unfinished work overwritten by a later step (`rebuild_pending`), a
skipped request counted as done (auto-import), and two functions under the name of one (checksums).

The passing runs are limited accordingly, and the properties say so: `SingleExecution` holds only
without the pause button; `PublishedIsWhole` and `DoneIsArchived` are checked with one upload job per
video, and fail with two for the reason `UploadResume` shows; `MovedAsPlanned` and
`ArchiveStaysReachable` hold unless an upload was under way beside the correction; `StoredSurvives` speaks
of the files and not of the ledger, which `RemoteUploads` shows to be wrong.

Two of them promise less than one may expect of the code:

* `IndexedIsQueued` excepts a file whose date was under correction when the import planned its uploads ("Only
  an active correction pauses a backup"), and nothing makes sure that such a file is sent later. The
  correction asks for its import at its end (`date_review.py:800`), but that request is skipped if the import
  that left the file out is still at work on other files, or if any import of the camera is pending
  (`tasks.py:837`); it is not made when the camera is away or automatic upload is off, nor ever again if the
  process stops between `done` (line 792) and the request. The file then waits for the next connection or
  for an import by hand. With automatic upload on, all of this occurs in the model. No sentence of the
  repository says when such a file is to be sent, so no run calls it a violation.
* `MovieIsOfItsClips` goes as far as the sampled checksum does (section 3).

## 5. The proofs

The theorems hold for every value of the constants that satisfies the component's named assumption
(`JobQueueAssumption`, `ReadAssumption`, ...). These assumptions say that bounds are natural numbers, that
some sets are finite, and that markers such as `None` or `"Holding"` are not values; the bounds of troubles,
edits and retries are arbitrary numbers, so the theorems speak of runs of any length. Two theorems
need more, and say so in their statements:

* `"pause" \notin Buttons` for `OneThreadPerJob` and `QueueImplementsBoard`: with the pause button both fail
  (run `JobQueueAudits`);
* `OneAtATime`, one upload job per video, for the three properties of `UploadLedger`: with two they fail
  (run `UploadResume`).

Each invariant is proved from a stronger, inductive one, which TLC checked on a small instance before it
was proved. A proof has one step or lemma for each action; steps of the same shape (a thread goes on, a
file stays as it is) share a lemma. The properties of steps follow from the same invariants.

| Module | Theorems | The inductive invariant, and why it is needed |
|---|---|---|
| `JobQueue_proofs` | `TypeCorrect`, `RunningHeld`, `CancelStands`, `OneThreadPerJob`, `QueueImplementsBoard` | `RunningIsHeld` is inductive with the types. `HandsInv`: nothing is paused or about to be, one thread is between query and commit, no two threads hold a job, what is in a handler's hands is not on offer. `BoardInv` adds that inserted rows keep a status, so that the thread the board calls the holder is the one that has the job in hand; each step is then one step of `JobBoard` or none |
| `Storage_proofs`: `StateBackup` | `BackupTypes`, `RecoveryAlwaysOpens` | `SnapshotHolds`: what the snapshot knows of key and staged database at each of its steps; between the two looks at the key it knows it only while that key is still there |
| `UploadLedger` | `LedgerTypes`, `OnlyWholeIsPublished`, `DoneMeansArchived`, `RepairsAreReal` | the partial file is a beginning of the video (`PartBegins`), and what the job has found out by the place where it stands (`TransferHolds`); a partial file as long as the video is then the video, whatever the fingerprint samples |
| `Destinations` | `DestTypes`, `WholeCopiesStay` | `KeptWhole`: a whole copy is under the final name, or under the partial one between SFTP's remove and rename |
| `Archive` | `ArchiveTypes`, `HashesAreProofs`, `JobsLoseNothing`, `CacheOutlastsOutages` | whatever remembers a file (row, report of a job, digest on its way) vouches for its contents as long as inode and times agree, and no time in use is later than the clock (`RowsOK`, `JobOK`); from the comparison on, keeper and duplicate are equal unless one was written since (`PairOK`) |
| `Cameras_proofs`: `CameraRead` | `ReadTypes`, `OneVersion` | `StreamsStep`: a reader takes a stream only when one is left and gives back what it has; the parts that were read are of the version that is wanted or of a later one; the closing request excludes the later ones |
| `Intake` | `IntakeTypes`, `UploadsOnce`, `NothingForgotten`, `RowsKeepRecordings` | `JobsAreRight`: a row that waits for its upload is in the plan of the import that indexed it, unless that import's plan left it out for its date, and the row a file was found to be is still of that recording; `Inserting`: one job is between the query and the insert |
| `Pi_proofs`: `PiGateway` | `GatewayTypes`, `CountIsRight`, `OneReadAtATime`, `CommandsAreSeen` | `LocksInv`: a lock with users is that of their key and stays in the table; `ReadsInv`: whatever is cached, and whatever a read of the present generation will bring, is no older than the last confirmed command; `CacheIsCounted`, without which it is not clear that the eviction loop ends before the cache is empty |
| `ProcessingSync` | `CorrectionsAreWhole`, `DecisionsAreFinal` | nothing in the Pi's database or in an answer on its way is signed by the processor |
| `Dates_proofs`: `DateCorrection` | `DatesTypes`, `NeverAnOldFolder`, `NothingLostSightOf`, `CorrectionsAgree` | `WorkInv` (who may work; a preview's number is above its revision), `RevisionInv` (a correction that is done has left the revisions before it behind for good), `PlacesInv` (where the recording lies at each step of the job, unless an upload overlapped) |
| `DateReview` | `ReviewTypes`, `OneScan`, `DecisionsSurviveScans`, `SuggestionsAreBetween` | while a scan reads, nobody else makes a recording known. `SuggestionsAreBetween` needs no history: in a range without a step back in time, times do not decrease, which is shown by the first recording that would violate it |
| `Movies_proofs`: `TripMovies` | `MovieTypes`, `JobsGoOn`, `MoviesAreOfTheirClips` | `SlotsInv`: a slot has one holder. Every job waits for a slot that comes after all it has in the order location, ffmpeg, NAS, so the one that waits for the last slot waited for is not held up. `MovieInv`: one movie is made at a time, and clips whose fingerprints at its end are those of its first look have had them, and the contents that looked imported, all the while |
| `RideFilms` | `FilmsTypes`, `FilmsShownAreMade`, `FilmsAskedOnce` | each thread's record that calls a film done names a film that the spool has finished (`Vouched`), and finished films stay so |
| `RenderQueue` | `SpoolTypes`, `DoneMeansFilm`, `FilmsAreWhole` | `WorkerHasMade`: by the place where the worker stands, all parts of its ride are there, or the film is |
| `Locations_proofs` | `HaTypes`, `GpsIsNeverLost`, `ImportTypes`, `ImportsLoseNoGps` | `GpsInv`: a saved day is a chain (no fix rejects another) that dominates what cleaning leaves of the history, so merging takes nothing from it. `ImportInv`: files hold no poor fixes, and a day that counts fixes has a file with some |
| `MCSafety_proofs` | `EachRunsByItself`, `TypesHold`, `EverythingIsAskedOnce`, `GpsStays` | none of its own: a step of the composition is, for each component, one of its steps or none (`EachGoesOn`), so that what is proved of a component holds in the composition |

`clean_points` decides from fix to fix, so `Cleaned` is a recursive function. Its proof needs no induction
theorem: `CleanedEquation` shows, by the least fix at which it would fail, that `Cleaned(fixes)` is a set
in which a fix is kept exactly if nothing kept before it rejects it, and the other lemmas use only this
equation. The sum of the cached bodies is treated in the same way: `TallyIsThere` and `BytesAreTallied`
show that the recursion has one solution, `BytesTogether` that it adds up over a concatenation, and
`EvictionEnds` that the loop of `remember` finds a rest that keeps the limits as long as its count is right.

What the proofs found out about the models and the code:

* `DateCorrection`. `README.md:420` of the repository says that failed corrections remain held. A correction that
  failed after it had released a recording passes, when it is repeated, the check of
  `date_review.py:704` by its own id and writes `confirmed` (line 790), also when a later correction of the
  recording has failed meanwhile and holds it. So `OneOfTwoPreviews` speaks of corrections that were
  applied, and `RevisionInv` distinguishes them from those that were agreed to.
* `Archive`. With an inode that could be given to a new file while a hardlink job has it open,
  `VerifiedIsProof` is not inductive. A file system does not do that, and the model no longer does.
* `HaRefresh`. The order in which a task goes through its days is that of its plan. An earlier model looked
  at the order of the moment, in which a clip that arrives between answer and commit moves a day.
  With one day per call, as the run had it, nobody saw this.
* `LocationImport`. With chains of impossible pairs, a fix that displaced another one can be displaced
  itself while a rolled back export leaves file and row apart; `ImportsKeepGps` says now what holds, and
  the run has such a chain.

Only model-checked:

* liveness: `JobsSettle` and the properties of `Liveness` other than `ShownFilmIsMade`. They rest on fairness,
  and with it on ENABLED, which the prover does not treat;
* the eight violations: each is one behaviour, which TLC shows.

## 6. Not modelled

* Numerical work: ranking recordings for an outing, matching and aligning rides, map payloads, FFmpeg.
  Their results appear as inputs that change, or as success and failure.
* The gallery's own operations: albums, tags, previews, thumbnails, companion files, deletion of media.
* `publish_metadata_copy` (the corrected copy of a movie's header) and EVENT recordings.
* The memory cache of location days, which is keyed by the file's identity.
* Presentation, request parsing, settings, telemetry and deployment, which have no interleaving of
  their own.
* Several processes on one database: the Pi and the processor have one each.

Assumptions that the models make about the surroundings, each at its action: a camera that is plugged in
again was away long enough for the agent to notice; a NAS outage that a walk meets lasts until the walk
ends; during a snapshot a replaced key does not come back; other clients of the NAS change modification time
or inode when they change contents (decay that changes neither is modelled in `UploadLedger`, not for the
clips of a trip movie).

Narrower than the code, at these places:

* `Archive`: the last look at the two names (`archive_links.py:240-245`) and the rename (248) are one step. The
  repository asks to keep other clients idle during a hardlink job; one that replaces a name in between
  would lose its file.
* `DateCorrection`: `SendsToCurrentFolder` speaks of the date that a folder was computed from. A date that a scan
  comes to doubt after the check under the semaphore does not call the upload back, and the property does
  not ask for it.
* `Intake`, `DateReview`, `RideFilms`: `WorkIsAskedOnce` covers the functions that look before they insert.
  `JobManager.retry` (`jobs.py:329-344`) inserts a copy of an old job without looking or locking, so a retry
  can put a second job of the same work beside a queued one.
* `HaRefresh`, `LocationImport`: a refresh and an import by hand are modelled apart. That they do not meet on
  one day is due to the claim rule for maintenance jobs alone (discovery does not take `_LOCATION_LOCK`),
  which `JobQueueAudits` shows to fail when a pause falls into a claim.
