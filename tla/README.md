# Verification of the video site backend

TLA+ models, TLC runs and TLAPS proofs for the backend of the video site in this repository (`src/backend`, Go). The site keeps a
catalog of videos in one SQLite database, finds videos on cloud drives, imports them from links, makes previews, thumbnails and
fingerprints, backs itself up and restores backups. It is one process; its concurrency is goroutines over the database and a data
directory, and its hardest moments are the ones where the process dies between two effects on the disk.

Paths below are relative to `src/backend`.

## 1. The system

| Component | State it keeps | Operations | Interacts with |
|---|---|---|---|
| Restore switch (`internal/backup/restore_prepare.go`, `restore_apply.go`) | a marker file; for each switched path the target, a staged and a rollback copy beside it | PrepareRestore, ApplyPendingRestore, CommitAppliedRestore, RollbackAppliedRestore | startup; backup manager (maintenance) |
| Startup and shutdown (`cmd/server/main.go`) | configuration, the open catalog, services | apply restore → reload config → open catalog → commit → start services → listen; shutdown in reverse | all |
| Import queue (`internal/mediaimport`, `internal/catalog/remote_upload_jobs.go`) | rows of jobs, part files and published files in the upload directory, the current job and its context | Create, Cancel, claim, download, probe, publish, finalize, cleanup, recover, Shutdown | catalog, upload directory, persistence gate |
| Backup manager (`internal/backup/manager.go`, `internal/persistence`) | current task, archives, upload sessions, maintenance flag | create a backup under the gate, verify, upload ranges, delete | all writers (gate), transfer |
| Backup transfer (`internal/backuptransfer`) | tokens and receipts (receiver), jobs (sender), both in JSON files | begin, put range, finalize, cancel, retry | another server over HTTP; upload sessions |
| Generation (`internal/preview`, `internal/fingerprint`, `internal/tasklimit`) | per drive a channel, a set of reserved ids, follow-ups, a cool-down; shared limiters | enqueue, follow up, process, retry, acquire, release, change the limit | catalog, drives |
| Nightly pipeline (`internal/nightly`) | running, queued, cancel function, last run date | scheduled run, manual request, stop | scan, generation, migration |
| Scan and cleanup (`internal/scanner`, `internal/catalog/scan_presence.go`, `cmd/server/scan.go`) | missing counts per video | discover, reconcile, confirm missing files | drives, catalog |
| Crawler upload migration (`internal/crawlerupload`) | local files, bindings, cool-down | upload, find an existing copy, bind, clean up | drives, catalog |
| Blacklist and duplicates (`cmd/server/blacklist.go`, `internal/dedupe`, `internal/catalog/dedupe.go`) | tombstones | delete a video, delete its source, restore it; plan and merge | catalog, drives, migration |
| Login protection, shares, Telegram (`internal/auth`, `internal/telegram`, ...) | failed attempts and sessions; claims of a share; receipts | log in; claim; ingest | catalog |

What makes each of them correct, and what is hard about it:

- **Restore switch.** People see the data of before the restore or the restored data, never a mixture; whatever fails, nothing is
  lost. Hard: death between a rename and the marker that records it; a rollback that itself fails halfway; a write of the marker
  that reports an error after it took effect; SQLite's side files.
- **Import queue.** A job yields one video or none; a canceled job yields none; no file is left without a name, and no other
  video's file is removed. Hard: cancellation and shutdown at any step; names stored before files exist; cleanups that run twice.
- **Generation.** A slot is never leaked and never given out twice; a drive's queue keeps moving; a video that changed while it was
  processed is processed again. Hard: cancellation racing a grant, a channel that is full.
- **Backup transfer.** Both servers agree in the end whether the backup arrived. Hard: lost answers, retries, restarts of either.
- **Scan.** A video is removed only when a complete scan, or an incomplete one and one before it, missed its file. Hard: partial scans, moved files.
- **Migration, blacklist, duplicates.** The file of a row exists until somebody deletes it on purpose; a video is uploaded once; the
  address of a merged video goes on working (the purge of its tombstone excepted, section 4). Hard: death between the remote write and the catalog; rows that change between a look
  and its use; two rows that name one file.
- **Backup manager.** A snapshot is of one moment. Hard: files and rows change together.
- **Nightly pipeline.** One run at a time, no accepted request is lost. Hard: a stop between a check and the start.

`PROJECT.json` lists every component with what is and is not modelled, and every hazard at its line with the properties that cover it.

## 2. Plan

Most important behaviour first. Steps 1 to 6 are done.

| Step | Modules | Abstract specification | Theorems |
|---|---|---|---|
| 1 | `RestoreSwitch`, `MCRestoreSwitch` | `RestoreAtomic`: one generation is served, it changes only across a restart | all safety, and the refinement |
| 2 | `ImportQueue`, `MCImportQueue` | - | all safety |
| 3 | `TaskLimiter`, `GenerationQueue` (composes the limiter with one drive's queue) | - | all safety of both |
| 4 | `BackupTransfer` (sender, receiver, network) | `TransferOutcome`: the import ends once, and the sender says nothing else | types, one archive, the refinement |
| 5 | `DriveScan` | - | all safety: types, what is deleted, what a clean scan leaves |
| 6 | `VideoLibrary` (migration, deletion, blacklist, restore, merge and scan over one catalog) | - | all safety |
| left | `NightlyRunner`: scheduled and manual runs, stop | one run at a time, an accepted request is run | - |
| left | the backup manager's snapshot under the persistence gate, with the browser upload beside the import queue | a snapshot is of one moment | - |
| left | login protection, one-shot shares, Telegram receipts, the fingerprint worker | a share is claimed once | - |

Modules are written to be proved about as well as checked: sizes and bounds are CONSTANTS with named assumptions, each operation is
one action, invariants are conjunctions of named parts. No module has a RECURSIVE operator: the path of a directory in `DriveScan` is a
least closed set, and the stack of the walk settles at the first frame that has something left.

## 3. Modules

### RestoreSwitch

One restore, from `PrepareRestore` to the end of startup. The three paths of each operation are the functions `target`, `staged` and
`rollback`; `disk` is the marker file, `mem` the copy the starting process works on. `pc` and `i` say where the process is, with a
label for every point between two effects. `failed` is "rollbackErrors is not empty", `resuming` tells a rollback the marker asked
for from one that a failure of this startup caused. `orig`, `served` and `trial` are history: they never guard an action of the
code except the bound in `BeginPrepare`.

| Code | Actions |
|---|---|
| `PrepareRestore`, `prepareRestoreSwitch` | `BeginPrepare`, `StageOperation`, `SavePending` |
| `ApplyPendingRestore` | `Start`, `ApplyOperation`, `SaveMoved`, `Activate`, `SaveApplied`, `SaveApplyError`, `FinishApply` |
| `rollbackRestoreMarker`, `rollbackRestoreOperation`, `cleanupRolledBackRestore` | `SaveIntent`, `RollbackOperation`, `Reactivate`, `SaveRolled`, `EndRollback`, `Cleanup`, `ForgetRollback` |
| `CommitAppliedRestore` | `CommitOperation`, `ForgetCommit` |
| `main` | `Stop`, `ReloadConfig`, `OpenCatalog`, `Listen`, `Crash` |

Every effect can fail (`MaxFaults`); a failing `writeJSONAtomic` may or may not have replaced the file, because it syncs the
directory after its rename. The process can die at every label (`MaxCrashes`).

Left out: the staging root and the report files (their errors are ignored by the code, or fold into the fault of `ForgetCommit`);
the contents of the restored values; power loss, which can undo a rename that was not synced (only the process dies here); a second
restore after one was served. A directory is removed in one step; an `Lstat` that fails and a path that turns out to be a symbolic
link are the fault of the operation; the removals of one operation in a commit are one step, as their order does not matter to what
a later start does. The fatal exits between the reload of the configuration and the commit (directories, crawler tasks, login
protection) are `Crash`.

`RestoreAtomic` is what people see: the server is up or not, the generation it answers from, and the set of generations the next
start may choose. It says nothing of files. `RestoreSwitch!Implements` maps it: `choice` is both generations while a marker exists.

### ImportQueue

The table of jobs (`state`, `cancelRequested`, `tempFile`, `finalFile`), the videos (`rows`), the upload directory (`dir` maps a
name to an inode, `parts` are part files) and the one worker (`pc`, `job`). A downloaded file is an inode `<<job, claim>>`, because
`os.CreateTemp` never returns the same file twice and the published file is a hard link to the part: `os.SameFile` compares inodes.
Names are model values: the title two jobs share, a suffixed name that is free and one that is taken by a video the queue did not
import.

| Code | Actions |
|---|---|
| `Create`, `CancelRemoteUploadJob`, `Manager.Cancel` | `Create`, `Cancel`, `Abort` |
| `run`, `ClaimNextImportJob` | `Claim`, `ReadBack`, `Stopped` |
| `processJob` | `CreatePart`, `NamePart`, `Download`, `Probe`, `Finalize` |
| `publishFile` | `PrepareSaving`, `Link`, `Unlink`, `Published` |
| `process`, `cleanupArtifactRef` | `Settle`, `Remove`, `Cleaned`, `Finish` |
| `Start`, `RecoverRemoteUploadJobs`, `cleanupStrayParts` | `StartUp`, `Sweep`, `Remove`, `Cleaned`, `Recover`, `RemoveStrays` |
| `Shutdown` | `Stop` |

A statement runs under the context of the job, which `Cancel` and `Shutdown` cancel; cleanup and the last statement run under a
context of their own. `Cancel` is two steps, because the row changes before the context. `asked`, `left`, `cleaned` and `blind` are
history. Left out: jobs of kind telegram (delayed retries, the file store), expiry of old rows, progress, tags, the wait for the
persistence gate (which fails only like a canceled context).

### TaskLimiter

One `Limiter`: `limit`, `active` and `waiters` are its fields, `call[t]` is where the call of `Acquire` made for task `t` is, and
`canceled` the tasks whose context has ended. The two critical sections of `Acquire` and the `select` between them are steps of
their own, so that a grant, a cancellation and a change of the limit can fall between any two. `dispatchLocked` runs to its end
under the mutex: it is the operator `Dispatch`, part of every action whose code calls it.

| Code | Actions |
|---|---|
| `New`, `SetLimit` | `LimiterInit`, `SetLimit` |
| `Acquire` up to the first unlock | `Acquire` |
| `Acquire` after the select | `TakeSlot`, `RefuseSlot` (canceled after a grant), `LeaveQueue` (canceled before one) |
| the release function | `Release` |
| the context of the caller | `Cancel`, `Renew` |

A call whose context has ended before it locks has no effect and is not a step. The release function is guarded by `sync.OnceFunc`,
so `Release` is enabled once per slot; the mutation `ReleaseTwice` is that guard removed. The nil limiter is left out.

### GenerationQueue

The thumbnail queue of one drive and everybody around it. It extends `TaskLimiter`: the limiter in the state is the preview limiter,
its `Tasks` are the preview tasks of this drive (`Previewed`) and of others. `reserved` is the set of `videoQueue`, `ch` the channel,
`pc` and `cur` the goroutine of the `ThumbWorker`, `activeID` and `followUps` what `followUpMu` protects. Every critical section and
every channel operation is a step; `followUpMu` is held by the worker from `releasing` to `sending`, which is where the code keeps it
through `EnqueueBlocking`. `owed` is history: the previews that became ready and that no attempt has looked at. So is `dropped`: the
ones among them whose follow-up was folded into a reservation (`Enqueue` answers true for a video that is reserved) and went when the
holder, a producer whose send was canceled or found the channel full, gave the reservation back (`Folded`).

| Code | Actions |
|---|---|
| `Enqueue` (scan), `EnqueueBlocking` (reconciliation) | `ProducerReserve`, `ProducerSend`, `ProducerGivesUp` |
| `ThumbWorker.Run` | `Take`, `Exit` |
| `processQueuedTask`, `acquireGenerationSlot`, `process` | `Activate`, `Acquired`, `ReadVideo`, `EndAttempt`, `CoolDown` |
| `finishQueued` | `CollectFollowUp`, `ReleaseReservation`, `Requeue`, `RequeueSend` |
| `Worker.prepareQueued` and the task it returns, `Worker.process` | `StartPreview`, `PreviewSlot`, `PreviewFails`, `PreviewCommits`, `EndPreview` |
| `OnPreviewReady`, `EnqueueFollowUp` | `FollowUpNotify`, `FollowUpReserve`, `FollowUpOffer` |
| `driveOperationGate`, cancellation of the worker set | `Retire`, `Stop` |
| another drive | `OtherDrive` |

A producer may reserve any video at any time, also one that has a thumbnail: its listing may be stale. An attempt ends with a
thumbnail, with an error that starts a cooldown and asks for a retry, or without either, freely chosen. The thumbnail limiter is not
in the state: `Acquired` is the promise `EveryCallReturns` that is checked of `TaskLimiter`. Left out: the channel in front of the
preview tasks and their own requeue, the status columns of the catalog, metadata-only work (`durationCh`), the fingerprint worker.

### BackupTransfer

One backup on its way from one server to another. The sender has its durable job (`job`), the goroutine that drives it (`at` is the
request it is about to make, `await` the one it waits for) and nothing else. The receiver has the receipt in memory and in its file
(`rcpt`, `saved`), the upload sessions of `backup.Manager` (`staged`, `canceling`), the published archives and their meta files
(`archive`, `described`). `hand[c]` is a request at the receiver. A request whose sender has given up stays in hand: two requests of
one sender can be served at once, which is where most of the difficulty lies. `receiveMu` is not a variable: it is held at the labels
in `Locked`.

| Code | Actions |
|---|---|
| `processOne`, `nextRunnableJob`, the peer calls | `NextRunnable`, `Request`, `Lose` and, with every answer, `Hear` (`FailOrRetry`) |
| `CancelTransfer`, `RetryTransfer`, `requeueAfterShutdown`, `loadJobs` | `CancelTransfer`, `RetryTransfer`, `SenderStop` |
| `BeginImport`, `restartExpiredImport` | `BeginImport`, `RegisterImport` |
| `PutImportRange`, `putUploadChunk`, `finishRangeWrite` | `PutImportRange`, `CommitRange`, `LeaveRange`, `CutShort` |
| `FinalizeImport`, `FinalizeUpload`, `recoverFinalizedUpload` | `FinalizeImport`, `MarkUpload`, `PublishArchive`, `FailVerification`, `DescribeArchive`, `SweepUpload`, `UndoFinalize`, `RecordImport` |
| `CancelImport`, `cancelReceiveReceipt`, `cleanupCanceledImports` | `AdminCancel`, `CancelImport`, `DropUpload`, `CleanupCanceled` |
| `ListReceiveTransfers`, `statusForReceipt` | `ListCopy`, `ListLook`, `ListRecover` |
| `RevokeReceiveToken`, `UploadTTL`, a restart | `RevokeToken`, `ExpireUpload`, `ReceiverStop` |

`SaveReceipt` changes the memory first and the file after it, as `setReceiptState` does, and a save that fails may have replaced the
file. Left out: the ranges are one, timers and progress are abstracted, the capabilities call is part of `BeginImport`, and the
sender's own job file is always saved. `TransferOutcome` is what both administrators may rely on, and it knows nothing of requests,
receipts or staging.

### DriveScan

One cloud drive and the rows the catalog has of it. `under` is the drive, `config` what the administrator set, `rows`, `misses` and
`policy` the catalog; the rest is what a scan holds in memory: the stack of directories, the directories put off, the snapshot (`E`
read, `F` failed, `X` excluded, the files seen) and what follows from it. While a scan goes on the owner moves, removes and adds
files, listings and writes fail, uploads arrive, the configuration changes.

| Code | Actions |
|---|---|
| `discover`, `discoverDir`, its final pass | `StartScan`, `ListDir`, `ListDeferred`, `ListFails`, `RetryNext` |
| `reconcile`, `findScannedVideoDuplicate`, `runScanWithTaskContext` | `Reconcile`, `FinishScan` |
| `cleanupSkippedDriveVideos`, `cleanupLegacySkippedDirectory` | `PolicyDone`, `RemoveExcluded`, `Backfill`, `RecordPolicy` |
| `EvaluateMissingDriveFiles`, `cleanupMissingDriveVideos` | `Evaluate`, `DeleteStale` |
| the owner, an upload, an administrator | `Move`, `Upload`, `Configure`, `StopScan` |

The files of a listing are recorded before its subdirectories are entered; the discovery of one excluded directory for the backfill
is one step; retries within a listing are part of it. The drive is a tree given by the parent of each entry: `Above` is the way up from
a directory, `Inside` says that a walk from the start comes to it, `Locates` that a recorded chain leads to a file. `left`, `clean`,
`unseen`, `spared` and `unruled` are history. Left out: tombstones, tags, titles, subtitles and the work queued for new videos.

### VideoLibrary

Rows, tombstones and files together, with everybody who changes them. `at[id]` is the file a row names: a crawled video names its
local file until the migration, and a file on the target after it; a scanned row has the ID of its file. All videos have the same
content, and whether that is noticed is a free choice, because it depends on fingerprints that may not be there yet. What a task has
read and still has to use is a record of its own: `mig` the migration, `del` the deletion with the source, `job` the blacklist job,
`rest` the restore by the crawler. The uploads take the IDs of `Copies` in a fixed order, because only their number matters.

| Code | Actions |
|---|---|
| `migrateCandidates`, `FindEquivalentVideoOnDrive` | `StartRun`, `Pick`, `Match`, `Block`, `NoMatch` |
| `migrateOne`, `uploadWithReconciliation` | `FindExisting`, `Upload`, `UploadFails`, `AnswerLost` |
| `completeMigration`, `MigrateVideoToDrive`, `CleanupLocal` | `Complete`, `CleanupLocal` |
| `cleanupOldLocalVideos`, the end of a run | `StartSweep`, `Sweep`, `RunEnds`, `RunStops` |
| `DeleteVideoWithTombstoneOptions`; deletion with the source | `Delete`; `ReadRow`, `DeleteSource`, `DeleteRow` |
| `deleteBlacklistedVideoSource`, `restoreDeletedVideo` | `StartJob`, `JobRemove`, `JobPurge`, `Restore` |
| `RestoreRequestedVideos`: the listing, the row, the tombstone, an error between them | `ListRequests`, `RestoreRow`, `CompleteRestore`, `RestoreFails` |
| `ApplyDuplicateVideoDeletions`, `redirectDuplicateVideoReferencesTx` | `Merge` |
| the scan of the target, a restart | `ScanAdds`, `ScanDrops`, `Crash` |

Planning and applying a merge are one step, because applying gives the plan up when a row of it has changed. A blacklist job has one
video, and a restore by the crawler takes one request from the listing to its end. History: `wiped` (files somebody deleted on
purpose), `merged` (videos whose address still has to lead to a row), `purged` (those of them whose tombstone a blacklist job has
removed), `halfway` (videos whose restore has written the row and not removed the tombstone) and `revived` (those that got a row in
such a state a second time). Left out: the crawl, thumbnails, tags and titles, drives that cannot list a directory.

## 4. Runs

| Run | Bounds | Shows |
|---|---|---|
| `RestoreFaults` | 3 paths (a directory, the write-ahead log, the database), 3 faults, 2 crashes; fair | nothing is lost or mixed, a rollback is final, the switch implements `RestoreAtomic`; the server comes up again unless a named path blocks the rollback; a promised restore that met no fault is served |
| `ImportQueue` | 2 jobs with one title, 3 names, 2 attempts, 1 fault, 1 crash, 1 shutdown; fair | one video or none per job, cancellations hold, no orphan, the first cleanup is safe, the queue drains |
| `TaskLimiter` | 4 tasks, limits 1 to 3; fair | slots are accounted for, granted in order and within the limit, never idle beside a sleeper; every call returns |
| `GenerationQueue` | 2 videos of which one awaits a preview, a channel of 1, one preview slot shared with one other drive; fair (35,751 states) | reservations match their holders, a preview that becomes ready gets an attempt that sees it unless its follow-up was dropped, preview slots turn over |
| `BackupTransfer` | 2 requests at a time, 2 attempts, 2 uploads, 2 failures; fair (68,586 states) | published at most once, implements `TransferOutcome`, a transfer comes to an end, the staging of a canceled one is given back |
| `DriveScan` | 3 directories, 2 files that are copies, 1 move, 1 failure, 1 change of configuration (3,046,418 states) | a row goes only when its file is gone or excluded, and after an incomplete scan only when an earlier one has missed it too; an undisturbed scan leaves the catalog as the drive is |
| `VideoLibrary` | 1 crawled video, 1 file of the owner, 2 IDs for uploads, 1 fault or crash, 1 deletion; fair (833,258 states) | no file of a row is lost, no video is uploaded twice, merged addresses resolve unless their tombstone is purged, leftovers are swept |
| `RestorePrepareSync`, `ImportSource`, `ThumbnailJam`, `ScanUpload`, `SharedSource` | smaller instances | where the code does not do what its comments and docs say, see below |

Why these bounds are enough. Three operations are one of each kind the code distinguishes and put an operation before and after
every other; the loops treat operations alike. Two faults are needed to fail a start and then its rollback, the third to fail a
repair of that; one crash interrupts a rollback and a second the start that resumes it. In the queue, one job is enough for a
collision with a foreign file and two for a collision with each other; a claimed job can be interrupted by a crash and by a
shutdown and fail once more. The number of attempts is 2 instead of 20: the first name and one suffixed name are the two cases of
`UploadFileName`. In `ImportQueue` the system may rest with an empty queue, so deadlock is not checked there; `QueueDrains` is what
says that it does not rest too early.

In the limiter four tasks and three slots give a holder, a granted call and two sleepers at every limit below three, so that a call
can leave the middle of the queue, and a limit that drops from three to one has to drain. Contexts end and are renewed without a
bound. In the queue, a channel of one is full as soon as one video waits while the other is in hand, which is all that fullness means
to the code; the same safety properties have been checked with three videos of which two await a preview (1,620,373 states).
One preview slot and one other drive suffice for one drive to keep another waiting.

In the transfer two requests are what it takes for one that was given up to meet its retry; two uploads are an expired one and its
replacement; two failures are, for instance, a lost answer and the restart that follows, or a save that fails and the restart that
reads the old file. Cancellations, the revocation and manual retries have no bound. The transfer and the scan may rest when there is
nothing to do, so deadlock is not checked. In the scan two directories besides the root give one within the other, one excluded or
refused beside one that is read, and a directory that a file moves to before or after it is listed; the first state is any such drive
with rows of this and of older versions. One move and one failure are enough for a scan that sees a file in both places or in neither.
The same properties have been checked with two changes of the configuration (5.76 million states).
In the library two IDs are the copy of an attempt whose answer was lost and a second one; the run has also passed with two faults.

Fairness. `WF_vars(Apply \/ Rollback \/ Startup)`: startup is sequential code without waits, and `install.sh` and the compose files
run the server under a supervisor that starts it again. `WF_vars(Worker \/ Startup \/ Stopped)`: the worker is one goroutine whose waits all
end (a retry timer of at most 30 seconds, the idle timeout of a download, a canceled context), and again the restart. Nothing forces
requests, cancellations, shutdowns, faults or crashes. In `TaskLimiter` goroutines that can run do run, and work under a slot ends
(ffmpeg and network calls have deadlines). In `GenerationQueue` the same holds of the worker and of preview tasks; a cooldown expires
(`CoolDown`, 5 to 10 minutes); `ProducerSend` is strongly fair, because Go serves the senders blocked on a channel in their order; and
`FollowUpNotify` is strongly fair, because a `sync.Mutex` hands itself to a waiter after a millisecond (its starvation mode). In
`BackupTransfer` the sender's goroutine goes on, each request the receiver has in hand goes on (the mutex again, and the servers'
timeouts), and the loop of the manager repeats the cleanup while one is pending; nothing forces a loss, a cancellation or a retry by hand. In `VideoLibrary` the
nightly pipeline starts a run every day, and a run goes on to its end. `DriveScan` states no fairness: its properties are of safety.

### Where code and comments disagree

Five disagreements are shown by a run of their own:

1. **`RestorePrepareSync`** - `PrepareRestore` deletes what it staged when the write of the marker reports an error, but the marker
   may be in place; the next start takes the switch for applied, and a failure after that moves the only database to staging and
   deletes it.
2. **`ImportSource`** - `cleanupArtifactRef` is not idempotent: once the part is gone it removes whatever file has the job's final
   name, and that name may belong to another video.
3. **`ThumbnailJam`** - the thumbnail worker puts a retry into the channel it alone drains while it holds `followUpMu`. When
   producers have filled the channel, it waits until it is stopped, and every `EnqueueFollowUp` waits with it, each in a preview
   task that holds a slot of all drives and the read side of the persistence gate. The channel holds 10,000 videos, so this takes a
   drive with more than that many new ones and a rate limit.
4. **`ScanUpload`** - a crawler video that arrives on a drive while that drive is scanned gets its row after its directory was listed
   and before rows are evaluated: a complete scan deletes the row at once, with tags, likes and views.
5. **`SharedSource`** - a video that was bound to a file already on the target shares it with another row. When the two are merged, the
   tombstone names the shared file, and the job that deletes the sources of the blacklist removes what the kept row plays.

The properties of the passing runs say exactly how far the promise holds beside these cases: `ComesUp` names the paths that block a
rollback, `FirstCleanupSafe` allows a foreign file to go only in a repeated cleanup, `NoOrphan` holds as long as no lookup failed,
`FollowUpHonoured` and `PreviewSlotsTurnOver` excuse a queue that is `Jammed` and the end of the worker set, `FollowUpHonoured` (and
`FollowUpInHand`) also a follow-up that is `dropped`, the `DriveScan` run lets uploads end between scans only, `ScanMirrors` says
nothing of rows written under a skip list that no scan has applied since, `CopyKept` lets a file go that was deleted for a row or
tombstone naming it, and says nothing of a row that is `revived`, and `AliasResolves` excuses the addresses that are `purged`. TLC
reaches the exceptions `dropped`, `revived` and `purged`; what the code does there is listed next.

Read in the code while modelling it, without a run:

- The rollback of a "remove" operation leaves the write-ahead log that a failed open of the restored database created
  (`restore_apply.go:344`). A commit that fails is only logged, and a later start may roll back data that has been served since
  (`main.go:141-142`).
- Recovery of imports takes every failing `os.Stat` for a missing file and clears the only name of a published one
  (`mediaimport/manager.go:750-753`); when only the part cannot be looked at, the cleanup removes the file under the final name
  without comparing the two (`755-759`). That is what `blind` marks.
- A follow-up is acknowledged when the video is already reserved (`preview/ffmpeg.go:1557-1558`). When the holder of the reservation is
  a producer that then gives it back because its context ends or the channel is full (`1563-1565`, `1580-1582`), nobody makes the
  attempt: the comment at `1586-1590` promises a schedule, and only a later reconciliation takes the video up. A follow-up that is
  refused because the channel is full is at least logged as such (`cmd/server/drives.go:1241-1243`).
- `WaitIdle` sees an idle worker between the release of a reservation and the requeue of the same video (`preview/ffmpeg.go:1921`).
- A retry of a range whose first request is still being written is refused with a conflict, which the sender takes for permanent
  (`peer_client.go:35-40`, `outgoing.go:738-745`), against `doc.go:15-16`. The listing of transfers may write "completed" over a
  cancellation from its stale copy, and the next start rejects that receipt and ends the process (`receiver.go:648-672`,
  `manager.go:262-304`, `main.go:283-289`). A receipt left "finalizing" by a crash cannot be canceled (`receiver.go:469-471`). A
  cancellation whose save failed is acknowledged when it is repeated, still unsaved.
- A row whose update failed keeps a chain that may name a directory excluded later, and stays (`scan.go:396-491`); a directory on the
  skip list that was deleted from the drive protects unlocated rows for ever. `README.md:258-262` says the policy is applied at the
  start of a scan and that two misses are always needed; the code applies it after reconciliation, and deletes at once after a
  complete scan.
- `catalog.go:3606-3608` promises that the scan after a change of the skip list cleans up first. When the list goes from A to B and
  back to A before a scan has applied B, `scan.go:412` compares A with the list applied last, sees no change and cleans nothing; rows
  that an interrupted scan or an upload wrote under B in a directory that is excluded again are then protected by the exclusion and
  stay. That is what `unruled` marks.
- Nothing refuses a root directory that is on the skip list (`admin_drive_operations.go:641-690`, `admin_drives.go:205-246`). While it
  is the root it is read, so the list counts as applied with rows inside; when the root is set back they stay for the same reason.
  TLC finds this with a start directory in a skip list and two changes of the configuration; the run's constants have none
  (`StartsClear` in section 5).
- The job that deletes the sources of the blacklist does not spare duplicates (`catalog.go:1801-1842` filters on no reason), and
  `PurgeDeletedVideo` (`1913-1926`) then removes the tombstone. `docs/DEDUP.md:89` says that this tombstone serves as the alias of the old
  ID (“墓碑同时充当旧公开 ID 的别名”); `ResolveVideoID` (`dedupe.go:203-241`) no longer finds the live keeper, and old links break.
- `RestoreRequestedVideos` writes the row (`importer.go:345`) before it removes the tombstone (`367`), and gives up in between when a
  statement fails. The tombstone stays asked for, so a later restore repeats the request. If the row was migrated and then deleted or merged
  meanwhile, the repetition may insert a row for the local file that the migration is about to remove, or has removed since the
  listing: a live row without a file.
- `README.md:355` says a merged video can be restored, `docs/DEDUP.md:89` and the code say it cannot. A video deleted while it is
  uploaded leaves its copy on the drive, and the next scan brings it back as a new video (`catalog.go:1523-1525`). A row merged away
  before its migration keeps its local file for ever, because the sweep looks at rows.
- Nightly runner: a scheduled run that starts clears the flag of a manual request that stays in the channel, and the request is
  dropped as canceled (`nightly/runner.go:499-512`, `452-460`); `StopCurrent` resets the flag under the lock but drains the channel
  after it, so it may take a newer request and leave the flag set, which refuses every later one (`325-352`); the date of the last run
  is written at the end, so a crash within the minute does repeat the run, against `29-32`.

## 5. Proofs

Everything below holds for all values of the constants: any number of operations, jobs, tasks, videos and files, and any number of
faults, crashes and deletions. Each module of proofs has an inductive invariant that TLC checked as an invariant of a run before it
was proved, a lemma per action or per part of the invariant, and at its end the theorems of the specification.

`RestoreSwitchProofs` proves about `RestoreSwitch`, for every number and kind of operations and any number of faults and crashes:

- `TypeCorrect`: `Spec => []TypeOK`;
- `OriginalsAreKept`: `Spec => []OriginalKept` - until the restored catalog has opened, the original of every path is in its place
  or beside it;
- `RestoredValuesAreKept`: `Spec => []RestoredKept` - until every operation is marked rolled back, the restored value of every
  replaced path is in its place or staged.

The only assumption is `RestoreAssumption` on the constants (at least one operation, the last one replaces the database). Neither of
the two invariants is inductive: that a rename does not overwrite the original depends on where the process is and what both copies
of the marker say. The inductive invariant `IInv` is the conjunction of

- `TypeOK` and `IndexInv` (the operation at hand is one);
- `ControlInv`: at each label, which states the marker in memory and the one on disk can have;
- `LoopInv`: what the apply loop and the rollback loop have done when they are at operation `i`, and that between two renames the
  target is absent;
- `ServingInv`: what a running server and `PrepareRestore` leave to the next start;
- `TrialInv`: for each path of a restore on trial, where its original and its restored value are.

Each part has a lemma `...Step`, with one step per action and the lemmas `ApplyEffect`, `RollbackEffect`, `ActivateEffect`,
`ReactivateEffect` for what the two halves of an operation do to the three paths. `InvariantInit` and `InvariantStep` combine them.
TLC has checked `IInv` on the instance of `RestoreFaults`.

`RestoreAtomicProofs` builds on it and proves that a restore is all or nothing: `NeverAMixture` (`NeverMixed`), `RollbacksAreFinal`
(`RollbackIsFinal`) and `SwitchImplementsAtomic` (`Implements`, the refinement of `RestoreAtomic`), each for any number of faults and
crashes, and each under the condition `~PrepareSyncFails`. The condition is needed: with `PrepareSyncFails` TLC finds a marker whose
staged values are partly deleted, and then a mixture is opened; that is the case `RestorePrepareSync` is about. `MixInv` has two parts:

- `PathInv`: each replaced path has one of four shapes (as before, between two renames, restored, as before with its staged value
  cleaned up), and each copy of the marker is `Truthful` about it: `applied` and `rolledback` are so, and `had` says whether there is an
  original to bring back, even after the commit has deleted it. The last is why a rollback after half a commit fails for good instead
  of completing with some paths restored;
- `AgreementInv`: wherever the code opens, serves or has no marker, the paths agree, because the marker then says the same of all.

`RolledShape` is the core: in each case in which `rollbackRestoreOperation` reports success the path has its original again. TLC checked
`IInv /\ MixInv` with six faults and four crashes (361,805 states).

`TaskLimiterProofs` proves about `TaskLimiter`, for every finite set of tasks and all limits, all its safety properties:

- `LimiterTypeCorrect`, `SlotsNeverLeak`, `QueueIsExact`, `NobodySleepsBesideASlot`: the four invariants of the run;
- `GrantsStayWithinLimit` and `SlotsInArrivalOrder`: its two action properties.

The only assumption is `LimiterAssumption` (finitely many tasks, a positive bound of the limits). The inductive invariant
`LimiterInv` is `Accounts(waiters, active, call)` and `NoIdleSlot`. `Accounts` takes the queue, the counter and the call states as
arguments because every critical section first makes an elementary change and then dispatches: `JoinAccounts`, `GiveBackAccounts`
and `LeaveAccounts` say that the change keeps the books, `DispatchAccounts` that dispatching keeps them and leaves no idle slot.
`DispatchGrants` and `DispatchOrder`, with `JoinOrder` and `LeaveOrder`, give the action properties. `SlotsAccounted` alone would not
be inductive: that a grant raises the number of owners by one needs that a queued call owns no slot and is queued once.

`ImportQueueProofs` proves about `ImportQueue` all its safety properties: `QueueTypeCorrect`, `JobsCompleteOnce`
(`CompletedOnce`), `CancellationsHold` (`CancelHolds`), `NoFileIsOrphaned` (`NoOrphan`), and the action property
`FirstCleanupIsSafe` (`FirstCleanupSafe`), from `ImportAssumption` and `NameAssumption` (no name is the mark for "no name"). The hard
one is that no file is orphaned: a job may die between any two effects and start over with a file of its own, and what is then removed
depends only on two names in a row. The inductive invariant says for each place of the worker what those names tell:

- `PlaceInv`, `RowInv`: which labels belong to a start, that the job at hand is active, and which of its two names are set where;
- `TryInv`: a job is claimed once in a run of the process and once more after each end, so inodes are not used twice;
- `CancelInv`: an accepted cancellation is in the row or has been carried out;
- `FileInv`: a file that no video has belongs to an active job whose row names both of its links; there is none before the link, and
  the cleanup under way will find it;
- `OwnInv`: when the part of a job is gone and no cleanup took it, the name in its row is that of its own file, or free while the
  worker is still at the job. This is what the first cleanup relies on, and what a second one has lost (`ImportSource`).

TLC checked it with two faults (1,841,275 states).

`GenerationQueueProofs` proves about `GenerationQueue`, the composition of the queue with the limiter: `GenerationTypeCorrect`,
`ReservationsHaveOneHolder` (`ReservedOnce`), `FollowUpsAreInHand` (`FollowUpInHand`), and `PreviewSlotsNeverLeak`: the limiter keeps
its books (`SlotsAccounted`) under everything the queue does to it, `Stop` included, which ends all contexts at once. It reuses the
lemmas of `TaskLimiterProofs` about the limiter's operations. `CallInv` ties the call of a preview task to its place, `WorkerInv` the
video the worker has announced to the one it has, `NoteInv` says where the debt of a video that became ready is noted: while the
worker is at the video, a notification is under way or has left its note; while the worker releases it, the note has been collected. A follow-up that was folded into a reservation has no place of its own:
`ProducerGivesUp` moves it to `dropped`, and the invariant shows that this and the end of the worker set are the only ways to lose one.
The assumptions are `GenerationAssumption`, `NoVideoAssumption` and `LimiterAssumption`.

`VideoLibraryProofs` proves about `VideoLibrary`: `LibraryTypeCorrect`, `FilesOfRowsAreKept` (`CopyKept`), `UploadedOnce`
(`OneCopyPerName`), `AliasesResolve` (`AliasResolves`), from `VideoLibraryAssumption`. What makes them hard is that the migration acts
on what it read earlier - the listing of the target, the file it will bind a row to, the row it has just changed - while everybody
else goes on. The inductive invariant says what of this is still good for the use that is made of it: `RunInv` (the file a row is about
to name existed and went only by a deletion; once the row has changed nothing leads to its local file) and `ListingInv` with `CopyInv`
(a copy that the listing does not show was uploaded for a video this run will not look at again). `RestInv` does the same for the
restore by the crawler: when it writes the row of a request it listed, the video is still buried, asked for and has its file, or it has
been here before (`halfway`, `revived`). `LockInv` says that nobody asks a video back while the blacklist job is between the removal of
its source and the purge. A row and its tombstone exclude each other only outside `halfway`, so `NotNeeded` (nothing leads to the local
file the migration removes) has the same exceptions as `CopyKept`.

`DriveScanProofs` proves about `DriveScan` all its safety properties, for any drive, any files, skip lists and start directories, and any
number of moves, faults and changes of the configuration:

- `TypeCorrect`: `Spec => []TypeOK`;
- `DeletionsConfirmed` (`ConfirmedTwice`): after a scan that could not read everything a row goes only when an earlier scan missed it too and none in between saw it;
- `DeletedRowsGone` (`StillKept`): a file that stayed where it is keeps its row, under the condition `~Uploads`. The condition is what
  the run has; without it the property is false, which is `ScanUpload`;
- `CleanScanMirrors` (`ScanMirrors`): one scan in which nothing moved and nothing failed brings the catalog up to date, under the
  condition `StartsClear`: no skip list excludes a start directory. Without it the property is false, see the last part of section 4.

The hard part is that a scan decides from listings of different moments, and that it says of a row what it should do from the first
directory of its chain that was not read. The inductive invariant of the first three is `ScanInv`:

- `TreeInv`: the directories stay a tree under every move (`TreeMove`; the lemmas on `Above` before it hold for any parent function);
- `WalkInv`: directories tried were read or failed, those put off wait once, the start comes first, and E, F and X do not overlap;
- `CountInv` and `DoomedInv`: the counter of a row never runs ahead of the scans that missed it, and what is doomed was missed;
- `KeptInv`: of a file that has not changed place since the scan began, the directory was not read or the file was seen; and below a
  directory that was read, the next one on the way to the file has been read, has failed, is excluded or waits on the stack. At the end
  nothing waits, so either the whole way was read and the file seen, or something on it failed or was excluded, and that protects the
  row (`FullyRead`, `PartlyRead`).

`CleanInv` adds what a clean scan has: `CleanWalk` (all frames lie in the configured part, and chains locate what was found),
`CleanRows` (a file seen waits for its row, has it, or has a copy that does), and four parts on the skip list - `WalkClear`, `SeenClear`,
`RuledClear`, `BackfillClear` - which lead to `CleanupInv`: when missing files are evaluated, no row that the scan has not confirmed
meets the skip list, so X protects none of them, and all are doomed. TLC checked both invariants before they were proved. A first
version of `ScanMirrors`, without `unruled`, turned out not to follow; TLC then found the two cases named in section 4.

`BackupTransferProofs` proves about `BackupTransfer`: `TransferTypeCorrect`, `OneArchive` (`PublishedOnce`) and, as `TransferImplementsOutcome`,
the refinement `Spec => KeepsOutcome`: whatever is lost, given up or restarted, every step maps to a step of `TransferOutcome` or to a
stutter. A request that was given up goes on at the receiver beside its retry, and a restart puts the receipt back to what its file says,
so the inductive invariant relates four things: the receipt in memory, the one in the file, the archives, and what the one holder of
`receiveMu` is about to do.

- `ReceiptInv`: both receipts name the archive there is, unless a cleanup has cleared a final receipt; either is completed only with an
  archive; a cancellation on file is also in memory unless there is an archive;
- `HandInv`: `receiveMu` has one holder; a new session enters the receipt only while nothing is published or canceled; a finalization works
  on the upload both receipts name; the listing that wants to write "completed" has seen an archive that exists;
- `SenderInv`: where the sender's goroutine is goes with what its job says.

`ResultStep` and `VerdictStep` are what `TransferOutcome` allows of the two servers; a lemma per action proves them with the
invariant. The only assumption is `TransferAssumption`. TLC checked the invariant also with five failures and three uploads (1,051,878
states).

Only model-checked: all liveness, which is out of the prover's reach (`ComesUp`, `PromiseKept`, `QueueDrains`, `EveryCallReturns`,
`FollowUpHonoured`, `PreviewSlotsTurnOver`, `TransferSettles`, `StagingReturned` and `LeftoverSwept`). Every safety property and every
refinement of a passing run is a theorem.

## 6. Not modelled

The map covers a small share of the code, and most of the rest has no state for a model: the clients of the cloud drives, the byte
ranges of the streaming proxy, ffmpeg, the schema migrations, the text rules for titles and tags, the reading of configuration, and
HTTP handlers that validate a request and call the components above. A model of them would restate their input checks. The frontend is a
view. Vendored code and one-off tools are out of scope. SQLite and the drives are external: a transaction is an atomic step, a call to
a drive either takes effect or not and its answer may be lost, and the creation and removal of SQLite's side files is modelled from
how the restore code treats them.

What does have state and is not modelled yet is what the plan lists as left: the runner of the nightly pipeline (the steps it runs are
in `DriveScan` and `VideoLibrary`), the snapshot of the backup manager under the persistence gate and uploads by the browser, login
protection, one-shot shares, Telegram receipts and the fingerprint worker. `PROJECT.json` says of each modelled component what of it is
left out.
