---------------------------- MODULE VideoLibrary ----------------------------
(***************************************************************************)
(* The rows of the catalog and the files they stand for, with everything   *)
(* that moves, merges or deletes either of them:                           *)
(*                                                                         *)
(*   - the migration that uploads a crawler's local videos to a drive,     *)
(*     binds them to a copy that is there already, and sweeps what is left;*)
(*   - a user who deletes a video, with its source or without it;          *)
(*   - the job that deletes the sources of blacklisted videos, and the     *)
(*     restore of a blacklisted video;                                     *)
(*   - the removal of exact duplicates;                                    *)
(*   - the scan of the target drive, one file at a time (see DriveScan).   *)
(*                                                                         *)
(* They run side by side: the persistence gate they take is shared, and    *)
(* only the migration is one at a time.  All videos here have the same     *)
(* content; whether that is noticed (fingerprints and hashes may not be    *)
(* there yet) is a free choice.  Left out: thumbnails, tags, titles, the   *)
(* crawl itself, drives that cannot list a directory.                      *)
(***************************************************************************)
EXTENDS Naturals, FiniteSets

CONSTANTS
    Crawled,     \* videos of the crawler: the row and its local file
    Foreign,     \* files of the owner on the target drive, and their rows
    Copies,      \* file IDs the target drive hands out for uploads
    Nothing,     \* no file, no row
    MaxFaults,   \* failures of the migration and deaths of the process
    MaxDeletes   \* deletions by a user

ASSUME VideoLibraryAssumption ==
    /\ IsFiniteSet(Crawled \cup Foreign \cup Copies)
    /\ Crawled \cap (Foreign \cup Copies) = {} /\ Foreign \cap Copies = {}
    /\ Nothing \notin Crawled \cup Foreign \cup Copies
    /\ {MaxFaults, MaxDeletes} \subseteq Nat

OnTarget == Foreign \cup Copies
IDs == Crawled \cup OnTarget     \* a scanned row has the ID of its file

VARIABLES
    at,        \* catalog: the file of each row, or Nothing where there is none
    tomb,      \* catalog: the tombstone of each ID, or NoTomb
    present,   \* files that exist: local ones and those on the target
    named,     \* the video whose name an uploaded copy bears
    mig,       \* the migration
    del,       \* a deletion by a user under way
    job,       \* the deletion of blacklisted sources
    rest,      \* the restore of a crawler's blacklisted video
    faults, deletes,  \* counters for the bounds
    wiped,     \* history: files deleted for a row or tombstone that named them
    merged,    \* history: merged videos, until the row they lead to is deleted
    purged,    \* history: those whose tombstone the source deletion removed
    halfway,   \* history: restores that wrote the row and not yet removed the tombstone
    revived    \* history: rows that such a restore inserted a second time

catalogVars == <<at, tomb>>
fileVars    == <<present, named>>
workVars    == <<mig, del, job, rest>>
countVars   == <<faults, deletes>>
restores    == <<halfway, revived>>
history     == <<wiped, merged, purged, restores>>
vars == <<catalogVars, fileVars, workVars, countVars, history>>

Live(id) == at[id] # Nothing
Rows == {id \in IDs : Live(id)}

NoTomb == [file |-> Nothing, reason |-> "none", keeper |-> Nothing, asked |-> FALSE]
Unread == {Nothing}
Idle   == [pc |-> "idle", todo |-> {}, cur |-> Nothing, file |-> Nothing,
           seen |-> Unread, again |-> FALSE]
NoDel  == [pc |-> "idle", id |-> Nothing, file |-> Nothing]
NoJob  == [pc |-> "idle", id |-> Nothing, listed |-> NoTomb]
NoRest == [pc |-> "idle", id |-> Nothing, file |-> Nothing]

\* A tombstone whose source the job may delete.
Pending(id) == tomb[id] # NoTomb /\ ~tomb[id].asked

\* The videos whose address leads to a row.
LedTo(id) == {i \in IDs : i = id \/ tomb[i].keeper = id}

Blocked(f) == \E id \in IDs : tomb[id] # NoTomb /\ (id = f \/ tomb[id].file = f)

Init ==
    /\ at = [id \in IDs |-> IF id \in Copies THEN Nothing ELSE id]
    /\ tomb = [id \in IDs |-> NoTomb]
    /\ present = Crawled \cup Foreign
    /\ named = [c \in Copies |-> Nothing]
    /\ mig = Idle /\ del = NoDel /\ job = NoJob /\ rest = NoRest
    /\ faults = 0 /\ deletes = 0
    /\ wiped = {} /\ merged = {} /\ purged = {}
    /\ halfway = {} /\ revived = {}

Fault == faults < MaxFaults /\ faults' = faults + 1

-----------------------------------------------------------------------------
(* The migration: one run at a time, its candidates one by one.            *)

Step(pc) == mig' = [mig EXCEPT !.pc = pc]
NextCandidate == mig' = [mig EXCEPT !.pc = "pick", !.cur = Nothing,
                                    !.file = Nothing, !.again = FALSE]
MigrationOnly == UNCHANGED <<del, job, rest, deletes, history>>

StartRun ==
    /\ mig.pc = "idle"
    /\ mig' = [Idle EXCEPT !.pc = "pick", !.todo = {v \in Crawled : at[v] = v}]
    /\ MigrationOnly /\ UNCHANGED <<catalogVars, fileVars, faults>>

\* A candidate without its local file is an issue and is passed over.
Pick(v) ==
    /\ mig.pc = "pick" /\ v \in mig.todo
    /\ mig' = [mig EXCEPT !.todo = @ \ {v},
                          !.cur = IF v \in present THEN v ELSE Nothing,
                          !.pc = IF v \in present THEN "match" ELSE "pick"]
    /\ MigrationOnly /\ UNCHANGED <<catalogVars, fileVars, faults>>

\* FindEquivalentVideoOnDrive: a row on the target, not looked up on the drive.
Match(id) ==
    /\ mig.pc = "match" /\ id # mig.cur /\ at[id] \in OnTarget
    /\ mig' = [mig EXCEPT !.pc = "complete", !.file = at[id]]
    /\ MigrationOnly /\ UNCHANGED <<catalogVars, fileVars, faults>>

\* Its fingerprint or preview is not ready: blocked until a later run.
Block ==
    /\ mig.pc = "match" /\ NextCandidate
    /\ MigrationOnly /\ UNCHANGED <<catalogVars, fileVars, faults>>

NoMatch ==
    /\ mig.pc = "match" /\ Step("find")
    /\ MigrationOnly /\ UNCHANGED <<catalogVars, fileVars, faults>>

\* migrateOne: the local file is opened, and a file of the same name and size
\* is looked up in the listing of the directory, read once per run.
FindExisting ==
    /\ mig.pc = "find"
    /\ LET list == IF mig.seen = Unread THEN present \cap Copies ELSE mig.seen
           same == {c \in list : named[c] = mig.cur}
       IN  IF mig.cur \notin present THEN NextCandidate
           ELSE IF same = {} THEN mig' = [mig EXCEPT !.pc = "upload", !.seen = list]
           ELSE \E c \in same :
                   mig' = [mig EXCEPT !.pc = "complete", !.file = c, !.seen = list]
    /\ MigrationOnly /\ UNCHANGED <<catalogVars, fileVars, faults>>

\* The drive stores the file under the name of the video and a new ID; which
\* of the unused ones makes no difference to anybody.
Store(c) ==
    /\ mig.pc = "upload" /\ named[c] = Nothing
    /\ c = CHOOSE d \in Copies : named[d] = Nothing
    /\ present' = present \cup {c}
    /\ named' = [named EXCEPT ![c] = mig.cur]

Upload(c) ==
    /\ Store(c)
    /\ mig' = [mig EXCEPT !.pc = "complete", !.file = c]
    /\ MigrationOnly /\ UNCHANGED <<catalogVars, faults>>

\* Mutation: the listing read before the upload is used again.
RetryFromCache ==
    IF mig.again THEN NextCandidate
    ELSE mig' = [mig EXCEPT !.pc = "find", !.again = TRUE]

\* uploadWithReconciliation: a transient error is tried once more, after the
\* listing is forgotten; every other error ends the candidate.
Retry ==
    IF mig.again THEN NextCandidate
    ELSE mig' = [mig EXCEPT !.pc = "find", !.again = TRUE, !.seen = Unread]

UploadFails ==
    /\ mig.pc = "upload" /\ Fault
    /\ Retry \/ NextCandidate
    /\ MigrationOnly /\ UNCHANGED <<catalogVars, fileVars>>

\* The file is stored but the answer is lost.
AnswerLost(c) ==
    /\ Store(c) /\ Fault
    /\ Retry \/ NextCandidate
    /\ MigrationOnly /\ UNCHANGED catalogVars

\* Mutation: the row is written whether it is still there or not.
CompleteAnyway ==
    /\ mig.pc = "complete"
    /\ at' = [at EXCEPT ![mig.cur] = mig.file] /\ Step("clean")
    /\ MigrationOnly /\ UNCHANGED <<tomb, fileVars, faults>>

\* MigrateVideoToDrive updates the row only where it still names the source;
\* otherwise the copy stays on the drive and the candidate is an issue.
Complete ==
    /\ mig.pc = "complete"
    /\ IF at[mig.cur] = mig.cur
       THEN at' = [at EXCEPT ![mig.cur] = mig.file] /\ Step("clean")
       ELSE UNCHANGED at /\ NextCandidate
    /\ MigrationOnly /\ UNCHANGED <<tomb, fileVars, faults>>

\* CleanupLocal: a removal that fails is only logged.
CleanupLocal ==
    /\ mig.pc = "clean"
    /\ \/ present' = present \ {mig.cur} /\ UNCHANGED faults
       \/ Fault /\ UNCHANGED present
    /\ NextCandidate
    /\ MigrationOnly /\ UNCHANGED <<catalogVars, named>>

\* Mutation: the sweep belongs to runs that had a candidate.
SweepAfterUploads ==
    /\ mig.pc = "pick" /\ mig.todo = {}
    /\ IF mig.seen = Unread THEN mig' = Idle
       ELSE mig' = [Idle EXCEPT !.pc = "sweep", !.todo = present \cap Crawled]
    /\ MigrationOnly /\ UNCHANGED <<catalogVars, fileVars, faults>>

\* cleanupOldLocalVideos lists the local files after the last candidate.
StartSweep ==
    /\ mig.pc = "pick" /\ mig.todo = {}
    /\ mig' = [Idle EXCEPT !.pc = "sweep", !.todo = present \cap Crawled]
    /\ MigrationOnly /\ UNCHANGED <<catalogVars, fileVars, faults>>

\* Local files without a row are kept.
Migrated(v) == at[v] \in OnTarget

Sweep(v) ==
    /\ mig.pc = "sweep" /\ v \in mig.todo
    /\ mig' = [mig EXCEPT !.todo = @ \ {v}]
    /\ \/ present' = (IF Migrated(v) THEN present \ {v} ELSE present) /\ UNCHANGED faults
       \/ Migrated(v) /\ Fault /\ UNCHANGED present
    /\ MigrationOnly /\ UNCHANGED <<catalogVars, named>>

RunEnds ==
    /\ mig.pc = "sweep" /\ mig.todo = {} /\ mig' = Idle
    /\ MigrationOnly /\ UNCHANGED <<catalogVars, fileVars, faults>>

\* A canceled run, or a target that refuses: the rest and the sweep are left.
RunStops ==
    /\ mig.pc \in {"pick", "find", "upload"} /\ Fault /\ mig' = Idle
    /\ MigrationOnly /\ UNCHANGED <<catalogVars, fileVars>>

Migration ==
    \/ \E v \in Crawled : Pick(v) \/ Sweep(v)
    \/ \E id \in IDs : Match(id)
    \/ \E c \in Copies : Upload(c) \/ AnswerLost(c)
    \/ StartRun \/ Block \/ NoMatch \/ FindExisting \/ UploadFails \/ Complete
    \/ CleanupLocal \/ StartSweep \/ RunEnds \/ RunStops

-----------------------------------------------------------------------------
(* A user deletes a video, with its source or without it.                  *)

Buried(id, reason, keeper) ==
    [file |-> at[id], reason |-> reason, keeper |-> keeper, asked |-> FALSE]

Counted == deletes < MaxDeletes /\ deletes' = deletes + 1

\* DeleteVideoWithTombstoneOptions reads the row again in its transaction.
Delete(id) ==
    /\ Live(id) /\ Counted
    /\ at' = [at EXCEPT ![id] = Nothing]
    /\ tomb' = [tomb EXCEPT ![id] = Buried(id, "user", Nothing)]
    /\ merged' = merged \ LedTo(id)
    /\ UNCHANGED <<fileVars, workVars, faults, wiped, purged, restores>>

DeleteOnly == UNCHANGED <<tomb, named, mig, job, rest, purged, restores>>

\* With its source: the row is read, and not read again before its file goes.
ReadRow(id) ==
    /\ del = NoDel /\ Live(id) /\ Counted
    /\ del' = [pc |-> "source", id |-> id, file |-> at[id]]
    /\ DeleteOnly /\ UNCHANGED <<at, present, faults, wiped, merged>>

\* A local file that is missing is as good as removed; a drive may refuse.
DeleteSource ==
    /\ del.pc = "source"
    /\ \/ /\ present' = present \ {del.file}
          /\ wiped' = wiped \cup {del.file}
          /\ del' = [del EXCEPT !.pc = "row"]
       \/ del' = NoDel /\ UNCHANGED <<present, wiped>>
    /\ DeleteOnly /\ UNCHANGED <<at, faults, deletes, merged>>

\* DeleteVideo: no tombstone, whatever file the row names by now.
DeleteRow ==
    /\ del.pc = "row" /\ del' = NoDel
    /\ at' = [at EXCEPT ![del.id] = Nothing]
    /\ merged' = IF Live(del.id) THEN merged \ LedTo(del.id) ELSE merged
    /\ DeleteOnly /\ UNCHANGED <<present, faults, deletes, wiped>>

Deletion ==
    \/ \E id \in IDs : Delete(id) \/ ReadRow(id)
    \/ DeleteSource \/ DeleteRow

-----------------------------------------------------------------------------
(* The blacklist.  The job lists tombstones and looks at each of them again *)
(* before it removes the file; a lock per video keeps restores out from     *)
(* there until the tombstone is purged.  A job has one video here.          *)

JobOnly == UNCHANGED <<at, named, mig, del, rest, countVars, merged, restores>>

StartJob(id) ==
    /\ job = NoJob /\ Pending(id)
    /\ job' = [id |-> id, listed |-> tomb[id], pc |-> "listed"]
    /\ JobOnly /\ UNCHANGED <<tomb, present, wiped, purged>>

\* Mutation: the tombstone is not read again.
AsListed == TRUE

StillListed == Pending(job.id) /\ tomb[job.id] = job.listed

\* deleteBlacklistedVideoSource up to the removal, which the drive may refuse.
\* That another row may name the same file is not looked at.
JobRemove ==
    /\ job.pc = "listed"
    /\ \/ /\ StillListed
          /\ present' = present \ {job.listed.file}
          /\ job' = [job EXCEPT !.pc = "purge"]
          /\ wiped' = wiped \cup ({job.listed.file} \cap {tomb[job.id].file})
       \/ job' = NoJob /\ UNCHANGED <<present, wiped>>
    /\ JobOnly /\ UNCHANGED <<tomb, purged>>

\* The purge takes a tombstone of either reason, the alias of a merged video
\* too.  It may fail after its retries; the next job finds the tombstone again.
JobPurge ==
    /\ job.pc = "purge" /\ job' = NoJob
    /\ \/ /\ tomb' = [tomb EXCEPT ![job.id] = NoTomb]
          /\ purged' = purged \cup ({job.id} \cap merged)
       \/ UNCHANGED <<tomb, purged>>
    /\ JobOnly /\ UNCHANGED <<present, wiped>>

\* restoreDeletedVideo: a duplicate cannot be restored; a crawler's video is
\* marked for its next scan, on any other drive the tombstone just goes.
Restore(id) ==
    /\ Pending(id) /\ tomb[id].reason = "user" /\ ~(job.pc = "purge" /\ job.id = id)
    /\ tomb' = IF tomb[id].file \in Crawled
               THEN [tomb EXCEPT ![id].asked = TRUE]
               ELSE [tomb EXCEPT ![id] = NoTomb]
    /\ UNCHANGED <<at, fileVars, workVars, faults, deletes, history>>

(***************************************************************************)
(* RestoreRequestedVideos, after the crawl: the requests and the local      *)
(* files are listed, then a video's row is written and its tombstone        *)
(* removed, in statements of their own.  A restore has one video here.      *)
(***************************************************************************)
RestoreOnly == UNCHANGED <<fileVars, mig, del, job, deletes, wiped, merged, purged>>

ListRequests(v) ==
    /\ rest = NoRest /\ tomb[v].asked /\ tomb[v].file \in present
    /\ rest' = [pc |-> "listed", id |-> v, file |-> tomb[v].file]
    /\ RestoreOnly /\ UNCHANGED <<catalogVars, faults, restores>>

\* UpsertVideo: a row that is there keeps its file.
RestoreRow ==
    /\ rest.pc = "listed"
    /\ at' = IF Live(rest.id) THEN at ELSE [at EXCEPT ![rest.id] = rest.file]
    /\ rest' = [rest EXCEPT !.pc = "row"]
    /\ halfway' = halfway \cup {rest.id}
    /\ revived' = IF Live(rest.id) THEN revived ELSE revived \cup ({rest.id} \cap halfway)
    /\ RestoreOnly /\ UNCHANGED <<tomb, faults>>

\* CompleteCrawlerRestore: only a tombstone whose restore is still asked for.
CompleteRestore ==
    /\ rest.pc = "row" /\ rest' = NoRest
    /\ IF tomb[rest.id].asked
       THEN tomb' = [tomb EXCEPT ![rest.id] = NoTomb] /\ halfway' = halfway \ {rest.id}
       ELSE UNCHANGED <<tomb, halfway>>
    /\ RestoreOnly /\ UNCHANGED <<at, faults, revived>>

\* Any of the statements fails: the tombstone stays for the next restore.
RestoreFails ==
    /\ rest # NoRest /\ Fault /\ rest' = NoRest
    /\ RestoreOnly /\ UNCHANGED <<catalogVars, restores>>

Blacklist ==
    \/ \E id \in IDs : StartJob(id) \/ Restore(id)
    \/ JobRemove \/ JobPurge
    \/ \E v \in Crawled : ListRequests(v)
    \/ RestoreRow \/ CompleteRestore \/ RestoreFails

-----------------------------------------------------------------------------
(* Duplicates and the scan of the target.                                  *)

\* Mutation: tombstones that name a merged row as their keeper stay as they are.
NotRedirected(t, dups, keeper) == t

\* redirectDuplicateVideoReferencesTx
Redirected(t, dups, keeper) ==
    IF t.reason = "duplicate" /\ t.keeper \in dups THEN [t EXCEPT !.keeper = keeper] ELSE t

\* ApplyDuplicateVideoDeletions, one transaction.  It gives the plan up when a
\* row of it has changed since, so planning is no step of its own.  Which row
\* of a group is kept depends on the assets made for it.
Merge(dups, keeper) ==
    /\ at' = [id \in IDs |-> IF id \in dups THEN Nothing ELSE at[id]]
    /\ tomb' = [id \in IDs |-> IF id \in dups THEN Buried(id, "duplicate", keeper)
                               ELSE Redirected(tomb[id], dups, keeper)]
    /\ merged' = merged \cup dups /\ purged' = purged \ dups
    /\ UNCHANGED <<fileVars, workVars, countVars, wiped, restores>>

\* A file is taken in unless a row or a tombstone knows it, or a tombstone of
\* the same drive bears its name.
ScanAdds(f) ==
    /\ f \in present \cap OnTarget /\ ~Live(f) /\ ~Blocked(f)
    /\ \A id \in IDs : at[id] # f
    /\ \A id \in IDs : f \in Copies /\ tomb[id].file \in Copies
                          => named[tomb[id].file] # named[f]
    /\ at' = [at EXCEPT ![f] = f]
    /\ UNCHANGED <<tomb, fileVars, workVars, countVars, history>>

\* The row of a file that is gone from the drive goes without a tombstone.
ScanDrops(id) ==
    /\ at[id] \in OnTarget \ present
    /\ at' = [at EXCEPT ![id] = Nothing]
    /\ merged' = merged \ LedTo(id)
    /\ UNCHANGED <<tomb, fileVars, workVars, countVars, wiped, purged, restores>>

Maintenance ==
    \/ \E keeper \in Rows : \E dups \in SUBSET (Rows \ {keeper}) :
          dups # {} /\ Merge(dups, keeper)
    \/ \E f \in OnTarget : ScanAdds(f)
    \/ \E id \in IDs : ScanDrops(id)

\* Everything but the catalog and the files is forgotten.
Crash ==
    /\ Fault
    /\ mig' = Idle /\ del' = NoDel /\ job' = NoJob /\ rest' = NoRest
    /\ UNCHANGED <<catalogVars, fileVars, deletes, history>>

Next == Migration \/ Deletion \/ Blacklist \/ Maintenance \/ Crash

\* The nightly pipeline starts a run every day, and a run goes on to its end.
Spec == Init /\ [][Next]_vars /\ WF_vars(Migration)

-----------------------------------------------------------------------------
(* Properties.                                                             *)

\* The types of the state, and who is where: a run between candidates holds
\* none, a copy has a name exactly from its upload on, a row of the crawler
\* names its own file, and nobody is live and buried but a video whose restore
\* has written the row and not come to remove the tombstone.
\* (execution.go migrateCandidates, catalog.go MigrateVideoToDrive, importer.go
\* RestoreRequestedVideos)
TypeOK ==
    /\ at \in [IDs -> IDs \cup {Nothing}]
    /\ \A id \in IDs : at[id] \in Crawled => at[id] = id
    /\ \A id \in IDs : Live(id) /\ tomb[id] # NoTomb => id \in halfway
    /\ \A id \in IDs : tomb[id] # NoTomb =>
          /\ tomb[id].file \in IDs /\ tomb[id].asked \in BOOLEAN
          /\ tomb[id].reason = "duplicate" <=> tomb[id].keeper # Nothing
    /\ present \subseteq IDs /\ named \in [Copies -> Crawled \cup {Nothing}]
    /\ \A c \in present \cap Copies : named[c] # Nothing
    /\ mig.cur = Nothing <=> mig.pc \in {"idle", "pick", "sweep"}
    /\ mig.pc = "clean" => mig.file \in OnTarget
    /\ del = NoDel \/ del.id \in IDs
    /\ rest = NoRest \/ (rest.id = rest.file /\ rest.id \in Crawled)

\* Only a deletion of its source, for a row or a tombstone that named it, takes
\* the file of a row away: neither a crash, a lost answer, a merge, a restore
\* nor the cleanup of the migration does.  The one exception: a restore that
\* stopped between its row and its tombstone is repeated, and in between the
\* row was migrated and deleted or merged.  The repeated restore may then insert a row
\* for the local file the migration removes or has removed since the listing.
\* (migrator.go completeMigration, cleanupOldLocalVideos, blacklist.go
\* deleteBlacklistedVideoSource, importer.go RestoreRequestedVideos)
CopyKept ==
    \A id \in IDs : Live(id) => \/ at[id] \in present \cup wiped
                                \/ at[id] = id /\ id \in revived

\* However often a migration is interrupted or repeated, the drive holds at
\* most one copy of a video.
\* (migrator.go migrateOne, execution.go uploadWithReconciliation)
OneCopyPerName ==
    \A c, d \in present \cap Copies : named[c] = named[d] => c = d

\* The old address of a merged video leads to a row (its own, or that of the
\* keeper its tombstone names, who may have been merged in his turn), until
\* somebody deletes that row.  One thing breaks an address although the keeper
\* is live: the deletion of blacklisted sources does not spare duplicates, and
\* its purge removes the tombstone that is the alias.
\* (dedupe.go redirectDuplicateVideoReferencesTx, ResolveVideoID, catalog.go
\* ListDeletedVideosPendingSourceDeletion, PurgeDeletedVideo)
AliasResolves ==
    \A id \in merged :
        \/ Live(id)
        \/ tomb[id].reason = "duplicate" /\ Live(tomb[id].keeper)
        \/ id \in purged

\* A local file left behind by a removal that failed or a run that died is
\* swept by a later run, as long as its row stays on the target.
\* (migrator.go cleanupOldLocalVideos)
LeftoverSwept ==
    \A v \in Crawled : v \in present /\ Migrated(v) ~> v \notin present \/ ~Migrated(v)

\* Deleting the sources of merged videos takes no file from a live row.  It
\* fails: a video bound to the file of another row shares it, and when one of
\* the two is merged its tombstone names the file the keeper plays.
\* (blacklist.go removeDeletedVideoSourceFile, execution.go bindToExistingTarget)
SharedSourceKept ==
    [][\A f \in present \ present' :
          job.pc = "listed" /\ job.listed.reason = "duplicate" /\ job' # job
             => \A id \in IDs : at[id] # f]_vars

=============================================================================
