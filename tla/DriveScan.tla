------------------------------ MODULE DriveScan ------------------------------
(***************************************************************************)
(* One cloud drive and the rows the catalog keeps of its videos.  A scan   *)
(* walks the configured part of the drive one directory listing at a time, *)
(* writes what it found into the catalog, takes out the rows the skip      *)
(* policy excludes and then the rows whose files are missing.              *)
(*                                                                         *)
(* Meanwhile the owner of the drive moves, removes and adds files and      *)
(* directories, listings and database writes fail, and the scan is         *)
(* stopped.  What the scan knows is therefore a mixture of several moments *)
(* of the drive, and from that mixture it decides what to delete.          *)
(*                                                                         *)
(* Left out: tags, titles, tombstones and the work queued for new videos.  *)
(* Retries inside one listing are part of the listing.                     *)
(***************************************************************************)
EXTENDS Naturals, Sequences, FiniteSets, SequencesExt

CONSTANTS
    Dirs, Root,      \* the directories of the drive and its root
    Files,           \* the video files
    Nowhere,         \* a file or directory that is not on the drive
    Twins,           \* pairs of files that are copies of one another
    Starts,          \* directories the configuration may name as the start
    SkipLists,       \* sets of directories it may exclude
    Refused,         \* sets of directories the drive may refuse to list
    Uploads,         \* TRUE: an upload may end beside a scan, FALSE: only between scans
    MaxMoves, MaxFaults, MaxConfigs   \* bounds

ASSUME DriveScanAssumption ==
    /\ IsFiniteSet(Dirs) /\ IsFiniteSet(Files)
    /\ Starts \subseteq Dirs /\ Root \in Starts
    /\ SkipLists \subseteq SUBSET (Dirs \ {Root})
    /\ Refused \subseteq SUBSET (Dirs \ {Root})
    /\ Nowhere \notin Dirs \cup Files
    /\ Dirs \cap Files = {}
    /\ Uploads \in BOOLEAN
    /\ {MaxMoves, MaxFaults, MaxConfigs} \subseteq Nat

VARIABLES
    under,      \* where each file and directory lies
    locked,     \* directories the drive never lets the program read
    config,     \* the start directory and the skip list of the drive
    rows,       \* catalog: per file its recorded place, or Absent
    misses,     \* catalog: scans in a row that missed the file
    policy,     \* catalog: skip list last applied, skip directories backfilled
    pc,         \* the phase of the scan
    stack,      \* directories being read: chain of IDs, directories left
    walk,       \* attempted directories, directories put off, final pass
    snap,       \* the snapshot: directory sets E, F, X, seen files, issues
    found,      \* files to reconcile, with the chains they were found under
    backfill,   \* skip directories to backfill, whether all went well,
                \* whether rows that nothing locates are protected
    doomed,     \* files whose rows are about to be deleted
    moves, faults, configs,  \* counters for the bounds
    left,       \* history: files that changed place since the scan began
    clean,      \* history: nothing moved or failed since the scan began
    unseen,     \* history: evaluated scans that missed the row of the file
    spared,     \* history: rows found elsewhere that could not be updated
    unruled     \* history: a row was written under a skip list that has not
                \* been applied since

driveVars   == <<under, locked, config>>
catalogVars == <<rows, misses, policy>>
walkVars    == <<stack, walk, snap, found>>
cleanVars   == <<backfill, doomed>>
countVars   == <<moves, faults, configs>>
history     == <<unseen, spared, unruled>>
vars == <<driveVars, catalogVars, pc, walkVars, cleanVars, countVars,
          left, clean, history>>

scanVars == <<pc, walkVars, cleanVars>>

Absent  == [parent |-> Nowhere, chain |-> <<Nowhere>>]
NoChain == <<>>    \* a row of an older version, or of an upload

-----------------------------------------------------------------------------
(* The drive.                                                              *)

Places == Dirs \cup {Nowhere}

\* The directories from d up to the root, or up to Nowhere if d is gone: what
\* lies in every set that has d in it and, with a directory, the one it lies in.
Above(d) ==
    LET closed(S) == d \in S /\ \A e \in S \ {Root, Nowhere} : under[e] \in S
    IN {a \in Places : \A S \in SUBSET (Places \ {a}) : ~closed(S)}

OnDrive(d)  == Root \in Above(d)
Readable(d) == OnDrive(d) /\ d \notin locked

\* A walk that starts at top comes to d: no directory on the way is excluded.
Inside(top, d) ==
    /\ top \in Above(d)
    /\ \A e \in Above(d) \ {top} : top \in Above(e) => e \notin config.skip

\* A complete scan would read the directory.
Covered(d) == OnDrive(d) /\ Inside(config.start, d)
InScope(f) == Covered(under[f])

Children(d) == {x \in (Dirs \cup Files) \ {Root} : under[x] = d}

\* The chain leads from the configured start down to the directory of f.
Locates(chain, f) ==
    /\ chain # <<>>
    /\ chain[1] = config.start
    /\ Last(chain) = under[f]
    /\ \A i \in 2 .. Len(chain) : chain[i] \in Children(chain[i - 1])

-----------------------------------------------------------------------------
(* The rows.                                                               *)

HasRow(f) == rows[f] # Absent
Effective(row) == IF row.chain = NoChain THEN <<row.parent>> ELSE row.chain
RowAt(chain)   == [parent |-> Last(chain), chain |-> chain]

\* Mutation: a row counts even if this scan has not seen its file.
DuplicateStale(f) == \E g \in Files : {f, g} \in Twins /\ HasRow(g)

\* A live row of a copy keeps a new file out of the catalog; a row of this
\* drive whose file the scan has not seen does not count.
Duplicate(f) == \E g \in Files : {f, g} \in Twins /\ HasRow(g) /\ g \in snap.seen

EmptyWalk == [attempted |-> {}, pending |-> <<>>, retrying |-> FALSE]
NoBackfill == [todo |-> {}, complete |-> TRUE, protect |-> FALSE]
NeverApplied == {Root}
EmptySnap == [E |-> {}, F |-> {}, X |-> {}, seen |-> {}, issues |-> FALSE]

Authoritative ==
    snap.F = {} /\ ~snap.issues /\ config.start \in snap.E

Init ==
    /\ under \in [(Dirs \cup Files) \ {Root} -> Dirs \cup {Nowhere}]
    /\ \A d \in Dirs : OnDrive(d)
    /\ config \in [start : {Root}, skip : SkipLists]
    /\ locked \in Refused
    /\ rows \in [Files -> {Absent} \cup [parent : Dirs, chain : {NoChain}]
                    \cup {RowAt(chain) : chain \in SeqOf(Dirs, Cardinality(Dirs)) \ {<<>>}}]
    /\ \A f \in Files : HasRow(f) =>
         rows[f].parent = under[f] /\ (rows[f].chain = NoChain \/ Locates(rows[f].chain, f))
    /\ misses = [f \in Files |-> 0]
    /\ policy = [applied |-> NeverApplied, done |-> {}]
    /\ pc = "idle"
    /\ stack = <<>> /\ walk = EmptyWalk /\ snap = EmptySnap /\ found = <<>>
    /\ backfill = NoBackfill /\ doomed = {}
    /\ moves = 0 /\ faults = 0 /\ configs = 0
    /\ left = {} /\ clean = FALSE
    /\ unseen = [f \in Files |-> 0] /\ spared = {} /\ unruled = FALSE

-----------------------------------------------------------------------------
(* The owner of the drive.                                                 *)

\* A file or directory is moved, removed, or (a file) put on the drive.
Move(x, d) ==
    /\ moves < MaxMoves
    /\ under[x] # d
    /\ x \in Dirs => under[x] # Nowhere /\ x \notin Above(d)
    /\ d # Nowhere => OnDrive(d)
    /\ under' = [under EXCEPT ![x] = d]
    /\ moves' = moves + 1
    /\ clean' = FALSE
    /\ left' = IF pc = "idle" THEN left
               ELSE left \cup {f \in Files : f = x \/ x \in Above(under[f])}
    /\ UNCHANGED <<locked, config, catalogVars, pc, walkVars, cleanVars, faults, configs, history>>

\* A crawler video arrives on the drive and its row is moved to this drive:
\* the row has the parent directory of the upload and no chain.  Uploads go to
\* a directory that scans read.
Upload(f) ==
    /\ pc = "idle" \/ Uploads
    /\ moves < MaxMoves
    /\ under[f] = Nowhere
    /\ ~HasRow(f)
    /\ \E d \in Dirs :
         /\ Covered(d)
         /\ under' = [under EXCEPT ![f] = d]
         /\ rows' = [rows EXCEPT ![f] = [parent |-> d, chain |-> NoChain]]
    /\ unseen' = [unseen EXCEPT ![f] = 0]
    /\ unruled' = (unruled \/ policy.applied # config.skip)
    /\ moves' = moves + 1
    /\ clean' = FALSE
    /\ UNCHANGED <<locked, config, misses, policy, pc, walkVars, cleanVars, faults, configs, left, spared>>

\* An administrator saves another start directory or skip list.  A scan under
\* way goes on with the configuration it began with, so the new one counts from
\* the next scan on.
Configure ==
    /\ pc = "idle"
    /\ configs < MaxConfigs
    /\ config' \in [start : Starts, skip : SkipLists] \ {config}
    /\ configs' = configs + 1
    /\ clean' = FALSE
    /\ UNCHANGED <<under, locked, catalogVars, pc, walkVars, cleanVars, moves, faults, left, history>>

-----------------------------------------------------------------------------
(* Discovery.                                                              *)

\* A step of the scan goes wrong, which the next scan may repair.
Fault == faults < MaxFaults /\ faults' = faults + 1 /\ clean' = FALSE
NoFault == UNCHANGED <<faults, clean>>

\* What the scan held in memory is gone when it ends, however it ends.
ScanEnds ==
    /\ pc' = "idle"
    /\ stack' = <<>> /\ walk' = EmptyWalk /\ snap' = EmptySnap /\ found' = <<>>
    /\ backfill' = NoBackfill /\ doomed' = {}
    /\ left' = {}

StartScan ==
    /\ pc = "idle"
    /\ pc' = "scan"
    /\ stack' = <<[chain |-> <<>>, dirs |-> {config.start}]>>
    /\ UNCHANGED <<walk, snap, found>>
    /\ UNCHANGED cleanVars
    /\ left' = {} /\ clean' = TRUE
    /\ UNCHANGED <<driveVars, catalogVars, countVars, history>>

\* Directories already attempted are passed over, and a directory with no
\* entry left is done.
Settle(frames, attempted) ==
    LET rest(i) == frames[i].dirs \ attempted
        open == {i \in DOMAIN frames : rest(i) # {}}
        top == CHOOSE i \in open : \A j \in open : i <= j
    IN IF open = {} THEN <<>>
       ELSE [SubSeq(frames, top, Len(frames)) EXCEPT ![1].dirs = rest(top)]

Chain == Head(stack).chain

\* The next directory the scan reads, and the walk once it was attempted.
Reads(d) ==
    /\ pc = "scan" /\ stack # <<>>
    /\ d \in Head(stack).dirs
Visited(d) == [walk EXCEPT !.attempted = @ \cup {d}]

\* Mutation: a directory read in the final pass stays among the failed ones.
ListDirStillFailed(d) ==
    /\ Reads(d)
    /\ Readable(d)
    /\ LET inside == Append(Chain, d)
           files == Children(d) \cap Files
           excluded == Children(d) \cap config.skip
       IN /\ snap' = [snap EXCEPT !.E = @ \cup {d}, !.seen = @ \cup files,
                                  !.X = (@ \ {d}) \cup (excluded \ (snap.E \cup snap.F))]
          /\ found' = found \o SetToSeq({[file |-> f, chain |-> inside] : f \in files})
          /\ walk' = Visited(d)
          /\ stack' = Settle(<<[chain |-> inside,
                                dirs  |-> (Children(d) \cap Dirs) \ excluded]>> \o stack,
                             walk'.attempted)
    /\ UNCHANGED <<driveVars, catalogVars, pc, cleanVars, countVars, left, clean, history>>

\* A directory is read.  Its files are recorded with the chain they were found
\* under, excluded directories go to X unless they were read or have failed,
\* and the others are entered one after the other.
ListDir(d) ==
    /\ Reads(d)
    /\ Readable(d)
    /\ LET inside == Append(Chain, d)
           files == Children(d) \cap Files
           excluded == Children(d) \cap config.skip
       IN /\ snap' = [snap EXCEPT !.E = @ \cup {d}, !.F = @ \ {d}, !.seen = @ \cup files,
                                  !.X = (@ \ {d}) \cup (excluded \ (snap.E \cup snap.F))]
          /\ found' = found \o SetToSeq({[file |-> f, chain |-> inside] : f \in files})
          /\ walk' = Visited(d)
          /\ stack' = Settle(<<[chain |-> inside,
                                dirs  |-> (Children(d) \cap Dirs) \ excluded]>> \o stack,
                             walk'.attempted)
    /\ UNCHANGED <<driveVars, catalogVars, pc, cleanVars, countVars, left, clean, history>>

\* A failure that may pass is put off to the end of the walk.
ListDeferred(d) ==
    /\ Reads(d)
    /\ ~walk.retrying
    /\ Fault
    /\ walk' = [Visited(d) EXCEPT !.pending = Append(@, [dir |-> d, chain |-> Chain])]
    /\ snap' = [snap EXCEPT !.F = @ \cup {d}]
    /\ stack' = Settle(stack, walk'.attempted)
    /\ UNCHANGED <<driveVars, catalogVars, pc, found, cleanVars, moves, configs, left, history>>

\* A failure that stays: the directory is gone, or access to it is refused.
\* It ends the scan when the start cannot be read.
ListFails(d) ==
    /\ Reads(d)
    /\ IF Readable(d) THEN Fault ELSE clean' = FALSE /\ UNCHANGED faults
    /\ \/ /\ d = config.start
          /\ ScanEnds
       \/ /\ d # config.start
          /\ walk' = Visited(d)
          /\ snap' = [snap EXCEPT !.F = @ \cup {d}, !.issues = TRUE]
          /\ stack' = Settle(stack, walk'.attempted)
          /\ UNCHANGED <<pc, found, cleanVars, left>>
    /\ UNCHANGED <<driveVars, catalogVars, moves, configs, history>>

\* The final pass reads every directory put off once more; only that
\* directory is released from the guard against reading twice.
RetryNext ==
    /\ pc = "scan" /\ stack = <<>>
    /\ walk.pending # <<>>
    /\ LET p == Head(walk.pending) IN
       /\ walk' = [attempted |-> walk.attempted \ {p.dir},
                   pending   |-> Tail(walk.pending),
                   retrying  |-> TRUE]
       /\ stack' = <<[chain |-> p.chain, dirs |-> {p.dir}]>>
    /\ UNCHANGED <<driveVars, catalogVars, pc, snap, found, cleanVars, countVars,
                   left, clean, history>>

Discovered == pc = "scan" /\ stack = <<>> /\ walk.pending = <<>>

-----------------------------------------------------------------------------
(* Reconciliation: one file of the snapshot after the other.               *)

Reconcile ==
    /\ Discovered
    /\ found # <<>>
    /\ LET f == Head(found).file IN
       \/ /\ HasRow(f) \/ ~Duplicate(f)
          /\ rows' = [rows EXCEPT ![f] = RowAt(Head(found).chain)]
          /\ unseen' = [unseen EXCEPT ![f] = IF HasRow(f) THEN @ ELSE 0]
          /\ spared' = spared \ {f}
          /\ unruled' = (unruled \/ policy.applied # config.skip)
          /\ NoFault
       \/ /\ ~HasRow(f) /\ Duplicate(f)
          /\ UNCHANGED <<rows, history>> /\ NoFault
       \/ /\ Fault                       \* an issue of this file, no more
          /\ spared' = IF HasRow(f) THEN spared \cup {f} ELSE spared
          /\ UNCHANGED <<rows, unseen, unruled>>
    /\ found' = Tail(found)
    /\ UNCHANGED <<driveVars, misses, policy, pc, stack, walk, snap, cleanVars, moves, configs,
                   left>>

Reconciled == Discovered /\ found = <<>>

-----------------------------------------------------------------------------
(* Skip policy: rows in excluded directories are taken out.                *)

\* The rows of the files in gone are deleted, each with its miss counter.
DeleteRows(gone) ==
    /\ rows'   = [f \in Files |-> IF f \in gone THEN Absent ELSE rows[f]]
    /\ misses' = [f \in Files |-> IF f \in gone THEN 0 ELSE misses[f]]
    /\ unseen' = [f \in Files |-> IF f \in gone THEN 0 ELSE unseen[f]]
    /\ spared' = spared \ gone
    /\ UNCHANGED unruled

ToBackfill == config.skip \ policy.done

\* Rows whose recorded chain meets the skip list and that the scan has not
\* just seen elsewhere.
Excluded == {f \in Files \ snap.seen :
                HasRow(f) /\ Range(Effective(rows[f])) \cap config.skip # {}}

PolicyDone ==
    /\ Reconciled
    /\ policy.applied = config.skip
    /\ ToBackfill = {}
    /\ pc' = "evaluate"
    /\ UNCHANGED <<driveVars, catalogVars, walkVars, cleanVars, countVars, left, clean, history>>

\* Without a row of an older version there is nothing to backfill, and the
\* directories are ticked off.
RemoveExcluded ==
    /\ Reconciled
    /\ policy.applied # config.skip \/ ToBackfill # {}
    /\ \/ /\ DeleteRows(Excluded)
          /\ pc' = "backfill" /\ NoFault
          /\ LET legacy == \E f \in Files : rows'[f].chain = NoChain IN
             /\ backfill' = [todo     |-> IF legacy THEN ToBackfill ELSE {},
                             complete |-> TRUE,
                             protect  |-> legacy /\ ToBackfill # {}]
             /\ policy' = [policy EXCEPT !.done = IF legacy THEN @ ELSE @ \cup ToBackfill]
       \/ /\ \E gone \in SUBSET Excluded : DeleteRows(gone)   \* stops half-way
          /\ pc' = "evaluate" /\ Fault
          /\ backfill' = [NoBackfill EXCEPT !.protect = (ToBackfill # {})]
          /\ UNCHANGED policy
    /\ UNCHANGED <<driveVars, walkVars, doomed, moves, configs, left>>

\* The directories a walk that starts at the excluded directory d finds.
ReachedFrom(d) == {e \in Dirs : OnDrive(d) /\ Inside(d, e)}

\* Rows recorded right under one of them are taken out.  A walk that is not
\* complete takes out what it can, and the directory stays to be done.
Backfill(d) ==
    /\ pc = "backfill"
    /\ d \in backfill.todo
    /\ LET victims == {f \in Files \ snap.seen :
                         HasRow(f) /\ rows[f].parent \in {d} \cup ReachedFrom(d)} IN
       \/ /\ ReachedFrom(d) # {} /\ ReachedFrom(d) \cap locked = {}
          /\ DeleteRows(victims)
          /\ policy' = [policy EXCEPT !.done = @ \cup {d}]
          /\ backfill' = [backfill EXCEPT !.todo = @ \ {d}]
          /\ UNCHANGED pc /\ NoFault
       \/ /\ \E gone \in SUBSET victims : DeleteRows(gone)
          /\ IF ReachedFrom(d) # {} /\ ReachedFrom(d) \cap locked = {}
             THEN Fault ELSE clean' = FALSE /\ UNCHANGED faults
          /\ backfill' = [backfill EXCEPT !.todo = @ \ {d}, !.complete = FALSE]
          /\ UNCHANGED <<policy, pc>>
       \/ /\ \E gone \in SUBSET victims : DeleteRows(gone)   \* rate limit used up
          /\ Fault
          /\ backfill' = [backfill EXCEPT !.todo = {}]
          /\ pc' = "evaluate"
          /\ UNCHANGED policy
    /\ UNCHANGED <<driveVars, walkVars, doomed, moves, configs, left>>

RecordPolicy ==
    /\ pc = "backfill"
    /\ backfill.todo = {}
    /\ pc' = "evaluate"
    /\ backfill' = [backfill EXCEPT !.protect = @ /\ ~backfill.complete]
    /\ \/ policy' = [policy EXCEPT !.applied = config.skip] /\ unruled' = FALSE /\ NoFault
       \/ UNCHANGED <<policy, unruled>> /\ Fault
    /\ UNCHANGED <<driveVars, rows, misses, walkVars, doomed, moves, configs, left,
                   unseen, spared>>

-----------------------------------------------------------------------------
(* Presence: rows whose files are missing are taken out.                   *)

\* Rows that the directories read in this scan say nothing about.
UnlocatedEligible == Authoritative /\ ~backfill.protect /\ snap.F = {}

\* Mutation: a directory that could not be read counts as one that is gone.
EligibleUnreadable(row) ==
    LET chain == Effective(row)
        unread == {i \in DOMAIN chain : chain[i] \notin snap.E}
        first == CHOOSE i \in unread : \A j \in unread : i <= j
    IN \/ unread = {}
       \/ /\ unread # {}
          /\ chain[first] \notin snap.X
          /\ first = 1 => UnlocatedEligible

\* The first directory of the recorded chain that was not read decides: it
\* failed or is excluded (keep the row), it is where the chain begins (the
\* row lies elsewhere), or its parent was read and no longer lists it.
Eligible(row) ==
    LET chain == Effective(row)
        unread == {i \in DOMAIN chain : chain[i] \notin snap.E}
        first == CHOOSE i \in unread : \A j \in unread : i <= j
    IN \/ unread = {}
       \/ /\ unread # {}
          /\ chain[first] \notin snap.F \cup snap.X
          /\ first = 1 => UnlocatedEligible

Missing == {f \in Files \ snap.seen : HasRow(f) /\ Eligible(rows[f])}

AtMost2(n) == IF n > 2 THEN 2 ELSE n

\* Mutation: one miss is enough, whatever the scan has read.
EvaluateImmediately ==
    /\ pc = "evaluate"
    /\ doomed' = Missing
    /\ misses' = [f \in Files |-> IF f \in snap.seen \cup Missing \/ ~HasRow(f) THEN 0
                                   ELSE misses[f]]
    /\ pc' = "delete"
    /\ unseen' = [f \in Files |-> IF f \in snap.seen \/ ~HasRow(f) THEN 0
                                   ELSE IF f \in Missing THEN AtMost2(unseen[f] + 1)
                                   ELSE unseen[f]]
    /\ UNCHANGED <<driveVars, rows, policy, walkVars, backfill, countVars, left, clean, spared, unruled>>

\* A complete scan dooms every missing file at once; after an incomplete one
\* it takes a second miss in a row.
Evaluate ==
    /\ pc = "evaluate"
    /\ misses' = [f \in Files |->
         CASE f \in snap.seen \/ ~HasRow(f) -> 0
           [] f \in Missing -> IF Authoritative THEN 0 ELSE AtMost2(misses[f] + 1)
           [] OTHER         -> misses[f]]
    /\ doomed' = {f \in Missing : Authoritative \/ misses'[f] >= 2}
    /\ pc' = "delete"
    /\ unseen' = [f \in Files |->
         CASE f \in snap.seen \/ ~HasRow(f) -> 0
           [] f \in Missing -> AtMost2(unseen[f] + 1)
           [] OTHER         -> unseen[f]]
    /\ UNCHANGED <<driveVars, rows, policy, walkVars, backfill, countVars, left, clean, spared, unruled>>

DeleteStale(f) ==
    /\ pc = "delete"
    /\ f \in doomed
    /\ DeleteRows({f})
    /\ doomed' = doomed \ {f}
    /\ UNCHANGED <<driveVars, policy, pc, walkVars, backfill, countVars, left, clean>>

FinishScan ==
    /\ pc = "delete"
    /\ doomed = {}
    /\ ScanEnds
    /\ UNCHANGED <<driveVars, catalogVars, countVars, clean, history>>

\* The scan is stopped by an administrator, a restart, a rate limit that will
\* not lift or a database that refuses a write.
StopScan ==
    /\ pc # "idle"
    /\ Fault
    /\ ScanEnds
    /\ UNCHANGED <<driveVars, catalogVars, moves, configs, history>>

-----------------------------------------------------------------------------
Owner ==
    \/ \E x \in (Dirs \cup Files) \ {Root}, d \in Dirs \cup {Nowhere} : Move(x, d)
    \/ \E f \in Files : Upload(f)
    \/ Configure

Scan ==
    \/ StartScan
    \/ \E d \in Dirs : ListDir(d) \/ ListDeferred(d) \/ ListFails(d) \/ Backfill(d)
    \/ RetryNext \/ Reconcile
    \/ PolicyDone \/ RemoveExcluded \/ RecordPolicy
    \/ \E f \in Files : DeleteStale(f)
    \/ Evaluate \/ FinishScan

Next == Owner \/ Scan \/ StopScan

Spec == Init /\ [][Next]_vars

-----------------------------------------------------------------------------
(* Properties.                                                             *)

\* The types of the state, and what the cleanup of missing files relies on: E,
\* F and X never overlap, and a finished walk has put every directory it tried
\* into E or F.
\* (types.go Snapshot, discovery.go discoverDir)
TypeOK ==
    /\ under \in [(Dirs \cup Files) \ {Root} -> Dirs \cup {Nowhere}]
    /\ config \in [start : Starts, skip : SkipLists]
    /\ \A f \in Files : HasRow(f) => rows[f].parent \in Dirs /\ rows[f].chain \in Seq(Dirs)
    /\ misses \in [Files -> 0 .. 2]
    /\ pc \in {"idle", "scan", "backfill", "evaluate", "delete"}
    /\ snap.E \cap snap.F = {} /\ snap.X \cap (snap.E \cup snap.F) = {}
    /\ pc # "idle" /\ Discovered => walk.attempted = snap.E \cup snap.F

\* A row that the cleanup of missing files deletes belongs to a file that has
\* changed place since the scan began, or that was not where the row says to
\* begin with: outside the configured part of the drive when the scan read
\* all of it, off the recorded chain when it did not.
\* (scan_presence.go EvaluateMissingDriveFiles, discovery.go discoverDir)
StillKept ==
    [][\A f \in Files :
          pc = "delete" /\ HasRow(f) /\ rows'[f] = Absent /\ f \notin left =>
             IF Authoritative THEN ~InScope(f)
             ELSE ~Locates(Effective(rows[f]), f) /\ Effective(rows[f]) # <<under[f]>>]_vars

\* After a scan that could not read everything a row goes only when a scan before
\* it has missed the file too, and no scan in between has seen it.  The miss may
\* be one of a complete scan whose deletion failed, counts from the writing of
\* the row, and outlasts scans that could not judge the row.
\* (scan_presence.go misses, catalog.go deleteDriveScanMissForVideoTx)
ConfirmedTwice ==
    [][\A f \in Files :
          pc = "delete" /\ HasRow(f) /\ rows'[f] = Absent /\ ~Authoritative
             => unseen[f] = 2]_vars

\* The catalog says of the drive what is there: a row for every video of the
\* configured part or for a copy of it, under its present chain, and none for
\* anything else.  A row whose update failed while the file was seen elsewhere
\* is not counted.
Mirrors ==
    \A f \in Files :
       /\ HasRow(f) /\ f \notin spared => InScope(f) /\ Locates(rows[f].chain, f)
                                       /\ rows[f].parent = under[f]
       /\ InScope(f) => \/ HasRow(f)
                        \/ \E g \in Files : {f, g} \in Twins /\ HasRow(g)

\* One scan in which nothing moved and nothing failed brings the catalog up to
\* date, whatever earlier scans, older versions and other configurations left.
\* Left out are rows written under a skip list that was replaced, before a scan
\* applied it, by the one applied last: the code sees no change then and keeps
\* the rows of the directories excluded again.
\* (scan.go runScanWithTaskContext, scan_duplicates.go InsertScannedVideo)
ScanMirrors == pc = "idle" /\ clean /\ ~unruled => Mirrors

=============================================================================
