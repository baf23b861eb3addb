--------------------------- MODULE RestoreSwitch ---------------------------
(***************************************************************************)
(* The switch that activates a restored backup:                            *)
(* backup/restore_prepare.go stages the new values and writes a marker,    *)
(* backup/restore_apply.go applies, commits or rolls back the marked       *)
(* operations, and cmd/server/main.go drives them during startup.          *)
(*                                                                         *)
(* A step of the model is one effect on the disk (a rename, a removal, a   *)
(* write of the marker), so the process can die between any two effects.   *)
(* An effect can also fail; a failed write of the marker may have replaced *)
(* the file already, because writeJSONAtomic syncs the directory after its *)
(* rename.                                                                 *)
(*                                                                         *)
(* The operations are numbered in the order of the marker.  The last one   *)
(* replaces the database; those of kind "remove" put its -wal and -shm     *)
(* files out of the way.                                                   *)
(***************************************************************************)
EXTENDS Integers

CONSTANTS
  N,                \* number of switch operations in the marker
  Kind,             \* Kind[o]: "replace" (file or dir) or "remove"
  MaxFaults,        \* bound: effects that fail
  MaxCrashes,       \* bound: deaths of the process during startup
  PrepareSyncFails  \* may PrepareRestore's own marker write fail after its rename?

Ops == 1..N

ASSUME RestoreAssumption ==
  /\ N \in Nat \ {0}
  /\ Kind \in [Ops -> {"replace", "remove"}]
  /\ Kind[N] = "replace"
  /\ MaxFaults \in Nat
  /\ MaxCrashes \in Nat
  /\ PrepareSyncFails \in BOOLEAN

VARIABLES
  target, staged, rollback,  \* what the three paths of each operation hold
  disk,      \* the marker file
  mem,       \* the marker held by the starting process
  pc, i,     \* where that process is, and at which operation
  failed,    \* rollbackErrors is not empty
  resuming,  \* the rollback was started by the marker: startup goes on after it
  orig,      \* history: what each target held before the restore
  served,    \* history: the generation served last
  trial,     \* history: promised by PrepareRestore, restored catalog not opened yet
  faults, crashes

files  == <<target, staged, rollback>>
proc   == <<mem, pc, i, failed, resuming>>
ghosts == <<orig, served, trial>>
vars   == <<files, disk, proc, ghosts, faults, crashes>>

-----------------------------------------------------------------------------
(* Data.                                                                   *)

None == "none"
Old == "old"
New == "new"
Tombstone == "tombstone"    \* the staging file of an operation that removes
Blank == "blank"            \* a database SQLite created because there was none
Contents == {None, Old, New, Tombstone, Blank}

OpStates == {"pending", "target-moved", "applied", "rolledback"}
RollbackStates == {"rolling-back", "rollback-failed", "rolledback"}
MarkerStates == {"none", "pending", "applied"} \cup RollbackStates

Markers ==
  [state : MarkerStates, op : [Ops -> OpStates], had : [Ops -> BOOLEAN]]

Fresh(state) ==
  [state |-> state, op |-> [o \in Ops |-> "pending"], had |-> [o \in Ops |-> FALSE]]
NoMarker == Fresh("none")

\* Marker m with another state, or with operation o in another state.
InState(m, state) == [state |-> state, op |-> m.op, had |-> m.had]
WithOp(m, o, opState, hadTarget) ==
  [state |-> m.state,
   op |-> [m.op EXCEPT ![o] = opState],
   had |-> [m.had EXCEPT ![o] = hadTarget]]

Labels ==
  {"serve", "stage", "down", "apply", "saveMoved", "activate", "saveApplied",
   "applyError", "intent", "rollback", "reactivate", "saveRolled", "cleanup",
   "config", "open", "commit", "ready"}

Empty == [o \in Ops |-> None]
Replacements == {o \in Ops : Kind[o] = "replace"}
Removals == {o \in Ops : Kind[o] = "remove"}

TargetExists(o) == target[o] # None
StagedExists(o) == staged[o] # None
RollbackExists(o) == rollback[o] # None

\* The generation the replaced paths hold together.
Generation ==
  IF \A o \in Replacements : target[o] = orig[o] THEN "old"
  ELSE IF \A o \in Replacements : target[o] = New THEN "new"
  ELSE "mixed"

Serving == pc \in {"serve", "stage"}

-----------------------------------------------------------------------------
(* Effects and control.                                                    *)

NoFault == UNCHANGED faults
Fault == faults < MaxFaults /\ faults' = faults + 1

\* writeJSONAtomic: it fails before or after the new marker is in place.
Persist(m) == NoFault /\ disk' = m
PersistFails(m) == Fault /\ disk' \in {disk, m}

Goto(label, o) == pc' = label /\ i' = o

\* log.Fatalf, or the death of the process: memory is lost.
Exit ==
  /\ Goto("down", 0)
  /\ mem' = NoMarker
  /\ failed' = FALSE
  /\ resuming' = FALSE

-----------------------------------------------------------------------------
(* PrepareRestore, in a running server.  Staging and rollback paths carry  *)
(* a fresh identifier, so what an earlier attempt left behind is not met   *)
(* again.  Bound: no second restore after one was served.              *)

BeginPrepare ==
  /\ pc = "serve"
  /\ disk.state = "none"
  /\ served = "old"
  /\ Goto("stage", 1)
  /\ staged' = Empty
  /\ rollback' = Empty
  /\ UNCHANGED <<target, disk, mem, failed, resuming, ghosts, faults, crashes>>

StageOperation ==
  /\ pc = "stage"
  /\ i \in Ops
  /\ \/ /\ NoFault
        /\ staged' = [staged EXCEPT ![i] =
                        IF Kind[i] = "remove" THEN Tombstone ELSE New]
        /\ Goto("stage", i + 1)
     \/ /\ Fault
        /\ staged' = Empty
        /\ Goto("serve", 0)
  /\ UNCHANGED <<target, rollback, disk, mem, failed, resuming, ghosts, crashes>>

\* A failed write makes PrepareRestore return an error and delete, as far as it
\* can, what it staged, whether or not the marker reached its place.
SavePending ==
  /\ pc = "stage"
  /\ i = N + 1
  /\ Goto("serve", 0)
  /\ \/ /\ Persist(Fresh("pending"))
        /\ trial' = TRUE
        /\ UNCHANGED staged
     \/ /\ Fault
        /\ staged' = Empty
        /\ UNCHANGED <<disk, trial>>
     \/ /\ PrepareSyncFails
        /\ Fault
        /\ disk' = Fresh("pending")
        /\ \E gone \in SUBSET Ops :
             staged' = [o \in Ops |-> IF o \in gone THEN None ELSE staged[o]]
        /\ UNCHANGED trial
  /\ UNCHANGED <<target, rollback, mem, failed, resuming, orig, served, crashes>>

\* The server stops or dies.  SQLite removes its -wal and -shm files when it
\* closes cleanly and leaves them otherwise; what is left by the old catalog is
\* part of the data a rollback has to bring back.
Stop ==
  /\ Serving
  /\ Exit
  /\ \E kept \in SUBSET Removals :
       LET left == [o \in Ops |-> IF o \in Removals
                                    THEN (IF o \in kept THEN target[o] ELSE None)
                                    ELSE target[o]]
       IN  /\ target' = left
           /\ orig' = IF served = "old"
                        THEN [o \in Ops |-> IF o \in Removals THEN left[o] ELSE orig[o]]
                        ELSE orig
  /\ UNCHANGED <<staged, rollback, disk, served, trial, faults, crashes>>

-----------------------------------------------------------------------------
(* ApplyPendingRestore.                                                    *)

\* Mutation: a rollback that failed is not resumed.
InterruptedOnly(state) == state = "rolling-back"

Resumable(state) == state \in {"rolling-back", "rollback-failed"}

Start ==
  /\ pc = "down"
  /\ mem' = disk
  /\ \/ /\ disk.state = "none"
        /\ Goto("open", 0)
        /\ resuming' = FALSE
     \/ /\ disk.state = "rolledback"
        /\ Goto("cleanup", 1)
        /\ resuming' = TRUE
     \/ /\ Resumable(disk.state)
        /\ Goto("intent", 0)
        /\ resuming' = TRUE
     \/ /\ disk.state \notin {"none", "rolledback"}
        /\ ~Resumable(disk.state)
        /\ Goto("apply", 1)
        /\ resuming' = FALSE
  /\ UNCHANGED <<files, disk, failed, ghosts, faults, crashes>>

\* Mutation: a switch that happened before a crash is not recognized.
OnlyRemoved(o) == Kind[o] = "remove"

\* With its staged value gone an operation has been applied; the crash came
\* before the marker said so.
AlreadyApplied(o) == Kind[o] = "remove" \/ TargetExists(o)

MoveAside ==
  /\ target' = [target EXCEPT ![i] = None]
  /\ rollback' = [rollback EXCEPT ![i] = target[i]]
  /\ UNCHANGED staged

\* The staged value takes the place of the target; a tombstone is deleted.
ActivateStaged ==
  /\ target' = IF Kind[i] = "remove" THEN target
               ELSE [target EXCEPT ![i] = staged[i]]
  /\ staged' = [staged EXCEPT ![i] = None]
  /\ UNCHANGED rollback

ApplyFails == Goto("applyError", i) /\ UNCHANGED mem

\* applyRestoreOperation, up to its first effect.  The fault is an Lstat or the
\* rename of the target failing.
ApplyOperation ==
  /\ pc = "apply"
  /\ i \in Ops
  /\ \/ /\ mem.op[i] = "applied"
        /\ Goto("apply", i + 1)
        /\ NoFault
        /\ UNCHANGED <<files, mem>>
     \/ /\ mem.op[i] # "applied"
        /\ ~StagedExists(i)
        /\ NoFault
        /\ IF AlreadyApplied(i)
             THEN /\ mem' = WithOp(mem, i, "applied", RollbackExists(i))
                  /\ Goto("saveApplied", i)
             ELSE ApplyFails
        /\ UNCHANGED files
     \/ /\ mem.op[i] # "applied"
        /\ StagedExists(i) /\ TargetExists(i) /\ RollbackExists(i)
        /\ ApplyFails
        /\ NoFault
        /\ UNCHANGED files
     \/ /\ mem.op[i] # "applied"
        /\ StagedExists(i) /\ TargetExists(i) /\ ~RollbackExists(i)
        /\ MoveAside
        /\ mem' = WithOp(mem, i, "target-moved", TRUE)
        /\ Goto("saveMoved", i)
        /\ NoFault
     \/ /\ mem.op[i] # "applied"
        /\ StagedExists(i) /\ ~TargetExists(i)
        /\ mem' = WithOp(mem, i, IF RollbackExists(i) THEN "target-moved" ELSE mem.op[i],
                       RollbackExists(i))
        /\ Goto("activate", i)
        /\ NoFault
        /\ UNCHANGED files
     \/ /\ mem.op[i] # "applied"
        /\ Fault
        /\ ApplyFails
        /\ UNCHANGED files
  /\ UNCHANGED <<disk, failed, resuming, ghosts, crashes>>

SaveMoved ==
  /\ pc = "saveMoved"
  /\ \/ Persist(mem) /\ Goto("activate", i)
     \/ PersistFails(mem) /\ Goto("applyError", i)
  /\ UNCHANGED <<files, mem, failed, resuming, ghosts, crashes>>

Activate ==
  /\ pc = "activate"
  /\ \/ /\ NoFault
        /\ ActivateStaged
        /\ mem' = WithOp(mem, i, "applied", mem.had[i])
        /\ Goto("saveApplied", i)
     \/ /\ Fault
        /\ ApplyFails
        /\ UNCHANGED files
  /\ UNCHANGED <<disk, failed, resuming, ghosts, crashes>>

SaveApplied ==
  /\ pc = "saveApplied"
  /\ \/ Persist(mem) /\ Goto("apply", i + 1)
     \/ PersistFails(mem) /\ Goto("applyError", i)
  /\ UNCHANGED <<files, mem, failed, resuming, ghosts, crashes>>

\* The error is recorded in the marker, as far as it can be.
SaveApplyError ==
  /\ pc = "applyError"
  /\ Persist(mem) \/ PersistFails(mem)
  /\ Goto("intent", 0)
  /\ UNCHANGED <<files, mem, failed, resuming, ghosts, crashes>>

FinishApply ==
  /\ pc = "apply"
  /\ i = N + 1
  /\ LET done == InState(mem, "applied")
     IN  /\ mem' = done
         /\ \/ Persist(done) /\ Goto("config", 0)
            \/ PersistFails(done) /\ Goto("intent", 0)
  /\ UNCHANGED <<files, failed, resuming, ghosts, crashes>>

-----------------------------------------------------------------------------
(* rollbackRestoreMarker, from the last operation to the first.            *)

SaveIntent ==
  /\ pc = "intent"
  /\ LET intent == InState(mem, "rolling-back")
     IN  \/ /\ Persist(intent)
            /\ mem' = intent
            /\ Goto("rollback", N)
            /\ failed' = FALSE
            /\ UNCHANGED resuming
         \/ PersistFails(intent) /\ Exit
  /\ UNCHANGED <<files, ghosts, crashes>>

\* Mutation: the operation gets the state of the marker.
RolledMarkerState(had) ==
  /\ mem' = WithOp(mem, i, "rolling-back", had)
  /\ Goto("saveRolled", i)
  /\ UNCHANGED failed

Rolled(had) ==
  /\ mem' = WithOp(mem, i, "rolledback", had)
  /\ Goto("saveRolled", i)
  /\ UNCHANGED failed

\* Mutation: an error is not collected.
RollbackErrorIgnored ==
  /\ Goto("rollback", i - 1)
  /\ UNCHANGED <<mem, failed>>

RollbackError ==
  /\ failed' = TRUE
  /\ Goto("rollback", i - 1)
  /\ UNCHANGED mem

\* Mutation: the state of the marker is believed without looking at the paths.
MarkedPending(o) == mem.op[o] = "pending"

NeverTouched(o) ==
  /\ mem.op[o] = "pending"
  /\ TargetExists(o) /\ StagedExists(o) /\ ~RollbackExists(o)

ReactivateOriginal ==
  /\ target' = [target EXCEPT ![i] = rollback[i]]
  /\ rollback' = [rollback EXCEPT ![i] = None]
  /\ UNCHANGED staged

\* Mutation: the rejected value is deleted instead of moved back.
DropTarget ==
  /\ target' = [target EXCEPT ![i] = None]
  /\ UNCHANGED <<staged, rollback>>

UnstageTarget ==
  /\ staged' = [staged EXCEPT ![i] = target[i]]
  /\ target' = [target EXCEPT ![i] = None]
  /\ UNCHANGED rollback

\* rollbackRestoreOperation for a removed path.
RollbackRemoval ==
  /\ Kind[i] = "remove"
  /\ \/ RollbackExists(i) /\ TargetExists(i) /\ RollbackError /\ UNCHANGED files
     \/ RollbackExists(i) /\ ~TargetExists(i) /\ ReactivateOriginal /\ Rolled(TRUE)
     \/ /\ ~RollbackExists(i)
        /\ IF mem.had[i] /\ ~TargetExists(i) THEN RollbackError ELSE Rolled(mem.had[i])
        /\ UNCHANGED files

\* Mutation: a missing rollback copy is always an error.
NeverReactivated(o) == FALSE

\* An earlier attempt brought the original back and died before saying so.
AlreadyReactivated(o) == TargetExists(o) /\ StagedExists(o)

\* rollbackRestoreOperation for a replaced path, up to its first effect.
RollbackReplacement ==
  /\ Kind[i] = "replace"
  /\ \/ /\ RollbackExists(i) /\ TargetExists(i) /\ StagedExists(i)
        /\ RollbackError
        /\ UNCHANGED files
     \/ /\ RollbackExists(i) /\ TargetExists(i) /\ ~StagedExists(i)
        /\ UnstageTarget
        /\ Goto("reactivate", i)
        /\ UNCHANGED <<mem, failed>>
     \/ /\ RollbackExists(i) /\ ~TargetExists(i)
        /\ ReactivateOriginal
        /\ Rolled(TRUE)
     \/ /\ ~RollbackExists(i) /\ mem.had[i]
        /\ IF AlreadyReactivated(i) THEN Rolled(TRUE) ELSE RollbackError
        /\ UNCHANGED files
     \/ /\ ~RollbackExists(i) /\ ~mem.had[i] /\ TargetExists(i) /\ ~StagedExists(i)
        /\ UnstageTarget
        /\ Rolled(FALSE)
     \/ /\ ~RollbackExists(i) /\ ~mem.had[i]
        /\ ~(TargetExists(i) /\ ~StagedExists(i))
        /\ IF StagedExists(i) /\ ~TargetExists(i) THEN Rolled(FALSE) ELSE RollbackError
        /\ UNCHANGED files

RollbackOperation ==
  /\ pc = "rollback"
  /\ i \in Ops
  /\ \/ /\ mem.op[i] = "rolledback"
        /\ Goto("rollback", i - 1)
        /\ NoFault
        /\ UNCHANGED <<files, mem, failed>>
     \/ /\ mem.op[i] # "rolledback"
        /\ NeverTouched(i)
        /\ Rolled(mem.had[i])
        /\ NoFault
        /\ UNCHANGED files
     \/ /\ mem.op[i] # "rolledback"
        /\ ~NeverTouched(i)
        /\ RollbackRemoval \/ RollbackReplacement
        /\ NoFault
     \/ /\ mem.op[i] # "rolledback"
        /\ Fault
        /\ RollbackError
        /\ UNCHANGED files
  /\ UNCHANGED <<disk, resuming, ghosts, crashes>>

\* The second rename of rollbackRestoreOperation.
Reactivate ==
  /\ pc = "reactivate"
  /\ \/ NoFault /\ ReactivateOriginal /\ Rolled(TRUE)
     \/ Fault /\ RollbackError /\ UNCHANGED files
  /\ UNCHANGED <<disk, resuming, ghosts, crashes>>

\* A failed write stops the loop.
SaveRolled ==
  /\ pc = "saveRolled"
  /\ \/ Persist(mem) /\ Goto("rollback", i - 1) /\ UNCHANGED failed
     \/ PersistFails(mem) /\ Goto("rollback", 0) /\ failed' = TRUE
  /\ UNCHANGED <<files, mem, resuming, ghosts, crashes>>

\* Both writes of the final state are best effort.
EndRollback ==
  /\ pc = "rollback"
  /\ i = 0
  /\ LET end == InState(mem, IF failed THEN "rollback-failed" ELSE "rolledback")
     IN  /\ Persist(end) \/ PersistFails(end)
         /\ IF failed
              THEN Exit
              ELSE mem' = end /\ Goto("cleanup", 1) /\ UNCHANGED <<failed, resuming>>
  /\ UNCHANGED <<files, ghosts, crashes>>

\* cleanupRolledBackRestore; an error is fatal.
Cleanup ==
  /\ pc = "cleanup"
  /\ i \in Ops
  /\ \/ /\ NoFault
        /\ staged' = [staged EXCEPT ![i] = None]
        /\ Goto("cleanup", i + 1)
        /\ UNCHANGED <<mem, failed, resuming>>
     \/ Fault /\ Exit /\ UNCHANGED staged
  /\ UNCHANGED <<target, rollback, disk, ghosts, crashes>>

\* The marker is removed; startup goes on with the old data if it was resuming,
\* and exits otherwise.
ForgetRollback ==
  /\ pc = "cleanup"
  /\ i = N + 1
  /\ \/ /\ NoFault
        /\ disk' = NoMarker
        /\ trial' = FALSE
        /\ IF resuming
             THEN /\ mem' = NoMarker
                  /\ Goto("config", 0)
                  /\ resuming' = FALSE
                  /\ UNCHANGED failed
             ELSE Exit
     \/ Fault /\ Exit /\ UNCHANGED <<disk, trial>>
  /\ UNCHANGED <<files, orig, served, crashes>>

-----------------------------------------------------------------------------
(* The rest of startup.  mem is NoMarker exactly when appliedRestore is    *)
(* nil, so a failure below rolls back only a restore that was applied.     *)

StartupFails ==
  IF mem.state = "none"
    THEN Exit
    ELSE Goto("intent", 0) /\ UNCHANGED <<mem, failed, resuming>>

\* Mutation: the restore is committed before its catalog is opened.
CommitBeforeOpen ==
  /\ pc = "config"
  /\ NoFault
  /\ IF mem.state = "none" THEN Goto("open", 0) ELSE Goto("commit", 1)
  /\ UNCHANGED <<files, disk, mem, failed, resuming, ghosts, crashes>>

ReloadConfig ==
  /\ pc = "config"
  /\ \/ NoFault /\ Goto("open", 0) /\ UNCHANGED <<mem, failed, resuming>>
     \/ Fault /\ StartupFails
  /\ UNCHANGED <<files, disk, ghosts, crashes>>

\* openApplicationCatalog.  SQLite creates the -wal and -shm files of the
\* database it opens, and that database if there is none; an open that fails may
\* leave the files as they were, have created them, or have removed them.
Opened == IF TargetExists(N) THEN target[N] ELSE Blank
OpenedFiles == [o \in Ops |-> IF o \in Removals \cup {N} THEN Opened ELSE target[o]]
FilesLeft(left) ==
  [o \in Ops |-> IF o \notin Removals \/ left[o] = "kept" THEN target[o]
                 ELSE IF left[o] = "created" THEN Opened ELSE None]

OpenCatalog ==
  /\ pc = "open"
  /\ \/ /\ NoFault
        /\ target' = OpenedFiles
        /\ trial' = FALSE
        /\ Goto(IF mem.state = "none" THEN "ready" ELSE "commit",
                IF mem.state = "none" THEN 0 ELSE 1)
        /\ UNCHANGED <<mem, failed, resuming>>
     \/ /\ Fault
        /\ \E left \in [Removals -> {"kept", "created", "removed"}] :
             target' = FilesLeft(left)
        /\ StartupFails
        /\ UNCHANGED trial
  /\ UNCHANGED <<staged, rollback, disk, orig, served, crashes>>

\* CommitAppliedRestore.  main.go logs an error and serves the restored data
\* with the marker still in place.
CommitOperation ==
  /\ pc = "commit"
  /\ i \in Ops
  /\ \/ /\ NoFault
        /\ rollback' = [rollback EXCEPT ![i] = None]
        /\ staged' = [staged EXCEPT ![i] = None]
        /\ Goto("commit", i + 1)
     \/ Fault /\ Goto("ready", 0) /\ UNCHANGED <<rollback, staged>>
  /\ UNCHANGED <<target, disk, mem, failed, resuming, ghosts, crashes>>

ForgetCommit ==
  /\ pc = "commit"
  /\ i = N + 1
  /\ \/ NoFault /\ disk' = NoMarker
     \/ Fault /\ UNCHANGED disk
  /\ Goto("ready", 0)
  /\ UNCHANGED <<files, mem, failed, resuming, ghosts, crashes>>

Listen ==
  /\ pc = "ready"
  /\ Goto("serve", 0)
  /\ served' = Generation
  /\ mem' = NoMarker
  /\ UNCHANGED <<files, disk, failed, resuming, orig, trial, faults, crashes>>

\* The process dies between two effects of its startup.
Crash ==
  /\ pc \notin {"down", "serve", "stage"}
  /\ crashes < MaxCrashes
  /\ crashes' = crashes + 1
  /\ Exit
  /\ UNCHANGED <<files, disk, ghosts, faults>>

-----------------------------------------------------------------------------
Init ==
  /\ target \in [Ops -> {None, Old}]
  /\ target[N] = Old
  /\ staged = Empty
  /\ rollback = Empty
  /\ disk = NoMarker
  /\ mem = NoMarker
  /\ pc = "serve"
  /\ i = 0
  /\ failed = FALSE
  /\ resuming = FALSE
  /\ orig = target
  /\ served = "old"
  /\ trial = FALSE
  /\ faults = 0
  /\ crashes = 0

Prepare == BeginPrepare \/ StageOperation \/ SavePending

Apply ==
  \/ Start \/ ApplyOperation \/ SaveMoved \/ Activate \/ SaveApplied
  \/ SaveApplyError \/ FinishApply

Rollback ==
  \/ SaveIntent \/ RollbackOperation \/ Reactivate \/ SaveRolled
  \/ EndRollback \/ Cleanup \/ ForgetRollback

Startup ==
  ReloadConfig \/ OpenCatalog \/ CommitOperation \/ ForgetCommit \/ Listen

Next == Prepare \/ Stop \/ Apply \/ Rollback \/ Startup \/ Crash

Spec == Init /\ [][Next]_vars

\* A supervisor restarts the process, and a running startup makes progress.
\* Nothing forces a restore to be asked for, or the server to stop.
FairSpec == Spec /\ WF_vars(Apply \/ Rollback \/ Startup)

-----------------------------------------------------------------------------
(* Properties.                                                             *)

\* Every variable has its type.
TypeOK ==
  /\ target \in [Ops -> Contents]
  /\ staged \in [Ops -> Contents]
  /\ rollback \in [Ops -> Contents]
  /\ disk \in Markers
  /\ mem \in Markers
  /\ pc \in Labels
  /\ i \in 0..(N + 1)
  /\ failed \in BOOLEAN
  /\ resuming \in BOOLEAN
  /\ orig \in [Ops -> Contents]
  /\ served \in {"old", "new", "mixed"}
  /\ trial \in BOOLEAN
  /\ faults \in 0..MaxFaults
  /\ crashes \in 0..MaxCrashes

\* Until the restored catalog has opened, what a target held before the restore
\* is still beside it or in its place: however the switch is interrupted, the
\* renames of applyRestoreOperation and rollbackRestoreOperation never leave a
\* path without its original.
OriginalKept ==
  trial => \A o \in Ops :
             orig[o] = Old => target[o] = Old \/ rollback[o] = Old

\* Until every operation is marked rolled back, the restored value is in its
\* place or staged, so that applying can be resumed.
RestoredKept ==
  trial /\ (\E o \in Ops : disk.op[o] # "rolledback") =>
    \A o \in Replacements : target[o] = New \/ staged[o] = New

\* No marker is forgotten, no catalog opened and nothing served while some
\* paths are restored and others are not.
NeverMixed ==
  disk.state = "none" \/ pc = "open" \/ Serving => Generation # "mixed"

\* A rollback is never taken back: once its intent is on disk the marker stays
\* in a rollback state until it is removed, and no restored value is activated.
RollbackIsFinal ==
  [][disk.state \in RollbackStates =>
       /\ disk'.state \in RollbackStates \cup {"none"}
       /\ \A o \in Replacements : target'[o] = New => target[o] = New]_vars

\* rollbackRestoreOperation reports an error for these operations however often
\* it is tried: SQLite's side files came back beside their originals, a commit
\* that was cut short has deleted the original, or a PrepareRestore that failed
\* after writing its marker has deleted the staged value of an absent target.
Blocked(o) ==
  /\ disk.op[o] # "rolledback"
  /\ IF o \in Removals
       THEN (TargetExists(o) /\ RollbackExists(o))
            \/ (disk.had[o] /\ ~TargetExists(o) /\ ~RollbackExists(o))
       ELSE /\ ~RollbackExists(o)
            /\ ~(TargetExists(o) /\ StagedExists(o))
            /\ disk.had[o] \/ ~(TargetExists(o) \/ StagedExists(o))

\* Once faults and crashes stop, the server comes up again, unless the rollback
\* is blocked for good by one of these cases.
ComesUp ==
  []<>Serving \/ <>[](disk.state \in RollbackStates /\ \E o \in Ops : Blocked(o))

\* If nothing fails, a restore PrepareRestore promised is served in the end: a
\* crash alone, or several, never cancels it.
PromiseKept == (pc = "down" /\ trial) ~> (faults > 0 \/ (Serving /\ served = "new"))

Atomic ==
  INSTANCE RestoreAtomic WITH
    up <- Serving,
    data <- served,
    choice <- IF disk.state = "none" THEN {Generation} ELSE {"old", "new"}

\* The switch implements the abstract restore: one whole generation is served,
\* and it changes only across a restart.
Implements == Atomic!Spec

\* main.go: "If that check fails, every switched path is returned to its
\* pre-restore value."  So whatever fails, one of the database's three paths
\* still holds a copy.
DatabaseKept == {target[N], staged[N], rollback[N]} \cap {Old, New} # {}

=============================================================================
