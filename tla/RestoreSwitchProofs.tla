------------------------ MODULE RestoreSwitchProofs ------------------------
(***************************************************************************)
(* Proofs about RestoreSwitch, for every number and kind of operations and *)
(* for any number of faults and crashes.                                   *)
(***************************************************************************)
EXTENDS RestoreSwitch, TLAPS

Applying == {"apply", "saveMoved", "activate", "saveApplied", "applyError"}
RollingBack == {"rollback", "reactivate", "saveRolled"}
Forward == {"pending", "applied"}

\* Where the process stands and what its marker and the marker on disk say.
ControlInv ==
  /\ pc \in Applying =>
       /\ disk.state \in Forward /\ mem.state \in Forward
       /\ \A o \in Ops : mem.op[o] # "rolledback"
  /\ pc \in {"config", "open"} =>
       \/ mem.state = "none" /\ disk.state = "none"
       \/ mem.state = "applied" /\ disk.state = "applied"
  /\ pc = "intent" =>
       /\ mem.state # "none" /\ disk.state # "none"
       /\ \A o \in Ops : disk.op[o] = "rolledback" => mem.op[o] = "rolledback"
  /\ pc \in RollingBack =>
       /\ disk.state \in RollbackStates /\ mem.state = "rolling-back"
       /\ \A o \in Ops : disk.op[o] = "rolledback" => mem.op[o] = "rolledback"
  /\ pc = "cleanup" => disk.state \in RollbackStates
  /\ disk.state \in Forward => \A o \in Ops : disk.op[o] # "rolledback"

\* The operation at hand.
IndexInv ==
  /\ pc \in {"saveMoved", "activate", "saveApplied", "reactivate", "saveRolled"} => i \in Ops
  /\ pc = "apply" => i \in 1..(N + 1)

\* Where the operation at hand is between its two renames.
HalfwayInv == pc \in {"saveMoved", "activate", "reactivate"} => target[i] = None

\* What the apply loop has done when it is at operation i.
ApplyLoopInv ==
  /\ pc \in Applying \ {"applyError"} => \A o \in Ops : o < i => mem.op[o] = "applied"
  /\ pc = "saveApplied" => mem.op[i] = "applied"
  /\ pc \in {"config", "open"} /\ mem.state = "applied" =>
       \A o \in Ops : mem.op[o] = "applied"

\* What the rollback loop has done when it is at operation i without an error.
RollbackLoopInv ==
  /\ pc \in RollingBack /\ ~failed =>
       \A o \in Ops : o > i => mem.op[o] = "rolledback"
  /\ pc \in {"rollback", "reactivate"} /\ ~failed =>
       \A o \in Ops : mem.op[o] = "rolledback" => disk.op[o] = "rolledback"
  /\ pc = "saveRolled" /\ ~failed =>
       \A o \in Ops \ {i} : mem.op[o] = "rolledback" => disk.op[o] = "rolledback"
  /\ pc = "saveRolled" => mem.op[i] = "rolledback"
  /\ pc = "reactivate" => mem.op[i] # "rolledback"
  /\ pc = "cleanup" \/ disk.state = "rolledback" =>
       \A o \in Ops : disk.op[o] = "rolledback"

LoopInv == HalfwayInv /\ ApplyLoopInv /\ RollbackLoopInv

\* One path: its original is in its place or beside it; its restored
\* value is in place or staged.
Kept(o) ==
  orig[o] = Old => /\ target[o] = Old \/ rollback[o] = Old
                   /\ rollback[o] \in {None, Old}
Moved(o) == orig[o] = Old => rollback[o] = Old
Restorable(o) == target[o] = New \/ staged[o] = New

\* What a running server and PrepareRestore leave to the next start.
ServingInv ==
  /\ orig[N] = Old
  /\ pc \in {"commit", "ready"} =>
       ~trial /\ \A o \in Removals : target[o] = target[N]
  /\ Serving /\ served = "old" => \A o \in Ops : orig[o] = Old => target[o] = Old
  /\ pc = "stage" =>
       /\ served = "old" /\ disk.state = "none" /\ rollback = Empty
       /\ i \in 1..(N + 1)
       /\ \A o \in Ops : o < i =>
            staged[o] = IF o \in Removals THEN Tombstone ELSE New
  /\ Serving /\ trial =>
       /\ disk = Fresh("pending")
       /\ \A o \in Ops : StagedExists(o) /\ ~RollbackExists(o)

\* The paths of a restore on trial.
TrialInv ==
  trial =>
    /\ disk.state # "none"
    /\ served = "old"
    /\ \A o \in Ops : Kept(o)
    /\ \A o \in Replacements : staged[o] \in {None, New}
    /\ (\E o \in Ops : disk.op[o] # "rolledback") =>
         \A o \in Replacements : Restorable(o)
    /\ disk.state \in Forward => \A o \in Removals :
         /\ StagedExists(o) \/ Moved(o)
         /\ disk.op[o] = "applied" => Moved(o)
    /\ pc \in Applying \cup {"config", "open"} => \A o \in Removals :
         mem.op[o] = "applied" => Moved(o)

IInv == TypeOK /\ IndexInv /\ ControlInv /\ LoopInv /\ ServingInv /\ TrialInv

-----------------------------------------------------------------------------
(* Types.                                                                  *)

\* What the assumption on the constants says of the sets built from them.
LEMMA ConstantFacts ==
  /\ N \in Nat /\ N \in Ops /\ N \in Replacements
  /\ Ops = Replacements \cup Removals
  /\ Replacements \cap Removals = {}
  /\ NoMarker \in Markers /\ NoMarker.state = "none"
  /\ Fresh("pending") \in Markers /\ Fresh("pending").state = "pending"
  /\ Empty \in [Ops -> Contents]
BY RestoreAssumption DEF Ops, Replacements, Removals, NoMarker, Fresh, Markers,
   MarkerStates, OpStates, RollbackStates, Empty, Contents

\* A fresh marker has every operation pending.
LEMMA FreshFacts ==
  \A o \in Ops : Fresh("pending").op[o] = "pending" /\ NoMarker.op[o] = "pending"
BY DEF Fresh, NoMarker

\* A marker in another state keeps its operations.
LEMMA InStateFacts ==
  ASSUME NEW m \in Markers, NEW s \in MarkerStates
  PROVE  /\ InState(m, s) \in Markers
         /\ InState(m, s).state = s
         /\ InState(m, s).op = m.op
         /\ InState(m, s).had = m.had
BY DEF InState, Markers

\* A marker with another operation state is a marker.
LEMMA WithOpType ==
  ASSUME NEW m \in Markers, NEW o \in Ops, NEW s \in OpStates, NEW h \in BOOLEAN
  PROVE  WithOp(m, o, s, h) \in Markers
BY DEF WithOp, Markers

\* It differs from the first at that operation only.
LEMMA WithOpFacts ==
  ASSUME NEW m \in Markers, NEW o \in Ops, NEW s, NEW h
  PROVE  /\ WithOp(m, o, s, h).state = m.state
         /\ WithOp(m, o, s, h).op[o] = s
         /\ \A p \in Ops \ {o} : WithOp(m, o, s, h).op[p] = m.op[p]
BY DEF WithOp, Markers

\* TypeOK in four parts.
TypeFiles ==
  /\ target \in [Ops -> Contents] /\ staged \in [Ops -> Contents]
  /\ rollback \in [Ops -> Contents] /\ orig \in [Ops -> Contents]

TypeMarkers == disk \in Markers /\ mem \in Markers

TypeControl ==
  /\ pc \in Labels /\ i \in 0..(N + 1)
  /\ faults \in 0..MaxFaults /\ crashes \in 0..MaxCrashes

TypeFlags ==
  /\ failed \in BOOLEAN /\ resuming \in BOOLEAN /\ trial \in BOOLEAN
  /\ served \in {"old", "new", "mixed"}

\* TypeOK in the parts that the actions disturb separately.
LEMMA TypeParts ==
  /\ TypeOK <=> TypeFiles /\ TypeMarkers /\ TypeControl /\ TypeFlags
  /\ TypeOK' <=> TypeFiles' /\ TypeMarkers' /\ TypeControl' /\ TypeFlags'
BY DEF TypeOK, TypeFiles, TypeMarkers, TypeControl, TypeFlags

\* The initial state has its types.
LEMMA TypeInit == Init => TypeOK
<1> SUFFICES ASSUME Init PROVE TypeOK
  OBVIOUS
<1> USE ConstantFacts, RestoreAssumption DEF Init, Contents, Labels
<1>1. TypeFiles
  BY DEF TypeFiles
<1>2. TypeMarkers /\ TypeFlags
  BY DEF TypeMarkers, TypeFlags
<1>3. TypeControl
  BY DEF TypeControl
<1> QED
  BY <1>1, <1>2, <1>3, TypeParts

\* A fault stays within its bound.
LEMMA FaultBound ==
  ASSUME faults \in 0..MaxFaults
  PROVE  Fault \/ NoFault => faults' \in 0..MaxFaults
BY RestoreAssumption DEF Fault, NoFault

\* The renames keep the types of the paths.
LEMMA MoveTypes ==
  ASSUME TypeFiles, i \in Ops, orig' = orig
  PROVE  /\ ReactivateOriginal => TypeFiles'
         /\ UnstageTarget => TypeFiles'
         /\ UNCHANGED files => TypeFiles'
         /\ MoveAside => TypeFiles'
         /\ ActivateStaged => TypeFiles'
<1>1. ReactivateOriginal => TypeFiles'
  BY DEF TypeFiles, ReactivateOriginal, Contents
<1>2. UnstageTarget => TypeFiles'
  BY DEF TypeFiles, UnstageTarget, Contents
<1>3. UNCHANGED files => TypeFiles'
  BY DEF TypeFiles, files
<1>4. MoveAside => TypeFiles'
  BY DEF TypeFiles, MoveAside, Contents
<1>5. ActivateStaged => TypeFiles'
  <2>1. CASE Kind[i] = "remove"
    BY <2>1 DEF TypeFiles, ActivateStaged, Contents
  <2>2. CASE Kind[i] # "remove"
    BY <2>2 DEF TypeFiles, ActivateStaged, Contents
  <2> QED
    BY <2>1, <2>2
<1> QED
  BY <1>1, <1>2, <1>3, <1>4, <1>5

\* Every step keeps the types, given the range of the operation at hand.
LEMMA TypeStep == TypeOK /\ IndexInv /\ [Next]_vars => TypeOK'
<1> SUFFICES ASSUME TypeOK, IndexInv, [Next]_vars PROVE TypeOK'
  OBVIOUS
<1> USE ConstantFacts, RestoreAssumption
<1> USE DEF Labels, Contents, None, Old, New, Tombstone, Blank, OpStates, Goto, Exit,
            Persist, PersistFails, files, ghosts
<1>p. TypeFiles /\ TypeMarkers /\ TypeControl /\ TypeFlags
  BY TypeParts
<1> USE DEF TypeFiles, TypeMarkers, TypeControl, TypeFlags
<1>1. CASE BeginPrepare
  <2>1. TypeFiles'
    BY <1>1, <1>p DEF BeginPrepare
  <2>2. TypeMarkers'
    BY <1>1, <1>p DEF BeginPrepare
  <2>3. TypeControl'
    BY <1>1, <1>p, FaultBound DEF BeginPrepare
  <2>4. TypeFlags'
    BY <1>1, <1>p DEF BeginPrepare
  <2> QED
    BY <2>1, <2>2, <2>3, <2>4, TypeParts
<1>2. CASE StageOperation
  <2>1. TypeFiles'
    BY <1>2, <1>p DEF StageOperation, Ops
  <2>2. TypeMarkers'
    BY <1>2, <1>p DEF StageOperation, Ops
  <2>3. TypeControl'
    BY <1>2, <1>p, FaultBound DEF StageOperation, Ops
  <2>4. TypeFlags'
    BY <1>2, <1>p DEF StageOperation, Ops
  <2> QED
    BY <2>1, <2>2, <2>3, <2>4, TypeParts
<1>3. CASE SavePending
  <2>1. TypeFiles'
    BY <1>3, <1>p DEF SavePending
  <2>2. TypeMarkers'
    BY <1>3, <1>p DEF SavePending
  <2>3. TypeControl'
    BY <1>3, <1>p, FaultBound DEF SavePending
  <2>4. TypeFlags'
    BY <1>3, <1>p DEF SavePending
  <2> QED
    BY <2>1, <2>2, <2>3, <2>4, TypeParts
<1>4. CASE Stop
  <2>1. TypeFiles'
    BY <1>4, <1>p DEF Stop, Removals, Serving
  <2>2. TypeMarkers'
    BY <1>4, <1>p DEF Stop, Removals, Serving
  <2>3. TypeControl'
    BY <1>4, <1>p, FaultBound DEF Stop, Removals, Serving
  <2>4. TypeFlags'
    BY <1>4, <1>p DEF Stop, Removals, Serving
  <2> QED
    BY <2>1, <2>2, <2>3, <2>4, TypeParts
<1>5. CASE Start
  <2>1. TypeFiles'
    BY <1>5, <1>p DEF Start
  <2>2. TypeMarkers'
    BY <1>5, <1>p DEF Start
  <2>3. TypeControl'
    BY <1>5, <1>p, FaultBound DEF Start
  <2>4. TypeFlags'
    BY <1>5, <1>p DEF Start
  <2> QED
    BY <2>1, <2>2, <2>3, <2>4, TypeParts
<1>6. CASE ApplyOperation
  <2>1. i \in Ops /\ i + 1 \in 0..(N + 1)
    BY <1>6 DEF ApplyOperation, Ops
  <2>2. RollbackExists(i) \in BOOLEAN /\ mem.op[i] \in OpStates
    BY <1>p, <2>1 DEF RollbackExists, Markers
  <2>3. /\ WithOp(mem, i, "applied", RollbackExists(i)) \in Markers
        /\ WithOp(mem, i, "target-moved", TRUE) \in Markers
    BY <1>p, <2>1, <2>2, WithOpType
  <2>4. WithOp(mem, i, IF RollbackExists(i) THEN "target-moved" ELSE mem.op[i],
               RollbackExists(i)) \in Markers
    BY <1>p, <2>1, <2>2, WithOpType
  <2>5. TypeFiles'
    BY <1>6, <1>p, <2>1, MoveTypes DEF ApplyOperation
  <2>6. TypeMarkers'
    BY <1>6, <1>p, <2>2, <2>3, <2>4 DEF ApplyOperation, ApplyFails
  <2>7. TypeControl'
    BY FaultBound, <1>6, <1>p, <2>1 DEF ApplyOperation, ApplyFails
  <2>8. TypeFlags'
    BY <1>6, <1>p, <2>1, <2>2, <2>3, <2>4 DEF ApplyOperation, ApplyFails
  <2> QED
    BY <2>5, <2>6, <2>7, <2>8, TypeParts
<1>7. CASE SaveMoved
  <2>1. TypeFiles'
    BY <1>7, <1>p DEF SaveMoved, IndexInv
  <2>2. TypeMarkers'
    BY <1>7, <1>p DEF SaveMoved, IndexInv
  <2>3. TypeControl'
    BY <1>7, <1>p, FaultBound DEF SaveMoved, IndexInv
  <2>4. TypeFlags'
    BY <1>7, <1>p DEF SaveMoved, IndexInv
  <2> QED
    BY <2>1, <2>2, <2>3, <2>4, TypeParts
<1>8. CASE Activate
  <2>1. i \in Ops
    BY <1>8 DEF Activate, IndexInv
  <2>2. mem.had[i] \in BOOLEAN
    BY <1>p, <2>1 DEF Markers
  <2>3. WithOp(mem, i, "applied", mem.had[i]) \in Markers
    BY <1>p, <2>1, <2>2, WithOpType
  <2>4. TypeFiles'
    BY <1>8, <1>p, <2>1, MoveTypes DEF Activate
  <2>5. TypeMarkers'
    BY <1>8, <1>p, <2>1, <2>2, <2>3 DEF Activate, ApplyFails
  <2>6. TypeControl'
    BY <1>8, <1>p, <2>1, <2>2, <2>3, FaultBound DEF Activate, ApplyFails
  <2>7. TypeFlags'
    BY <1>8, <1>p, <2>1, <2>2, <2>3 DEF Activate, ApplyFails
  <2> QED
    BY <2>4, <2>5, <2>6, <2>7, TypeParts
<1>9. CASE SaveApplied
  <2>1. TypeFiles'
    BY <1>9, <1>p DEF SaveApplied, IndexInv, Ops
  <2>2. TypeMarkers'
    BY <1>9, <1>p DEF SaveApplied, IndexInv, Ops
  <2>3. TypeControl'
    BY <1>9, <1>p, FaultBound DEF SaveApplied, IndexInv, Ops
  <2>4. TypeFlags'
    BY <1>9, <1>p DEF SaveApplied, IndexInv, Ops
  <2> QED
    BY <2>1, <2>2, <2>3, <2>4, TypeParts
<1>10. CASE SaveApplyError
  <2>1. TypeFiles'
    BY <1>10, <1>p DEF SaveApplyError
  <2>2. TypeMarkers'
    BY <1>10, <1>p DEF SaveApplyError
  <2>3. TypeControl'
    BY <1>10, <1>p, FaultBound DEF SaveApplyError
  <2>4. TypeFlags'
    BY <1>10, <1>p DEF SaveApplyError
  <2> QED
    BY <2>1, <2>2, <2>3, <2>4, TypeParts
<1>11. CASE FinishApply
  <2>1. InState(mem, "applied") \in Markers
    BY <1>p, InStateFacts DEF MarkerStates
  <2>2. TypeFiles'
    BY <1>11, <1>p, <2>1 DEF FinishApply
  <2>3. TypeMarkers'
    BY <1>11, <1>p, <2>1 DEF FinishApply
  <2>4. TypeControl'
    BY <1>11, <1>p, <2>1, FaultBound DEF FinishApply
  <2>5. TypeFlags'
    BY <1>11, <1>p, <2>1 DEF FinishApply
  <2> QED
    BY <2>2, <2>3, <2>4, <2>5, TypeParts
<1>12. CASE SaveIntent
  <2>1. InState(mem, "rolling-back") \in Markers
    BY <1>p, InStateFacts DEF MarkerStates, RollbackStates
  <2>2. TypeFiles'
    BY <1>12, <1>p, <2>1 DEF SaveIntent
  <2>3. TypeMarkers'
    BY <1>12, <1>p, <2>1 DEF SaveIntent
  <2>4. TypeControl'
    BY <1>12, <1>p, <2>1, FaultBound DEF SaveIntent
  <2>5. TypeFlags'
    BY <1>12, <1>p, <2>1 DEF SaveIntent
  <2> QED
    BY <2>2, <2>3, <2>4, <2>5, TypeParts
<1>13. CASE RollbackOperation
  <2>1. i \in Ops /\ i - 1 \in 0..(N + 1)
    BY <1>13 DEF RollbackOperation, Ops
  <2>2. \A h \in BOOLEAN : WithOp(mem, i, "rolledback", h) \in Markers
    BY <1>p, <2>1, WithOpType DEF OpStates
  <2>3. mem.had[i] \in BOOLEAN
    BY <1>p, <2>1 DEF Markers
  <2>4. TypeFiles'
    BY <1>13, <1>p, <2>1, MoveTypes
       DEF RollbackOperation, RollbackRemoval, RollbackReplacement
  <2>5. TypeMarkers'
    BY <1>13, <1>p, <2>1, <2>2, <2>3 DEF RollbackOperation, RollbackRemoval, RollbackReplacement, RollbackError, Rolled,
       ReactivateOriginal, UnstageTarget
  <2>6. TypeControl'
    BY FaultBound, <1>13, <1>p, <2>1
       DEF RollbackOperation, RollbackRemoval, RollbackReplacement, RollbackError, Rolled
  <2>7. TypeFlags'
    BY <1>13, <1>p, <2>1, <2>2, <2>3 DEF RollbackOperation, RollbackRemoval, RollbackReplacement, RollbackError, Rolled,
       ReactivateOriginal, UnstageTarget
  <2> QED
    BY <2>4, <2>5, <2>6, <2>7, TypeParts
<1>14. CASE Reactivate
  <2>1. i \in Ops /\ i - 1 \in 0..(N + 1)
    BY <1>14 DEF Reactivate, IndexInv, Ops
  <2>2. WithOp(mem, i, "rolledback", TRUE) \in Markers
    BY <1>p, <2>1, WithOpType DEF OpStates
  <2>3. TypeFiles'
    BY <1>14, <1>p, <2>1, MoveTypes DEF Reactivate
  <2>4. TypeMarkers'
    BY <1>14, <1>p, <2>1, <2>2 DEF Reactivate, ReactivateOriginal, Rolled, RollbackError
  <2>5. TypeControl'
    BY FaultBound, <1>14, <1>p, <2>1 DEF Reactivate, Rolled, RollbackError
  <2>6. TypeFlags'
    BY <1>14, <1>p, <2>1, <2>2 DEF Reactivate, ReactivateOriginal, Rolled, RollbackError
  <2> QED
    BY <2>3, <2>4, <2>5, <2>6, TypeParts
<1>15. CASE SaveRolled
  <2>1. TypeFiles'
    BY <1>15, <1>p DEF SaveRolled, IndexInv, Ops
  <2>2. TypeMarkers'
    BY <1>15, <1>p DEF SaveRolled, IndexInv, Ops
  <2>3. TypeControl'
    BY <1>15, <1>p, FaultBound DEF SaveRolled, IndexInv, Ops
  <2>4. TypeFlags'
    BY <1>15, <1>p DEF SaveRolled, IndexInv, Ops
  <2> QED
    BY <2>1, <2>2, <2>3, <2>4, TypeParts
<1>16. CASE EndRollback
  <2>1. InState(mem, IF failed THEN "rollback-failed" ELSE "rolledback") \in Markers
    BY <1>p, InStateFacts DEF MarkerStates, RollbackStates
  <2>2. TypeFiles'
    BY <1>16, <1>p, <2>1 DEF EndRollback
  <2>3. TypeMarkers'
    BY <1>16, <1>p, <2>1 DEF EndRollback
  <2>4. TypeControl'
    BY <1>16, <1>p, <2>1, FaultBound DEF EndRollback
  <2>5. TypeFlags'
    BY <1>16, <1>p, <2>1 DEF EndRollback
  <2> QED
    BY <2>2, <2>3, <2>4, <2>5, TypeParts
<1>17. CASE Cleanup
  <2>1. TypeFiles'
    BY <1>17, <1>p DEF Cleanup, Ops
  <2>2. TypeMarkers'
    BY <1>17, <1>p DEF Cleanup, Ops
  <2>3. TypeControl'
    BY <1>17, <1>p, FaultBound DEF Cleanup, Ops
  <2>4. TypeFlags'
    BY <1>17, <1>p DEF Cleanup, Ops
  <2> QED
    BY <2>1, <2>2, <2>3, <2>4, TypeParts
<1>18. CASE ForgetRollback
  <2>1. TypeFiles'
    BY <1>18, <1>p DEF ForgetRollback
  <2>2. TypeMarkers'
    BY <1>18, <1>p DEF ForgetRollback
  <2>3. TypeControl'
    BY <1>18, <1>p, FaultBound DEF ForgetRollback
  <2>4. TypeFlags'
    BY <1>18, <1>p DEF ForgetRollback
  <2> QED
    BY <2>1, <2>2, <2>3, <2>4, TypeParts
<1>19. CASE ReloadConfig
  <2>1. TypeFiles'
    BY <1>19, <1>p DEF ReloadConfig, StartupFails
  <2>2. TypeMarkers'
    BY <1>19, <1>p DEF ReloadConfig, StartupFails
  <2>3. TypeControl'
    BY <1>19, <1>p, FaultBound DEF ReloadConfig, StartupFails
  <2>4. TypeFlags'
    BY <1>19, <1>p DEF ReloadConfig, StartupFails
  <2> QED
    BY <2>1, <2>2, <2>3, <2>4, TypeParts
<1>20. CASE OpenCatalog
  <2>1. Opened \in Contents
    BY <1>p DEF Opened, TargetExists
  <2>2. TypeFiles'
    <3>1. OpenedFiles \in [Ops -> Contents]
      BY <1>p, <2>1 DEF OpenedFiles
    <3>2. ASSUME NEW left PROVE FilesLeft(left) \in [Ops -> Contents]
      BY <1>p, <2>1 DEF FilesLeft
    <3>3. target' = OpenedFiles \/ \E left : target' = FilesLeft(left)
      BY <1>20 DEF OpenCatalog
    <3>4. target' \in [Ops -> Contents]
      BY <3>1, <3>2, <3>3
    <3> QED
      BY <1>20, <1>p, <3>4 DEF OpenCatalog
  <2>3. TypeMarkers'
    BY <1>20, <1>p, <2>1 DEF OpenCatalog, StartupFails
  <2>4. TypeControl'
    BY <1>20, <1>p, <2>1, FaultBound DEF OpenCatalog, StartupFails
  <2>5. TypeFlags'
    BY <1>20, <1>p, <2>1 DEF OpenCatalog, StartupFails
  <2> QED
    BY <2>2, <2>3, <2>4, <2>5, TypeParts
<1>21. CASE CommitOperation
  <2>1. TypeFiles'
    BY <1>21, <1>p DEF CommitOperation, Ops
  <2>2. TypeMarkers'
    BY <1>21, <1>p DEF CommitOperation, Ops
  <2>3. TypeControl'
    BY <1>21, <1>p, FaultBound DEF CommitOperation, Ops
  <2>4. TypeFlags'
    BY <1>21, <1>p DEF CommitOperation, Ops
  <2> QED
    BY <2>1, <2>2, <2>3, <2>4, TypeParts
<1>22. CASE ForgetCommit
  <2>1. TypeFiles'
    BY <1>22, <1>p DEF ForgetCommit
  <2>2. TypeMarkers'
    BY <1>22, <1>p DEF ForgetCommit
  <2>3. TypeControl'
    BY <1>22, <1>p, FaultBound DEF ForgetCommit
  <2>4. TypeFlags'
    BY <1>22, <1>p DEF ForgetCommit
  <2> QED
    BY <2>1, <2>2, <2>3, <2>4, TypeParts
<1>23. CASE Listen
  <2>1. TypeFiles'
    BY <1>23, <1>p DEF Listen, Generation
  <2>2. TypeMarkers'
    BY <1>23, <1>p DEF Listen, Generation
  <2>3. TypeControl'
    BY <1>23, <1>p, FaultBound DEF Listen, Generation
  <2>4. TypeFlags'
    BY <1>23, <1>p DEF Listen, Generation
  <2> QED
    BY <2>1, <2>2, <2>3, <2>4, TypeParts
<1>24. CASE Crash
  <2>1. TypeFiles'
    BY <1>24, <1>p DEF Crash
  <2>2. TypeMarkers'
    BY <1>24, <1>p DEF Crash
  <2>3. TypeControl'
    BY <1>24, <1>p, FaultBound DEF Crash
  <2>4. TypeFlags'
    BY <1>24, <1>p DEF Crash
  <2> QED
    BY <2>1, <2>2, <2>3, <2>4, TypeParts
<1>25. CASE UNCHANGED vars
  BY <1>25 DEF vars, proc, TypeOK
<1> QED
  BY <1>1, <1>2, <1>3, <1>4, <1>5, <1>6, <1>7, <1>8, <1>9, <1>10, <1>11, <1>12, <1>13, <1>14, <1>15, <1>16, <1>17, <1>18, <1>19, <1>20, <1>21, <1>22, <1>23, <1>24, <1>25 DEF Next, Prepare, Apply, Rollback, Startup

-----------------------------------------------------------------------------
(* Control.                                                                *)

\* What applyRestoreOperation and rollbackRestoreOperation do, path by path.
LEMMA ApplyEffect ==
  ASSUME TypeOK, ApplyOperation
  PROVE  /\ pc = "apply" /\ i \in Ops /\ disk' = disk
         /\ mem'.state = mem.state
         /\ \A o \in Ops \ {i} : mem'.op[o] = mem.op[o]
         /\ \/ pc' = "apply" /\ i' = i + 1 /\ mem.op[i] = "applied" /\ UNCHANGED <<files, mem>>
            \/ /\ pc' = "saveApplied" /\ i' = i /\ mem'.op[i] = "applied"
               /\ ~StagedExists(i) /\ AlreadyApplied(i) /\ UNCHANGED files
            \/ /\ pc' = "saveMoved" /\ i' = i /\ mem'.op[i] = "target-moved"
               /\ StagedExists(i) /\ TargetExists(i) /\ ~RollbackExists(i) /\ MoveAside
            \/ /\ pc' = "activate" /\ i' = i /\ mem'.op[i] \in {"target-moved", mem.op[i]}
               /\ mem.op[i] # "applied"
               /\ StagedExists(i) /\ ~TargetExists(i) /\ UNCHANGED files
            \/ pc' = "applyError" /\ UNCHANGED <<files, mem>>
<1>1. i \in Ops /\ mem \in Markers /\ pc = "apply" /\ disk' = disk
  BY DEF ApplyOperation, TypeOK
<1>2. mem.op[i] \in OpStates /\ RollbackExists(i) \in BOOLEAN
  BY <1>1 DEF Markers, RollbackExists
<1>3. ASSUME NEW st \in OpStates, NEW h \in BOOLEAN, mem' = WithOp(mem, i, st, h)
      PROVE  /\ mem'.state = mem.state
             /\ mem'.op[i] = st
             /\ \A o \in Ops \ {i} : mem'.op[o] = mem.op[o]
  BY <1>1, <1>3, WithOpFacts
<1>4. CASE pc' = "apply" /\ i' = i + 1 /\ mem.op[i] = "applied" /\ UNCHANGED <<files, mem>>
  BY <1>1, <1>4
<1>5. CASE /\ ~StagedExists(i) /\ AlreadyApplied(i) /\ UNCHANGED files
           /\ mem' = WithOp(mem, i, "applied", RollbackExists(i))
           /\ Goto("saveApplied", i)
  BY <1>1, <1>2, <1>3, <1>5 DEF Goto, OpStates
<1>6. CASE ApplyFails /\ UNCHANGED files
  BY <1>1, <1>6 DEF ApplyFails, Goto
<1>7. CASE /\ StagedExists(i) /\ TargetExists(i) /\ ~RollbackExists(i) /\ MoveAside
           /\ mem' = WithOp(mem, i, "target-moved", TRUE)
           /\ Goto("saveMoved", i)
  BY <1>1, <1>3, <1>7 DEF Goto, OpStates
<1>8. CASE /\ StagedExists(i) /\ ~TargetExists(i) /\ UNCHANGED files
           /\ mem.op[i] # "applied"
           /\ mem' = WithOp(mem, i, IF RollbackExists(i) THEN "target-moved" ELSE mem.op[i],
                            RollbackExists(i))
           /\ Goto("activate", i)
  <2>1. (IF RollbackExists(i) THEN "target-moved" ELSE mem.op[i]) \in OpStates
    BY <1>2 DEF OpStates
  <2>2. /\ mem'.state = mem.state
        /\ mem'.op[i] = IF RollbackExists(i) THEN "target-moved" ELSE mem.op[i]
        /\ \A o \in Ops \ {i} : mem'.op[o] = mem.op[o]
    BY <1>2, <1>3, <1>8, <2>1
  <2> QED
    BY <1>1, <1>8, <2>2 DEF Goto
<1> QED
  BY <1>4, <1>5, <1>6, <1>7, <1>8 DEF ApplyOperation, Goto

\* What Rolled does to the marker in memory.
LEMMA RolledEffect ==
  ASSUME TypeOK, i \in Ops, NEW h \in BOOLEAN, Rolled(h)
  PROVE  /\ pc' = "saveRolled" /\ i' = i /\ UNCHANGED failed
         /\ mem'.state = mem.state /\ mem'.op[i] = "rolledback"
         /\ \A o \in Ops \ {i} : mem'.op[o] = mem.op[o]
<1>1. mem' = WithOp(mem, i, "rolledback", h) /\ mem \in Markers /\ "rolledback" \in OpStates
  BY DEF Rolled, TypeOK, OpStates
<1>2. pc' = "saveRolled" /\ i' = i /\ UNCHANGED failed
  BY DEF Rolled, Goto
<1> QED
  BY <1>1, <1>2, WithOpFacts

\* What one operation of the rollback does to its own paths and to those of others.
LEMMA RollbackEffect ==
  ASSUME TypeOK, RollbackOperation
  PROVE  /\ pc = "rollback" /\ i \in Ops /\ disk' = disk
         /\ mem'.state = mem.state
         /\ \A o \in Ops \ {i} : mem'.op[o] = mem.op[o]
         /\ \/ /\ pc' = "rollback" /\ i' = i - 1 /\ UNCHANGED <<files, mem>>
               /\ (mem.op[i] = "rolledback" /\ UNCHANGED failed) \/ failed' = TRUE
            \/ /\ pc' = "saveRolled" /\ i' = i /\ mem'.op[i] = "rolledback"
               /\ mem.op[i] # "rolledback" /\ UNCHANGED failed
               /\ \/ UNCHANGED files
                  \/ ReactivateOriginal /\ RollbackExists(i) /\ ~TargetExists(i)
                  \/ /\ UnstageTarget /\ Kind[i] = "replace"
                     /\ ~RollbackExists(i) /\ TargetExists(i) /\ ~StagedExists(i)
            \/ /\ pc' = "reactivate" /\ i' = i /\ UNCHANGED <<mem, failed>>
               /\ mem.op[i] # "rolledback"
               /\ UnstageTarget /\ Kind[i] = "replace"
               /\ RollbackExists(i) /\ TargetExists(i) /\ ~StagedExists(i)
<1>1. i \in Ops /\ mem \in Markers /\ pc = "rollback" /\ disk' = disk
  BY DEF RollbackOperation, TypeOK
<1>2. mem.had[i] \in BOOLEAN
  BY <1>1 DEF Markers
<1>3. CASE mem.op[i] = "rolledback"
  BY <1>1, <1>3 DEF RollbackOperation, Goto
<1>4. CASE RollbackError /\ UNCHANGED files
  BY <1>1, <1>4 DEF RollbackError, Goto
<1>5. CASE mem.op[i] # "rolledback" /\ UNCHANGED files /\ \E h \in BOOLEAN : Rolled(h)
  <2>1. PICK h \in BOOLEAN : Rolled(h)
    BY <1>5
  <2> QED
    BY <1>1, <1>5, <2>1, RolledEffect
<1>6. CASE /\ mem.op[i] # "rolledback" /\ Rolled(TRUE)
           /\ ReactivateOriginal /\ RollbackExists(i) /\ ~TargetExists(i)
  BY <1>1, <1>6, RolledEffect
<1>7. CASE /\ mem.op[i] # "rolledback" /\ Rolled(FALSE)
           /\ UnstageTarget /\ Kind[i] = "replace"
           /\ ~RollbackExists(i) /\ TargetExists(i) /\ ~StagedExists(i)
  BY <1>1, <1>7, RolledEffect
<1>8. CASE /\ mem.op[i] # "rolledback" /\ UnstageTarget /\ Kind[i] = "replace"
           /\ RollbackExists(i) /\ TargetExists(i) /\ ~StagedExists(i)
           /\ Goto("reactivate", i) /\ UNCHANGED <<mem, failed>>
  BY <1>1, <1>8 DEF Goto
<1>9. CASE mem.op[i] # "rolledback" /\ RollbackRemoval
  BY <1>2, <1>4, <1>5, <1>6, <1>9 DEF RollbackRemoval
<1>10. CASE mem.op[i] # "rolledback" /\ RollbackReplacement
  BY <1>4, <1>5, <1>6, <1>7, <1>8, <1>10 DEF RollbackReplacement
<1> QED
  BY <1>2, <1>3, <1>4, <1>5, <1>9, <1>10 DEF RollbackOperation

\* The second rename of an apply.
LEMMA ActivateEffect ==
  ASSUME TypeOK, IndexInv, Activate
  PROVE  /\ pc = "activate" /\ i \in Ops /\ disk' = disk
         /\ mem'.state = mem.state
         /\ \A o \in Ops \ {i} : mem'.op[o] = mem.op[o]
         /\ \/ /\ pc' = "saveApplied" /\ i' = i /\ mem'.op[i] = "applied"
               /\ ActivateStaged
            \/ pc' = "applyError" /\ UNCHANGED <<files, mem>>
<1>1. pc = "activate" /\ i \in Ops /\ disk' = disk /\ mem \in Markers
  BY DEF Activate, IndexInv, TypeOK
<1>2. CASE /\ ActivateStaged /\ mem' = WithOp(mem, i, "applied", mem.had[i])
           /\ Goto("saveApplied", i)
  BY <1>1, <1>2, WithOpFacts DEF Goto
<1>3. CASE ApplyFails /\ UNCHANGED files
  BY <1>1, <1>3 DEF ApplyFails, Goto
<1> QED
  BY <1>2, <1>3 DEF Activate

\* The second rename of a rollback.
LEMMA ReactivateEffect ==
  ASSUME TypeOK, IndexInv, Reactivate
  PROVE  /\ pc = "reactivate" /\ i \in Ops /\ disk' = disk
         /\ mem'.state = mem.state
         /\ \A o \in Ops \ {i} : mem'.op[o] = mem.op[o]
         /\ \/ /\ pc' = "saveRolled" /\ i' = i /\ mem'.op[i] = "rolledback"
               /\ ReactivateOriginal /\ UNCHANGED failed
            \/ /\ pc' = "rollback" /\ i' = i - 1 /\ failed' = TRUE
               /\ UNCHANGED <<files, mem>>
<1>1. pc = "reactivate" /\ i \in Ops /\ disk' = disk
  BY DEF Reactivate, IndexInv
<1>2. CASE ReactivateOriginal /\ Rolled(TRUE)
  BY <1>1, <1>2, RolledEffect
<1>3. CASE RollbackError /\ UNCHANGED files
  BY <1>1, <1>3 DEF RollbackError, Goto
<1> QED
  BY <1>2, <1>3 DEF Reactivate

\* Every step keeps the operation at hand in range.
LEMMA IndexStep == TypeOK /\ IndexInv /\ [Next]_vars => IndexInv'
<1> SUFFICES ASSUME TypeOK, IndexInv, [Next]_vars PROVE IndexInv'
  OBVIOUS
<1> USE ConstantFacts, FreshFacts
<1> USE DEF TypeOK, IndexInv, Goto, Exit, Ops
<1>1. CASE BeginPrepare
  BY <1>1 DEF BeginPrepare
<1>2. CASE StageOperation
  BY <1>2 DEF StageOperation
<1>3. CASE SavePending
  BY <1>3 DEF SavePending
<1>4. CASE Stop
  BY <1>4 DEF Stop, Serving
<1>5. CASE Start
  BY <1>5 DEF Start
<1>6. CASE ApplyOperation
  <2>1. i \in Ops
    BY <1>6, ApplyEffect
  <2>2. \/ pc' = "apply" /\ i' = i + 1
        \/ pc' # "apply" /\ i' = i
        \/ pc' = "applyError"
    BY <1>6, ApplyEffect
  <2>3. i + 1 \in 1..(N + 1)
    BY <2>1
  <2> QED
    BY <2>1, <2>2, <2>3
<1>7. CASE SaveMoved
  BY <1>7 DEF SaveMoved
<1>8. CASE Activate
  BY <1>8 DEF Activate, ApplyFails
<1>9. CASE SaveApplied
  BY <1>9 DEF SaveApplied
<1>10. CASE SaveApplyError
  BY <1>10 DEF SaveApplyError
<1>11. CASE FinishApply
  BY <1>11 DEF FinishApply
<1>12. CASE SaveIntent
  BY <1>12 DEF SaveIntent
<1>13. CASE RollbackOperation
  BY <1>13, RollbackEffect
<1>14. CASE Reactivate
  BY <1>14 DEF Reactivate, RollbackError, Rolled
<1>15. CASE SaveRolled
  BY <1>15 DEF SaveRolled
<1>16. CASE EndRollback
  BY <1>16 DEF EndRollback
<1>17. CASE Cleanup
  BY <1>17 DEF Cleanup
<1>18. CASE ForgetRollback
  BY <1>18 DEF ForgetRollback
<1>19. CASE ReloadConfig
  BY <1>19 DEF ReloadConfig, StartupFails
<1>20. CASE OpenCatalog
  BY <1>20 DEF OpenCatalog, StartupFails
<1>21. CASE CommitOperation
  BY <1>21 DEF CommitOperation
<1>22. CASE ForgetCommit
  BY <1>22 DEF ForgetCommit
<1>23. CASE Listen
  BY <1>23 DEF Listen
<1>24. CASE Crash
  BY <1>24 DEF Crash
<1>25. CASE UNCHANGED vars
  BY <1>25 DEF vars, proc, files, ghosts
<1> QED
  BY <1>1, <1>2, <1>3, <1>4, <1>5, <1>6, <1>7, <1>8, <1>9, <1>10, <1>11, <1>12, <1>13, <1>14, <1>15, <1>16, <1>17, <1>18, <1>19, <1>20, <1>21, <1>22, <1>23, <1>24, <1>25 DEF Next, Prepare, Apply, Rollback, Startup

\* Every step keeps the markers and the control point in agreement.
LEMMA ControlStep == TypeOK /\ IndexInv /\ ControlInv /\ [Next]_vars => ControlInv'
<1> SUFFICES ASSUME TypeOK, IndexInv, ControlInv, [Next]_vars PROVE ControlInv'
  OBVIOUS
<1> USE ConstantFacts, FreshFacts
<1> USE DEF ControlInv, Applying, RollingBack, Forward, RollbackStates, MarkerStates, Goto, Exit, Persist, PersistFails
<1>m. /\ disk \in Markers /\ mem \in Markers
      /\ disk.state \in MarkerStates /\ mem.state \in MarkerStates
  BY DEF TypeOK, Markers
<1>s. \A st \in MarkerStates :
        InState(mem, st).state = st /\ InState(mem, st).op = mem.op
  BY <1>m, InStateFacts
<1>1. CASE BeginPrepare
  BY <1>1, <1>m, <1>s DEF BeginPrepare
<1>2. CASE StageOperation
  BY <1>2, <1>m, <1>s DEF StageOperation
<1>3. CASE SavePending
  BY <1>3, <1>m, <1>s DEF SavePending
<1>4. CASE Stop
  BY <1>4, <1>m, <1>s DEF Stop, Serving
<1>5. CASE Start
  BY <1>5, <1>m DEF Start, Resumable
<1>6. CASE ApplyOperation
  BY <1>6, ApplyEffect
<1>7. CASE SaveMoved
  BY <1>7, <1>m, <1>s DEF SaveMoved
<1>8. CASE Activate
  BY <1>8, ActivateEffect
<1>9. CASE SaveApplied
  BY <1>9, <1>m, <1>s DEF SaveApplied
<1>10. CASE SaveApplyError
  BY <1>10, <1>m, <1>s DEF SaveApplyError
<1>11. CASE FinishApply
  BY <1>11, <1>m, <1>s DEF FinishApply
<1>12. CASE SaveIntent
  BY <1>12, <1>m, <1>s DEF SaveIntent
<1>13. CASE RollbackOperation
  BY <1>13, RollbackEffect
<1>14. CASE Reactivate
  BY <1>14, ReactivateEffect
<1>15. CASE SaveRolled
  BY <1>15, <1>m, <1>s DEF SaveRolled
<1>16. CASE EndRollback
  BY <1>16, <1>m, <1>s DEF EndRollback
<1>17. CASE Cleanup
  BY <1>17, <1>m, <1>s DEF Cleanup
<1>18. CASE ForgetRollback
  BY <1>18, <1>m, <1>s DEF ForgetRollback
<1>19. CASE ReloadConfig
  BY <1>19, <1>m, <1>s DEF ReloadConfig, StartupFails
<1>20. CASE OpenCatalog
  BY <1>20, <1>m, <1>s DEF OpenCatalog, StartupFails
<1>21. CASE CommitOperation
  BY <1>21, <1>m, <1>s DEF CommitOperation
<1>22. CASE ForgetCommit
  BY <1>22, <1>m, <1>s DEF ForgetCommit
<1>23. CASE Listen
  BY <1>23, <1>m, <1>s DEF Listen
<1>24. CASE Crash
  BY <1>24, <1>m, <1>s DEF Crash
<1>25. CASE UNCHANGED vars
  BY <1>25 DEF vars, proc, files, ghosts
<1> QED
  BY <1>1, <1>2, <1>3, <1>4, <1>5, <1>6, <1>7, <1>8, <1>9, <1>10, <1>11, <1>12, <1>13, <1>14, <1>15, <1>16, <1>17, <1>18, <1>19, <1>20, <1>21, <1>22, <1>23, <1>24, <1>25 DEF Next, Prepare, Apply, Rollback, Startup

\* Every step keeps what the apply loop and the rollback loop have done.
LEMMA LoopStep == TypeOK /\ IndexInv /\ ControlInv /\ LoopInv /\ [Next]_vars => LoopInv'
<1> SUFFICES ASSUME TypeOK, IndexInv, ControlInv, LoopInv, [Next]_vars PROVE LoopInv'
  OBVIOUS
<1> USE ConstantFacts, FreshFacts
<1> USE DEF ControlInv, LoopInv, HalfwayInv, ApplyLoopInv, RollbackLoopInv, Applying,
            RollingBack, Forward, RollbackStates, MarkerStates, Goto, Exit, Persist,
            PersistFails, files, Ops
<1>m. /\ disk \in Markers /\ mem \in Markers
      /\ disk.state \in MarkerStates /\ mem.state \in MarkerStates
  BY DEF TypeOK, Markers
<1>s. \A st \in MarkerStates :
        InState(mem, st).state = st /\ InState(mem, st).op = mem.op
  BY <1>m, InStateFacts
<1>i. N \in Nat /\ i \in Int
  BY RestoreAssumption DEF TypeOK
<1>t. target \in [Ops -> Contents]
  BY DEF TypeOK
<1>1. CASE BeginPrepare
  BY <1>1, <1>m, <1>s, <1>i DEF BeginPrepare
<1>2. CASE StageOperation
  BY <1>2, <1>m, <1>s, <1>i DEF StageOperation
<1>3. CASE SavePending
  BY <1>3, <1>m, <1>s, <1>i DEF SavePending
<1>4. CASE Stop
  BY <1>4, <1>m, <1>s, <1>i DEF Stop, Serving
<1>5. CASE Start
  BY <1>5, <1>m DEF Start, Resumable
<1>6. CASE ApplyOperation
  <2>1. HalfwayInv'
    BY <1>6, <1>t, ApplyEffect DEF MoveAside, TargetExists
  <2>2. ApplyLoopInv'
    <3>1. i \in Ops /\ pc = "apply" /\ \A o \in Ops : o < i => mem.op[o] = "applied"
      BY <1>6, ApplyEffect
    <3>2. \A o \in Ops : o < i => mem'.op[o] = "applied"
      BY <1>6, <1>i, <3>1, ApplyEffect
    <3>3. CASE pc' = "apply" /\ i' = i + 1 /\ mem.op[i] = "applied" /\ UNCHANGED mem
      BY <1>i, <3>1, <3>3
    <3>4. CASE pc' \in {"saveApplied", "saveMoved", "activate"} /\ i' = i
      BY <1>6, <3>2, <3>4, ApplyEffect
    <3>5. CASE pc' = "applyError"
      BY <3>5
    <3> QED
      BY <1>6, <3>3, <3>4, <3>5, ApplyEffect
  <2>3. RollbackLoopInv'
    BY <1>6, ApplyEffect
  <2> QED
    BY <2>1, <2>2, <2>3
<1>7. CASE SaveMoved
  BY <1>7, <1>m, <1>s, <1>i DEF SaveMoved
<1>8. CASE Activate
  BY <1>8, <1>i, ActivateEffect
<1>9. CASE SaveApplied
  BY <1>9, <1>m, <1>s, <1>i DEF SaveApplied
<1>10. CASE SaveApplyError
  BY <1>10, <1>m, <1>s, <1>i DEF SaveApplyError
<1>11. CASE FinishApply
  BY <1>11, <1>m, <1>s, <1>i DEF FinishApply
<1>12. CASE SaveIntent
  BY <1>12, <1>m, <1>s, <1>i DEF SaveIntent
<1>13. CASE RollbackOperation
  <2>1. HalfwayInv'
    <3>1. CASE pc' = "reactivate"
      <4>1. i \in Ops /\ i' = i /\ UnstageTarget
        BY <1>13, <3>1, RollbackEffect
      <4> QED
        BY <1>t, <3>1, <4>1 DEF UnstageTarget
    <3>2. CASE pc' \in {"rollback", "saveRolled"}
      BY <3>2
    <3> QED
      BY <1>13, <3>1, <3>2, RollbackEffect
  <2>2. ApplyLoopInv'
    BY <1>13, RollbackEffect
  <2>3. RollbackLoopInv'
    <3>1. i \in Ops /\ pc = "rollback" /\ UNCHANGED disk
      BY <1>13, RollbackEffect
    <3>2. CASE pc' = "rollback" /\ i' = i - 1 /\ failed' = TRUE
      BY <3>1, <3>2
    <3>3. CASE /\ pc' = "rollback" /\ i' = i - 1 /\ UNCHANGED <<mem, failed>>
               /\ mem.op[i] = "rolledback"
      <4>1. \A o \in Ops : o > i - 1 => o = i \/ o > i
        BY <1>i
      <4> QED
        BY <3>1, <3>3, <4>1
    <3>4. CASE /\ pc' = "saveRolled" /\ i' = i /\ mem'.op[i] = "rolledback"
               /\ UNCHANGED failed
      BY <1>13, <1>i, <3>1, <3>4, RollbackEffect
    <3>5. CASE /\ pc' = "reactivate" /\ i' = i /\ UNCHANGED <<mem, failed>>
               /\ mem.op[i] # "rolledback"
      BY <1>i, <3>1, <3>5
    <3> QED
      BY <1>13, <3>2, <3>3, <3>4, <3>5, RollbackEffect
  <2> QED
    BY <2>1, <2>2, <2>3
<1>14. CASE Reactivate
  <2>1. HalfwayInv' /\ ApplyLoopInv'
    BY <1>14, ReactivateEffect
  <2>2. RollbackLoopInv'
    <3>1. i \in Ops /\ pc = "reactivate" /\ UNCHANGED disk
      BY <1>14, ReactivateEffect
    <3>2. CASE pc' = "rollback" /\ i' = i - 1 /\ failed' = TRUE
      BY <3>1, <3>2
    <3>3. CASE /\ pc' = "saveRolled" /\ i' = i /\ mem'.op[i] = "rolledback"
               /\ UNCHANGED failed
      BY <1>14, <1>i, <3>1, <3>3, ReactivateEffect
    <3> QED
      BY <1>14, <3>2, <3>3, ReactivateEffect
  <2> QED
    BY <2>1, <2>2
<1>15. CASE SaveRolled
  BY <1>15, <1>m, <1>s, <1>i DEF SaveRolled
<1>16. CASE EndRollback
  BY <1>16, <1>m, <1>s, <1>i DEF EndRollback
<1>17. CASE Cleanup
  BY <1>17, <1>m, <1>s, <1>i DEF Cleanup
<1>18. CASE ForgetRollback
  BY <1>18, <1>m, <1>s, <1>i DEF ForgetRollback
<1>19. CASE ReloadConfig
  BY <1>19, <1>m, <1>s, <1>i DEF ReloadConfig, StartupFails
<1>20. CASE OpenCatalog
  BY <1>20, <1>m, <1>s, <1>i DEF OpenCatalog, StartupFails
<1>21. CASE CommitOperation
  BY <1>21, <1>m, <1>s, <1>i DEF CommitOperation
<1>22. CASE ForgetCommit
  BY <1>22, <1>m, <1>s, <1>i DEF ForgetCommit
<1>23. CASE Listen
  BY <1>23, <1>m, <1>s, <1>i DEF Listen
<1>24. CASE Crash
  BY <1>24, <1>m, <1>s, <1>i DEF Crash
<1>25. CASE UNCHANGED vars
  BY <1>25 DEF vars, proc, files, ghosts
<1> QED
  BY <1>1, <1>2, <1>3, <1>4, <1>5, <1>6, <1>7, <1>8, <1>9, <1>10, <1>11, <1>12, <1>13, <1>14, <1>15, <1>16, <1>17, <1>18, <1>19, <1>20, <1>21, <1>22, <1>23, <1>24, <1>25 DEF Next, Prepare, Apply, Rollback, Startup

-----------------------------------------------------------------------------
(* Serving and trial.                                                      *)

\* A step to a label that ServingInv does not mention.
LEMMA ServingAway ==
  ASSUME ServingInv, orig' = orig, pc' \notin {"serve", "stage", "commit", "ready"}
  PROVE  ServingInv'
BY DEF ServingInv, Serving

\* What PrepareRestore and a running server leave to the next start.
LEMMA ServingStep == TypeOK /\ IndexInv /\ ControlInv /\ ServingInv /\ [Next]_vars => ServingInv'
<1> SUFFICES ASSUME TypeOK, IndexInv, ControlInv, ServingInv, [Next]_vars PROVE ServingInv'
  OBVIOUS
<1> USE ConstantFacts, FreshFacts DEF Goto, Exit, ghosts
<1>i. N \in Nat /\ i \in Int
  BY RestoreAssumption DEF TypeOK
<1>n. /\ \A o \in Ops : Empty[o] = None
      /\ Tombstone # None /\ New # None
      /\ Removals \subseteq Ops
  BY DEF Empty, None, New, Tombstone, Removals
<1>1. CASE BeginPrepare
  <2>1. /\ pc' = "stage" /\ i' = 1 /\ rollback' = Empty /\ disk.state = "none"
        /\ served = "old" /\ Serving /\ UNCHANGED <<target, disk, served, orig, trial>>
    BY <1>1 DEF BeginPrepare, Serving
  <2>2. ~trial
    BY <2>1 DEF ServingInv
  <2>3. \A o \in Ops : ~(o < 1)
    BY <1>i DEF Ops
  <2> QED
    BY <1>i, <2>1, <2>2, <2>3 DEF ServingInv, Serving
<1>2. CASE StageOperation
  <2>1. /\ pc = "stage" /\ i \in Ops /\ Serving
        /\ UNCHANGED <<target, rollback, disk, served, orig, trial>>
    BY <1>2 DEF StageOperation, Serving
  <2>2. ~trial
    BY <2>1 DEF ServingInv
  <2>3. CASE pc' = "serve"
    BY <2>1, <2>2, <2>3 DEF ServingInv, Serving
  <2>4. CASE /\ pc' = "stage" /\ i' = i + 1
             /\ staged' = [staged EXCEPT ![i] = IF Kind[i] = "remove" THEN Tombstone ELSE New]
    <3>1. i' \in 1..(N + 1)
      BY <1>i, <2>1, <2>4 DEF Ops
    <3>2. ASSUME NEW o \in Ops, o < i'
          PROVE  staged'[o] = IF o \in Removals THEN Tombstone ELSE New
      <4>1. CASE o = i
        BY <2>1, <2>4, <4>1 DEF TypeOK, Removals
      <4>2. CASE o < i
        BY <1>i, <2>1, <2>4, <4>2 DEF TypeOK, ServingInv, Ops
      <4> QED
        BY <1>i, <2>4, <3>2, <4>1, <4>2 DEF Ops
    <3> QED
      BY <2>1, <2>2, <2>4, <3>1, <3>2 DEF ServingInv, Serving
  <2> QED
    BY <1>2, <2>3, <2>4 DEF StageOperation
<1>3. CASE SavePending
  <2>1. /\ pc = "stage" /\ i = N + 1 /\ Serving /\ pc' = "serve"
        /\ UNCHANGED <<target, rollback, served, orig>>
    BY <1>3 DEF SavePending, Serving
  <2>2. ~trial /\ rollback = Empty
    BY <2>1 DEF ServingInv
  <2>3. CASE trial' = trial
    BY <2>1, <2>2, <2>3 DEF ServingInv, Serving
  <2>4. CASE disk' = Fresh("pending") /\ staged' = staged
    <3>1. ASSUME NEW o \in Ops PROVE staged[o] # None
      <4>1. o < i
        BY <1>i, <2>1 DEF Ops
      <4> QED
        BY <1>n, <2>1, <4>1 DEF ServingInv
    <3> QED
      BY <1>n, <2>1, <2>2, <2>4, <3>1 DEF ServingInv, Serving, StagedExists, RollbackExists
  <2> QED
    BY <1>3, <2>3, <2>4 DEF SavePending, Persist
<1>4. CASE Stop
  <2>1. pc' = "down" /\ orig'[N] = orig[N]
    BY <1>4 DEF Stop, TypeOK
  <2> QED
    BY <2>1 DEF ServingInv, Serving
<1>5. CASE Start
  BY <1>5, ServingAway DEF Start
<1>6. CASE ApplyOperation
  <2>1. pc' \in {"apply", "saveApplied", "saveMoved", "activate", "applyError"}
    BY <1>6, ApplyEffect
  <2>2. orig' = orig
    BY <1>6 DEF ApplyOperation
  <2> QED
    BY <2>1, <2>2, ServingAway
<1>7. CASE SaveMoved
  BY <1>7, ServingAway DEF SaveMoved
<1>8. CASE Activate
  BY <1>8, ServingAway DEF Activate, ApplyFails
<1>9. CASE SaveApplied
  BY <1>9, ServingAway DEF SaveApplied
<1>10. CASE SaveApplyError
  BY <1>10, ServingAway DEF SaveApplyError
<1>11. CASE FinishApply
  BY <1>11, ServingAway DEF FinishApply
<1>12. CASE SaveIntent
  BY <1>12, ServingAway DEF SaveIntent
<1>13. CASE RollbackOperation
  <2>1. pc' \in {"rollback", "saveRolled", "reactivate"}
    BY <1>13, RollbackEffect
  <2>2. orig' = orig
    BY <1>13 DEF RollbackOperation
  <2> QED
    BY <2>1, <2>2, ServingAway
<1>14. CASE Reactivate
  BY <1>14, ServingAway DEF Reactivate, RollbackError, Rolled
<1>15. CASE SaveRolled
  BY <1>15, ServingAway DEF SaveRolled
<1>16. CASE EndRollback
  BY <1>16, ServingAway DEF EndRollback
<1>17. CASE Cleanup
  BY <1>17, ServingAway DEF Cleanup
<1>18. CASE ForgetRollback
  BY <1>18, ServingAway DEF ForgetRollback
<1>19. CASE ReloadConfig
  BY <1>19, ServingAway DEF ReloadConfig, StartupFails
<1>20. CASE OpenCatalog
  <2>1. orig' = orig
    BY <1>20 DEF OpenCatalog
  <2>2. CASE pc' \notin {"serve", "stage", "commit", "ready"}
    BY <2>1, <2>2, ServingAway
  <2>3. CASE pc' \in {"commit", "ready"} /\ target' = OpenedFiles /\ trial' = FALSE
    <3>1. \A o \in Removals : target'[o] = target'[N]
      BY <1>n, <2>3 DEF OpenedFiles
    <3> QED
      BY <2>1, <2>3, <3>1 DEF ServingInv, Serving
  <2> QED
    BY <1>20, <2>2, <2>3 DEF OpenCatalog, StartupFails
<1>21. CASE CommitOperation
  BY <1>21 DEF CommitOperation, ServingInv, Serving
<1>22. CASE ForgetCommit
  BY <1>22 DEF ForgetCommit, ServingInv, Serving, files
<1>23. CASE Listen
  <2>1. /\ pc = "ready" /\ pc' = "serve" /\ served' = Generation
        /\ UNCHANGED <<target, orig, trial>>
    BY <1>23 DEF Listen, files
  <2>2. ~trial /\ orig[N] = Old /\ \A o \in Removals : target[o] = target[N]
    BY <2>1 DEF ServingInv
  <2>3. served' = "old" => \A o \in Replacements : target[o] = orig[o]
    BY <2>1 DEF Generation
  <2>4. served' = "old" => \A o \in Ops : orig[o] = Old => target[o] = Old
    BY <2>2, <2>3
  <2> QED
    BY <2>1, <2>2, <2>4 DEF ServingInv, Serving
<1>24. CASE Crash
  BY <1>24, ServingAway DEF Crash
<1>25. CASE UNCHANGED vars
  BY <1>25 DEF vars, proc, files, ServingInv, Serving, StagedExists, RollbackExists
<1> QED
  BY <1>1, <1>2, <1>3, <1>4, <1>5, <1>6, <1>7, <1>8, <1>9, <1>10, <1>11, <1>12, <1>13, <1>14, <1>15, <1>16, <1>17, <1>18, <1>19, <1>20, <1>21, <1>22, <1>23, <1>24, <1>25
     DEF Next, Prepare, Apply, Rollback, Startup

\* A step that leaves the paths alone and may write the marker of the process.
LEMMA TrialPersist ==
  ASSUME TypeOK, ControlInv, TrialInv, NEW m,
         UNCHANGED <<target, staged, rollback, orig, served>>,
         trial' => trial,
         disk' \in {disk, m},
         disk' = m => m.op = mem.op /\ m.state # "none",
         disk' = m /\ m.state \in Forward => pc \in Applying,
         pc \in Applying \cup RollingBack \cup {"intent"},
         pc' \in Applying \cup {"config", "open"} => mem'.op = mem.op /\ pc \in Applying
  PROVE  TrialInv'
<1> SUFFICES ASSUME trial' PROVE TrialInv'
  BY DEF TrialInv
<1> USE DEF Kept, Moved, Restorable, StagedExists
<1>1. trial /\ TrialInv
  OBVIOUS
<1>2. disk'.state # "none" /\ served' = "old"
  BY <1>1 DEF TrialInv
<1>3. /\ \A o \in Ops : Kept(o)'
      /\ \A o \in Replacements : staged'[o] \in {None, New}
  BY <1>1 DEF TrialInv
<1>4. (\E o \in Ops : disk'.op[o] # "rolledback") => \E o \in Ops : disk.op[o] # "rolledback"
  BY DEF ControlInv, Applying
<1>5. (\E o \in Ops : disk'.op[o] # "rolledback") => \A o \in Replacements : Restorable(o)'
  BY <1>1, <1>4 DEF TrialInv
<1>6. disk'.state \in Forward => \A o \in Removals :
        /\ StagedExists(o)' \/ Moved(o)'
        /\ disk'.op[o] = "applied" => Moved(o)'
  <2>1. CASE disk' = disk
    BY <1>1, <2>1 DEF TrialInv
  <2>2. CASE disk' = m /\ m.state \in Forward
    BY <1>1, <2>2 DEF TrialInv, ControlInv
  <2> QED
    BY <2>1, <2>2
<1>7. pc' \in Applying \cup {"config", "open"} => \A o \in Removals :
        mem'.op[o] = "applied" => Moved(o)'
  BY <1>1 DEF TrialInv
<1> QED
  BY <1>2, <1>3, <1>5, <1>6, <1>7 DEF TrialInv

\* A step that leaves paths and marker alone.
LEMMA TrialStays ==
  ASSUME TrialInv,
         UNCHANGED <<target, staged, rollback, orig, served, disk>>,
         trial' => trial,
         pc' \in Applying \cup {"config", "open"} =>
           mem' = disk \/ (mem' = mem /\ pc \in Applying \cup {"config", "open"}),
         mem' = disk => disk.state \in Forward \cup {"none"}
           \/ pc' \notin Applying \cup {"config", "open"}
  PROVE  TrialInv'
BY DEF TrialInv, Kept, Moved, Restorable, StagedExists

\* A rename of a rollback, while its operation is not marked rolled back.
LEMMA TrialRename ==
  ASSUME TypeOK, TrialInv, trial, i \in Ops,
         UNCHANGED <<orig, served, trial, disk>>,
         disk.state \in RollbackStates,
         disk.op[i] # "rolledback",
         pc' \notin Applying \cup {"config", "open"},
         \/ UNCHANGED files
         \/ ReactivateOriginal /\ ~TargetExists(i)
         \/ UnstageTarget /\ Kind[i] = "replace" /\ TargetExists(i) /\ ~StagedExists(i)
  PROVE  TrialInv'
<1> USE DEF Kept, Restorable, StagedExists, TargetExists, None, Old, New
<1>1. /\ disk'.state # "none" /\ disk'.state \notin Forward /\ served' = "old"
      /\ \A o \in Ops : Kept(o)
      /\ \A o \in Replacements : staged[o] \in {None, New} /\ Restorable(o)
  BY DEF TrialInv, RollbackStates, Forward
<1>2. target \in [Ops -> Contents] /\ staged \in [Ops -> Contents] /\ rollback \in [Ops -> Contents]
  BY DEF TypeOK
<1>3. ASSUME NEW o \in Ops PROVE Kept(o)'
  <2>1. CASE UNCHANGED files
    BY <1>1, <2>1 DEF files
  <2>2. CASE ReactivateOriginal /\ ~TargetExists(i)
    BY <1>1, <1>2, <2>2 DEF ReactivateOriginal
  <2>3. CASE UnstageTarget /\ Kind[i] = "replace" /\ ~StagedExists(i)
    <3>1. target[i] = New
      BY <1>1, <2>3 DEF Replacements
    <3> QED
      BY <1>1, <1>2, <2>3, <3>1 DEF UnstageTarget
  <2> QED
    BY <2>1, <2>2, <2>3
<1>4. ASSUME NEW o \in Replacements PROVE staged'[o] \in {None, New} /\ Restorable(o)'
  <2>0. o \in Ops
    BY DEF Replacements
  <2>1. CASE UNCHANGED files
    BY <1>1, <2>1 DEF files
  <2>2. CASE ReactivateOriginal /\ ~TargetExists(i)
    BY <1>1, <1>2, <2>0, <2>2 DEF ReactivateOriginal
  <2>3. CASE UnstageTarget /\ Kind[i] = "replace" /\ ~StagedExists(i)
    BY <1>1, <1>2, <2>0, <2>3 DEF UnstageTarget
  <2> QED
    BY <2>1, <2>2, <2>3
<1> QED
  BY <1>1, <1>3, <1>4 DEF TrialInv

\* The paths of a restore on trial.
LEMMA TrialStep == IInv /\ [Next]_vars => TrialInv'
<1> SUFFICES ASSUME IInv, [Next]_vars PROVE TrialInv'
  OBVIOUS
<1> USE DEF Goto, Exit, ghosts, files
<1>p. TypeOK /\ IndexInv /\ ControlInv /\ LoopInv /\ ServingInv /\ TrialInv
  BY DEF IInv
<1>f. /\ target \in [Ops -> Contents] /\ staged \in [Ops -> Contents]
      /\ rollback \in [Ops -> Contents] /\ orig \in [Ops -> Contents]
      /\ disk \in Markers /\ mem \in Markers
      /\ disk.state \in MarkerStates /\ mem.state \in MarkerStates
  BY <1>p DEF TypeOK, Markers
<1>s. \A st \in MarkerStates :
        InState(mem, st).state = st /\ InState(mem, st).op = mem.op
  BY <1>f, InStateFacts
<1>r. Removals \subseteq Ops /\ Replacements \subseteq Ops /\ Removals \cap Replacements = {}
  BY DEF Removals, Replacements
<1>1. CASE BeginPrepare
  <2>1. disk.state = "none" /\ trial' = trial
    BY <1>1 DEF BeginPrepare
  <2> QED
    BY <1>p, <2>1 DEF TrialInv
<1>2. CASE StageOperation
  <2>1. disk.state = "none" /\ trial' = trial
    BY <1>2, <1>p DEF StageOperation, ServingInv
  <2> QED
    BY <1>p, <2>1 DEF TrialInv
<1>3. CASE SavePending
  <2>1. pc = "stage" /\ i = N + 1 /\ disk.state = "none"
    BY <1>3, <1>p DEF SavePending, ServingInv
  <2>2. CASE trial' = trial
    BY <1>p, <2>1, <2>2 DEF TrialInv
  <2>3. CASE Persist(Fresh("pending")) /\ staged' = staged
    <3>1. /\ pc' = "serve" /\ disk' = Fresh("pending")
          /\ UNCHANGED <<target, staged, rollback, orig, served>>
      BY <1>3, <2>3 DEF SavePending, Persist
    <3>2. served = "old" /\ rollback = Empty /\ \A o \in Ops : orig[o] = Old => target[o] = Old
      BY <1>p, <2>1 DEF ServingInv, Serving
    <3>3. ASSUME NEW o \in Ops PROVE staged[o] = IF o \in Removals THEN Tombstone ELSE New
      <4>1. o < i
        BY <2>1, RestoreAssumption DEF Ops
      <4> QED
        BY <1>p, <2>1, <4>1 DEF ServingInv
    <3>4. \A o \in Ops : Kept(o)'
      BY <3>1, <3>2 DEF Kept, Empty
    <3>5. \A o \in Replacements : staged'[o] = New
      BY <1>r, <3>1, <3>3
    <3>6. \A o \in Removals : StagedExists(o)' /\ disk'.op[o] = "pending"
      BY <1>r, <3>1, <3>3, FreshFacts DEF StagedExists, None, Tombstone
    <3> QED
      BY <3>1, <3>2, <3>4, <3>5, <3>6, ConstantFacts DEF TrialInv, Restorable, Applying
  <2> QED
    BY <1>3, <2>2, <2>3 DEF SavePending
<1>4. CASE Stop
  <2> SUFFICES ASSUME trial' PROVE TrialInv'
    BY DEF TrialInv
  <2>1. /\ trial /\ Serving /\ pc' = "down"
        /\ UNCHANGED <<staged, rollback, disk, served>>
    BY <1>4 DEF Stop
  <2>2. /\ served = "old" /\ disk = Fresh("pending") /\ disk.state # "none"
        /\ \A o \in Ops : staged[o] # None /\ rollback[o] = None
    BY <1>p, <2>1 DEF ServingInv, TrialInv, StagedExists, RollbackExists
  <2>3. /\ \A o \in Replacements : target'[o] = target[o] /\ orig'[o] = orig[o]
        /\ \A o \in Removals : target'[o] = orig'[o]
    BY <1>4, <1>f, <1>r, <2>2 DEF Stop
  <2>4. \A o \in Ops : Kept(o)
    BY <1>p, <2>1 DEF TrialInv
  <2>5. ASSUME NEW o \in Ops PROVE Kept(o)'
    <3>1. CASE o \in Replacements
      BY <2>1, <2>3, <2>4, <3>1 DEF Kept
    <3>2. CASE o \in Removals
      BY <2>1, <2>2, <2>3, <3>2 DEF Kept
    <3> QED
      BY <3>1, <3>2, ConstantFacts
  <2>6. \A o \in Replacements : staged[o] \in {None, New}
    BY <1>p, <2>1 DEF TrialInv
  <2>7. \A o \in Replacements : Restorable(o)'
    BY <1>r, <2>1, <2>2, <2>6 DEF Restorable
  <2>8. \A o \in Removals : StagedExists(o)' /\ disk'.op[o] = "pending"
    BY <1>r, <2>1, <2>2, FreshFacts DEF StagedExists
  <2> QED
    BY <2>1, <2>2, <2>5, <2>6, <2>7, <2>8 DEF TrialInv, Applying
<1>5. CASE Start
  <2>1. /\ mem' = disk /\ UNCHANGED <<target, staged, rollback, orig, served, disk, trial>>
        /\ disk.state \in Forward \cup {"none"} \/ pc' \in {"cleanup", "intent"}
    BY <1>5, <1>f DEF Start, Resumable, Forward, MarkerStates, RollbackStates
  <2>2. disk.state = "none" \/ disk.state \in Forward \/ pc' \notin Applying \cup {"config", "open"}
    BY <2>1 DEF Applying
  <2>3. mem' = disk => \/ disk.state \in Forward \cup {"none"}
                       \/ pc' \notin Applying \cup {"config", "open"}
    BY <2>2
  <2>4. pc' \in Applying \cup {"config", "open"} =>
          mem' = disk \/ (mem' = mem /\ pc \in Applying \cup {"config", "open"})
    BY <2>1
  <2>5. UNCHANGED <<target, staged, rollback, orig, served, disk>> /\ (trial' => trial)
    BY <2>1
  <2> QED
    BY <1>p, <2>3, <2>4, <2>5, TrialStays
<1>6. CASE ApplyOperation
  <2> SUFFICES ASSUME trial' PROVE TrialInv'
    BY DEF TrialInv
  <2>1. /\ trial /\ UNCHANGED <<orig, served, disk>>
        /\ pc = "apply" /\ i \in Ops /\ staged' = staged
        /\ \A o \in Ops \ {i} : mem'.op[o] = mem.op[o]
        /\ pc' \in {"apply", "saveApplied", "saveMoved", "activate", "applyError"}
    BY <1>p, <1>6, ApplyEffect DEF ApplyOperation, MoveAside
  <2>2. disk.state \in Forward
    BY <1>p, <2>1 DEF ControlInv, Applying
  <2>3. CASE UNCHANGED files
    <3>1. ASSUME NEW o \in Removals, mem'.op[o] = "applied" PROVE Moved(o)
      <4>1. CASE mem.op[o] = "applied"
        BY <1>p, <2>1, <3>1, <4>1 DEF TrialInv, Applying
      <4>2. CASE o = i /\ mem.op[i] # "applied" /\ ~StagedExists(i)
        BY <1>p, <2>1, <2>2, <4>2 DEF TrialInv
      <4> QED
        BY <1>p, <1>6, <1>r, <2>1, <3>1, <4>1, <4>2, ApplyEffect
    <3> QED
      BY <1>p, <2>1, <2>3, <3>1 DEF TrialInv, Kept, Moved, Restorable, StagedExists
  <2>4. CASE MoveAside /\ StagedExists(i) /\ ~RollbackExists(i) /\ mem'.op[i] = "target-moved"
    <3>1. \A o \in Ops : Kept(o)'
      BY <1>p, <1>f, <2>1, <2>4 DEF TrialInv, Kept, MoveAside, RollbackExists, None, Old
    <3>2. \A o \in Replacements : Restorable(o) => Restorable(o)'
      <4>1. \A o \in Replacements : staged[o] \in {None, New}
        BY <1>p, <2>1 DEF TrialInv
      <4> QED
        BY <1>f, <1>r, <2>1, <2>4, <4>1 DEF Restorable, MoveAside, StagedExists
    <3>3. \A o \in Removals : Moved(o) => Moved(o)'
      BY <1>f, <1>r, <2>1, <2>4 DEF Moved, MoveAside, RollbackExists, None, Old
    <3>4. \A o \in Removals : StagedExists(o)' = StagedExists(o)
      BY <2>1 DEF StagedExists
    <3>5. \A o \in Removals : mem'.op[o] = "applied" => mem.op[o] = "applied"
      BY <1>r, <2>1, <2>4
    <3> QED
      BY <1>p, <2>1, <2>4, <3>1, <3>2, <3>3, <3>4, <3>5 DEF TrialInv, Applying
  <2> QED
    BY <1>p, <1>6, <2>3, <2>4, ApplyEffect
<1>7. CASE SaveMoved
  <2> DEFINE m == mem
  <2>1. /\ UNCHANGED <<target, staged, rollback, orig, served, trial>>
        /\ disk' \in {disk, m} /\ pc = "saveMoved"
        /\ mem' = mem
    BY <1>7 DEF SaveMoved, Persist, PersistFails
  <2>2. /\ m.op = mem.op /\ m.state # "none"
        /\ m.state \in Forward => pc \in Applying
    BY <1>p, <1>f, <1>s, <2>1 DEF ControlInv, Applying, RollingBack, Forward,
       RollbackStates, MarkerStates
  <2>3. /\ pc \in Applying \cup RollingBack \cup {"intent"}
        /\ pc' \in Applying \cup {"config", "open"} => mem'.op = mem.op /\ pc \in Applying
    BY <1>s, <2>1, <2>2 DEF Applying, RollingBack, MarkerStates
  <2> HIDE DEF m
  <2> QED
    BY <1>p, <2>1, <2>2, <2>3, TrialPersist
<1>8. CASE Activate
  <2> SUFFICES ASSUME trial' PROVE TrialInv'
    BY DEF TrialInv
  <2>1. /\ trial /\ UNCHANGED <<orig, served, disk>>
        /\ pc = "activate" /\ i \in Ops /\ target[i] = None
        /\ \A o \in Ops \ {i} : mem'.op[o] = mem.op[o]
        /\ pc' \in {"saveApplied", "applyError"}
    BY <1>p, <1>8, ActivateEffect DEF Activate, LoopInv, HalfwayInv
  <2>2. disk.state \in Forward /\ \A o \in Ops : disk.op[o] # "rolledback"
    BY <1>p, <2>1 DEF ControlInv, Applying
  <2>3. CASE UNCHANGED <<files, mem>>
    BY <1>p, <2>1, <2>3 DEF TrialInv, Kept, Moved, Restorable, StagedExists, Applying
  <2>4. CASE ActivateStaged
    <3>1. /\ \A o \in Ops : Kept(o)
          /\ \A o \in Replacements : staged[o] \in {None, New} /\ Restorable(o)
      BY <1>p, <2>1, <2>2 DEF TrialInv
    <3>2. Moved(i)
      BY <2>1, <3>1 DEF Kept, Moved, None, Old
    <3>3. rollback' = rollback /\ \A o \in Ops \ {i} : target'[o] = target[o] /\ staged'[o] = staged[o]
      BY <1>f, <2>1, <2>4 DEF ActivateStaged
    <3>4. \A o \in Ops : Kept(o)'
      BY <2>1, <3>1, <3>2, <3>3 DEF Kept, Moved
    <3>5. i \in Replacements => target'[i] = New /\ staged'[i] = None
      BY <1>f, <2>1, <2>4, <3>1 DEF ActivateStaged, Replacements, Restorable, None, New
    <3>6. \A o \in Replacements : staged'[o] \in {None, New} /\ Restorable(o)'
      BY <1>r, <3>1, <3>3, <3>5 DEF Restorable
    <3>7. /\ \A o \in Removals : Moved(o)' = Moved(o)
          /\ \A o \in Removals \ {i} : StagedExists(o)' = StagedExists(o)
      BY <1>r, <2>1, <3>3 DEF Moved, StagedExists
    <3>8. \A o \in Removals :
            /\ StagedExists(o)' \/ Moved(o)'
            /\ disk'.op[o] = "applied" \/ mem'.op[o] = "applied" => Moved(o)'
      BY <1>p, <1>r, <2>1, <2>2, <3>2, <3>7 DEF TrialInv, Applying
    <3> QED
      BY <1>p, <2>1, <3>4, <3>6, <3>8 DEF TrialInv
  <2> QED
    BY <1>p, <1>8, <2>3, <2>4, ActivateEffect
<1>9. CASE SaveApplied
  <2> DEFINE m == mem
  <2>1. /\ UNCHANGED <<target, staged, rollback, orig, served, trial>>
        /\ disk' \in {disk, m} /\ pc = "saveApplied"
        /\ mem' = mem
    BY <1>9 DEF SaveApplied, Persist, PersistFails
  <2>2. /\ m.op = mem.op /\ m.state # "none"
        /\ m.state \in Forward => pc \in Applying
    BY <1>p, <1>f, <1>s, <2>1 DEF ControlInv, Applying, RollingBack, Forward,
       RollbackStates, MarkerStates
  <2>3. /\ pc \in Applying \cup RollingBack \cup {"intent"}
        /\ pc' \in Applying \cup {"config", "open"} => mem'.op = mem.op /\ pc \in Applying
    BY <1>s, <2>1, <2>2 DEF Applying, RollingBack, MarkerStates
  <2> HIDE DEF m
  <2> QED
    BY <1>p, <2>1, <2>2, <2>3, TrialPersist
<1>10. CASE SaveApplyError
  <2> DEFINE m == mem
  <2>1. /\ UNCHANGED <<target, staged, rollback, orig, served, trial>>
        /\ disk' \in {disk, m} /\ pc = "applyError"
        /\ mem' = mem
    BY <1>10 DEF SaveApplyError, Persist, PersistFails
  <2>2. /\ m.op = mem.op /\ m.state # "none"
        /\ m.state \in Forward => pc \in Applying
    BY <1>p, <1>f, <1>s, <2>1 DEF ControlInv, Applying, RollingBack, Forward,
       RollbackStates, MarkerStates
  <2>3. /\ pc \in Applying \cup RollingBack \cup {"intent"}
        /\ pc' \in Applying \cup {"config", "open"} => mem'.op = mem.op /\ pc \in Applying
    BY <1>s, <2>1, <2>2 DEF Applying, RollingBack, MarkerStates
  <2> HIDE DEF m
  <2> QED
    BY <1>p, <2>1, <2>2, <2>3, TrialPersist
<1>11. CASE FinishApply
  <2> DEFINE m == InState(mem, "applied")
  <2>1. /\ UNCHANGED <<target, staged, rollback, orig, served, trial>>
        /\ disk' \in {disk, m} /\ pc = "apply"
        /\ mem' = InState(mem, "applied")
    BY <1>11 DEF FinishApply, Persist, PersistFails
  <2>2. /\ m.op = mem.op /\ m.state # "none"
        /\ m.state \in Forward => pc \in Applying
    BY <1>p, <1>f, <1>s, <2>1 DEF ControlInv, Applying, RollingBack, Forward,
       RollbackStates, MarkerStates
  <2>3. /\ pc \in Applying \cup RollingBack \cup {"intent"}
        /\ pc' \in Applying \cup {"config", "open"} => mem'.op = mem.op /\ pc \in Applying
    BY <1>s, <2>1, <2>2 DEF Applying, RollingBack, MarkerStates
  <2> HIDE DEF m
  <2> QED
    BY <1>p, <2>1, <2>2, <2>3, TrialPersist
<1>12. CASE SaveIntent
  <2> DEFINE m == InState(mem, "rolling-back")
  <2>1. /\ UNCHANGED <<target, staged, rollback, orig, served, trial>>
        /\ disk' \in {disk, m} /\ pc = "intent"
        /\ pc' \in {"rollback", "down"}
    BY <1>12 DEF SaveIntent, Persist, PersistFails
  <2>2. /\ m.op = mem.op /\ m.state # "none"
        /\ m.state \in Forward => pc \in Applying
    BY <1>p, <1>f, <1>s, <2>1 DEF ControlInv, Applying, RollingBack, Forward,
       RollbackStates, MarkerStates
  <2>3. /\ pc \in Applying \cup RollingBack \cup {"intent"}
        /\ pc' \in Applying \cup {"config", "open"} => mem'.op = mem.op /\ pc \in Applying
    BY <1>s, <2>1, <2>2 DEF Applying, RollingBack, MarkerStates
  <2> HIDE DEF m
  <2> QED
    BY <1>p, <2>1, <2>2, <2>3, TrialPersist
<1>13. CASE RollbackOperation
  <2> SUFFICES ASSUME trial' PROVE TrialInv'
    BY DEF TrialInv
  <2>1. /\ i \in Ops /\ pc = "rollback" /\ disk' = disk
        /\ pc' \in {"rollback", "saveRolled", "reactivate"}
        /\ UNCHANGED <<orig, served, trial>>
    BY <1>13, RollbackEffect, <1>p DEF RollbackOperation
  <2>2. disk.state \in RollbackStates /\ (disk.op[i] = "rolledback" => mem.op[i] = "rolledback")
    BY <1>p, <2>1 DEF ControlInv, RollingBack
  <2>3. CASE UNCHANGED files
    BY <1>p, <2>1, <2>3, TrialStays DEF Applying
  <2>4. CASE /\ mem.op[i] # "rolledback"
             /\ \/ ReactivateOriginal /\ ~TargetExists(i)
                \/ UnstageTarget /\ Kind[i] = "replace" /\ TargetExists(i) /\ ~StagedExists(i)
    BY <1>p, <2>1, <2>2, <2>4, TrialRename DEF Applying
  <2> QED
    BY <1>p, <1>13, <2>3, <2>4, RollbackEffect
<1>14. CASE Reactivate
  <2> SUFFICES ASSUME trial' PROVE TrialInv'
    BY DEF TrialInv
  <2>1. /\ i \in Ops /\ pc = "reactivate" /\ disk' = disk
        /\ pc' \in {"rollback", "saveRolled"}
        /\ UNCHANGED <<orig, served, trial>>
        /\ ReactivateOriginal \/ UNCHANGED files
    BY <1>14, ReactivateEffect, <1>p DEF Reactivate
  <2>2. disk.state \in RollbackStates /\ disk.op[i] # "rolledback"
    <3>1. mem.op[i] # "rolledback"
      BY <1>p, <2>1 DEF LoopInv, RollbackLoopInv
    <3> QED
      BY <1>p, <2>1, <3>1 DEF ControlInv, RollingBack
  <2>3. ~TargetExists(i)
    BY <1>p, <2>1 DEF LoopInv, HalfwayInv, TargetExists
  <2> QED
    BY <1>p, <2>1, <2>2, <2>3, TrialRename DEF Applying
<1>15. CASE SaveRolled
  <2> DEFINE m == mem
  <2>1. /\ UNCHANGED <<target, staged, rollback, orig, served, trial>>
        /\ disk' \in {disk, m} /\ pc = "saveRolled"
        /\ pc' = "rollback"
    BY <1>15 DEF SaveRolled, Persist, PersistFails
  <2>2. /\ m.op = mem.op /\ m.state # "none"
        /\ m.state \in Forward => pc \in Applying
    BY <1>p, <1>f, <1>s, <2>1 DEF ControlInv, Applying, RollingBack, Forward,
       RollbackStates, MarkerStates
  <2>3. /\ pc \in Applying \cup RollingBack \cup {"intent"}
        /\ pc' \in Applying \cup {"config", "open"} => mem'.op = mem.op /\ pc \in Applying
    BY <1>s, <2>1, <2>2 DEF Applying, RollingBack, MarkerStates
  <2> HIDE DEF m
  <2> QED
    BY <1>p, <2>1, <2>2, <2>3, TrialPersist
<1>16. CASE EndRollback
  <2> DEFINE m == InState(mem, IF failed THEN "rollback-failed" ELSE "rolledback")
  <2>1. /\ UNCHANGED <<target, staged, rollback, orig, served, trial>>
        /\ disk' \in {disk, m} /\ pc = "rollback"
        /\ pc' \in {"down", "cleanup"}
    BY <1>16 DEF EndRollback, Persist, PersistFails
  <2>2. /\ m.op = mem.op /\ m.state # "none"
        /\ m.state \in Forward => pc \in Applying
    BY <1>p, <1>f, <1>s, <2>1 DEF ControlInv, Applying, RollingBack, Forward,
       RollbackStates, MarkerStates
  <2>3. /\ pc \in Applying \cup RollingBack \cup {"intent"}
        /\ pc' \in Applying \cup {"config", "open"} => mem'.op = mem.op /\ pc \in Applying
    BY <1>s, <2>1, <2>2 DEF Applying, RollingBack, MarkerStates
  <2> HIDE DEF m
  <2> QED
    BY <1>p, <2>1, <2>2, <2>3, TrialPersist
<1>17. CASE Cleanup
  <2> SUFFICES ASSUME trial' PROVE TrialInv'
    BY DEF TrialInv
  <2>1. /\ trial /\ pc = "cleanup" /\ i \in Ops /\ pc' \in {"cleanup", "down"}
        /\ UNCHANGED <<target, rollback, disk, orig, served>>
        /\ staged' \in {staged, [staged EXCEPT ![i] = None]}
    BY <1>17 DEF Cleanup
  <2>2. /\ disk.state \in RollbackStates
        /\ \A o \in Ops : disk.op[o] = "rolledback"
    BY <1>p, <2>1 DEF ControlInv, LoopInv, RollbackLoopInv
  <2>3. \A o \in Replacements : staged'[o] \in {None, New}
    BY <1>p, <1>f, <1>r, <2>1 DEF TrialInv
  <2> QED
    BY <1>p, <2>1, <2>2, <2>3 DEF TrialInv, Kept, RollbackStates, Forward, Applying
<1>18. CASE ForgetRollback
  <2>1. \/ trial' = FALSE
        \/ /\ UNCHANGED <<target, staged, rollback, orig, served, disk, trial>>
           /\ pc' = "down"
    BY <1>18 DEF ForgetRollback
  <2> QED
    BY <1>p, <2>1, TrialStays DEF TrialInv, Applying
<1>19. CASE ReloadConfig
  <2>1. /\ UNCHANGED <<target, staged, rollback, orig, served, disk, trial>>
        /\ pc = "config"
        /\ (mem' = mem /\ pc' = "open") \/ pc' \in {"intent", "down"}
    BY <1>19 DEF ReloadConfig, StartupFails
  <2>2. \/ pc' \notin Applying \cup {"config", "open"}
        \/ mem' = mem /\ pc \in Applying \cup {"config", "open"} /\ (mem.state = disk.state)
    BY <1>p, <2>1 DEF Applying, ControlInv
  <2>3. CASE pc' \notin Applying \cup {"config", "open"}
    BY <1>p, <2>1, <2>3, TrialStays
  <2>4. CASE mem' = mem /\ mem.state \in {"none", "applied"} /\ mem.state = disk.state
    BY <1>p, <2>1, <2>2, <2>4, TrialStays DEF Forward
  <2> QED
    BY <1>p, <2>1, <2>3, <2>4 DEF ControlInv, Applying
<1>20. CASE OpenCatalog
  <2> SUFFICES ASSUME trial' PROVE TrialInv'
    BY DEF TrialInv
  <2>1. /\ trial /\ pc = "open" /\ pc' \in {"intent", "down"}
        /\ UNCHANGED <<staged, rollback, disk, orig, served>>
        /\ \E left \in [Removals -> {"kept", "created", "removed"}] : target' = FilesLeft(left)
    BY <1>20 DEF OpenCatalog, StartupFails
  <2>2. \A o \in Replacements : target'[o] = target[o]
    BY <1>r, <2>1 DEF FilesLeft
  <2>3. disk.state # "none"
    BY <1>p, <2>1 DEF TrialInv
  <2>4. \A o \in Removals : Moved(o)
    <3>1. mem.state = "applied"
      BY <1>p, <2>1, <2>3 DEF ControlInv
    <3>2. \A o \in Ops : mem.op[o] = "applied"
      BY <1>p, <2>1, <3>1 DEF LoopInv, ApplyLoopInv
    <3> QED
      BY <1>p, <1>r, <2>1, <3>2 DEF TrialInv
  <2>5. ASSUME NEW o \in Ops PROVE Kept(o)'
    <3>1. Kept(o)
      BY <1>p, <2>1 DEF TrialInv
    <3>2. CASE o \in Replacements
      BY <2>1, <2>2, <3>1, <3>2 DEF Kept
    <3>3. CASE o \in Removals
      BY <2>1, <2>4, <3>3 DEF Kept, Moved
    <3> QED
      BY <3>2, <3>3, ConstantFacts
  <2>6. /\ \A o \in Replacements : Restorable(o)' = Restorable(o) /\ staged'[o] = staged[o]
        /\ \A o \in Removals : Moved(o)' = Moved(o)
    BY <2>1, <2>2 DEF Restorable, Moved
  <2> QED
    BY <1>p, <2>1, <2>4, <2>5, <2>6 DEF TrialInv, Applying
<1>21. CASE CommitOperation
  <2>1. ~trial /\ trial' = trial
    BY <1>21, <1>p DEF CommitOperation, ServingInv
  <2> QED
    BY <2>1 DEF TrialInv
<1>22. CASE ForgetCommit
  <2>1. ~trial /\ trial' = trial
    BY <1>22, <1>p DEF ForgetCommit, ServingInv
  <2> QED
    BY <2>1 DEF TrialInv
<1>23. CASE Listen
  <2>1. ~trial /\ trial' = trial
    BY <1>23, <1>p DEF Listen, ServingInv
  <2> QED
    BY <2>1 DEF TrialInv
<1>24. CASE Crash
  <2>1. /\ UNCHANGED <<target, staged, rollback, orig, served, disk, trial>>
        /\ pc' = "down"
    BY <1>24 DEF Crash
  <2> QED
    BY <1>p, <2>1, TrialStays DEF Applying
<1>25. CASE UNCHANGED vars
  BY <1>p, <1>25 DEF vars, proc, TrialInv, Kept, Moved, Restorable, StagedExists
<1> QED
  BY <1>1, <1>2, <1>3, <1>4, <1>5, <1>6, <1>7, <1>8, <1>9, <1>10, <1>11, <1>12, <1>13, <1>14, <1>15, <1>16, <1>17, <1>18, <1>19, <1>20, <1>21, <1>22, <1>23, <1>24, <1>25
     DEF Next, Prepare, Apply, Rollback, Startup

-----------------------------------------------------------------------------
(* Theorems.                                                               *)

\* The inductive invariant holds at first: no restore has been asked for.
LEMMA InvariantInit == Init => IInv
<1> SUFFICES ASSUME Init PROVE IInv
  OBVIOUS
<1> USE ConstantFacts, FreshFacts DEF Init
<1>1. TypeOK
  BY TypeInit
<1>2. IndexInv /\ ControlInv /\ LoopInv
  BY DEF IndexInv, ControlInv, LoopInv, HalfwayInv, ApplyLoopInv, RollbackLoopInv,
     Applying, RollingBack, Forward
<1>3. ServingInv
  BY DEF ServingInv, Serving
<1>4. TrialInv
  BY DEF TrialInv
<1> QED
  BY <1>1, <1>2, <1>3, <1>4 DEF IInv

\* Every step of the switch keeps it.
LEMMA InvariantStep == IInv /\ [Next]_vars => IInv'
BY TypeStep, IndexStep, ControlStep, LoopStep, ServingStep, TrialStep DEF IInv

\* The switch always satisfies its inductive invariant.
THEOREM Invariant == Spec => []IInv
BY InvariantInit, InvariantStep, PTL DEF Spec

\* Every variable keeps its type: the marker never holds a state, and the loops
\* of apply, rollback, cleanup and commit never reach an index, that
\* restore_apply.go does not know.
THEOREM TypeCorrect == Spec => []TypeOK
<1>1. IInv => TypeOK
  BY DEF IInv
<1> QED
  BY <1>1, Invariant, PTL

\* However the switch is interrupted by faults and crashes, the renames of
\* applyRestoreOperation and rollbackRestoreOperation never leave a path without
\* its original until the restored catalog has opened.
THEOREM OriginalsAreKept == Spec => []OriginalKept
<1>1. IInv => OriginalKept
  BY DEF IInv, TrialInv, Kept, OriginalKept
<1> QED
  BY <1>1, Invariant, PTL

\* Until every operation is marked rolled back, applying can be resumed: each
\* replaced path has its restored value in its place or staged.
THEOREM RestoredValuesAreKept == Spec => []RestoredKept
<1>1. IInv => RestoredKept
  BY DEF IInv, TrialInv, Restorable, RestoredKept
<1> QED
  BY <1>1, Invariant, PTL

=============================================================================
