------------------------ MODULE RestoreAtomicProofs ------------------------
(***************************************************************************)
(* Proofs that a restore is all or nothing: while PrepareRestore's own     *)
(* marker write does not fail after its rename, RestoreSwitch never opens, *)
(* serves or forgets the marker of a mixture, a rollback is final, and the *)
(* switch implements RestoreAtomic.                                        *)
(*                                                                         *)
(* Each path passes on its own through a few shapes, and each copy of the  *)
(* marker says enough of the path to tell which way it may go.  That all   *)
(* paths agree follows only where the markers say so of all of them.       *)
(***************************************************************************)
EXTENDS RestoreSwitchProofs

\* A replaced path as it was before the restore, or as the restore makes it.
Original(o) == target[o] = orig[o] /\ rollback[o] = None
Restored(o) == target[o] = New /\ staged[o] = None

\* The shapes of a replaced path while there is a marker: as before (its staged
\* value is deleted only after the rollback), between two renames, or restored
\* with its original beside it until the commit deletes that.
Shape(o) ==
  /\ orig[o] \in {None, Old}
  /\ \/ Original(o) /\ staged[o] = New
     \/ Original(o) /\ staged[o] = None /\ disk.op[o] = "rolledback"
     \/ target[o] = None /\ staged[o] = New /\ rollback[o] = Old /\ orig[o] = Old
     \/ Restored(o) /\ rollback[o] \in {orig[o], None}

\* The original is deleted.
Committed(o) == orig[o] = Old /\ target[o] = New /\ rollback[o] = None

\* What marker m says of a replaced path is true of it.
Truthful(m, o) ==
  /\ m.had[o] => orig[o] = Old
  /\ m.op[o] = "rolledback" => Original(o)
  /\ m.op[o] = "applied" => m.had[o] = (orig[o] = Old)
  /\ m.op[o] = "applied" /\ m.state \in Forward => Restored(o)
  /\ Committed(o) => m.had[o] /\ (m.state \in Forward => m.op[o] = "applied")

PathInv ==
  /\ \A o \in Replacements : orig[o] \in {None, Old}
  /\ disk.state # "none" => \A o \in Replacements : Shape(o) /\ Truthful(disk, o)
  /\ mem.state # "none" => \A o \in Replacements : Truthful(mem, o)
  /\ pc \in {"saveMoved", "activate"} => mem.had[i] = RollbackExists(i)
  /\ pc = "reactivate" => RollbackExists(i)

\* The paths agree.
Settled ==
  \/ \A o \in Replacements : target[o] = orig[o]
  \/ \A o \in Replacements : target[o] = New

AgreementInv ==
  /\ disk.state = "none" \/ pc \in {"config", "open", "ready", "serve", "stage"} => Settled
  /\ pc = "commit" =>
       /\ mem.state = "applied"
       /\ \A o \in Ops : mem.op[o] = "applied"
  /\ pc \in {"config", "open", "commit"} /\ mem.state # "none" => disk = mem
  /\ Serving => mem.state = "none" /\ served = Generation

\* The inductive invariant of this module, over that of RestoreSwitchProofs.
MixInv == PathInv /\ AgreementInv

-----------------------------------------------------------------------------
(* Paths and markers.                                                      *)

\* The values a path can have are different, and so are the states of a marker.
LEMMA ValueFacts ==
  /\ None # Old /\ None # New /\ Old # New /\ Tombstone # None
  /\ Forward \cap RollbackStates = {} /\ "none" \notin Forward \cup RollbackStates
  /\ NoMarker.state = "none" /\ Replacements \subseteq Ops /\ N \in Replacements
BY ConstantFacts DEF None, Old, New, Tombstone, Forward, RollbackStates, Replacements

\* What WithOp does to the record of an original.
LEMMA WithOpHad ==
  ASSUME NEW m \in Markers, NEW o \in Ops, NEW s, NEW h
  PROVE  /\ WithOp(m, o, s, h).had[o] = h
         /\ \A p \in Ops \ {o} : WithOp(m, o, s, h).had[p] = m.had[p]
BY DEF WithOp, Markers

\* A replaced path that a step leaves alone.
SamePath(o) ==
  /\ target'[o] = target[o] /\ staged'[o] = staged[o]
  /\ rollback'[o] = rollback[o] /\ orig'[o] = orig[o]

\* What a marker says of it stays true.
LEMMA SameTruth ==
  ASSUME NEW o \in Replacements, SamePath(o), NEW m, NEW n,
         n.op[o] = m.op[o], n.had[o] = m.had[o], n.state \in Forward => m.state \in Forward,
         Truthful(m, o)
  PROVE  Truthful(n, o)'
BY DEF SamePath, Truthful, Original, Restored, Committed

\* Its shape stays one.
LEMMA SameShape ==
  ASSUME NEW o \in Replacements, SamePath(o),
         disk.op[o] = "rolledback" => disk'.op[o] = "rolledback", Shape(o)
  PROVE  Shape(o)'
BY DEF SamePath, Shape, Original, Restored

\* A step that neither moves a replaced path nor changes what the markers say.
LEMMA PathStays ==
  ASSUME PathInv, \A o \in Replacements : SamePath(o),
         disk' = disk \/ disk'.state = "none",
         mem' = mem \/ mem' = disk \/ mem'.state = "none",
         pc' \notin {"saveMoved", "activate", "reactivate"} \/ UNCHANGED <<pc, i, mem, rollback>>
  PROVE  PathInv'
<1>1. \A o \in Replacements : orig'[o] \in {None, Old}
  BY DEF PathInv, SamePath
<1>2. ASSUME disk'.state # "none", NEW o \in Replacements
      PROVE  Shape(o)' /\ Truthful(disk, o)'
  <2>1. disk' = disk /\ Shape(o) /\ Truthful(disk, o) /\ SamePath(o)
    BY <1>2 DEF PathInv
  <2>2. Shape(o)'
    BY <2>1, SameShape
  <2>3. Truthful(disk, o)'
    BY <2>1 DEF Truthful, Original, Restored, Committed, SamePath
  <2> QED
    BY <2>2, <2>3
<1>3. ASSUME mem'.state # "none", NEW o \in Replacements
      PROVE  Truthful(mem, o)'
  <2>1. SamePath(o) /\ Truthful(mem', o)
    BY <1>3 DEF PathInv, Truthful, Original, Restored, Committed
  <2> QED
    BY <2>1 DEF Truthful, Original, Restored, Committed, SamePath
<1>4. /\ pc' \in {"saveMoved", "activate"} => mem'.had[i'] = RollbackExists(i)'
      /\ pc' = "reactivate" => RollbackExists(i)'
  BY DEF PathInv, RollbackExists
<1> QED
  BY <1>1, <1>2, <1>3, <1>4 DEF PathInv

\* The process saves what it holds in memory, in the same state or a later one.
LEMMA PathPersists ==
  ASSUME TypeOK, PathInv, UNCHANGED <<target, staged, rollback, orig>>,
         disk.state # "none", mem.state # "none",
         NEW m, m.op = mem.op, m.had = mem.had, m.state \in Forward => mem.state \in Forward,
         disk' \in {disk, m}, mem' \in {mem, m} \/ mem'.state = "none",
         \A o \in Ops : disk.op[o] = "rolledback" => mem.op[o] = "rolledback",
         pc' \in {"saveMoved", "activate"} =>
           pc \in {"saveMoved", "activate"} /\ UNCHANGED <<i, mem>>,
         pc' # "reactivate"
  PROVE  PathInv'
<1>1. ASSUME NEW o \in Replacements
      PROVE  /\ SamePath(o) /\ Shape(o) /\ Truthful(disk, o) /\ Truthful(mem, o) /\ Truthful(m, o)
             /\ disk.op[o] = "rolledback" => m.op[o] = "rolledback"
  BY ConstantFacts DEF PathInv, SamePath, Truthful
<1>2. ASSUME NEW o \in Replacements
      PROVE  orig'[o] \in {None, Old} /\ Shape(o)' /\ Truthful(disk, o)'
  <2>1. Shape(o)'
    BY <1>1, SameShape
  <2>2. Truthful(disk, o)'
    BY <1>1 DEF Truthful, Original, Restored, Committed, SamePath
  <2> QED
    BY <1>1, <2>1, <2>2 DEF Shape
<1>3. ASSUME mem'.state # "none", NEW o \in Replacements
      PROVE  Truthful(mem, o)'
  BY <1>1, <1>3 DEF Truthful, Original, Restored, Committed, SamePath
<1>4. /\ pc' \in {"saveMoved", "activate"} => mem'.had[i'] = RollbackExists(i)'
      /\ pc' = "reactivate" => RollbackExists(i)'
  BY ValueFacts DEF PathInv, RollbackExists
<1> QED
  BY <1>2, <1>3, <1>4 DEF PathInv

\* A step at operation p: the other paths, and what the markers say of them,
\* stay as they are.
LEMMA PathMoves ==
  ASSUME PathInv, NEW p \in Ops, UNCHANGED <<disk, orig>>,
         disk.state # "none", mem.state # "none", mem'.state = mem.state,
         \A o \in Ops \ {p} : /\ mem'.op[o] = mem.op[o] /\ mem'.had[o] = mem.had[o]
                              /\ target'[o] = target[o] /\ staged'[o] = staged[o]
                              /\ rollback'[o] = rollback[o],
         p \in Replacements => Shape(p)' /\ Truthful(disk, p)' /\ Truthful(mem, p)',
         pc' \in {"saveMoved", "activate"} => mem'.had[i'] = RollbackExists(i)',
         pc' = "reactivate" => RollbackExists(i)'
  PROVE  PathInv'
<1>1. ASSUME NEW o \in Replacements, o # p
      PROVE  Shape(o)' /\ Truthful(disk, o)' /\ Truthful(mem, o)'
  <2>1. /\ SamePath(o) /\ Shape(o) /\ Truthful(disk, o) /\ Truthful(mem, o)
        /\ mem'.op[o] = mem.op[o] /\ mem'.had[o] = mem.had[o]
    BY <1>1, ConstantFacts DEF PathInv, SamePath
  <2>2. Shape(o)'
    BY <2>1, SameShape
  <2> QED
    BY <2>1, <2>2 DEF SamePath, Truthful, Original, Restored, Committed
<1>2. \A o \in Replacements : orig'[o] \in {None, Old}
  BY DEF PathInv
<1> QED
  BY <1>1, <1>2 DEF PathInv

\* The paths that the four renames leave alone.
LEMMA OtherPaths ==
  ASSUME TypeOK, i \in Ops,
         ReactivateOriginal \/ UnstageTarget \/ MoveAside \/ ActivateStaged \/ UNCHANGED files
  PROVE  \A o \in Ops \ {i} : target'[o] = target[o] /\ staged'[o] = staged[o]
                                /\ rollback'[o] = rollback[o]
BY DEF ReactivateOriginal, UnstageTarget, MoveAside, ActivateStaged, files, TypeOK

\* While the marker on disk asks to apply, a path is restored, or has its
\* staged value and is as before or between the two renames.
LEMMA ForwardShape ==
  ASSUME PathInv, ControlInv, disk.state \in Forward, NEW o \in Replacements
  PROVE  \/ Original(o) /\ staged[o] = New
         \/ target[o] = None /\ staged[o] = New /\ rollback[o] = Old /\ orig[o] = Old
         \/ Restored(o) /\ rollback[o] \in {orig[o], None}
BY ValueFacts DEF PathInv, ControlInv, Shape, Forward

\* applyRestoreOperation, up to its first effect: hadTarget is noted as it is.
LEMMA ApplyPath ==
  ASSUME TypeOK, ControlInv, PathInv, ApplyOperation
  PROVE  PathInv'
<1>0. PICK p : p = i
  OBVIOUS
<1>1. /\ pc = "apply" /\ i \in Ops /\ UNCHANGED <<disk, orig>>
      /\ disk.state \in Forward /\ mem.state \in Forward /\ mem.op[i] # "rolledback"
      /\ disk.state # "none" /\ mem.state # "none" /\ mem \in Markers
      /\ disk.op[i] # "rolledback"
  BY DEF ApplyOperation, ghosts, ControlInv, Applying, Forward, TypeOK
<1> DEFINE Marked(st, h) == mem' = WithOp(mem, i, st, h)
<1>2. ASSUME NEW st, NEW h, Marked(st, h)
      PROVE  /\ mem'.state = mem.state /\ mem'.op[i] = st /\ mem'.had[i] = h
             /\ \A o \in Ops \ {i} : mem'.op[o] = mem.op[o] /\ mem'.had[o] = mem.had[o]
  BY <1>0, <1>1, <1>2, WithOpFacts, WithOpHad
<1>3. i \in Replacements => Shape(i) /\ Truthful(disk, i) /\ Truthful(mem, i)
  BY <1>1 DEF PathInv
<1> HIDE DEF Marked
<1>4. CASE UNCHANGED <<files, mem>> /\ pc' \notin {"saveMoved", "activate", "reactivate"}
  <2>1. \A o \in Replacements : SamePath(o)
    BY <1>0, <1>1, <1>4 DEF SamePath, files
  <2> QED
    BY <1>0, <1>1, <1>4, <2>1, PathStays
<1>5. CASE /\ mem.op[i] # "applied" /\ ~StagedExists(i) /\ AlreadyApplied(i) /\ UNCHANGED files
           /\ Marked("applied", RollbackExists(i)) /\ pc' = "saveApplied"
  <2>1. ASSUME i \in Replacements
        PROVE  Restored(i) /\ ~Committed(i) /\ rollback[i] \in {orig[i], None}
    <3>1. Restored(i) /\ rollback[i] \in {orig[i], None}
      BY <1>0, <1>1, <1>5, <2>1, ForwardShape, ValueFacts DEF StagedExists
    <3>2. ~Committed(i)
      BY <1>0, <1>1, <1>3, <1>5, <2>1, <3>1 DEF Truthful
    <3> QED
      BY <3>1, <3>2
  <2>2. i \in Replacements => Shape(p)' /\ Truthful(disk, p)' /\ Truthful(mem, p)'
    <3> SUFFICES ASSUME i \in Replacements
                 PROVE  Shape(p)' /\ Truthful(disk, p)' /\ Truthful(mem, p)'
      OBVIOUS
    <3>1. SamePath(p)
      BY <1>0, <1>1, <1>5 DEF SamePath, files
    <3>2. Shape(p)' /\ Truthful(disk, p)'
      BY <1>0, <1>1, <1>3, <3>1, SameShape DEF SamePath, Truthful, Original, Restored, Committed
    <3>3. mem'.had[i] = (orig[i] = Old) /\ mem'.op[i] = "applied"
      BY <1>2, <1>3, <1>5, <2>1, ValueFacts DEF RollbackExists, Restored, Committed, Shape
    <3> QED
      BY <1>0, <1>1, <2>1, <3>1, <3>2, <3>3 DEF SamePath, Truthful, Original, Restored, Committed
  <2> QED
    BY <1>0, <1>1, <1>2, <1>5, <2>2, PathMoves, OtherPaths
<1>6. CASE /\ StagedExists(i) /\ TargetExists(i) /\ ~RollbackExists(i) /\ MoveAside
           /\ Marked("target-moved", TRUE) /\ pc' = "saveMoved" /\ i' = i
  <2>1. /\ target'[i] = None /\ rollback'[i] = target[i] /\ staged' = staged
    BY <1>0, <1>1, <1>6 DEF MoveAside, TypeOK
  <2>2. i \in Replacements => Shape(p)' /\ Truthful(disk, p)' /\ Truthful(mem, p)'
    <3> SUFFICES ASSUME i \in Replacements
                 PROVE  Shape(p)' /\ Truthful(disk, p)' /\ Truthful(mem, p)'
      OBVIOUS
    <3>1. /\ target[i] = Old /\ orig[i] = Old /\ rollback[i] = None /\ staged[i] = New
      BY <1>0, <1>1, <1>3, <1>6, ForwardShape, ValueFacts
         DEF StagedExists, TargetExists, RollbackExists, Original, Restored, Shape
    <3>2. disk.op[i] # "applied" /\ mem'.op[i] = "target-moved" /\ mem'.had[i]
      BY <1>0, <1>1, <1>2, <1>3, <1>6, <3>1, ValueFacts DEF Truthful, Restored
    <3> QED
      BY <1>0, <1>1, <1>3, <2>1, <3>1, <3>2, ValueFacts
         DEF Shape, Truthful, Original, Restored, Committed
  <2>3. mem'.had[i'] = RollbackExists(i)'
    BY <1>2, <1>6, <2>1 DEF RollbackExists, TargetExists
  <2> QED
    BY <1>0, <1>1, <1>2, <1>6, <2>2, <2>3, PathMoves, OtherPaths
<1>7. CASE /\ StagedExists(i) /\ ~TargetExists(i) /\ UNCHANGED files /\ mem.op[i] # "applied"
           /\ \E st \in {"target-moved", mem.op[i]} : Marked(st, RollbackExists(i))
           /\ pc' = "activate" /\ i' = i
  <2>1. mem'.op[i] \in {"target-moved", mem.op[i]} /\ mem'.had[i] = RollbackExists(i)
        /\ mem'.state = mem.state
        /\ \A o \in Ops \ {i} : mem'.op[o] = mem.op[o] /\ mem'.had[o] = mem.had[o]
    BY <1>2, <1>7
  <2>2. i \in Replacements => Shape(p)' /\ Truthful(disk, p)' /\ Truthful(mem, p)'
    <3> SUFFICES ASSUME i \in Replacements
                 PROVE  Shape(p)' /\ Truthful(disk, p)' /\ Truthful(mem, p)'
      OBVIOUS
    <3>1. SamePath(p)
      BY <1>0, <1>1, <1>7 DEF SamePath, files
    <3>2. Shape(p)' /\ Truthful(disk, p)'
      BY <1>0, <1>1, <1>3, <3>1, SameShape DEF SamePath, Truthful, Original, Restored, Committed
    <3>3. target[i] = None /\ (RollbackExists(i) => orig[i] = Old)
      BY <1>7, <1>3, ValueFacts DEF TargetExists, RollbackExists, Shape, Original, Restored
    <3> QED
      BY <1>0, <1>1, <1>7, <2>1, <3>1, <3>2, <3>3, ValueFacts
         DEF SamePath, Truthful, Original, Restored, Committed
  <2>3. mem'.had[i'] = RollbackExists(i)'
    BY <1>7, <2>1 DEF RollbackExists, files
  <2> QED
    BY <1>0, <1>1, <1>7, <2>1, <2>2, <2>3, PathMoves, OtherPaths
<1> QED
  BY <1>0, <1>1, <1>4, <1>5, <1>6, <1>7 DEF ApplyOperation, ApplyFails, Goto, Marked

\* The staged value takes its place.
LEMMA ActivatePath ==
  ASSUME TypeOK, IndexInv, ControlInv, LoopInv, PathInv, Activate
  PROVE  PathInv'
<1>0. PICK p : p = i
  OBVIOUS
<1>1. /\ pc = "activate" /\ i \in Ops /\ UNCHANGED <<disk, orig>>
      /\ disk.state \in Forward /\ mem.state \in Forward /\ disk.op[i] # "rolledback"
      /\ disk.state # "none" /\ mem.state # "none" /\ mem \in Markers
      /\ target[i] = None /\ mem.had[i] = RollbackExists(i)
  BY DEF Activate, ghosts, IndexInv, ControlInv, LoopInv, HalfwayInv, PathInv, Applying,
     Forward, TypeOK
<1>2. CASE UNCHANGED <<files, mem>> /\ pc' = "applyError"
  <2>1. \A o \in Replacements : SamePath(o)
    BY <1>0, <1>1, <1>2 DEF SamePath, files
  <2> QED
    BY <1>0, <1>1, <1>2, <2>1, PathStays
<1>3. CASE ActivateStaged /\ mem' = WithOp(mem, i, "applied", mem.had[i]) /\ pc' = "saveApplied"
  <2>1. /\ mem'.state = mem.state /\ mem'.op[i] = "applied" /\ mem'.had[i] = mem.had[i]
        /\ \A o \in Ops \ {i} : mem'.op[o] = mem.op[o] /\ mem'.had[o] = mem.had[o]
    BY <1>0, <1>1, <1>3, WithOpFacts, WithOpHad
  <2>2. i \in Replacements => Shape(p)' /\ Truthful(disk, p)' /\ Truthful(mem, p)'
    <3> SUFFICES ASSUME i \in Replacements
                 PROVE  Shape(p)' /\ Truthful(disk, p)' /\ Truthful(mem, p)'
      OBVIOUS
    <3>1. Shape(i) /\ Truthful(disk, i) /\ Truthful(mem, i)
      BY <1>1 DEF PathInv
    <3>2. staged[i] = New /\ rollback[i] = orig[i] /\ orig[i] \in {None, Old}
      BY <1>0, <1>1, <3>1, ForwardShape, ValueFacts DEF Shape, Original, Restored
    <3>3. target'[i] = New /\ staged'[i] = None /\ rollback' = rollback
      BY <1>0, <1>1, <1>3, <3>2 DEF ActivateStaged, TypeOK, Replacements
    <3>4. disk.op[i] # "applied"
      BY <1>0, <1>1, <3>1, ValueFacts DEF Truthful, Restored
    <3>5. Shape(p)'
      BY <1>0, <1>1, <3>2, <3>3 DEF Shape, Restored
    <3>6. Truthful(disk, p)'
      BY <1>0, <1>1, <3>1, <3>2, <3>3, <3>4, ValueFacts DEF Truthful, Restored, Committed
    <3>7. Truthful(mem, p)'
      BY <1>0, <1>1, <2>1, <3>2, <3>3, ValueFacts DEF Truthful, Restored, Committed, RollbackExists
    <3> QED
      BY <3>5, <3>6, <3>7
  <2> QED
    BY <1>0, <1>1, <1>3, <2>1, <2>2, PathMoves, OtherPaths
<1> QED
  BY <1>2, <1>3 DEF Activate, ApplyFails, Goto

\* Rolled says of one operation that it is rolled back.
LEMMA RolledHad ==
  ASSUME TypeOK, i \in Ops, NEW h, Rolled(h)
  PROVE  /\ mem'.had[i] = h /\ pc' = "saveRolled"
         /\ \A o \in Ops \ {i} : mem'.had[o] = mem.had[o]
BY WithOpHad DEF Rolled, TypeOK, Goto

\* One operation of the rollback notes nothing about the originals of others.
LEMMA RollbackHad ==
  ASSUME TypeOK, RollbackOperation
  PROVE  \A o \in Ops \ {i} : mem'.had[o] = mem.had[o]
<1>1. i \in Ops
  BY DEF RollbackOperation
<1>2. mem' = mem \/ \E h : Rolled(h)
  BY DEF RollbackOperation, RollbackRemoval, RollbackReplacement, RollbackError
<1> QED
  BY <1>1, <1>2, RolledHad

\* A path that one operation of the rollback has brought back has its original
\* again: so in each case in which rollbackRestoreOperation reports success.
LEMMA RolledShape ==
  ASSUME TypeOK, PathInv, disk.state \in RollbackStates, mem.state # "none",
         NEW p \in Replacements, p = i, RollbackOperation, pc' = "saveRolled",
         disk.op[p] # "rolledback"
  PROVE  target'[p] = orig[p] /\ rollback'[p] = None /\ staged'[p] = New
         /\ (mem'.had[p] => orig[p] = Old)
<1>1. /\ p \in Ops /\ Kind[p] = "replace" /\ Truthful(mem, p)
      /\ target \in [Ops -> Contents] /\ staged \in [Ops -> Contents]
      /\ rollback \in [Ops -> Contents]
  BY ValueFacts DEF RollbackOperation, PathInv, Replacements, TypeOK
<1>2. /\ orig[p] \in {None, Old}
      /\ \/ target[p] = orig[p] /\ rollback[p] = None /\ staged[p] = New
         \/ target[p] = None /\ staged[p] = New /\ rollback[p] = Old /\ orig[p] = Old
         \/ target[p] = New /\ staged[p] = None /\ rollback[p] \in {orig[p], None}
  BY ValueFacts DEF PathInv, Shape, Original, Restored, RollbackStates
<1>3. CASE NeverTouched(p) /\ Rolled(mem.had[p]) /\ UNCHANGED files
  <2>1. mem'.had[p] = mem.had[p]
    BY <1>1, <1>3, RolledHad
  <2>2. target[p] = orig[p] /\ rollback[p] = None /\ staged[p] = New
    BY <1>2, <1>3, ValueFacts DEF NeverTouched, TargetExists, StagedExists, RollbackExists
  <2> QED
    BY <1>1, <1>3, <2>1, <2>2 DEF files, Truthful
<1>4. CASE RollbackExists(p) /\ ~TargetExists(p) /\ ReactivateOriginal /\ Rolled(TRUE)
  <2>1. target[p] = None /\ rollback[p] = Old /\ orig[p] = Old /\ staged[p] = New
    BY <1>2, <1>4, ValueFacts DEF TargetExists, RollbackExists
  <2> QED
    BY <1>1, <1>4, <2>1 DEF ReactivateOriginal
<1>5. CASE ~RollbackExists(p) /\ mem.had[p] /\ AlreadyReactivated(p) /\ UNCHANGED files
  <2>1. target[p] = orig[p] /\ rollback[p] = None /\ staged[p] = New
    BY <1>2, <1>5, ValueFacts DEF AlreadyReactivated, TargetExists, StagedExists, RollbackExists
  <2>2. orig[p] = Old
    BY <1>1, <1>5 DEF Truthful
  <2> QED
    BY <1>5, <2>1, <2>2 DEF files
<1>6. CASE /\ ~RollbackExists(p) /\ ~mem.had[p] /\ TargetExists(p) /\ ~StagedExists(p)
           /\ UnstageTarget /\ Rolled(FALSE)
  <2>1. target[p] = New /\ rollback[p] = None
    BY <1>2, <1>6, ValueFacts DEF TargetExists, StagedExists, RollbackExists
  <2>2. orig[p] = None
    BY <1>1, <1>2, <1>6, <2>1 DEF Truthful, Committed
  <2>3. ~mem'.had[p]
    BY <1>1, <1>6, RolledHad
  <2> QED
    BY <1>1, <1>6, <2>1, <2>2, <2>3 DEF UnstageTarget
<1>7. CASE /\ ~RollbackExists(p) /\ StagedExists(p) /\ ~TargetExists(p)
           /\ Rolled(FALSE) /\ UNCHANGED files
  <2>1. target[p] = orig[p] /\ rollback[p] = None /\ staged[p] = New
    BY <1>2, <1>7, ValueFacts DEF TargetExists, StagedExists, RollbackExists
  <2>2. ~mem'.had[p]
    BY <1>1, <1>7, RolledHad
  <2> QED
    BY <1>7, <2>1, <2>2 DEF files
<1> QED
  BY <1>1, <1>3, <1>4, <1>5, <1>6, <1>7
     DEF RollbackOperation, RollbackRemoval, RollbackReplacement, RollbackError, Goto

\* rollbackRestoreOperation, up to its first effect.
LEMMA RollbackPath ==
  ASSUME TypeOK, ControlInv, PathInv, RollbackOperation
  PROVE  PathInv'
<1>0. PICK p : p = i
  OBVIOUS
<1>1. /\ pc = "rollback" /\ i \in Ops /\ UNCHANGED <<disk, orig>>
      /\ disk.state \in RollbackStates /\ mem.state = "rolling-back"
      /\ disk.state # "none" /\ mem.state # "none" /\ mem.state \notin Forward
      /\ disk.state \notin Forward /\ mem'.state = mem.state
      /\ disk.op[i] = "rolledback" => mem.op[i] = "rolledback"
  BY RollbackEffect DEF RollbackOperation, ghosts, ControlInv, RollingBack, RollbackStates, Forward
<1>2. \A o \in Ops \ {i} : /\ mem'.op[o] = mem.op[o] /\ mem'.had[o] = mem.had[o]
                           /\ target'[o] = target[o] /\ staged'[o] = staged[o]
                           /\ rollback'[o] = rollback[o]
  BY <1>1, RollbackEffect, RollbackHad, OtherPaths
<1>3. CASE pc' = "rollback" /\ UNCHANGED <<files, mem>>
  <2>1. \A o \in Replacements : SamePath(o)
    BY <1>1, <1>3 DEF SamePath, files
  <2> QED
    BY <1>1, <1>3, <2>1, PathStays
<1>4. CASE pc' = "saveRolled" /\ mem.op[i] # "rolledback" /\ mem'.op[i] = "rolledback"
  <2>1. ASSUME p \in Replacements
        PROVE  Shape(p)' /\ Truthful(disk, p)' /\ Truthful(mem, p)'
    <3>1. /\ target'[p] = orig[p] /\ rollback'[p] = None /\ staged'[p] = New
          /\ mem'.had[p] => orig[p] = Old
      BY <1>0, <1>1, <1>4, <2>1, RolledShape
    <3>2. orig[p] \in {None, Old} /\ Truthful(disk, p)
      BY <1>1, <2>1 DEF PathInv
    <3>3. Shape(p)'
      BY <1>1, <3>1, <3>2 DEF Shape, Original
    <3>4. Truthful(disk, p)'
      BY <1>1, <3>1, <3>2, ValueFacts DEF Truthful, Original, Committed
    <3>5. Truthful(mem, p)'
      BY <1>0, <1>1, <1>4, <3>1, <3>2, ValueFacts DEF Truthful, Original, Committed
    <3> QED
      BY <3>3, <3>4, <3>5
  <2> QED
    BY <1>0, <1>1, <1>2, <1>4, <2>1, PathMoves
<1>5. CASE /\ pc' = "reactivate" /\ i' = i /\ UNCHANGED <<mem, failed>> /\ mem.op[i] # "rolledback"
           /\ UnstageTarget /\ RollbackExists(i) /\ TargetExists(i) /\ ~StagedExists(i)
  <2>1. ASSUME p \in Replacements
        PROVE  Shape(p)' /\ Truthful(disk, p)' /\ Truthful(mem, p)'
    <3>1. Shape(p) /\ Truthful(disk, p) /\ Truthful(mem, p)
      BY <1>1, <2>1 DEF PathInv
    <3>2. target[p] = New /\ rollback[p] = Old /\ orig[p] = Old
      BY <1>0, <1>5, <3>1, ValueFacts
         DEF Shape, Original, Restored, TargetExists, RollbackExists, StagedExists
    <3>3. target'[p] = None /\ staged'[p] = New /\ rollback'[p] = Old
      BY <1>0, <1>1, <1>5, <3>2 DEF UnstageTarget, TypeOK
    <3>4. Shape(p)'
      BY <1>1, <3>2, <3>3 DEF Shape
    <3>5. Truthful(disk, p)' /\ Truthful(mem, p)'
      BY <1>0, <1>1, <1>5, <3>1, <3>2, <3>3, ValueFacts DEF Truthful, Committed
    <3> QED
      BY <3>4, <3>5
  <2>2. RollbackExists(i)'
    BY <1>5 DEF UnstageTarget, RollbackExists
  <2> QED
    BY <1>0, <1>1, <1>2, <1>5, <2>1, <2>2, PathMoves
<1> QED
  BY <1>3, <1>4, <1>5, RollbackEffect

\* The second rename of the rollback: whatever is beside the path comes back.
LEMMA ReactivatePath ==
  ASSUME TypeOK, IndexInv, ControlInv, LoopInv, PathInv, Reactivate
  PROVE  PathInv'
<1>0. PICK p : p = i
  OBVIOUS
<1>1. /\ pc = "reactivate" /\ i \in Ops /\ UNCHANGED <<disk, orig>>
      /\ disk.state # "none" /\ mem.state # "none" /\ mem.state \notin Forward
      /\ disk.state \notin Forward /\ target[i] = None /\ disk.op[i] # "rolledback"
      /\ mem.op[i] # "rolledback" /\ RollbackExists(i)
  BY DEF Reactivate, PathInv, ghosts, IndexInv, ControlInv, LoopInv, HalfwayInv, RollbackLoopInv,
     RollingBack, RollbackStates, Forward
<1>2. CASE UNCHANGED <<files, mem>> /\ pc' = "rollback"
  <2>1. \A o \in Replacements : SamePath(o)
    BY <1>1, <1>2 DEF SamePath, files
  <2> QED
    BY <1>1, <1>2, <2>1, PathStays
<1>3. CASE ReactivateOriginal /\ Rolled(TRUE)
  <2>1. /\ mem'.state = mem.state /\ mem'.op[i] = "rolledback" /\ mem'.had[i] = TRUE
        /\ pc' = "saveRolled"
        /\ \A o \in Ops \ {i} : mem'.op[o] = mem.op[o] /\ mem'.had[o] = mem.had[o]
    BY <1>1, <1>3, RolledEffect, RolledHad
  <2>2. ASSUME p \in Replacements
        PROVE  Shape(p)' /\ Truthful(disk, p)' /\ Truthful(mem, p)'
    <3>1. Shape(p) /\ Truthful(disk, p)
      BY <1>1, <2>2 DEF PathInv
    <3>2. rollback[p] = Old /\ orig[p] = Old /\ staged[p] = New
      BY <1>0, <1>1, <3>1, ValueFacts DEF Shape, Original, Restored, RollbackExists
    <3>3. target'[p] = Old /\ rollback'[p] = None /\ staged'[p] = New
      BY <1>0, <1>1, <1>3, <3>2 DEF ReactivateOriginal, TypeOK
    <3>4. Shape(p)'
      BY <1>1, <3>2, <3>3 DEF Shape, Original
    <3>5. Truthful(disk, p)' /\ Truthful(mem, p)'
      BY <1>0, <1>1, <2>1, <3>1, <3>2, <3>3, ValueFacts DEF Truthful, Original, Committed
    <3> QED
      BY <3>4, <3>5
  <2> QED
    BY <1>0, <1>1, <1>3, <2>1, <2>2, PathMoves, OtherPaths
<1> QED
  BY <1>2, <1>3 DEF Reactivate, RollbackError, Goto

\* PrepareRestore puts its marker in place: everything is staged, and nothing
\* has been touched.
LEMMA PreparePath ==
  ASSUME TypeOK, ServingInv, PathInv, AgreementInv, pc = "stage", i = N + 1,
         disk' = Fresh("pending"), pc' = "serve",
         UNCHANGED <<target, staged, rollback, orig, mem>>
  PROVE  PathInv'
<1>1. /\ N \in Nat /\ served = "old" /\ rollback = Empty /\ mem.state = "none" /\ served = Generation
      /\ \A o \in Ops : o < i => staged[o] = IF o \in Removals THEN Tombstone ELSE New
  BY ConstantFacts DEF ServingInv, AgreementInv, Serving
<1>2. ASSUME NEW o \in Replacements
      PROVE  target[o] = orig[o] /\ rollback[o] = None /\ staged[o] = New /\ orig[o] \in {None, Old}
  <2>1. target[o] = orig[o]
    BY <1>1 DEF Generation
  <2>2. o \in Ops /\ o \notin Removals /\ o < i
    BY <1>1, ConstantFacts DEF Ops
  <2> QED
    BY <1>1, <2>1, <2>2 DEF Empty, PathInv
<1>3. ASSUME NEW o \in Replacements
      PROVE  disk'.op[o] = "pending" /\ ~disk'.had[o]
  BY ValueFacts DEF Fresh
<1>4. ASSUME NEW o \in Replacements
      PROVE  Shape(o)' /\ Truthful(disk, o)'
  BY <1>2, <1>3, ValueFacts DEF Shape, Truthful, Original, Committed
<1> QED
  BY <1>1, <1>2, <1>4 DEF PathInv

\* cleanupRolledBackRestore deletes staged values of paths that all have their
\* original again.
LEMMA CleanupPath ==
  ASSUME TypeOK, ControlInv, LoopInv, PathInv, Cleanup
  PROVE  PathInv'
<1>0. PICK p : p = i
  OBVIOUS
<1>1. /\ pc = "cleanup" /\ i \in Ops /\ UNCHANGED <<target, rollback, disk, orig>>
      /\ disk.state # "none" /\ disk.state \notin Forward
      /\ \A o \in Ops : disk.op[o] = "rolledback"
      /\ pc' \in {"cleanup", "down"}
  BY DEF Cleanup, ghosts, ControlInv, LoopInv, RollbackLoopInv, RollbackStates, Forward, Goto, Exit
<1>2. CASE UNCHANGED staged
  <2>1. \A o \in Replacements : SamePath(o)
    BY <1>1, <1>2 DEF SamePath
  <2>2. mem' = mem \/ mem'.state = "none"
    BY ValueFacts DEF Cleanup, Exit
  <2> QED
    BY <1>1, <2>1, <2>2, PathStays
<1>3. CASE staged' = [staged EXCEPT ![i] = None] /\ mem' = mem /\ pc' = "cleanup"
  <2>1. ASSUME NEW o \in Replacements
        PROVE  Shape(o)' /\ Truthful(disk, o)' /\ orig'[o] \in {None, Old}
    <3>1. Shape(o) /\ Truthful(disk, o) /\ disk.op[o] = "rolledback" /\ o \in Ops
      BY <1>1, ConstantFacts DEF PathInv
    <3>2. staged'[o] \in {None, staged[o]} /\ target[o] = orig[o] /\ rollback[o] = None
      BY <1>0, <1>3, <3>1 DEF TypeOK, Truthful, Original
    <3>3. staged'[o] \in {None, New}
      BY <3>1, <3>2 DEF Shape, Restored
    <3> QED
      BY <1>1, <3>1, <3>2, <3>3, ValueFacts DEF Shape, Truthful, Original, Committed
  <2>2. ASSUME mem.state # "none", NEW o \in Replacements
        PROVE  Truthful(mem, o)'
    <3>1. Truthful(mem, o) /\ staged'[o] \in {None, staged[o]}
      BY <1>3, <2>2, ConstantFacts DEF PathInv, TypeOK
    <3> QED
      BY <1>1, <1>3, <3>1 DEF Truthful, Original, Restored, Committed
  <2> QED
    BY <1>1, <1>3, <2>1, <2>2 DEF PathInv
<1> QED
  BY <1>2, <1>3 DEF Cleanup, Goto

\* CommitAppliedRestore deletes the originals of paths that are all restored.
LEMMA CommitPath ==
  ASSUME TypeOK, ControlInv, PathInv, AgreementInv, CommitOperation
  PROVE  PathInv'
<1>0. PICK p : p = i
  OBVIOUS
<1>1. /\ pc = "commit" /\ i \in Ops /\ UNCHANGED <<target, disk, mem, orig>>
      /\ mem.state = "applied" /\ disk = mem /\ pc' \in {"commit", "ready"}
      /\ mem.state # "none" /\ mem.state \in Forward
      /\ \A o \in Ops : mem.op[o] = "applied"
  BY DEF CommitOperation, ghosts, AgreementInv, Goto, Forward
<1>2. CASE UNCHANGED <<rollback, staged>>
  <2>1. \A o \in Replacements : SamePath(o)
    BY <1>1, <1>2 DEF SamePath
  <2> QED
    BY <1>1, <2>1, PathStays
<1>3. CASE rollback' = [rollback EXCEPT ![i] = None] /\ staged' = [staged EXCEPT ![i] = None]
  <2>1. \A o \in Ops \ {p} : rollback'[o] = rollback[o] /\ staged'[o] = staged[o]
    BY <1>0, <1>3 DEF TypeOK
  <2>2. ASSUME p \in Replacements
        PROVE  Shape(p)' /\ Truthful(disk, p)' /\ Truthful(mem, p)'
    <3>1. Shape(p) /\ Truthful(disk, p) /\ Truthful(mem, p) /\ mem.op[p] = "applied"
      BY <1>0, <1>1, <2>2 DEF PathInv
    <3>2. rollback'[p] = None /\ staged'[p] = None
      BY <1>0, <1>1, <1>3 DEF TypeOK
    <3> QED
      BY <1>1, <3>1, <3>2, ValueFacts DEF Shape, Truthful, Restored, Committed
  <2> QED
    BY <1>0, <1>1, <2>1, <2>2, PathMoves
<1> QED
  BY <1>2, <1>3 DEF CommitOperation

\* Opening the catalog creates no database: there is one.
LEMMA OpenedPaths ==
  ASSUME TypeOK, ServingInv, AgreementInv, OpenCatalog
  PROVE  \A o \in Replacements : SamePath(o)
<1>1. /\ pc = "open" /\ UNCHANGED <<staged, rollback, orig>>
      /\ target' = OpenedFiles \/ \E left : target' = FilesLeft(left)
  BY DEF OpenCatalog
<1>2. TargetExists(N) /\ Opened = target[N]
  BY <1>1, ValueFacts DEF AgreementInv, Settled, ServingInv, Opened, TargetExists
<1>3. \A o \in Replacements : o \in Ops /\ o \notin Removals
  BY ConstantFacts
<1> QED
  BY <1>1, <1>2, <1>3 DEF OpenedFiles, FilesLeft, SamePath

\* A write of the marker by the starting process.
LEMMA PersistPath ==
  ASSUME IInv, PathInv,
         \/ SaveMoved \/ SaveApplied \/ SaveApplyError \/ FinishApply \/ SaveIntent
         \/ SaveRolled \/ EndRollback
  PROVE  PathInv'
<1> USE DEF IInv
<1>i. /\ TypeOK /\ ControlInv
      /\ \A s : /\ InState(mem, s).op = mem.op /\ InState(mem, s).had = mem.had
                /\ InState(mem, s).state = s
  BY DEF InState
<1>s. UNCHANGED <<target, staged, rollback, orig>>
  BY DEF SaveMoved, SaveApplied, SaveApplyError, FinishApply, SaveIntent, SaveRolled,
     EndRollback, files, ghosts
<1>c. /\ disk.state # "none" /\ mem.state # "none"
      /\ \A o \in Ops : disk.op[o] = "rolledback" => mem.op[o] = "rolledback"
      /\ pc = "apply" => mem.state \in Forward
  <2>1. pc \in Applying \cup RollingBack \cup {"intent"}
    BY DEF SaveMoved, SaveApplied, SaveApplyError, FinishApply, SaveIntent, SaveRolled,
       EndRollback, Applying, RollingBack
  <2> QED
    BY <2>1, <1>i DEF ControlInv, Applying, RollingBack, RollbackStates, Forward
<1>1. CASE SaveMoved \/ SaveApplied \/ SaveApplyError \/ SaveRolled
  <2>1. /\ mem' = mem /\ disk' \in {disk, mem} /\ pc' # "reactivate"
        /\ pc' \in {"saveMoved", "activate"} => pc = "saveMoved" /\ i' = i
    BY <1>1 DEF SaveMoved, SaveApplied, SaveApplyError, SaveRolled, Persist, PersistFails, Goto
  <2> QED
    BY <1>i, <1>s, <1>c, <2>1, PathPersists
<1>2. CASE FinishApply
  <2> DEFINE m == InState(mem, "applied")
  <2>1. mem' = m /\ disk' \in {disk, m} /\ pc' \in {"config", "intent"} /\ pc = "apply"
    BY <1>2 DEF FinishApply, Persist, PersistFails, Goto
  <2>2. m.op = mem.op /\ m.had = mem.had /\ m.state = "applied"
    BY <1>i
  <2> HIDE DEF m
  <2> QED
    BY <1>i, <1>s, <1>c, <2>1, <2>2, PathPersists
<1>3. CASE SaveIntent
  <2> DEFINE m == InState(mem, "rolling-back")
  <2>1. mem' = m \/ mem'.state = "none"
    BY <1>3, ValueFacts DEF SaveIntent, Exit
  <2>2. disk' \in {disk, m} /\ pc' \in {"rollback", "down"}
    BY <1>3 DEF SaveIntent, Persist, PersistFails, Goto, Exit
  <2>3. m.op = mem.op /\ m.had = mem.had /\ m.state \notin Forward
    BY <1>i DEF Forward
  <2> HIDE DEF m
  <2> QED
    BY <1>i, <1>s, <1>c, <2>1, <2>2, <2>3, PathPersists
<1>4. CASE EndRollback
  <2> DEFINE m == InState(mem, IF failed THEN "rollback-failed" ELSE "rolledback")
  <2>1. mem' = m \/ mem'.state = "none"
    BY <1>4, ValueFacts DEF EndRollback, Exit
  <2>2. disk' \in {disk, m} /\ pc' \in {"cleanup", "down"}
    BY <1>4 DEF EndRollback, Persist, PersistFails, Goto, Exit
  <2>3. m.op = mem.op /\ m.had = mem.had /\ m.state \notin Forward
    BY <1>i DEF Forward
  <2> HIDE DEF m
  <2> QED
    BY <1>i, <1>s, <1>c, <2>1, <2>2, <2>3, PathPersists
<1> QED
  BY <1>1, <1>2, <1>3, <1>4

\* The other steps leave every replaced path alone.
LEMMA QuietPath ==
  ASSUME IInv, MixInv,
         \/ Stop \/ Start \/ ForgetRollback \/ ReloadConfig \/ OpenCatalog \/ ForgetCommit
         \/ Listen \/ Crash \/ UNCHANGED vars
  PROVE  PathInv' /\ \A o \in Replacements : SamePath(o)
<1>1. \A o \in Replacements : SamePath(o)
  <2>1. CASE Stop
    <3>1. \A o \in Replacements : o \in Ops /\ o \notin Removals
      BY ConstantFacts
    <3> QED
      BY <2>1, <3>1 DEF Stop, SamePath, IInv, TypeOK
  <2>2. CASE OpenCatalog
    BY <2>2, OpenedPaths DEF IInv, MixInv
  <2>3. CASE \/ Start \/ ForgetRollback \/ ReloadConfig \/ ForgetCommit
             \/ Listen \/ Crash \/ UNCHANGED vars
    BY <2>3 DEF Start, ForgetRollback, ReloadConfig, ForgetCommit, Listen, Crash, vars,
       files, ghosts, SamePath
  <2> QED
    BY <2>1, <2>2, <2>3
<1>2. CASE UNCHANGED vars
  BY <1>1, <1>2, PathStays DEF vars, files, proc, MixInv
<1>3. CASE \/ Stop \/ Start \/ ForgetRollback \/ ReloadConfig \/ OpenCatalog \/ ForgetCommit
           \/ Listen \/ Crash
  <2>1. pc' \notin {"saveMoved", "activate", "reactivate"}
    BY <1>3 DEF Stop, Start, ForgetRollback, ReloadConfig, OpenCatalog, ForgetCommit,
       Listen, Crash, Goto, Exit, StartupFails
  <2>2. disk' = disk \/ disk'.state = "none"
    BY <1>3, ValueFacts DEF Stop, Start, ForgetRollback, ReloadConfig, OpenCatalog, ForgetCommit,
       Listen, Crash, Exit
  <2>3. mem' = mem \/ mem' = disk \/ mem'.state = "none"
    BY <1>3, ValueFacts DEF Stop, Start, ForgetRollback, ReloadConfig, OpenCatalog, ForgetCommit,
       Listen, Crash, Exit, StartupFails
  <2> QED
    BY <1>1, <2>1, <2>2, <2>3, PathStays DEF MixInv
<1> QED
  BY <1>1, <1>2, <1>3

\* PrepareRestore; PrepareSyncFails is the case that is left out.
LEMMA PreparesPath ==
  ASSUME ~PrepareSyncFails, IInv, MixInv, Prepare
  PROVE  /\ PathInv' /\ Serving /\ Serving' /\ UNCHANGED <<target, orig, served, mem>>
         /\ disk' = disk \/ (disk.state = "none" /\ disk' = Fresh("pending"))
<1> USE DEF IInv, MixInv
<1>1. /\ Serving /\ Serving' /\ UNCHANGED <<target, orig, served, mem>>
      /\ pc' \in {"serve", "stage"} /\ mem.state = "none"
  BY DEF Prepare, BeginPrepare, StageOperation, SavePending, Serving, Goto, ghosts, AgreementInv
<1>2. CASE UNCHANGED disk
  <2>1. disk.state = "none"
    BY <1>2, ConstantFacts DEF Prepare, BeginPrepare, StageOperation, SavePending, ServingInv
  <2> QED
    BY <1>1, <1>2, <2>1 DEF PathInv
<1>3. CASE SavePending /\ disk' = Fresh("pending") /\ staged' = staged
  <2>1. pc = "stage" /\ i = N + 1 /\ pc' = "serve" /\ rollback' = rollback /\ disk.state = "none"
    BY <1>3 DEF SavePending, Goto, ServingInv
  <2> QED
    BY <1>1, <1>3, <2>1, PreparePath
<1> QED
  BY <1>1, <1>2, <1>3 DEF Prepare, BeginPrepare, StageOperation, SavePending, Persist

\* What is known of the paths and the markers is known again after any step.
LEMMA PathStep ==
  ASSUME ~PrepareSyncFails, IInv, MixInv, [Next]_vars
  PROVE  PathInv'
<1> USE DEF IInv, MixInv
<1>1. CASE Prepare
  BY <1>1, PreparesPath
<1>2. CASE \/ Stop \/ Start \/ ForgetRollback \/ ReloadConfig \/ OpenCatalog \/ ForgetCommit
           \/ Listen \/ Crash \/ UNCHANGED vars
  BY <1>2, QuietPath
<1>3. CASE \/ SaveMoved \/ SaveApplied \/ SaveApplyError \/ FinishApply \/ SaveIntent
           \/ SaveRolled \/ EndRollback
  BY <1>3, PersistPath
<1>4. CASE ApplyOperation \/ Activate
  BY <1>4, ApplyPath, ActivatePath
<1>5. CASE RollbackOperation \/ Reactivate \/ Cleanup
  BY <1>5, RollbackPath, ReactivatePath, CleanupPath
<1>6. CASE CommitOperation
  BY <1>6, CommitPath
<1> QED
  BY <1>1, <1>2, <1>3, <1>4, <1>5, <1>6 DEF Next, Apply, Rollback, Startup

-----------------------------------------------------------------------------
(* All paths together.                                                     *)

\* The generation they hold follows from the paths.
LEMMA SameGeneration ==
  ASSUME \A o \in Replacements : target'[o] = target[o] /\ orig'[o] = orig[o]
  PROVE  Generation' = Generation /\ (Settled => Settled')
BY DEF Generation, Settled

\* Where all operations are applied, all paths are restored.
LEMMA AllRestored ==
  ASSUME PathInv, mem.state = "applied", \A o \in Ops : mem.op[o] = "applied"
  PROVE  \A o \in Replacements : target[o] = New
BY ValueFacts DEF PathInv, Truthful, Restored, Forward

\* Where all operations are rolled back, all paths have their originals.
LEMMA AllOriginal ==
  ASSUME PathInv, disk.state # "none", \A o \in Ops : disk.op[o] = "rolledback"
  PROVE  \A o \in Replacements : target[o] = orig[o]
BY ValueFacts DEF PathInv, Truthful, Original

\* The paths agree wherever the code relies on it, after any step.
LEMMA AgreementStep ==
  ASSUME ~PrepareSyncFails, IInv, MixInv, [Next]_vars
  PROVE  AgreementInv'
<1> USE DEF IInv, MixInv
<1> DEFINE Agreeing == {"config", "open", "ready", "serve", "stage"}
<1>1. CASE Prepare
  <2>1. Settled' /\ Generation' = Generation
    BY <1>1, PreparesPath, SameGeneration DEF AgreementInv, Serving
  <2> QED
    BY <1>1, <2>1, PreparesPath DEF AgreementInv, Serving
<1>2. CASE /\ pc' \notin Agreeing \cup {"commit"} /\ disk'.state # "none"
  BY <1>2 DEF AgreementInv, Serving
<1>3. CASE Stop \/ Crash \/ Start
  <2>1. (\A o \in Replacements : SamePath(o)) /\ disk' = disk
    BY <1>3, QuietPath DEF Stop, Crash, Start
  <2>2. disk.state = "none" => Settled'
    BY <2>1, SameGeneration DEF AgreementInv, SamePath
  <2>3. \/ pc' \notin Agreeing \cup {"commit"}
        \/ pc' = "open" /\ disk.state = "none" /\ mem' = disk
    BY <1>3 DEF Stop, Crash, Start, Exit, Goto
  <2> QED
    BY <2>1, <2>2, <2>3 DEF AgreementInv, Serving
<1>4. CASE FinishApply
  <2>1. /\ pc = "apply" /\ i = N + 1 /\ disk.state \in Forward /\ mem.state \in Forward
        /\ mem' = InState(mem, "applied") /\ UNCHANGED <<target, staged, rollback, orig>>
        /\ \/ pc' = "config" /\ disk' = mem'
           \/ pc' = "intent" /\ disk' \in {disk, mem'}
    BY <1>4 DEF FinishApply, ControlInv, Applying, Persist, PersistFails, Goto, files, ghosts
  <2>2. mem'.state = "applied" /\ mem'.op = mem.op
    BY <2>1 DEF InState
  <2>3. ASSUME NEW o \in Replacements PROVE target[o] = New
    <3>1. o \in Ops /\ o < i
      BY <2>1, ConstantFacts DEF Ops
    <3> QED
      BY <2>1, <3>1, ValueFacts DEF LoopInv, ApplyLoopInv, Applying, PathInv, Truthful, Restored
  <2>4. Settled' /\ disk'.state # "none"
    BY <2>1, <2>2, <2>3, ValueFacts DEF Settled, Forward
  <2> QED
    BY <2>1, <2>4 DEF AgreementInv, Serving
<1>5. CASE ForgetRollback
  <2>1. \A o \in Replacements : target[o] = orig[o] /\ SamePath(o)
    BY <1>5, QuietPath, AllOriginal, ValueFacts
       DEF ForgetRollback, ControlInv, LoopInv, RollbackLoopInv, RollbackStates
  <2>2. Settled'
    BY <2>1 DEF Settled, SamePath
  <2>3. pc' = "down" \/ (pc' = "config" /\ mem'.state = "none")
    BY <1>5, ValueFacts DEF ForgetRollback, Exit, Goto
  <2> QED
    BY <2>2, <2>3 DEF AgreementInv, Serving
<1>6. CASE ReloadConfig \/ OpenCatalog
  <2>1. (\A o \in Replacements : SamePath(o)) /\ disk' = disk /\ pc \in {"config", "open"}
    BY <1>6, QuietPath DEF ReloadConfig, OpenCatalog
  <2>2. Settled'
    BY <2>1, SameGeneration DEF AgreementInv, SamePath
  <2>3. \/ pc' \in {"open", "ready"} /\ mem' = mem
        \/ pc' = "commit" /\ mem' = mem /\ mem.state # "none" /\ pc = "open"
        \/ pc' \in {"intent", "down"}
    BY <1>6 DEF ReloadConfig, OpenCatalog, StartupFails, Exit, Goto
  <2>4. pc' = "commit" => mem.state = "applied" /\ \A o \in Ops : mem.op[o] = "applied"
    BY <2>3 DEF ControlInv, LoopInv, ApplyLoopInv
  <2> QED
    BY <2>1, <2>2, <2>3, <2>4 DEF AgreementInv, Serving
<1>7. CASE CommitOperation \/ ForgetCommit
  <2>1. /\ pc = "commit" /\ UNCHANGED <<target, mem, orig>>
        /\ pc' = "ready" \/ (pc' = "commit" /\ disk' = disk)
    BY <1>7 DEF CommitOperation, ForgetCommit, Goto, files, ghosts
  <2>2. Settled'
    BY <2>1, AllRestored DEF AgreementInv, Settled
  <2> QED
    BY <2>1, <2>2 DEF AgreementInv, Serving
<1>8. CASE Listen
  <2>1. /\ pc = "ready" /\ pc' = "serve" /\ served' = Generation /\ mem'.state = "none"
        /\ disk' = disk /\ \A o \in Replacements : SamePath(o)
    BY <1>8, QuietPath, ValueFacts DEF Listen, Goto
  <2>2. Settled' /\ Generation' = Generation
    BY <2>1, SameGeneration DEF AgreementInv, SamePath
  <2> QED
    BY <2>1, <2>2 DEF AgreementInv, Serving
<1>9. CASE UNCHANGED vars
  BY <1>9 DEF vars, files, proc, ghosts, AgreementInv, Settled, Serving, Generation
<1>10. CASE \/ ApplyOperation \/ SaveMoved \/ Activate \/ SaveApplied \/ SaveApplyError
            \/ SaveIntent \/ RollbackOperation \/ Reactivate \/ SaveRolled \/ EndRollback
            \/ Cleanup
  <2>1. pc' \notin Agreeing \cup {"commit"}
    BY <1>10, ApplyEffect, RollbackEffect
       DEF SaveMoved, Activate, SaveApplied, SaveApplyError, SaveIntent, Reactivate, SaveRolled,
           EndRollback, Cleanup, ApplyFails, Rolled, RollbackError, Exit, Goto
  <2>2. /\ disk.state # "none"
        /\ pc # "cleanup" => mem.state # "none"
    <3>1. pc \in Applying \cup RollingBack \cup {"intent", "cleanup"}
      BY <1>10 DEF ApplyOperation, SaveMoved, Activate, SaveApplied, SaveApplyError, SaveIntent,
         RollbackOperation, Reactivate, SaveRolled, EndRollback, Cleanup, Applying, RollingBack
    <3> QED
      BY <3>1, ValueFacts DEF ControlInv, Applying, RollingBack, RollbackStates, Forward
  <2>3. disk'.state # "none"
    <3>1. CASE \/ SaveMoved \/ SaveApplied \/ SaveApplyError \/ SaveRolled
      BY <2>2, <3>1 DEF SaveMoved, SaveApplied, SaveApplyError, SaveRolled, Persist, PersistFails
    <3>2. CASE SaveIntent \/ EndRollback
      BY <2>2, <3>2 DEF SaveIntent, EndRollback, Persist, PersistFails, InState
    <3>3. CASE ApplyOperation \/ Activate \/ RollbackOperation \/ Reactivate \/ Cleanup
      BY <2>2, <3>3 DEF ApplyOperation, Activate, RollbackOperation, Reactivate, Cleanup
    <3> QED
      BY <1>10, <3>1, <3>2, <3>3
  <2> QED
    BY <1>2, <2>1, <2>3
<1> QED
  BY <1>1, <1>3, <1>4, <1>5, <1>6, <1>7, <1>8, <1>9, <1>10 DEF Next, Apply, Rollback, Startup

-----------------------------------------------------------------------------
(* Theorems.                                                               *)

\* At first there is no marker and the data is that of before any restore.
LEMMA MixInit == Init => MixInv
<1> SUFFICES ASSUME Init PROVE MixInv
  OBVIOUS
<1>1. PathInv
  BY ValueFacts DEF Init, PathInv
<1>2. Settled /\ Generation = "old"
  BY DEF Init, Settled, Generation
<1>3. AgreementInv
  BY <1>2, ValueFacts DEF Init, AgreementInv
<1> QED
  BY <1>1, <1>3 DEF MixInv

\* As long as the marker write of PrepareRestore leaves no marker behind when it
\* fails, every copy of the marker tells the truth about every replaced path.
THEOREM MixInvariant ==
  ASSUME ~PrepareSyncFails
  PROVE  Spec => [](IInv /\ MixInv)
<1>1. Init => IInv /\ MixInv
  BY InvariantInit, MixInit
<1>2. IInv /\ MixInv /\ [Next]_vars => (IInv /\ MixInv)'
  BY InvariantStep, PathStep, AgreementStep DEF MixInv
<1> QED
  BY <1>1, <1>2, PTL DEF Spec

\* ApplyPendingRestore, CommitAppliedRestore and RollbackAppliedRestore never
\* let main.go open or serve, and never forget the marker of, a mixture of
\* restored and original paths, however many effects fail and however often the
\* process dies.
THEOREM NeverAMixture ==
  ASSUME ~PrepareSyncFails
  PROVE  Spec => []NeverMixed
<1>1. MixInv => NeverMixed
  <2>1. Settled => Generation # "mixed"
    BY DEF Settled, Generation
  <2> QED
    BY <2>1 DEF MixInv, AgreementInv, NeverMixed, Serving
<1> QED
  BY <1>1, MixInvariant, PTL

\* What RollbackIsFinal says of one step.
FinalStep ==
  disk.state \in RollbackStates =>
    /\ disk'.state \in RollbackStates \cup {"none"}
    /\ \A o \in Replacements : target'[o] = New => target[o] = New

\* Once its intent is on disk a rollback is never taken back: only the labels
\* of the rollback are left.
LEMMA RollbackStep ==
  ASSUME ~PrepareSyncFails, IInv, MixInv, [Next]_vars
  PROVE  FinalStep
<1> USE DEF IInv, MixInv
<1> SUFFICES ASSUME disk.state \in RollbackStates
             PROVE  /\ disk'.state \in RollbackStates \cup {"none"}
                    /\ \A o \in Replacements : target'[o] = New => target[o] = New
  BY DEF FinalStep
<1>0. disk.state # "none" /\ disk.state \notin Forward /\ disk.state # "applied"
  BY ValueFacts DEF Forward
<1>1. CASE Prepare
  BY <1>0, <1>1, PreparesPath, ValueFacts, ConstantFacts DEF RollbackStates
<1>2. CASE \/ Stop \/ Start \/ ForgetRollback \/ ReloadConfig \/ OpenCatalog \/ ForgetCommit
           \/ Listen \/ Crash \/ UNCHANGED vars
  <2>1. \A o \in Replacements : target'[o] = target[o]
    BY <1>2, QuietPath DEF SamePath
  <2>2. disk' = disk \/ disk'.state = "none"
    BY <1>2, ValueFacts DEF Stop, Start, ForgetRollback, ReloadConfig, OpenCatalog, ForgetCommit,
       Listen, Crash, vars
  <2> QED
    BY <2>1, <2>2
<1>3. CASE ApplyOperation \/ SaveMoved \/ Activate \/ SaveApplied \/ SaveApplyError \/ FinishApply
  <2>1. disk.state \in Forward
    BY <1>3 DEF ApplyOperation, SaveMoved, Activate, SaveApplied, SaveApplyError, FinishApply,
       ControlInv, Applying
  <2> QED
    BY <1>0, <2>1
<1>4. CASE SaveIntent \/ SaveRolled \/ EndRollback \/ Cleanup \/ CommitOperation
  <2>1. UNCHANGED target
    BY <1>4 DEF SaveIntent, SaveRolled, EndRollback, Cleanup, CommitOperation, files
  <2>2. disk'.state \in RollbackStates
    <3>1. CASE SaveIntent \/ EndRollback
      BY <3>1 DEF SaveIntent, EndRollback, Persist, PersistFails, InState, RollbackStates
    <3>2. CASE SaveRolled
      BY <3>2 DEF SaveRolled, Persist, PersistFails, ControlInv, RollingBack, RollbackStates
    <3>3. CASE Cleanup \/ CommitOperation
      BY <3>3 DEF Cleanup, CommitOperation
    <3> QED
      BY <1>4, <3>1, <3>2, <3>3
  <2> QED
    BY <2>1, <2>2
<1>5. CASE RollbackOperation \/ Reactivate
  <2>1. disk' = disk /\ i \in Ops
    BY <1>5, RollbackEffect DEF RollbackOperation, Reactivate, IndexInv
  <2>2. ReactivateOriginal \/ UnstageTarget \/ UNCHANGED files
    BY <1>5, RollbackEffect DEF Reactivate
  <2>3. ASSUME NEW o \in Replacements, target'[o] = New PROVE target[o] = New
    <3>1. target'[o] \in {None, rollback[o], target[o]} /\ rollback[o] # New
      BY <1>0, <2>1, <2>2, <2>3, ValueFacts
         DEF ReactivateOriginal, UnstageTarget, files, TypeOK, PathInv, Shape, Original
    <3> QED
      BY <2>3, <3>1, ValueFacts
  <2> QED
    BY <2>1, <2>3
<1> QED
  BY <1>1, <1>2, <1>3, <1>4, <1>5 DEF Next, Apply, Rollback, Startup

\* Once the intent to roll back is on disk, the marker stays in a rollback state
\* until it is removed, and no restored value is activated: ApplyPendingRestore
\* resumes the rollback at each start.
THEOREM RollbacksAreFinal ==
  ASSUME ~PrepareSyncFails
  PROVE  Spec => RollbackIsFinal
<1>1. IInv /\ MixInv /\ [Next]_vars => [FinalStep]_vars
  BY RollbackStep
<1> QED
  BY <1>1, MixInvariant, PTL DEF Spec, RollbackIsFinal, FinalStep

-----------------------------------------------------------------------------
(* The refinement.                                                         *)

\* The generations the next start may answer from.
Choice == IF disk.state = "none" THEN {Generation} ELSE {"old", "new"}

\* Where the paths agree they hold one of the two generations.
LEMMA WholeGeneration == Settled => Generation \in {"old", "new"}
BY DEF Settled, Generation

\* While there is no marker, none comes but by PrepareRestore, and the paths
\* stay as they are.
LEMMA QuietWithoutMarker ==
  ASSUME ~PrepareSyncFails, IInv, MixInv, [Next]_vars, disk.state = "none"
  PROVE  /\ Generation' = Generation
         /\ disk'.state # "none" => Prepare
<1> USE DEF IInv, MixInv
<1>1. CASE Prepare
  BY <1>1, PreparesPath, SameGeneration
<1>2. CASE \/ Stop \/ Start \/ ForgetRollback \/ ReloadConfig \/ OpenCatalog \/ ForgetCommit
           \/ Listen \/ Crash \/ UNCHANGED vars
  <2>1. Generation' = Generation
    BY <1>2, QuietPath, SameGeneration DEF SamePath
  <2>2. disk' = disk \/ disk'.state = "none"
    BY <1>2, ValueFacts DEF Stop, Start, ForgetRollback, ReloadConfig, OpenCatalog, ForgetCommit,
       Listen, Crash, vars
  <2> QED
    BY <2>1, <2>2
<1>3. CASE \/ ApplyOperation \/ SaveMoved \/ Activate \/ SaveApplied \/ SaveApplyError
           \/ FinishApply \/ SaveIntent \/ RollbackOperation \/ Reactivate \/ SaveRolled
           \/ EndRollback \/ Cleanup \/ CommitOperation
  <2>1. pc \in Applying \cup RollingBack \cup {"intent", "cleanup", "commit"}
    BY <1>3 DEF ApplyOperation, SaveMoved, Activate, SaveApplied, SaveApplyError, FinishApply,
       SaveIntent, RollbackOperation, Reactivate, SaveRolled, EndRollback, Cleanup,
       CommitOperation, Applying, RollingBack
  <2>2. disk.state # "none"
    BY <2>1, ValueFacts DEF ControlInv, AgreementInv, Applying, RollingBack, RollbackStates, Forward
  <2> QED
    BY <2>2
<1> QED
  BY <1>1, <1>2, <1>3 DEF Next, Apply, Rollback, Startup

\* The server comes up by Listen, goes down by Stop, and what it serves changes
\* only when it comes up.
LEMMA ServingChanges ==
  ASSUME ~PrepareSyncFails, IInv, MixInv, [Next]_vars
  PROVE  \/ Listen
         \/ Stop
         \/ Serving' = Serving /\ served' = served /\ (Serving => Prepare \/ UNCHANGED vars)
<1> USE DEF IInv, MixInv
<1>1. CASE Prepare
  BY <1>1, PreparesPath
<1>2. CASE UNCHANGED vars
  BY <1>2 DEF vars, proc, ghosts, Serving
<1>3. CASE \/ Start \/ ForgetRollback \/ ReloadConfig \/ OpenCatalog \/ ForgetCommit
           \/ Crash
  BY <1>3 DEF Start, ForgetRollback, ReloadConfig, OpenCatalog, ForgetCommit, Crash, StartupFails,
     Goto, Exit, ghosts, Serving
<1>4. CASE \/ ApplyOperation \/ SaveMoved \/ Activate \/ SaveApplied \/ SaveApplyError
           \/ FinishApply \/ SaveIntent \/ RollbackOperation \/ Reactivate \/ SaveRolled
           \/ EndRollback \/ Cleanup \/ CommitOperation
  <2>1. ~Serving /\ served' = served
    BY <1>4 DEF ApplyOperation, SaveMoved, Activate, SaveApplied, SaveApplyError, FinishApply,
       SaveIntent, RollbackOperation, Reactivate, SaveRolled, EndRollback, Cleanup,
       CommitOperation, ghosts, Serving
  <2>2. ~Serving'
    BY <1>4, ApplyEffect, RollbackEffect
       DEF SaveMoved, Activate, SaveApplied, SaveApplyError, FinishApply, SaveIntent, Reactivate,
           SaveRolled, EndRollback, Cleanup, CommitOperation, ApplyFails, Rolled, RollbackError,
           Exit, Goto, Serving
  <2> QED
    BY <2>1, <2>2 DEF Serving
<1> QED
  BY <1>1, <1>2, <1>3, <1>4 DEF Next, Apply, Rollback, Startup

\* Every step is one that RestoreAtomic allows, or changes nothing it sees.
LEMMA AtomicStep ==
  ASSUME ~PrepareSyncFails, IInv, MixInv, [Next]_vars
  PROVE  Atomic!Next \/ UNCHANGED Atomic!vars
<1> USE DEF IInv, MixInv
<1>a. AgreementInv /\ AgreementInv'
  BY AgreementStep
<1>g. /\ disk.state = "none" => Choice = {Generation} /\ Generation \in {"old", "new"}
      /\ disk.state # "none" => Choice = {"old", "new"}
      /\ disk'.state = "none" => Choice' = {Generation'} /\ Generation' \in {"old", "new"}
      /\ disk'.state # "none" => Choice' = {"old", "new"}
  <2>1. Settled' => Generation' \in {"old", "new"}
    BY DEF Settled, Generation
  <2> QED
    BY <1>a, <2>1, WholeGeneration DEF Choice, AgreementInv
<1> USE DEF Atomic!Generations, Choice
<1>1. CASE Listen
  <2>1. pc = "ready" /\ ~Serving /\ Serving' /\ served' = Generation /\ disk' = disk
    BY <1>1 DEF Listen, Serving, Goto
  <2>2. Generation' = Generation
    BY <1>1, QuietPath, SameGeneration DEF SamePath
  <2>3. served' \in Choice /\ Choice' = Choice
    BY <1>a, <1>g, <2>1, <2>2, WholeGeneration DEF AgreementInv
  <2> QED
    BY <2>1, <2>3 DEF Atomic!Next, Atomic!Start
<1>2. CASE Stop
  <2>1. Serving /\ ~Serving' /\ served' = served /\ disk' = disk
    BY <1>2 DEF Stop, Serving, Exit, Goto
  <2>2. Generation' = Generation
    BY <1>2, QuietPath, SameGeneration DEF SamePath
  <2>3. Choice' = Choice
    BY <2>1, <2>2
  <2> QED
    BY <2>1, <2>3 DEF Atomic!Next, Atomic!Stop
<1>3. CASE /\ Serving' = Serving /\ served' = served
           /\ Serving => Prepare \/ UNCHANGED vars
  <2>1. CASE Choice' = Choice
    BY <1>3, <2>1 DEF Atomic!vars
  <2>2. CASE disk.state = "none" /\ Choice' # Choice
    <3>1. disk'.state # "none" /\ Prepare
      BY <1>g, <2>2, QuietWithoutMarker
    <3>2. Serving /\ served = Generation
      BY <3>1, PreparesPath, <1>a DEF AgreementInv
    <3> QED
      BY <1>3, <1>g, <2>2, <3>1, <3>2 DEF Atomic!Next, Atomic!Request
  <2>3. CASE disk.state # "none" /\ Choice' # Choice
    BY <1>3, <1>g, <2>3 DEF Atomic!Next, Atomic!Resolve
  <2> QED
    BY <2>1, <2>2, <2>3
<1> QED
  BY <1>1, <1>2, <1>3, ServingChanges

\* The switch implements the abstract restore: the data served is one whole
\* generation, and it changes only across a restart, whatever fails.
THEOREM SwitchImplementsAtomic ==
  ASSUME ~PrepareSyncFails
  PROVE  Spec => Implements
<1>1. Init => Atomic!Init
  BY ValueFacts DEF Init, Atomic!Init, Serving, Generation
<1>2. IInv /\ MixInv /\ [Next]_vars => [Atomic!Next]_(Atomic!vars)
  BY AtomicStep
<1> QED
  BY <1>1, <1>2, MixInvariant, PTL DEF Spec, Implements, Atomic!Spec
=============================================================================
