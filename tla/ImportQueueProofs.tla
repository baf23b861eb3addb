-------------------------- MODULE ImportQueueProofs --------------------------
(***************************************************************************)
(* Proofs about ImportQueue, for any number of jobs, names and attempts    *)
(* and any number of faults, crashes and shutdowns.                        *)
(*                                                                         *)
(* A job can die between any two effects and start over with a file of its *)
(* own.  The inductive invariant says, for every place of the worker, what *)
(* the row of the job tells of the two links to the file, so that a later  *)
(* cleanup, in this process or the next, finds exactly what is there.      *)
(***************************************************************************)
EXTENDS ImportQueue, TLAPS

\* The worker has a job; before its file can be published; the part exists.
AtJob == Processing \cup {"claimed", "settle", "clean", "finish"}
Unnamed == {"claimed", "create", "name", "download", "probe"}
Unlinked == Unnamed \cup {"publish", "link"}
PartThere == {"name", "download", "probe", "publish", "link", "unlink"}
TempNamed == {"download", "probe", "publish", "link", "unlink", "linked", "finalize"}
StartLabels == {"down", "sweep", "recover", "stray"}

\* The type invariant in parts: rows and files, flags, the worker.
DataTypes ==
  /\ state \in [Jobs -> JobStates]
  /\ cancelRequested \in [Jobs -> BOOLEAN]
  /\ tempFile \in [Jobs -> Inodes \cup {NoFile}]
  /\ finalFile \in [Jobs -> Names \cup {NoName}]
  /\ rows \subseteq Names \X (Inodes \cup {Foreign})
  /\ dir \in [Names -> Inodes \cup {NoFile, Foreign}]
  /\ parts \subseteq Inodes
  /\ try \in [Jobs -> 0..(1 + MaxCrashes + MaxStops)]

FlagTypes ==
  /\ started \in BOOLEAN /\ stopping \in BOOLEAN /\ aborted \in BOOLEAN
  /\ seen \in BOOLEAN /\ blind \in BOOLEAN
  /\ todo \subseteq Jobs /\ canceling \subseteq Jobs
  /\ asked \subseteq Jobs /\ left \subseteq Jobs /\ cleaned \subseteq Jobs

WorkTypes ==
  /\ pc \in Labels
  /\ job \in {0} \cup Jobs
  /\ attempt \in 0..Attempts
  /\ err \in {"none", "task", "canceled"}
  /\ doomed \subseteq {"final", "temp"}
  /\ faults \in 0..MaxFaults /\ crashes \in 0..MaxCrashes /\ stops \in 0..MaxStops

FilesOf(j) == {n \in Names : dir[n] \in InodesOf(j)}

\* The place of the worker: which labels belong to a start, and that the job it
\* is at, and those a start still has to clean, are active.
PlaceInv ==
  /\ pc \in AtJob => job \in Jobs /\ Active(job)
  /\ pc \in StartLabels => ~started
  /\ pc \notin StartLabels \cup {"clean"} => started
  /\ pc = "idle" => job = 0
  /\ pc \in {"sweep", "clean"} => \A j \in todo : Active(j) /\ (pc = "clean" => j # job)
  /\ started \/ pc \in {"recover", "stray"} => todo = {}
  /\ pc = "stray" => \A j \in Jobs : ~Active(j)

\* The row of the job at hand: what it names, and which attempt this is.
RowInv ==
  /\ \A j \in Jobs : tempFile[j] \in InodesOf(j) \cup {NoFile}
  /\ pc \in Unnamed => finalFile[job] = NoName
  /\ pc \in TempNamed => tempFile[job] = Part(job)
  /\ pc \in {"link", "unlink", "linked", "finalize"} => finalFile[job] \in Names
  /\ pc = "link" => attempt < Attempts
  /\ pc \in PartThere => Part(job) \in parts
  /\ pc \in {"unlink", "linked"} => dir[finalFile[job]] = Part(job)
  /\ pc = "clean" /\ "final" \in doomed => finalFile[job] \in Names
  /\ pc = "clean" /\ "temp" \in doomed => tempFile[job] \in parts

\* A job is claimed once in a run of the process, and once more after each end.
TryInv ==
  \A j \in Jobs :
    /\ Active(j) => try[j] >= 1
    /\ try[j] <= crashes + stops
         + IF started /\ ~stopping /\ state[j] \notin {"none", "queued"} THEN 1 ELSE 0

\* An accepted cancellation is kept by the row or has been carried out.
CancelInv ==
  \A j \in asked :
    state[j] \in {"canceled", "failed"} \/ (Active(j) /\ cancelRequested[j])

\* Files that are not catalogued: none before the link, and from then on the row
\* names both links until a cleanup has removed the file.
FileInv ==
  ~blind =>
    /\ \A n \in Names, j \in Jobs :
         dir[n] \in InodesOf(j) =>
           \/ <<n, dir[n]>> \in rows
           \/ Active(j) /\ finalFile[j] = n /\ dir[n] = tempFile[j]
    /\ pc \in Unlinked \cup {"finish"} => FilesOf(job) = {}
    /\ pc = "clean" /\ FilesOf(job) # {} => "final" \in doomed
    /\ pc \in {"sweep", "recover"} => \A j \in Jobs \ todo : Active(j) => FilesOf(j) = {}
    /\ pc = "clean" /\ ~started =>
         \A j \in Jobs \ (todo \cup {job}) : Active(j) => FilesOf(j) = {}

\* A job whose part is gone although no cleanup has been there has published it:
\* the name it holds is its own, or free while the process is still at it.
PartGone(j) ==
  /\ Active(j)
  /\ finalFile[j] \in Names
  /\ tempFile[j] \notin parts
  /\ j \notin cleaned

OwnInv ==
  ~blind =>
    /\ \A j \in Jobs : PartGone(j) =>
         \/ dir[finalFile[j]] \in InodesOf(j)
         \/ dir[finalFile[j]] = NoFile /\ (started => job = j)
    /\ started /\ pc \in AtJob \ {"clean", "finish"} => job \notin cleaned
    /\ pc = "clean" /\ "final" \in doomed /\ job \notin cleaned =>
         dir[finalFile[job]] \in InodesOf(job)
    /\ started /\ pc = "clean" /\ "final" \in doomed => job \notin cleaned
    /\ pc = "finish" => job \in cleaned

\* The inductive invariant.
IInv ==
  TypeOK /\ PlaceInv /\ RowInv /\ TryInv /\ CompletedOnce /\ CancelInv /\ FileInv /\ OwnInv

-----------------------------------------------------------------------------
(***************************************************************************)
(* Inodes: those of two jobs are apart, and none of them is foreign.       *)
(***************************************************************************)
LEMMA InodeFacts ==
  /\ Jobs \subseteq Nat \ {0} /\ 0 \notin Jobs
  /\ \A j \in Jobs : InodesOf(j) \subseteq Inodes
  /\ \A j, k \in Jobs : j # k => InodesOf(j) \cap InodesOf(k) = {}
  /\ NoFile \notin Inodes /\ Foreign \notin Inodes /\ Foreign # NoFile
<1>1. Jobs \subseteq Nat \ {0}
  BY ImportAssumption DEF Jobs
<1> QED
  BY <1>1 DEF InodesOf, Inodes, NoFile, Foreign

(***************************************************************************)
(* The types in parts, and the labels one by one.                          *)
(***************************************************************************)
LEMMA TypeParts == TypeOK <=> DataTypes /\ FlagTypes /\ WorkTypes
BY Zenon DEF TypeOK, DataTypes, FlagTypes, WorkTypes

\* The labels the proofs name are labels.
LEMMA LabelMembers ==
  /\ "down" \in Labels /\ "sweep" \in Labels /\ "clean" \in Labels /\ "recover" \in Labels
  /\ "stray" \in Labels /\ "idle" \in Labels /\ "claimed" \in Labels
  /\ "settle" \in Labels /\ "finish" \in Labels /\ "create" \in Labels
  /\ "name" \in Labels /\ "download" \in Labels /\ "probe" \in Labels
  /\ "publish" \in Labels /\ "link" \in Labels /\ "unlink" \in Labels
  /\ "linked" \in Labels /\ "finalize" \in Labels
BY DEF Labels, Processing

(***************************************************************************)
(* What the statements that change several columns of a row write.         *)
(***************************************************************************)
LEMMA ReleaseEffect ==
  ASSUME TypeOK, NEW j \in Jobs, NEW s \in JobStates, Release(j, s)
  PROVE  /\ state' \in [Jobs -> JobStates] /\ cancelRequested' \in [Jobs -> BOOLEAN]
         /\ tempFile' \in [Jobs -> Inodes \cup {NoFile}]
         /\ finalFile' \in [Jobs -> Names \cup {NoName}]
         /\ state'[j] = s /\ cancelRequested'[j] = FALSE
         /\ tempFile'[j] = NoFile /\ finalFile'[j] = NoName
         /\ \A k \in Jobs \ {j} :
              /\ state'[k] = state[k] /\ cancelRequested'[k] = cancelRequested[k]
              /\ tempFile'[k] = tempFile[k] /\ finalFile'[k] = finalFile[k]
         /\ cleaned' = cleaned \ {j}
BY DEF TypeOK, Release

\* A claim takes one queued job, without files, and counts a new try.
LEMMA ClaimEffect ==
  ASSUME TypeOK, Claim
  PROVE  \E j \in Jobs :
           /\ state[j] = "queued" /\ state'[j] = "downloading"
           /\ try'[j] = try[j] + 1 /\ try[j] \in Nat
           /\ tempFile'[j] = NoFile /\ finalFile'[j] = NoName /\ ~cancelRequested'[j]
           /\ \A k \in Jobs \ {j} :
                /\ state'[k] = state[k] /\ cancelRequested'[k] = cancelRequested[k]
                /\ tempFile'[k] = tempFile[k] /\ finalFile'[k] = finalFile[k]
                /\ try'[k] = try[k]
           /\ cleaned' = cleaned \ {j}
           /\ job' = j
<1>1. PICK j \in Jobs :
        /\ state[j] = "queued" /\ Release(j, "downloading") /\ job' = j
        /\ try' = [try EXCEPT ![j] = @ + 1]
  BY DEF Claim
<1>2. "downloading" \in JobStates
  BY DEF JobStates, ActiveStates
<1>3. try'[j] = try[j] + 1 /\ try[j] \in Nat /\ \A k \in Jobs \ {j} : try'[k] = try[k]
  BY <1>1 DEF TypeOK
<1> QED
  BY <1>1, <1>2, <1>3, ReleaseEffect

\* A cleanup removes the published file before the part, or ends with an
\* error.
LEMMA RemoveEffect ==
  ASSUME Remove
  PROVE  /\ pc = "clean" /\ doomed # {}
         /\ UNCHANGED <<jobVars, rows, try, asked, blind, crashes, stops>>
         /\ \/ /\ UNCHANGED <<pc, job, life, aborted, work, seen, todo, canceling, left>>
               /\ "final" \in doomed /\ dir' = Unpublished /\ doomed' = doomed \ {"final"}
               /\ UNCHANGED <<parts, cleaned>>
            \/ /\ UNCHANGED <<pc, job, life, aborted, work, seen, todo, canceling, left>>
               /\ "final" \notin doomed /\ parts' = parts \ {tempFile[job]} /\ doomed' = {}
               /\ cleaned' = cleaned \cup {job} /\ UNCHANGED dir
            \/ /\ started /\ pc' = "idle" /\ job' = 0
               /\ UNCHANGED <<files, cleaned, life, todo>>
            \/ /\ ~started /\ started' = FALSE /\ pc' = "down" /\ job' = 0
               /\ UNCHANGED <<files, cleaned>>
BY DEF Remove, NoFault, Fault, Rest, Exit, Goto

\* What a cleanup has left to remove.
LEMMA DoomedParts ==
  ASSUME doomed # {}, doomed \subseteq {"final", "temp"}
  PROVE  "final" \in doomed \/ "temp" \in doomed
OBVIOUS

\* The recovery at startup puts every active job back, or cancels it, and
\* forgets its files.
LEMMA RecoverEffect ==
  ASSUME TypeOK, Recover, NoFault, Goto("stray")
  PROVE  /\ pc = "recover" /\ pc' = "stray" /\ left' = {} /\ cleaned' = {}
         /\ UNCHANGED <<job, aborted, life, work, sweep, canceling, rows, files, try, asked,
                        blind, bounds>>
         /\ state' \in [Jobs -> JobStates] /\ cancelRequested' \in [Jobs -> BOOLEAN]
         /\ tempFile' \in [Jobs -> Inodes \cup {NoFile}]
         /\ finalFile' \in [Jobs -> Names \cup {NoName}]
         /\ \A k \in Jobs :
              IF Active(k)
                THEN /\ state'[k] = IF cancelRequested[k] THEN "canceled" ELSE "queued"
                     /\ ~cancelRequested'[k]
                     /\ tempFile'[k] = NoFile /\ finalFile'[k] = NoName
                ELSE /\ state'[k] = state[k] /\ cancelRequested'[k] = cancelRequested[k]
                     /\ tempFile'[k] = tempFile[k] /\ finalFile'[k] = finalFile[k]
<1>1. /\ state' = [j \in Jobs |-> IF j \in Interrupted THEN Requeued(j) ELSE state[j]]
      /\ cancelRequested' =
             [j \in Jobs |-> IF j \in Interrupted THEN FALSE ELSE cancelRequested[j]]
      /\ tempFile' = [j \in Jobs |-> IF j \in Interrupted THEN NoFile ELSE tempFile[j]]
      /\ finalFile' = [j \in Jobs |-> IF j \in Interrupted THEN NoName ELSE finalFile[j]]
  BY DEF Recover, NoFault, Fault, Goto, Exit, TypeOK
<1>2. \A k \in Jobs : k \in Interrupted <=> Active(k)
  BY DEF Interrupted
<1>3. \A k \in Jobs : Requeued(k) = IF cancelRequested[k] THEN "canceled" ELSE "queued"
  BY DEF Requeued
<1>4. /\ pc = "recover" /\ pc' = "stray" /\ left' = {} /\ cleaned' = {}
      /\ UNCHANGED <<job, aborted, life, work, sweep, canceling, rows, files, try, asked,
                     blind, bounds>>
  BY DEF Recover, NoFault, Fault, Goto, Exit, bounds
<1>5. {"canceled", "queued"} \subseteq JobStates
  BY DEF JobStates, TerminalStates
<1> HIDE DEF JobStates
<1> QED
  BY <1>1, <1>2, <1>3, <1>4, <1>5 DEF TypeOK

(***************************************************************************)
(* The part of the job at hand is one of its own inodes.                   *)
(***************************************************************************)
LEMMA PartFact ==
  ASSUME IInv, pc \in AtJob
  PROVE  job \in Jobs /\ Active(job) /\ Part(job) \in InodesOf(job) /\ Part(job) \in Inodes
<1>1. job \in Jobs /\ Active(job)
  BY DEF IInv, PlaceInv
<1>2. try[job] \in 1..(1 + MaxCrashes + MaxStops)
  BY <1>1, ImportAssumption DEF IInv, TypeOK, TryInv
<1> QED
  BY <1>1, <1>2 DEF Part, InodesOf, Inodes

(***************************************************************************)
(* A job that is not completed has no catalogued file, and a cleanup that  *)
(* looks for the file of an active job finds it.                           *)
(***************************************************************************)
LEMMA NotCatalogued ==
  ASSUME IInv, ~blind, NEW j \in Jobs, state[j] # "completed", NEW n \in FilesOf(j)
  PROVE  n \in Names /\ Active(j) /\ finalFile[j] = n /\ dir[n] = tempFile[j]
<1>1. n \in Names /\ dir[n] \in InodesOf(j) /\ VideosOf(j) = {}
  BY DEF IInv, CompletedOnce, FilesOf
<1>2. <<n, dir[n]>> \notin rows
  BY <1>1 DEF VideosOf
<1> QED
  BY <1>1, <1>2 DEF IInv, FileInv

\* Unless a lookup failed, a cleanup finds the published file of an active
\* job.
LEMMA FoundByCleanup ==
  ASSUME IInv, ~blind, NEW j \in Jobs, Active(j), FilesOf(j) # {}
  PROVE  "final" \in Artifacts(j)
<1>1. PICK n \in FilesOf(j) : TRUE
  OBVIOUS
<1>2. n \in Names /\ finalFile[j] = n /\ dir[n] = tempFile[j] /\ dir[n] \in InodesOf(j)
  BY <1>1, NotCatalogued DEF Active, ActiveStates, FilesOf
<1> QED
  BY <1>2, InodeFacts, NameAssumption DEF Artifacts, RemovesFinal, FinalExists

\* The invariant holds at first.
LEMMA InitInv == Init => IInv
<1> SUFFICES ASSUME Init PROVE IInv
  OBVIOUS
<1> USE ImportAssumption, NameAssumption, InodeFacts DEF Init
<1>1. TypeOK
  <2>1. DataTypes
    BY DEF DataTypes, JobStates
  <2>2. FlagTypes
    BY DEF FlagTypes
  <2>3. WorkTypes
    BY DEF WorkTypes, Labels
  <2> QED
    BY <2>1, <2>2, <2>3, TypeParts
<1>2. PlaceInv /\ RowInv /\ CancelInv
  BY DEF PlaceInv, RowInv, CancelInv, AtJob, Processing, StartLabels, Unnamed, TempNamed,
         PartThere
<1>3. TryInv
  BY DEF TryInv, Active, ActiveStates
<1>4. CompletedOnce
  BY DEF CompletedOnce, VideosOf
<1>5. FileInv
  BY DEF FileInv, Unlinked, Unnamed, FilesOf
<1>6. OwnInv
  BY DEF OwnInv, PartGone, Active, ActiveStates, AtJob, Processing
<1> QED
  BY <1>1, <1>2, <1>3, <1>4, <1>5, <1>6 DEF IInv

-----------------------------------------------------------------------------
(***************************************************************************)
(* Types of rows and files.                                                *)
(***************************************************************************)
LEMMA DataStep == IInv /\ [Next]_vars => DataTypes'
<1> SUFFICES ASSUME IInv, [Next]_vars PROVE DataTypes'
  OBVIOUS
<1> USE ImportAssumption, InodeFacts, PartFact, TypeParts
      DEF IInv, DataTypes, JobStates, ActiveStates, TerminalStates, RowInv, PlaceInv, AtJob,
          Processing, jobVars, files, life, work, sweep, ghosts, bounds
<1>1. ASSUME NEW j \in Jobs, Create(j) PROVE DataTypes'
  BY <1>1 DEF Create
<1>2. ASSUME NEW j \in Jobs, Cancel(j) PROVE DataTypes'
  <2>1. CASE state[j] = "queued" /\ Release(j, "canceled")
    BY <1>2, <2>1, ReleaseEffect DEF Cancel
  <2> QED
    BY <1>2, <2>1 DEF Cancel
<1>3. ASSUME NEW j \in Jobs, Abort(j) PROVE DataTypes'
  BY <1>3 DEF Abort
<1>4. CASE Claim
  BY <1>4 DEF Claim, Release, Goto, WorkTypes, TryInv
<1>5. CASE ReadBack
  BY <1>5 DEF ReadBack, Rest, NoFault, Fault, Goto
<1>6. CASE CreatePart
  BY <1>6 DEF CreatePart, Return, Goto
<1>7. CASE NamePart
  BY <1>7 DEF NamePart, Accepted, Return, Goto, NoFault, Fault
<1>8. CASE Download
  BY <1>8 DEF Download, Advance, Accepted, Return, Goto
<1>9. CASE Probe
  BY <1>9 DEF Probe, Advance, Accepted, Return, Goto
<1>10. CASE PrepareSaving
  BY <1>10 DEF PrepareSaving, Accepted, Return, Goto, TriesLeft, NamesTried
<1>11. CASE Link
  BY <1>11 DEF Link, Return, Goto
<1>12. CASE Unlink
  BY <1>12 DEF Unlink, Unpublished, Return, Goto, NoFault, Fault
<1>13. CASE Published
  BY <1>13 DEF Published, Unpublished, Return, Goto, NoFault, Fault
<1>14. CASE Finalize
  <2>1. CASE Accepted /\ Release(job,
      "completed") /\ state[job] = "saving" /\ rows' = rows \cup {<<finalFile[job],
      Part(job)>>}
    <3>1. job \in Jobs /\ Part(job) \in Inodes /\ finalFile[job] \in Names
      BY <1>14, PartFact DEF Finalize
    <3>2. "completed" \in JobStates /\ UNCHANGED <<dir, parts, try>>
      BY <1>14, <2>1 DEF Finalize
    <3>3. rows' \subseteq Names \X (Inodes \cup {Foreign})
      BY <2>1, <3>1
    <3> HIDE DEF JobStates
    <3> QED
      BY <2>1, <3>1, <3>2, <3>3, ReleaseEffect
  <2> QED
    BY <1>14, <2>1 DEF Finalize
<1>15. CASE Settle
  BY <1>15 DEF Settle, LookUp, Glimpses, Artifacts, RemovesFinal, FinalExists, TempExists, Goto,
      NoFault, Fault
<1>16. CASE Remove
  BY <1>16 DEF Remove, Rest, Exit, Unpublished, Goto, NoFault, Fault
<1>17. CASE Cleaned
  BY <1>17 DEF Cleaned, Goto
<1>18. CASE Finish
  <2>1. job \in Jobs /\ Outcome \in JobStates
    BY <1>18 DEF Finish, Outcome, Requeued
  <2>2. CASE Release(job, Outcome)
    BY <1>18, <2>1, <2>2, ReleaseEffect DEF Finish
  <2> QED
    BY <1>18, <2>2 DEF Finish
<1>19. CASE StartUp
  BY <1>19 DEF StartUp, Interrupted, Goto
<1>20. CASE Sweep
  BY <1>20 DEF Sweep, LookUp, Glimpses, Artifacts, RemovesFinal, FinalExists, TempExists, Goto,
      NoFault, Fault
<1>21. CASE Recover
  <2>1. CASE NoFault /\ Goto("stray")
    BY <1>21, <2>1, RecoverEffect
  <2>2. CASE UNCHANGED <<jobVars, left, cleaned>> /\ Exit /\ Fault
    BY <1>21, <2>2 DEF Recover, Exit, Goto, Fault
  <2> QED
    BY <1>21, <2>1, <2>2 DEF Recover
<1>22. CASE RemoveStrays
  BY <1>22 DEF RemoveStrays, Rest, Exit, Goto, NoFault, Fault
<1>23. CASE Stop
  BY <1>23 DEF Stop
<1>24. CASE Stopped
  BY <1>24 DEF Stopped, Exit, Goto
<1>25. CASE Crash
  BY <1>25 DEF Crash, Exit, Goto
<1>26. CASE UNCHANGED vars
  BY <1>26 DEF vars
<1> QED
  BY <1>1, <1>2, <1>3, <1>4, <1>5, <1>6, <1>7, <1>8, <1>9, <1>10, <1>11, <1>12, <1>13,
      <1>14, <1>15, <1>16, <1>17, <1>18, <1>19, <1>20, <1>21, <1>22, <1>23, <1>24, <1>25,
      <1>26
     DEF Next, Worker, Publish, Startup

(***************************************************************************)
(* Types of flags.                                                         *)
(***************************************************************************)
LEMMA FlagStep == IInv /\ [Next]_vars => FlagTypes'
<1> SUFFICES ASSUME IInv, [Next]_vars PROVE FlagTypes'
  OBVIOUS
<1> USE InodeFacts, TypeParts
      DEF IInv, FlagTypes, PlaceInv, AtJob, jobVars, files, life, work, sweep, ghosts,
          bounds
<1>1. ASSUME NEW j \in Jobs, Create(j) PROVE FlagTypes'
  BY <1>1 DEF Create
<1>2. ASSUME NEW j \in Jobs, Cancel(j) PROVE FlagTypes'
  BY <1>2 DEF Cancel, Cancelable, Release
<1>3. ASSUME NEW j \in Jobs, Abort(j) PROVE FlagTypes'
  BY <1>3 DEF Abort
<1>4. CASE Claim
  BY <1>4 DEF Claim, Release, Goto
<1>5. CASE ReadBack
  BY <1>5 DEF ReadBack, Rest, NoFault, Fault, Goto
<1>6. CASE CreatePart
  BY <1>6 DEF CreatePart, Return, Goto
<1>7. CASE NamePart
  BY <1>7 DEF NamePart, Accepted, Return, Goto, NoFault, Fault
<1>8. CASE Download
  BY <1>8 DEF Download, Advance, Accepted, Return, Goto
<1>9. CASE Probe
  BY <1>9 DEF Probe, Advance, Accepted, Return, Goto
<1>10. CASE PrepareSaving
  BY <1>10 DEF PrepareSaving, Accepted, Return, Goto, TriesLeft, NamesTried
<1>11. CASE Link
  BY <1>11 DEF Link, Return, Goto
<1>12. CASE Unlink
  BY <1>12 DEF Unlink, Unpublished, Return, Goto, NoFault, Fault
<1>13. CASE Published
  BY <1>13 DEF Published, Unpublished, Return, Goto, NoFault, Fault
<1>14. CASE Finalize
  BY <1>14 DEF Finalize, Accepted, Release, Rest, Return, Goto
<1>15. CASE Settle
  <2>1. cancelRequested[job] \in BOOLEAN /\ UNCHANGED <<started, stopping, aborted, todo,
      canceling, asked, left, cleaned>> /\ seen' \in {cancelRequested[job],
      FALSE} /\ blind' \in {blind, TRUE}
    BY <1>15 DEF Settle, LookUp, DataTypes
  <2> QED
    BY <2>1
<1>16. CASE Remove
  BY <1>16 DEF Remove, Rest, Exit, Unpublished, Goto, NoFault, Fault
<1>17. CASE Cleaned
  BY <1>17 DEF Cleaned, Goto
<1>18. CASE Finish
  BY <1>18 DEF Finish, Outcome, Requeued, Release, Rest, Goto, NoFault, Fault
<1>19. CASE StartUp
  BY <1>19 DEF StartUp, Interrupted, Goto
<1>20. CASE Sweep
  BY <1>20 DEF Sweep, LookUp, Glimpses, Artifacts, RemovesFinal, FinalExists, TempExists, Goto,
      NoFault, Fault
<1>21. CASE Recover
  <2>1. CASE NoFault /\ Goto("stray")
    BY <1>21, <2>1, RecoverEffect
  <2>2. CASE UNCHANGED <<jobVars, left, cleaned>> /\ Exit /\ Fault
    BY <1>21, <2>2 DEF Recover, Exit, Goto, Fault
  <2> QED
    BY <1>21, <2>1, <2>2 DEF Recover
<1>22. CASE RemoveStrays
  BY <1>22 DEF RemoveStrays, Rest, Exit, Goto, NoFault, Fault
<1>23. CASE Stop
  BY <1>23 DEF Stop
<1>24. CASE Stopped
  BY <1>24 DEF Stopped, Exit, Goto
<1>25. CASE Crash
  BY <1>25 DEF Crash, Exit, Goto
<1>26. CASE UNCHANGED vars
  BY <1>26 DEF vars
<1> QED
  BY <1>1, <1>2, <1>3, <1>4, <1>5, <1>6, <1>7, <1>8, <1>9, <1>10, <1>11, <1>12, <1>13,
      <1>14, <1>15, <1>16, <1>17, <1>18, <1>19, <1>20, <1>21, <1>22, <1>23, <1>24, <1>25,
      <1>26
     DEF Next, Worker, Publish, Startup

(***************************************************************************)
(* Types of the worker.                                                    *)
(***************************************************************************)
LEMMA WorkStep == IInv /\ [Next]_vars => WorkTypes'
<1> SUFFICES ASSUME IInv, [Next]_vars PROVE WorkTypes'
  OBVIOUS
<1> USE ImportAssumption, InodeFacts, TypeParts, LabelMembers
      DEF IInv, WorkTypes, RowInv, PlaceInv, AtJob, Refusal, jobVars, files, life, work,
          sweep, ghosts, bounds
<1>1. ASSUME NEW j \in Jobs, Create(j) PROVE WorkTypes'
  BY <1>1 DEF Create
<1>2. ASSUME NEW j \in Jobs, Cancel(j) PROVE WorkTypes'
  BY <1>2 DEF Cancel, Cancelable, Release
<1>3. ASSUME NEW j \in Jobs, Abort(j) PROVE WorkTypes'
  BY <1>3 DEF Abort
<1>4. CASE Claim
  BY <1>4 DEF Claim, Release, Goto
<1>5. CASE ReadBack
  BY <1>5 DEF ReadBack, Rest, NoFault, Fault, Goto
<1>6. CASE CreatePart
  BY <1>6 DEF CreatePart, Return, Goto
<1>7. CASE NamePart
  BY <1>7 DEF NamePart, Accepted, Return, Goto, NoFault, Fault
<1>8. CASE Download
  BY <1>8 DEF Download, Advance, Accepted, Return, Goto
<1>9. CASE Probe
  BY <1>9 DEF Probe, Advance, Accepted, Return, Goto
<1>10. CASE PrepareSaving
  BY <1>10 DEF PrepareSaving, Accepted, Return, Goto, TriesLeft, NamesTried
<1>11. CASE Link
  BY <1>11 DEF Link, Return, Goto
<1>12. CASE Unlink
  BY <1>12 DEF Unlink, Unpublished, Return, Goto, NoFault, Fault
<1>13. CASE Published
  BY <1>13 DEF Published, Unpublished, Return, Goto, NoFault, Fault
<1>14. CASE Finalize
  BY <1>14 DEF Finalize, Accepted, Release, Rest, Return, Goto
<1>15. CASE Settle
  BY <1>15 DEF Settle, LookUp, Glimpses, Artifacts, RemovesFinal, FinalExists, TempExists, Goto,
      NoFault, Fault
<1>16. CASE Remove
  BY <1>16 DEF Remove, Rest, Exit, Unpublished, Goto, NoFault, Fault
<1>17. CASE Cleaned
  BY <1>17 DEF Cleaned, Goto
<1>18. CASE Finish
  BY <1>18 DEF Finish, Outcome, Requeued, Release, Rest, Goto, NoFault, Fault
<1>19. CASE StartUp
  BY <1>19 DEF StartUp, Interrupted, Goto
<1>20. CASE Sweep
  BY <1>20 DEF Sweep, LookUp, Glimpses, Artifacts, RemovesFinal, FinalExists, TempExists, Goto,
      NoFault, Fault, FlagTypes
<1>21. CASE Recover
  <2>1. CASE NoFault /\ Goto("stray")
    BY <1>21, <2>1, RecoverEffect
  <2>2. CASE UNCHANGED <<jobVars, left, cleaned>> /\ Exit /\ Fault
    BY <1>21, <2>2 DEF Recover, Exit, Goto, Fault
  <2> QED
    BY <1>21, <2>1, <2>2 DEF Recover
<1>22. CASE RemoveStrays
  BY <1>22 DEF RemoveStrays, Rest, Exit, Goto, NoFault, Fault
<1>23. CASE Stop
  BY <1>23 DEF Stop
<1>24. CASE Stopped
  BY <1>24 DEF Stopped, Exit, Goto
<1>25. CASE Crash
  BY <1>25 DEF Crash, Exit, Goto
<1>26. CASE UNCHANGED vars
  BY <1>26 DEF vars
<1> QED
  BY <1>1, <1>2, <1>3, <1>4, <1>5, <1>6, <1>7, <1>8, <1>9, <1>10, <1>11, <1>12, <1>13,
      <1>14, <1>15, <1>16, <1>17, <1>18, <1>19, <1>20, <1>21, <1>22, <1>23, <1>24, <1>25,
      <1>26
     DEF Next, Worker, Publish, Startup

(***************************************************************************)
(* The place of the worker.                                                *)
(***************************************************************************)
LEMMA PlaceStep == IInv /\ [Next]_vars => PlaceInv'
<1> SUFFICES ASSUME IInv, [Next]_vars PROVE PlaceInv'
  OBVIOUS
<1> USE InodeFacts
      DEF IInv, TypeOK, PlaceInv, AtJob, Processing, StartLabels, Active, ActiveStates,
          jobVars, files, life, work, sweep, ghosts, bounds
<1>1. ASSUME NEW j \in Jobs, Create(j) PROVE PlaceInv'
  BY <1>1 DEF Create
<1>2. ASSUME NEW j \in Jobs, Cancel(j) PROVE PlaceInv'
  BY <1>2 DEF Cancel, Cancelable, Release
<1>3. ASSUME NEW j \in Jobs, Abort(j) PROVE PlaceInv'
  BY <1>3 DEF Abort
<1>4. CASE Claim
  BY <1>4 DEF Claim, Release, Goto
<1>5. CASE ReadBack
  BY <1>5 DEF ReadBack, Rest, NoFault, Fault, Goto
<1>6. CASE CreatePart
  BY <1>6 DEF CreatePart, Return, Goto
<1>7. CASE NamePart
  BY <1>7 DEF NamePart, Accepted, Return, Goto, NoFault, Fault
<1>8. CASE Download
  BY <1>8 DEF Download, Advance, Accepted, Return, Goto
<1>9. CASE Probe
  BY <1>9 DEF Probe, Advance, Accepted, Return, Goto
<1>10. CASE PrepareSaving
  BY <1>10 DEF PrepareSaving, Accepted, Return, Goto, TriesLeft, NamesTried
<1>11. CASE Link
  BY <1>11 DEF Link, Return, Goto
<1>12. CASE Unlink
  BY <1>12 DEF Unlink, Unpublished, Return, Goto, NoFault, Fault
<1>13. CASE Published
  BY <1>13 DEF Published, Unpublished, Return, Goto, NoFault, Fault
<1>14. CASE Finalize
  BY <1>14 DEF Finalize, Accepted, Release, Rest, Return, Goto
<1>15. CASE Settle
  BY <1>15 DEF Settle, LookUp, Glimpses, Artifacts, RemovesFinal, FinalExists, TempExists, Goto,
      NoFault, Fault
<1>16. CASE Remove
  <2>1. UNCHANGED state
    BY <1>16 DEF Remove
  <2>2. CASE Rest /\ started /\ UNCHANGED <<life, todo>>
    BY <1>16, <2>1, <2>2 DEF Remove, Rest, Goto
  <2>3. CASE Exit
    BY <1>16, <2>1, <2>3 DEF Remove, Exit, Goto
  <2>4. CASE UNCHANGED <<pc, job, life, todo>>
    BY <1>16, <2>1, <2>4 DEF Remove
  <2> QED
    BY <1>16, <2>2, <2>3, <2>4 DEF Remove
<1>17. CASE Cleaned
  BY <1>17 DEF Cleaned, Goto
<1>18. CASE Finish
  BY <1>18 DEF Finish, Outcome, Requeued, Release, Rest, Goto, NoFault, Fault
<1>19. CASE StartUp
  BY <1>19 DEF StartUp, Interrupted, Goto
<1>20. CASE Sweep
  BY <1>20 DEF Sweep, LookUp, Glimpses, Artifacts, RemovesFinal, FinalExists, TempExists, Goto,
      NoFault, Fault
<1>21. CASE Recover
  <2>1. CASE NoFault /\ Goto("stray")
    <3>1. \A j \in Jobs : ~Active(j)'
      BY <1>21, <2>1, RecoverEffect
    <3>2. pc = "recover" /\ pc' = "stray" /\ UNCHANGED <<started, todo>>
      BY <1>21, <2>1, RecoverEffect
    <3> QED
      BY <3>1, <3>2
  <2>2. CASE UNCHANGED <<jobVars, left, cleaned>> /\ Exit /\ Fault
    BY <1>21, <2>2 DEF Recover, Exit, Goto, Fault
  <2> QED
    BY <1>21, <2>1, <2>2 DEF Recover
<1>22. CASE RemoveStrays
  BY <1>22 DEF RemoveStrays, Rest, Exit, Goto, NoFault, Fault
<1>23. CASE Stop
  BY <1>23 DEF Stop
<1>24. CASE Stopped
  BY <1>24 DEF Stopped, Exit, Goto
<1>25. CASE Crash
  BY <1>25 DEF Crash, Exit, Goto
<1>26. CASE UNCHANGED vars
  BY <1>26 DEF vars
<1> QED
  BY <1>1, <1>2, <1>3, <1>4, <1>5, <1>6, <1>7, <1>8, <1>9, <1>10, <1>11, <1>12, <1>13,
      <1>14, <1>15, <1>16, <1>17, <1>18, <1>19, <1>20, <1>21, <1>22, <1>23, <1>24, <1>25,
      <1>26
     DEF Next, Worker, Publish, Startup

(***************************************************************************)
(* The attempts of a job.                                                  *)
(***************************************************************************)
LEMMA TryStep == IInv /\ [Next]_vars => TryInv'
<1> SUFFICES ASSUME IInv, [Next]_vars PROVE TryInv'
  OBVIOUS
<1> USE ImportAssumption, InodeFacts
      DEF IInv, TypeOK, TryInv, PlaceInv, AtJob, Processing, StartLabels, Active,
          ActiveStates, jobVars, files, life, work, sweep, ghosts, bounds
<1>1. ASSUME NEW j \in Jobs, Create(j) PROVE TryInv'
  BY <1>1 DEF Create
<1>2. ASSUME NEW j \in Jobs, Cancel(j) PROVE TryInv'
  BY <1>2 DEF Cancel, Cancelable, Release
<1>3. ASSUME NEW j \in Jobs, Abort(j) PROVE TryInv'
  BY <1>3 DEF Abort
<1>4. CASE Claim
  <2>1. started /\ ~stopping /\ UNCHANGED <<crashes, stops, started, stopping>>
    BY <1>4 DEF Claim
  <2>4. PICK j \in Jobs : /\ state[j] = "queued" /\ state'[j] = "downloading"
        /\ try'[j] = try[j] + 1 /\ try[j] \in Nat
        /\ \A k \in Jobs \ {j} : state'[k] = state[k] /\ try'[k] = try[k]
    BY <1>4, ClaimEffect
  <2>5. try[j] <= crashes + stops /\ crashes \in Nat /\ stops \in Nat
    BY <2>4
  <2> QED
    BY <2>1, <2>4, <2>5
<1>5. CASE ReadBack
  BY <1>5 DEF ReadBack, Rest, NoFault, Fault, Goto
<1>6. CASE CreatePart
  BY <1>6 DEF CreatePart, Return, Goto
<1>7. CASE NamePart
  BY <1>7 DEF NamePart, Accepted, Return, Goto, NoFault, Fault
<1>8. CASE Download
  BY <1>8 DEF Download, Advance, Accepted, Return, Goto
<1>9. CASE Probe
  BY <1>9 DEF Probe, Advance, Accepted, Return, Goto
<1>10. CASE PrepareSaving
  BY <1>10 DEF PrepareSaving, Accepted, Return, Goto, TriesLeft, NamesTried
<1>11. CASE Link
  BY <1>11 DEF Link, Return, Goto
<1>12. CASE Unlink
  BY <1>12 DEF Unlink, Unpublished, Return, Goto, NoFault, Fault
<1>13. CASE Published
  BY <1>13 DEF Published, Unpublished, Return, Goto, NoFault, Fault
<1>14. CASE Finalize
  BY <1>14 DEF Finalize, Accepted, Release, Rest, Return, Goto
<1>15. CASE Settle
  BY <1>15 DEF Settle, LookUp, Glimpses, Artifacts, RemovesFinal, FinalExists, TempExists, Goto,
      NoFault, Fault
<1>16. CASE Remove
  BY <1>16 DEF Remove, Rest, Exit, Unpublished, Goto, NoFault, Fault
<1>17. CASE Cleaned
  BY <1>17 DEF Cleaned, Goto
<1>18. CASE Finish
  BY <1>18 DEF Finish, Outcome, Requeued, Release, Rest, Goto, NoFault, Fault
<1>19. CASE StartUp
  BY <1>19 DEF StartUp, Interrupted, Goto
<1>20. CASE Sweep
  BY <1>20 DEF Sweep, LookUp, Glimpses, Artifacts, RemovesFinal, FinalExists, TempExists, Goto,
      NoFault, Fault
<1>21. CASE Recover
  <2>1. CASE NoFault /\ Goto("stray")
    BY <1>21, <2>1, RecoverEffect
  <2>2. CASE UNCHANGED <<jobVars, left, cleaned>> /\ Exit /\ Fault
    BY <1>21, <2>2 DEF Recover, Exit, Goto, Fault
  <2> QED
    BY <1>21, <2>1, <2>2 DEF Recover
<1>22. CASE RemoveStrays
  BY <1>22 DEF RemoveStrays, Rest, Exit, Goto, NoFault, Fault
<1>23. CASE Stop
  BY <1>23 DEF Stop
<1>24. CASE Stopped
  BY <1>24 DEF Stopped, Exit, Goto
<1>25. CASE Crash
  BY <1>25 DEF Crash, Exit, Goto
<1>26. CASE UNCHANGED vars
  BY <1>26 DEF vars
<1> QED
  BY <1>1, <1>2, <1>3, <1>4, <1>5, <1>6, <1>7, <1>8, <1>9, <1>10, <1>11, <1>12, <1>13,
      <1>14, <1>15, <1>16, <1>17, <1>18, <1>19, <1>20, <1>21, <1>22, <1>23, <1>24, <1>25,
      <1>26
     DEF Next, Worker, Publish, Startup

(***************************************************************************)
(* Cancellations.                                                          *)
(***************************************************************************)
LEMMA CancelStep == IInv /\ [Next]_vars => CancelInv'
<1> SUFFICES ASSUME IInv, [Next]_vars PROVE CancelInv'
  OBVIOUS
<1> USE InodeFacts
      DEF IInv, TypeOK, CancelInv, PlaceInv, AtJob, Processing, StartLabels, Active,
          ActiveStates, jobVars, files, life, work, sweep, ghosts, bounds
<1>1. ASSUME NEW j \in Jobs, Create(j) PROVE CancelInv'
  BY <1>1 DEF Create
<1>2. ASSUME NEW j \in Jobs, Cancel(j) PROVE CancelInv'
  BY <1>2 DEF Cancel, Cancelable, Release
<1>3. ASSUME NEW j \in Jobs, Abort(j) PROVE CancelInv'
  BY <1>3 DEF Abort
<1>4. CASE Claim
  BY <1>4 DEF Claim, Release, Goto
<1>5. CASE ReadBack
  BY <1>5 DEF ReadBack, Rest, NoFault, Fault, Goto
<1>6. CASE CreatePart
  BY <1>6 DEF CreatePart, Return, Goto
<1>7. CASE NamePart
  BY <1>7 DEF NamePart, Accepted, Return, Goto, NoFault, Fault
<1>8. CASE Download
  BY <1>8 DEF Download, Advance, Accepted, Return, Goto
<1>9. CASE Probe
  BY <1>9 DEF Probe, Advance, Accepted, Return, Goto
<1>10. CASE PrepareSaving
  BY <1>10 DEF PrepareSaving, Accepted, Return, Goto, TriesLeft, NamesTried
<1>11. CASE Link
  BY <1>11 DEF Link, Return, Goto
<1>12. CASE Unlink
  BY <1>12 DEF Unlink, Unpublished, Return, Goto, NoFault, Fault
<1>13. CASE Published
  BY <1>13 DEF Published, Unpublished, Return, Goto, NoFault, Fault
<1>14. CASE Finalize
  BY <1>14 DEF Finalize, Accepted, Release, Rest, Return, Goto
<1>15. CASE Settle
  BY <1>15 DEF Settle, LookUp, Glimpses, Artifacts, RemovesFinal, FinalExists, TempExists, Goto,
      NoFault, Fault
<1>16. CASE Remove
  BY <1>16 DEF Remove, Rest, Exit, Unpublished, Goto, NoFault, Fault
<1>17. CASE Cleaned
  BY <1>17 DEF Cleaned, Goto
<1>18. CASE Finish
  BY <1>18 DEF Finish, Outcome, Requeued, Release, Rest, Goto, NoFault, Fault
<1>19. CASE StartUp
  BY <1>19 DEF StartUp, Interrupted, Goto
<1>20. CASE Sweep
  BY <1>20 DEF Sweep, LookUp, Glimpses, Artifacts, RemovesFinal, FinalExists, TempExists, Goto,
      NoFault, Fault
<1>21. CASE Recover
  <2>1. CASE NoFault /\ Goto("stray")
    BY <1>21, <2>1, RecoverEffect
  <2>2. CASE UNCHANGED <<jobVars, left, cleaned>> /\ Exit /\ Fault
    BY <1>21, <2>2 DEF Recover, Exit, Goto, Fault
  <2> QED
    BY <1>21, <2>1, <2>2 DEF Recover
<1>22. CASE RemoveStrays
  BY <1>22 DEF RemoveStrays, Rest, Exit, Goto, NoFault, Fault
<1>23. CASE Stop
  BY <1>23 DEF Stop
<1>24. CASE Stopped
  BY <1>24 DEF Stopped, Exit, Goto
<1>25. CASE Crash
  BY <1>25 DEF Crash, Exit, Goto
<1>26. CASE UNCHANGED vars
  BY <1>26 DEF vars
<1> QED
  BY <1>1, <1>2, <1>3, <1>4, <1>5, <1>6, <1>7, <1>8, <1>9, <1>10, <1>11, <1>12, <1>13,
      <1>14, <1>15, <1>16, <1>17, <1>18, <1>19, <1>20, <1>21, <1>22, <1>23, <1>24, <1>25,
      <1>26
     DEF Next, Worker, Publish, Startup

(***************************************************************************)
(* A job is completed exactly when it has put one video into the catalog.  *)
(***************************************************************************)
LEMMA OnceStep == IInv /\ [Next]_vars => CompletedOnce'
<1> SUFFICES ASSUME IInv, [Next]_vars PROVE CompletedOnce'
  OBVIOUS
<1> USE InodeFacts
      DEF IInv, CompletedOnce, VideosOf, AtJob, Processing, Active, ActiveStates, jobVars,
          files, life, work, sweep, ghosts, bounds
<1>1. ASSUME NEW j \in Jobs, Create(j) PROVE CompletedOnce'
  BY <1>1 DEF Create
<1>2. ASSUME NEW j \in Jobs, Cancel(j) PROVE CompletedOnce'
  <2>1. CASE state[j] = "queued" /\ Release(j, "canceled")
    <3>1. "canceled" \in JobStates /\ rows' = rows
      BY <1>2 DEF Cancel, JobStates, TerminalStates
    <3>2. \A k \in Jobs : state'[k] = "completed" <=> state[k] = "completed"
      BY <2>1, <3>1, ReleaseEffect
    <3> QED
      BY <3>1, <3>2
  <2>2. CASE UNCHANGED <<state, rows>>
    BY <2>2
  <2> QED
    BY <1>2, <2>1, <2>2 DEF Cancel
<1>3. ASSUME NEW j \in Jobs, Abort(j) PROVE CompletedOnce'
  BY <1>3 DEF Abort
<1>4. CASE Claim
  <2>1. rows' = rows /\ \A k \in Jobs : state'[k] = "completed" <=> state[k] = "completed"
    BY <1>4, ClaimEffect DEF Claim
  <2> QED
    BY <2>1
<1>5. CASE ReadBack
  BY <1>5 DEF ReadBack, Rest, NoFault, Fault, Goto
<1>6. CASE CreatePart
  BY <1>6 DEF CreatePart, Return, Goto
<1>7. CASE NamePart
  BY <1>7 DEF NamePart, Accepted, Return, Goto, NoFault, Fault
<1>8. CASE Download
  <2>1. rows' = rows /\ \A k \in Jobs : state'[k] = "completed" <=> state[k] = "completed"
    BY <1>8 DEF PlaceInv, Download, Advance, TypeOK
  <2> QED
    BY <2>1
<1>9. CASE Probe
  <2>1. rows' = rows /\ \A k \in Jobs : state'[k] = "completed" <=> state[k] = "completed"
    BY <1>9 DEF PlaceInv, Probe, Advance, TypeOK
  <2> QED
    BY <2>1
<1>10. CASE PrepareSaving
  BY <1>10 DEF PrepareSaving, Accepted, Return, Goto, TriesLeft, NamesTried
<1>11. CASE Link
  BY <1>11 DEF Link, Return, Goto
<1>12. CASE Unlink
  BY <1>12 DEF Unlink, Unpublished, Return, Goto, NoFault, Fault
<1>13. CASE Published
  BY <1>13 DEF Published, Unpublished, Return, Goto, NoFault, Fault
<1>14. CASE Finalize
  <2>1. CASE Release(job, "completed") /\ rows' = rows \cup {<<finalFile[job], Part(job)>>}
    <3>1. job \in Jobs /\ Active(job) /\ Part(job) \in InodesOf(job)
      BY <1>14, PartFact DEF Finalize
    <3>2. VideosOf(job) = {}
      BY <3>1
    <3>3. "completed" \in JobStates
      BY DEF JobStates, TerminalStates
    <3>4. state'[job] = "completed" /\ \A k \in Jobs \ {job} : state'[k] = state[k]
      BY <2>1, <3>1, <3>3, ReleaseEffect
    <3>5. {row \in rows' : row[2] \in InodesOf(job)} = {<<finalFile[job], Part(job)>>}
      BY <2>1, <3>1, <3>2
    <3>6. \A k \in Jobs \ {job} : 
            {row \in rows' : row[2] \in InodesOf(k)} = {row \in rows : row[2] \in InodesOf(k)}
      BY <2>1, <3>1
    <3>7. <<finalFile[job], Part(job)>> \in rows'
      BY <2>1
    <3> QED
      BY <3>1, <3>4, <3>5, <3>6, <3>7
  <2>2. CASE UNCHANGED <<state, rows>>
    BY <2>2
  <2> QED
    BY <1>14, <2>1, <2>2 DEF Finalize
<1>15. CASE Settle
  BY <1>15 DEF Settle, LookUp, Glimpses, Artifacts, RemovesFinal, FinalExists, TempExists, Goto,
      NoFault, Fault
<1>16. CASE Remove
  BY <1>16 DEF Remove, Rest, Exit, Unpublished, Goto, NoFault, Fault
<1>17. CASE Cleaned
  BY <1>17 DEF Cleaned, Goto
<1>18. CASE Finish
  <2>1. job \in Jobs /\ state[job] # "completed" /\ rows' = rows
        /\ Outcome \in JobStates \ {"completed"}
    BY <1>18 DEF Finish, PlaceInv, Outcome, Requeued, JobStates, TerminalStates
  <2>2. CASE Release(job, Outcome)
    <3>1. \A k \in Jobs : state'[k] = "completed" <=> state[k] = "completed"
      BY <2>1, <2>2, ReleaseEffect
    <3> QED
      BY <2>1, <3>1
  <2>3. CASE UNCHANGED state
    BY <2>1, <2>3
  <2> QED
    BY <1>18, <2>2, <2>3 DEF Finish, jobVars
<1>19. CASE StartUp
  BY <1>19 DEF StartUp, Interrupted, Goto
<1>20. CASE Sweep
  BY <1>20 DEF Sweep, LookUp, Glimpses, Artifacts, RemovesFinal, FinalExists, TempExists, Goto,
      NoFault, Fault
<1>21. CASE Recover
  <2>1. CASE NoFault /\ Goto("stray")
    BY <1>21, <2>1, RecoverEffect
  <2>2. CASE UNCHANGED <<jobVars, left, cleaned>> /\ Exit /\ Fault
    BY <1>21, <2>2 DEF Recover, Exit, Goto, Fault
  <2> QED
    BY <1>21, <2>1, <2>2 DEF Recover
<1>22. CASE RemoveStrays
  BY <1>22 DEF RemoveStrays, Rest, Exit, Goto, NoFault, Fault
<1>23. CASE Stop
  BY <1>23 DEF Stop
<1>24. CASE Stopped
  BY <1>24 DEF Stopped, Exit, Goto
<1>25. CASE Crash
  BY <1>25 DEF Crash, Exit, Goto
<1>26. CASE UNCHANGED vars
  BY <1>26 DEF vars
<1> QED
  BY <1>1, <1>2, <1>3, <1>4, <1>5, <1>6, <1>7, <1>8, <1>9, <1>10, <1>11, <1>12, <1>13,
      <1>14, <1>15, <1>16, <1>17, <1>18, <1>19, <1>20, <1>21, <1>22, <1>23, <1>24, <1>25,
      <1>26
     DEF Next, Worker, Publish, Startup

(***************************************************************************)
(* The row of the job at hand.                                             *)
(***************************************************************************)
LEMMA RowStep == IInv /\ [Next]_vars => RowInv'
<1> SUFFICES ASSUME IInv, [Next]_vars PROVE RowInv'
  OBVIOUS
<1> USE ImportAssumption, NameAssumption, InodeFacts, PartFact
      DEF IInv, TypeOK, RowInv, PlaceInv, AtJob, Processing, StartLabels, Unnamed,
          TempNamed, PartThere, Part, jobVars, files, life, work, sweep, ghosts, bounds
<1>1. ASSUME NEW j \in Jobs, Create(j) PROVE RowInv'
  BY <1>1 DEF Create
<1>2. ASSUME NEW j \in Jobs, Cancel(j) PROVE RowInv'
  <2>1. CASE state[j] = "queued" /\ Release(j, "canceled")
    <3>1. "canceled" \in JobStates /\ (pc \in AtJob => job # j)
      BY <2>1 DEF JobStates, TerminalStates, Active, ActiveStates
    <3>2. \A k \in Jobs : tempFile'[k] \in InodesOf(k) \cup {NoFile}
      BY <2>1, <3>1, ReleaseEffect
    <3>3. pc \in AtJob => tempFile'[job] = tempFile[job] /\ finalFile'[job] = finalFile[job]
      <4>1. pc \in AtJob => job \in Jobs \ {j}
        BY <3>1
      <4> QED
        BY <2>1, <3>1, <4>1, ReleaseEffect
    <3> QED
      BY <1>2, <3>2, <3>3 DEF Cancel
  <2>2. CASE UNCHANGED <<tempFile, finalFile>>
    BY <1>2, <2>2 DEF Cancel
  <2> QED
    BY <1>2, <2>1, <2>2 DEF Cancel
<1>3. ASSUME NEW j \in Jobs, Abort(j) PROVE RowInv'
  BY <1>3 DEF Abort
<1>4. CASE Claim
  BY <1>4 DEF Claim, Release, Goto
<1>5. CASE ReadBack
  BY <1>5 DEF ReadBack, Rest, NoFault, Fault, Goto
<1>6. CASE CreatePart
  BY <1>6 DEF CreatePart, Return, Goto
<1>7. CASE NamePart
  BY <1>7 DEF NamePart, Accepted, Return, Goto, NoFault, Fault
<1>8. CASE Download
  BY <1>8 DEF Download, Advance, Accepted, Return, Goto
<1>9. CASE Probe
  BY <1>9 DEF Probe, Advance, Accepted, Return, Goto
<1>10. CASE PrepareSaving
  BY <1>10 DEF PrepareSaving, Accepted, Return, Goto, TriesLeft, NamesTried
<1>11. CASE Link
  BY <1>11 DEF Link, Return, Goto
<1>12. CASE Unlink
  BY <1>12 DEF Unlink, Unpublished, Return, Goto, NoFault, Fault
<1>13. CASE Published
  BY <1>13 DEF Published, Unpublished, Return, Goto, NoFault, Fault
<1>14. CASE Finalize
  BY <1>14 DEF Finalize, Accepted, Release, Rest, Return, Goto
<1>15. CASE Settle
  BY <1>15 DEF Settle, LookUp, Glimpses, Artifacts, RemovesFinal, FinalExists, TempExists, Goto,
      NoFault, Fault
<1>16. CASE Remove
  BY <1>16 DEF Remove, Rest, Exit, Unpublished, Goto, NoFault, Fault
<1>17. CASE Cleaned
  BY <1>17 DEF Cleaned, Goto
<1>18. CASE Finish
  BY <1>18 DEF Finish, Outcome, Requeued, Release, Rest, Goto, NoFault, Fault
<1>19. CASE StartUp
  BY <1>19 DEF StartUp, Interrupted, Goto
<1>20. CASE Sweep
  BY <1>20 DEF Sweep, LookUp, Glimpses, Artifacts, RemovesFinal, FinalExists, TempExists, Goto,
      NoFault, Fault
<1>21. CASE Recover
  <2>1. CASE NoFault /\ Goto("stray")
    BY <1>21, <2>1, RecoverEffect
  <2>2. CASE UNCHANGED <<jobVars, left, cleaned>> /\ Exit /\ Fault
    BY <1>21, <2>2 DEF Recover, Exit, Goto, Fault
  <2> QED
    BY <1>21, <2>1, <2>2 DEF Recover
<1>22. CASE RemoveStrays
  BY <1>22 DEF RemoveStrays, Rest, Exit, Goto, NoFault, Fault
<1>23. CASE Stop
  BY <1>23 DEF Stop
<1>24. CASE Stopped
  BY <1>24 DEF Stopped, Exit, Goto
<1>25. CASE Crash
  BY <1>25 DEF Crash, Exit, Goto
<1>26. CASE UNCHANGED vars
  BY <1>26 DEF vars
<1> QED
  BY <1>1, <1>2, <1>3, <1>4, <1>5, <1>6, <1>7, <1>8, <1>9, <1>10, <1>11, <1>12, <1>13,
      <1>14, <1>15, <1>16, <1>17, <1>18, <1>19, <1>20, <1>21, <1>22, <1>23, <1>24, <1>25,
      <1>26
     DEF Next, Worker, Publish, Startup

(***************************************************************************)
(* Files that are not catalogued.                                          *)
(***************************************************************************)
LEMMA FileStep == IInv /\ [Next]_vars => FileInv'
<1> SUFFICES ASSUME IInv, [Next]_vars PROVE FileInv'
  OBVIOUS
<1> USE ImportAssumption, NameAssumption, InodeFacts, PartFact
      DEF IInv, TypeOK, RowInv, PlaceInv, FileInv, FilesOf, Unlinked, AtJob, Processing,
          StartLabels, Unnamed, TempNamed, PartThere, Active, ActiveStates, jobVars, files,
          life, work, sweep, ghosts, bounds
<1>1. ASSUME NEW j \in Jobs, Create(j) PROVE FileInv'
  BY <1>1 DEF Create
<1>2. ASSUME NEW j \in Jobs, Cancel(j) PROVE FileInv'
  BY <1>2 DEF Cancel, Cancelable, Release
<1>3. ASSUME NEW j \in Jobs, Abort(j) PROVE FileInv'
  BY <1>3 DEF Abort
<1>4. CASE Claim
  <2>1. PICK j \in Jobs : /\ state[j] = "queued" /\ job' = j
          /\ \A k \in Jobs \ {j} :
               state'[k] = state[k] /\ finalFile'[k] = finalFile[k] /\ tempFile'[k] = tempFile[k]
    BY <1>4, ClaimEffect
  <2>2. UNCHANGED <<rows, dir, blind, started>> /\ pc' = "claimed"
    BY <1>4 DEF Claim, Goto
  <2>3. ~blind => FilesOf(j) = {}
    BY <2>1, NotCatalogued
  <2> QED
    BY <2>1, <2>2, <2>3
<1>5. CASE ReadBack
  BY <1>5 DEF ReadBack, Rest, NoFault, Fault, Goto
<1>6. CASE CreatePart
  BY <1>6 DEF CreatePart, Return, Goto
<1>7. CASE NamePart
  BY <1>7 DEF NamePart, Accepted, Return, Goto, NoFault, Fault
<1>8. CASE Download
  BY <1>8 DEF Download, Advance, Accepted, Return, Goto
<1>9. CASE Probe
  BY <1>9 DEF Probe, Advance, Accepted, Return, Goto
<1>10. CASE PrepareSaving
  BY <1>10 DEF PrepareSaving, Accepted, Return, Goto, TriesLeft, NamesTried
<1>11. CASE Link
  BY <1>11 DEF Link, Return, Goto
<1>12. CASE Unlink
  BY <1>12 DEF Unlink, Unpublished, Return, Goto, NoFault, Fault
<1>13. CASE Published
  BY <1>13 DEF Published, Unpublished, Return, Goto, NoFault, Fault
<1>14. CASE Finalize
  BY <1>14 DEF Finalize, Accepted, Release, Rest, Return, Goto
<1>15. CASE Settle
  <2>1. job \in Jobs /\ Active(job) /\ pc = "settle" /\ started /\ UNCHANGED <<jobVars,
      rows, dir, job, todo, life>>
    BY <1>15 DEF Settle
  <2>2. \/ pc' = "clean" /\ blind' = blind /\ doomed' = Artifacts(job)
        \/ blind' = TRUE
    BY <1>15 DEF Settle, LookUp, Goto
  <2>3. ~blind /\ FilesOf(job) # {} => "final" \in Artifacts(job)
    BY <2>1, FoundByCleanup
  <2> QED
    BY <2>1, <2>2, <2>3
<1>16. CASE Remove
  <2>1. CASE "final" \in doomed /\ dir' = Unpublished /\ doomed' = doomed \ {"final"}
              /\ UNCHANGED <<pc, job, life, todo, parts, cleaned>>
    <3>1. job \in Jobs /\ Active(job) /\ finalFile[job] \in Names /\ pc = "clean"
            /\ UNCHANGED <<jobVars, rows, blind>>
      BY <1>16, <2>1, RemoveEffect
    <3>2. \A n \in Names : dir'[n] = IF n = finalFile[job] THEN NoFile ELSE dir[n]
      BY <2>1, <3>1 DEF Unpublished
    <3>3. ~blind => \A n \in Names : dir'[n] \notin InodesOf(job)
      BY <3>1, <3>2, NotCatalogued
    <3> QED
      BY <2>1, <3>1, <3>2, <3>3
  <2>2. CASE "final" \notin doomed /\ parts' = parts \ {tempFile[job]} /\ doomed' = {}
              /\ cleaned' = cleaned \cup {job} /\ UNCHANGED <<dir, pc, job, life, todo>>
    BY <1>16, <2>2, RemoveEffect
  <2>3. CASE started /\ pc' = "idle" /\ job' = 0 /\ UNCHANGED <<files, cleaned, life, todo>>
    BY <1>16, <2>3, RemoveEffect
  <2>4. CASE ~started /\ started' = FALSE /\ pc' = "down" /\ job' = 0 /\ UNCHANGED <<files,
      cleaned>>
    BY <1>16, <2>4, RemoveEffect
  <2> QED
    BY <1>16, <2>1, <2>2, <2>3, <2>4, RemoveEffect
<1>17. CASE Cleaned
  BY <1>17 DEF Cleaned, Goto
<1>18. CASE Finish
  BY <1>18 DEF Finish, Outcome, Requeued, Release, Rest, Goto, NoFault, Fault
<1>19. CASE StartUp
  BY <1>19 DEF StartUp, Interrupted, Goto
<1>20. CASE Sweep
  <2>1. ~started /\ pc = "sweep" /\ UNCHANGED <<jobVars, rows, dir, life>>
    BY <1>20 DEF Sweep
  <2>2. CASE todo = {} /\ pc' = "recover" /\ UNCHANGED <<todo, blind>>
    BY <2>1, <2>2
  <2>3. ASSUME NEW j \in todo, job' = j, todo' = todo \ {j}, pc' = "clean",
               (blind' = blind /\ doomed' = Artifacts(j)) \/ blind' = TRUE
        PROVE  FileInv'
    <3>1. j \in Jobs /\ Active(j)
      BY <2>1, <2>3
    <3>2. ~blind /\ FilesOf(j) # {} => "final" \in Artifacts(j)
      BY <3>1, FoundByCleanup
    <3> QED
      BY <2>1, <2>3, <3>1, <3>2
  <2> QED
    BY <1>20, <2>2, <2>3 DEF Sweep, LookUp, Goto
<1>21. CASE Recover
  <2>1. CASE NoFault /\ Goto("stray")
    BY <1>21, <2>1, RecoverEffect
  <2>2. CASE UNCHANGED <<jobVars, left, cleaned>> /\ Exit /\ Fault
    BY <1>21, <2>2 DEF Recover, Exit, Goto, Fault
  <2> QED
    BY <1>21, <2>1, <2>2 DEF Recover
<1>22. CASE RemoveStrays
  BY <1>22 DEF RemoveStrays, Rest, Exit, Goto, NoFault, Fault
<1>23. CASE Stop
  BY <1>23 DEF Stop
<1>24. CASE Stopped
  BY <1>24 DEF Stopped, Exit, Goto
<1>25. CASE Crash
  BY <1>25 DEF Crash, Exit, Goto
<1>26. CASE UNCHANGED vars
  BY <1>26 DEF vars
<1> QED
  BY <1>1, <1>2, <1>3, <1>4, <1>5, <1>6, <1>7, <1>8, <1>9, <1>10, <1>11, <1>12, <1>13,
      <1>14, <1>15, <1>16, <1>17, <1>18, <1>19, <1>20, <1>21, <1>22, <1>23, <1>24, <1>25,
      <1>26
     DEF Next, Worker, Publish, Startup

(***************************************************************************)
(* The names of jobs whose part is gone.                                   *)
(***************************************************************************)
LEMMA OwnStep == IInv /\ [Next]_vars => OwnInv'
<1> SUFFICES ASSUME IInv, [Next]_vars PROVE OwnInv'
  OBVIOUS
<1> USE ImportAssumption, NameAssumption, InodeFacts, PartFact
      DEF IInv, TypeOK, RowInv, PlaceInv, OwnInv, PartGone, AtJob, Processing, StartLabels,
          Unnamed, TempNamed, PartThere, Active, ActiveStates, jobVars, files, life, work,
          sweep, ghosts, bounds
<1>1. ASSUME NEW j \in Jobs, Create(j) PROVE OwnInv'
  BY <1>1 DEF Create
<1>2. ASSUME NEW j \in Jobs, Cancel(j) PROVE OwnInv'
  BY <1>2 DEF Cancel, Cancelable, Release
<1>3. ASSUME NEW j \in Jobs, Abort(j) PROVE OwnInv'
  BY <1>3 DEF Abort
<1>4. CASE Claim
  BY <1>4 DEF Claim, Release, Goto
<1>5. CASE ReadBack
  BY <1>5 DEF ReadBack, Rest, NoFault, Fault, Goto
<1>6. CASE CreatePart
  BY <1>6 DEF CreatePart, Return, Goto
<1>7. CASE NamePart
  BY <1>7 DEF NamePart, Accepted, Return, Goto, NoFault, Fault
<1>8. CASE Download
  BY <1>8 DEF Download, Advance, Accepted, Return, Goto
<1>9. CASE Probe
  BY <1>9 DEF Probe, Advance, Accepted, Return, Goto
<1>10. CASE PrepareSaving
  BY <1>10 DEF PrepareSaving, Accepted, Return, Goto, TriesLeft, NamesTried
<1>11. CASE Link
  BY <1>11 DEF Link, Return, Goto
<1>12. CASE Unlink
  BY <1>12 DEF Unlink, Unpublished, Return, Goto, NoFault, Fault
<1>13. CASE Published
  BY <1>13 DEF Published, Unpublished, Return, Goto, NoFault, Fault
<1>14. CASE Finalize
  BY <1>14 DEF Finalize, Accepted, Release, Rest, Return, Goto
<1>15. CASE Settle
  BY <1>15 DEF Settle, LookUp, Glimpses, Artifacts, RemovesFinal, FinalExists, TempExists, Goto,
      NoFault, Fault
<1>16. CASE Remove
  <2>1. CASE "final" \in doomed /\ dir' = Unpublished /\ doomed' = doomed \ {"final"}
              /\ UNCHANGED <<pc, job, life, todo, parts, cleaned>>
    <3>1. job \in Jobs /\ Active(job) /\ finalFile[job] \in Names /\ pc = "clean"
            /\ UNCHANGED <<jobVars, blind>>
      BY <1>16, <2>1, RemoveEffect
    <3>2. \A n \in Names : dir'[n] = IF n = finalFile[job] THEN NoFile ELSE dir[n]
      BY <2>1, <3>1 DEF Unpublished
    <3> QED
      BY <2>1, <3>1, <3>2
  <2>2. CASE "final" \notin doomed /\ parts' = parts \ {tempFile[job]} /\ doomed' = {}
              /\ cleaned' = cleaned \cup {job} /\ UNCHANGED <<dir, pc, job, life, todo>>
    <3>1. job \in Jobs /\ pc = "clean"
            /\ UNCHANGED <<jobVars, blind>>
      BY <1>16, <2>2, RemoveEffect
    <3>2. \A k \in Jobs \ {job} : tempFile[k] \in parts' <=> tempFile[k] \in parts
      BY <2>2, <3>1
    <3> QED
      BY <2>2, <3>1, <3>2
  <2>3. CASE started /\ pc' = "idle" /\ job' = 0 /\ UNCHANGED <<files, cleaned, life, todo>>
    <3>1. job \in Jobs /\ pc = "clean"
            /\ UNCHANGED <<jobVars, blind>>
            /\ doomed # {} /\ doomed \subseteq {"final", "temp"}
      BY <1>16, <2>3, RemoveEffect
    <3>2. CASE "final" \in doomed
      BY <2>3, <3>1, <3>2
    <3>3. CASE "temp" \in doomed
      BY <2>3, <3>1, <3>3
    <3>4. "final" \in doomed \/ "temp" \in doomed
      BY <3>1, DoomedParts
    <3> QED
      BY <3>2, <3>3, <3>4
  <2>4. CASE ~started /\ started' = FALSE /\ pc' = "down" /\ job' = 0 /\ UNCHANGED <<files,
      cleaned>>
    BY <1>16, <2>4, RemoveEffect
  <2> QED
    BY <1>16, <2>1, <2>2, <2>3, <2>4, RemoveEffect
<1>17. CASE Cleaned
  BY <1>17 DEF Cleaned, Goto
<1>18. CASE Finish
  BY <1>18 DEF Finish, Outcome, Requeued, Release, Rest, Goto, NoFault, Fault
<1>19. CASE StartUp
  BY <1>19 DEF StartUp, Interrupted, Goto
<1>20. CASE Sweep
  BY <1>20 DEF Sweep, LookUp, Glimpses, Artifacts, RemovesFinal, FinalExists, TempExists, Goto,
      NoFault, Fault
<1>21. CASE Recover
  <2>1. CASE NoFault /\ Goto("stray")
    BY <1>21, <2>1, RecoverEffect
  <2>2. CASE UNCHANGED <<jobVars, left, cleaned>> /\ Exit /\ Fault
    BY <1>21, <2>2 DEF Recover, Exit, Goto, Fault
  <2> QED
    BY <1>21, <2>1, <2>2 DEF Recover
<1>22. CASE RemoveStrays
  BY <1>22 DEF RemoveStrays, Rest, Exit, Goto, NoFault, Fault
<1>23. CASE Stop
  BY <1>23 DEF Stop
<1>24. CASE Stopped
  BY <1>24 DEF Stopped, Exit, Goto
<1>25. CASE Crash
  BY <1>25 DEF Crash, Exit, Goto
<1>26. CASE UNCHANGED vars
  BY <1>26 DEF vars
<1> QED
  BY <1>1, <1>2, <1>3, <1>4, <1>5, <1>6, <1>7, <1>8, <1>9, <1>10, <1>11, <1>12, <1>13,
      <1>14, <1>15, <1>16, <1>17, <1>18, <1>19, <1>20, <1>21, <1>22, <1>23, <1>24, <1>25,
      <1>26
     DEF Next, Worker, Publish, Startup


\* Every step keeps the invariant.
LEMMA NextInv == IInv /\ [Next]_vars => IInv'
<1> SUFFICES ASSUME IInv, [Next]_vars PROVE IInv'
  OBVIOUS
<1>1. TypeOK'
  <2>1. DataTypes' /\ FlagTypes' /\ WorkTypes'
    BY DataStep, FlagStep, WorkStep
  <2> QED
    BY <2>1, Zenon DEF TypeOK, DataTypes, FlagTypes, WorkTypes
<1> QED
  BY <1>1, PlaceStep, RowStep, TryStep, OnceStep, CancelStep, FileStep, OwnStep DEF IInv

-----------------------------------------------------------------------------
(* The theorems.                                                           *)

\* The inductive invariant: at every place of the worker, and wherever the
\* process may have died, the row of a job tells what the directory holds of it.
THEOREM QueueInvariant == Spec => []IInv
BY InitInv, NextInv, PTL DEF Spec

\* The types of rows, files and the worker, for any number of jobs; a job is never
\* claimed more often than the process was started.
THEOREM QueueTypeCorrect == Spec => []TypeOK
<1>1. IInv => TypeOK
  BY DEF IInv
<1> QED
  BY <1>1, QueueInvariant, PTL

\* A job yields one video if it is completed and none if it is not, however often
\* it was interrupted (manager.go process, catalog FinalizeRemoteUpload).
THEOREM JobsCompleteOnce == Spec => []CompletedOnce
<1>1. IInv => CompletedOnce
  BY DEF IInv
<1> QED
  BY <1>1, QueueInvariant, PTL

\* An accepted cancellation holds through shutdowns and restarts (catalog
\* CancelRemoteUploadJob, RequeueRemoteUploadOnShutdown, RecoverRemoteUploadJobs).
THEOREM CancellationsHold == Spec => []CancelHolds
<1>1. IInv => CancelHolds
  BY DEF IInv, CancelInv, CancelHolds, CompletedOnce, Active, ActiveStates, TypeOK
<1> QED
  BY <1>1, QueueInvariant, PTL

\* A published file is catalogued or named by a job that will be cleaned up
\* (manager.go publishFile, cleanupArtifactRef, Start).
THEOREM NoFileIsOrphaned == Spec => []NoOrphan
<1>1. IInv => NoOrphan
  BY DEF IInv, FileInv, NoOrphan
<1> QED
  BY <1>1, QueueInvariant, PTL

(***************************************************************************)
(* The names that steps free: publishFile frees that of the inode it has   *)
(* just linked, a first cleanup that of an inode of the job.               *)
(***************************************************************************)
LEMMA FirstCleanupStep ==
  ASSUME IInv, [Next]_vars, ~blind, NEW row \in rows,
         dir[row[1]] = row[2], dir'[row[1]] # row[2]
  PROVE  pc = "clean" /\ job \in cleaned
<1> USE InodeFacts, NameAssumption DEF files
<1>1. row[1] \in Names /\ row[2] \in Inodes \cup {Foreign} /\ row[2] # NoFile
  BY DEF IInv, TypeOK
<1>2. dir' # dir
  OBVIOUS
<1>3. Link \/ Unlink \/ Published \/ Remove
  BY <1>2 DEF Next, Worker, Publish, Startup, Create, Cancel, Abort, Claim, ReadBack,
      CreatePart,
     NamePart, Download, Probe, Advance, PrepareSaving, Finalize, Settle, Cleaned, Finish,
     StartUp, Sweep, Recover, RemoveStrays, Stop, Stopped, Crash, vars
<1>4. ASSUME pc \in AtJob, dir[finalFile[job]] \in InodesOf(job), finalFile[job] \in Names,
             dir' = Unpublished
      PROVE  FALSE
  <2>1. job \in Jobs /\ Active(job)
    BY <1>4 DEF IInv, PlaceInv
  <2>2. VideosOf(job) = {}
    BY <2>1 DEF IInv, CompletedOnce, Active, ActiveStates
  <2>3. row[1] = finalFile[job]
    BY <1>1, <1>4 DEF Unpublished, IInv, TypeOK
  <2> QED
    BY <1>4, <2>2, <2>3 DEF VideosOf
<1>5. CASE Link
  BY <1>1, <1>5 DEF Link, IInv, TypeOK
<1>6. CASE Unlink \/ Published
  <2>1. pc \in {"unlink", "linked"} /\ pc \in AtJob /\ dir' = Unpublished
    BY <1>2, <1>6 DEF Unlink, Published, AtJob, Processing
  <2>2. dir[finalFile[job]] \in InodesOf(job) /\ finalFile[job] \in Names
    BY <2>1, PartFact DEF IInv, RowInv
  <2> QED
    BY <1>4, <2>1, <2>2
<1>7. CASE Remove
  <2>1. pc = "clean" /\ pc \in AtJob /\ "final" \in doomed /\ dir' = Unpublished
    BY <1>2, <1>7, RemoveEffect DEF AtJob
  <2>2. job \notin cleaned => dir[finalFile[job]] \in InodesOf(job) /\ finalFile[job] \in Names
    BY <2>1 DEF IInv, OwnInv, RowInv
  <2> QED
    BY <1>4, <2>1, <2>2
<1> QED
  BY <1>3, <1>5, <1>6, <1>7

\* Only a repeated cleanup can take the file of a video away (manager.go
\* cleanupArtifactRef); the first one tells the files apart.
THEOREM FirstCleanupIsSafe == Spec => FirstCleanupSafe
<1>1. IInv /\ [Next]_vars =>
        [~blind =>
           \A row \in rows :
             dir[row[1]] = row[2] /\ dir'[row[1]] # row[2] =>
               pc = "clean" /\ job \in cleaned]_vars
  BY FirstCleanupStep
<1> QED
  BY <1>1, QueueInvariant, PTL DEF Spec, FirstCleanupSafe

=============================================================================
