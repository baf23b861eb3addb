----------------------------- MODULE ImportQueue -----------------------------
(***************************************************************************)
(* The queue that imports videos from a link: mediaimport/manager.go (one  *)
(* worker, Start, Shutdown, Cancel) over the rows of the table             *)
(* remote_upload_jobs (catalog/remote_upload_jobs.go) and the files of the *)
(* upload directory.                                                       *)
(*                                                                         *)
(* A step is one statement on the database or one effect on the directory, *)
(* so the process can die, a cancellation can arrive and a shutdown can    *)
(* begin between any two.  A downloaded file is an inode: the part file    *)
(* and the published file of a job are two links to it.                    *)
(*                                                                         *)
(* Jobs of kind "telegram" are left out, and with them the delayed retry.  *)
(***************************************************************************)
EXTENDS Integers

CONSTANTS
  JobCount,     \* jobs, numbered in the order of their creation
  Names,        \* file names in the upload directory
  Taken,        \* those that are taken by videos the queue did not import
  Title,        \* Title[j]: the name job j asks for
  Attempts,     \* names tried before giving up; 20 in the code
  MaxFaults,    \* bound: effects or statements that fail
  MaxCrashes,   \* bound: deaths of the process
  MaxStops      \* bound: graceful shutdowns

Jobs == 1..JobCount

ASSUME ImportAssumption ==
  /\ JobCount \in Nat \ {0}
  /\ Taken \subseteq Names
  /\ Title \in [Jobs -> Names]
  /\ Attempts \in Nat \ {0}
  /\ MaxFaults \in Nat
  /\ MaxCrashes \in Nat
  /\ MaxStops \in Nat

VARIABLES
  state, cancelRequested, tempFile, finalFile,  \* the rows of the jobs
  rows,       \* the catalogued videos: <<file name, inode>>
  dir, parts, \* the upload directory: named files, and part files
  pc,         \* what the process does
  job,        \* the job it is at, 0 when none
  started,    \* Start has returned
  stopping,   \* runCtx is canceled
  aborted,    \* the context of the current job is canceled
  attempt,    \* in publishFile
  err,        \* what processJob returned
  seen,       \* CancelRequested as process read it
  doomed,     \* what cleanupArtifactRef is about to remove
  todo,       \* interrupted jobs Start has not cleaned yet
  canceling,  \* jobs whose Cancel call is between its row and its context
  try,        \* try[j]: how often job j was claimed
  asked,      \* history: jobs whose cancellation was accepted
  left,       \* history: jobs left active by an error, until the next start
  cleaned,    \* history: jobs whose part a cleanup removed or found gone
  blind,      \* history: a lookup failed
  faults, crashes, stops

jobVars == <<state, cancelRequested, tempFile, finalFile>>
files   == <<dir, parts>>
life    == <<started, stopping>>
work    == <<attempt, err>>
sweep   == <<seen, doomed, todo>>
ghosts  == <<asked, left, cleaned, blind>>
bounds  == <<faults, crashes, stops>>
vars    == <<jobVars, rows, files, pc, job, aborted, life, work, sweep, canceling, try,
             ghosts, bounds>>

-----------------------------------------------------------------------------
(* Data.                                                                   *)

ActiveStates == {"downloading", "validating", "saving"}
TerminalStates == {"completed", "failed", "canceled"}
JobStates == {"none", "queued"} \cup ActiveStates \cup TerminalStates

Active(j) == state[j] \in ActiveStates
Terminal(j) == state[j] \in TerminalStates

NoName == "no name"
ASSUME NameAssumption == NoName \notin Names

NoFile == <<0, 0>>
Foreign == <<0, 1>>     \* a video the queue did not import

\* CreateTemp never returns the same file twice.
Inodes == Jobs \X (1..(1 + MaxCrashes + MaxStops))
InodesOf(j) == {f \in Inodes : f[1] = j}
Part(j) == <<j, try[j]>>

Processing ==
  {"create", "name", "download", "probe", "publish", "link", "unlink", "linked",
   "finalize"}
Labels ==
  {"down", "sweep", "clean", "recover", "stray", "idle", "claimed", "settle", "finish"}
    \cup Processing

\* The statements of processJob run under the context of the job.
ContextDone == stopping \/ aborted

NoFault == UNCHANGED faults
Fault == faults < MaxFaults /\ faults' = faults + 1

Goto(label) == pc' = label

\* The row of job j gets a new state; with it go the names of its files.
Release(j, newState) ==
  /\ state' = [state EXCEPT ![j] = newState]
  /\ cancelRequested' = [cancelRequested EXCEPT ![j] = FALSE]
  /\ tempFile' = [tempFile EXCEPT ![j] = NoFile]
  /\ finalFile' = [finalFile EXCEPT ![j] = NoName]
  /\ cleaned' = cleaned \ {j}

-----------------------------------------------------------------------------
(* The handlers of the administration: Create and Cancel.                  *)

Create(j) ==
  /\ started
  /\ state[j] = "none"
  /\ \A k \in Jobs : k < j => state[k] # "none"
  /\ state' = [state EXCEPT ![j] = "queued"]
  /\ UNCHANGED <<cancelRequested, tempFile, finalFile, rows, files, pc, job, aborted,
                 life, work, sweep, canceling, try, ghosts, bounds>>

Cancelable(j) == state[j] \in ActiveStates \cup {"queued"}

\* CancelRemoteUploadJob: queued work ends at once, running work is told to.
Cancel(j) ==
  /\ started
  /\ Cancelable(j)
  /\ asked' = asked \cup {j}
  /\ IF state[j] = "queued"
       THEN Release(j, "canceled") /\ UNCHANGED canceling
       ELSE /\ cancelRequested' = [cancelRequested EXCEPT ![j] = TRUE]
            /\ canceling' = canceling \cup {j}
            /\ UNCHANGED <<state, tempFile, finalFile, cleaned>>
  /\ UNCHANGED <<rows, files, pc, job, aborted, life, work, sweep, try, left, blind,
                 bounds>>

\* Then Manager.Cancel cancels the context if the job is still current.
Abort(j) ==
  /\ j \in canceling
  /\ canceling' = canceling \ {j}
  /\ aborted' = (aborted \/ (job = j /\ pc \in Processing))
  /\ UNCHANGED <<jobVars, rows, files, pc, job, life, work, sweep, try, ghosts, bounds>>

-----------------------------------------------------------------------------
(* The worker: run, process and processJob.                                *)

\* processJob returns an error: "canceled" for ErrRemoteUploadCanceled and
\* context.Canceled, "task" for any other.
Return(kind) == err' = kind /\ Goto("settle")

\* The worker goes back to the queue; what it knew of the job goes.
Rest ==
  /\ Goto("idle")
  /\ job' = 0
  /\ aborted' = FALSE
  /\ attempt' = 0
  /\ err' = "none"
  /\ seen' = FALSE
  /\ doomed' = {}

\* ClaimNextImportJob, up to its commit: the oldest queued job.
Claim ==
  /\ pc = "idle"
  /\ ~stopping
  /\ \E j \in Jobs :
       /\ state[j] = "queued"
       /\ \A k \in Jobs : state[k] = "queued" => j <= k
       /\ Release(j, "downloading")
       /\ job' = j
       /\ try' = [try EXCEPT ![j] = @ + 1]
  /\ Goto("claimed")
  /\ UNCHANGED <<rows, files, aborted, life, work, sweep, canceling, asked, left, blind,
                 bounds>>

\* It reads the row back, and process sets the current job.
ReadBack ==
  /\ pc = "claimed"
  /\ \/ /\ ~stopping
        /\ NoFault
        /\ Goto("create")
        /\ UNCHANGED <<job, aborted, work, seen, doomed, left>>
     \/ /\ IF stopping THEN NoFault ELSE Fault
        /\ left' = left \cup {job}
        /\ Rest
  /\ UNCHANGED <<jobVars, rows, files, life, todo, canceling, try, asked, cleaned, blind,
                 crashes, stops>>

CreatePart ==
  /\ pc = "create"
  /\ \/ /\ ~ContextDone
        /\ parts' = parts \cup {Part(job)}
        /\ Goto("name")
        /\ UNCHANGED err
     \/ /\ Return(IF ContextDone THEN "canceled" ELSE "task")
        /\ UNCHANGED parts
  /\ UNCHANGED <<jobVars, rows, dir, job, aborted, life, attempt, sweep, canceling, try,
                 ghosts, bounds>>

\* What a statement returns that could not update the active row.
Refusal == IF ContextDone \/ cancelRequested[job] THEN "canceled" ELSE "task"

\* updateActiveRemoteUpload and TransitionRemoteUploadJob go ahead.
Accepted == ~ContextDone /\ ~cancelRequested[job] /\ Active(job)

\* SetRemoteUploadTempFile; if it fails the part is removed, as far as it can be.
NamePart ==
  /\ pc = "name"
  /\ \/ /\ Accepted
        /\ tempFile' = [tempFile EXCEPT ![job] = Part(job)]
        /\ Goto("download")
        /\ NoFault
        /\ UNCHANGED <<parts, err>>
     \/ /\ Return(Refusal) \/ Return("task")
        /\ \/ NoFault /\ parts' = parts \ {Part(job)}
           \/ Fault /\ UNCHANGED parts
        /\ UNCHANGED tempFile
  /\ UNCHANGED <<state, cancelRequested, finalFile, rows, dir, job, aborted, life, attempt,
                 sweep, canceling, try, ghosts, crashes, stops>>

\* A part of processJob that ends with TransitionRemoteUploadJob.  What comes
\* before the transition may fail on its own account: a probe that is canceled
\* reports an invalid video.
Advance(from, to, label) ==
  /\ \/ /\ Accepted
        /\ state[job] = from
        /\ state' = [state EXCEPT ![job] = to]
        /\ Goto(label)
        /\ UNCHANGED err
     \/ Return(Refusal) /\ UNCHANGED state
     \/ Return("task") /\ UNCHANGED state
  /\ UNCHANGED <<cancelRequested, tempFile, finalFile, rows, files, job, aborted, life,
                 sweep, canceling, try, ghosts, bounds>>

Download ==
  pc = "download" /\ Advance("downloading", "validating", "probe") /\ UNCHANGED attempt

Probe ==
  pc = "probe" /\ Advance("validating", "saving", "publish") /\ attempt' = 0

-----------------------------------------------------------------------------
(* publishFile and the rest of processJob.                                 *)

\* The first name tried is the title; later ones carry a random suffix.
NamesTried == IF attempt = 0 THEN {Title[job]} ELSE Names \ {Title[job]}

\* Mutation: one attempt too many.
OneTryMore == attempt <= Attempts

TriesLeft == attempt < Attempts

\* PrepareRemoteUploadSaving names the file before it exists.
PrepareSaving ==
  /\ pc = "publish"
  /\ \/ /\ Accepted
        /\ TriesLeft
        /\ tempFile' = [tempFile EXCEPT ![job] = Part(job)]
        /\ \E n \in NamesTried : finalFile' = [finalFile EXCEPT ![job] = n]
        /\ Goto("link")
        /\ UNCHANGED err
     \/ /\ (TriesLeft /\ Return(Refusal)) \/ Return("task")
        /\ UNCHANGED <<tempFile, finalFile>>
  /\ UNCHANGED <<state, cancelRequested, rows, files, job, aborted, life, attempt, sweep,
                 canceling, try, ghosts, bounds>>

Link ==
  /\ pc = "link"
  /\ LET n == finalFile[job]
     IN  \/ /\ dir[n] = NoFile
            /\ dir' = [dir EXCEPT ![n] = Part(job)]
            /\ Goto("unlink")
            /\ UNCHANGED <<attempt, err>>
         \/ /\ dir[n] # NoFile
            /\ attempt' = attempt + 1
            /\ Goto("publish")
            /\ UNCHANGED <<dir, err>>
         \/ Return("task") /\ UNCHANGED <<dir, attempt>>
  /\ UNCHANGED <<jobVars, rows, parts, job, aborted, life, sweep, canceling, try, ghosts,
                 bounds>>

Unpublished == [dir EXCEPT ![finalFile[job]] = NoFile]

\* The part goes; if it cannot, the published file does, as far as it can.
Unlink ==
  /\ pc = "unlink"
  /\ \/ /\ NoFault
        /\ parts' = parts \ {Part(job)}
        /\ Goto("linked")
        /\ UNCHANGED <<dir, err>>
     \/ /\ Fault
        /\ dir' \in {dir, Unpublished}
        /\ Return("task")
        /\ UNCHANGED parts
  /\ UNCHANGED <<jobVars, rows, job, aborted, life, attempt, sweep, canceling, try, ghosts,
                 crashes, stops>>

\* publishFile looks at the context a last time.
Published ==
  /\ pc = "linked"
  /\ \/ /\ ~ContextDone
        /\ Goto("finalize")
        /\ NoFault
        /\ UNCHANGED <<dir, err>>
     \/ /\ ContextDone
        /\ Return("canceled")
        /\ \/ NoFault /\ dir' = Unpublished
           \/ Fault /\ UNCHANGED dir
  /\ UNCHANGED <<jobVars, rows, parts, job, aborted, life, attempt, sweep, canceling, try,
                 ghosts, crashes, stops>>

\* FinalizeRemoteUpload: the video and the completed job are one transaction.
Finalize ==
  /\ pc = "finalize"
  /\ \/ /\ Accepted
        /\ state[job] = "saving"
        /\ Release(job, "completed")
        /\ rows' = rows \cup {<<finalFile[job], Part(job)>>}
        /\ Rest
     \/ /\ Return(Refusal) \/ Return("task")
        /\ UNCHANGED <<jobVars, rows, job, aborted, attempt, seen, doomed, cleaned>>
  /\ UNCHANGED <<files, life, todo, canceling, try, asked, left, blind, bounds>>

-----------------------------------------------------------------------------
(* After an error: process cleans up and gives the job its next state.     *)
(* Start cleans up after the jobs a dead process left active.              *)

\* What cleanupArtifactRef removes: the part, and the published file if it is
\* the same file or the part is gone.
TempExists(j) == tempFile[j] \in parts
FinalExists(j) == finalFile[j] # NoName /\ dir[finalFile[j]] # NoFile

\* Mutation: whatever has the name is removed.
NamedFinal(j) == FinalExists(j)

\* Mutation: only a file that can be compared with the part is removed.
ComparedFinal(j) == FinalExists(j) /\ TempExists(j) /\ dir[finalFile[j]] = tempFile[j]

RemovesFinal(j) ==
  FinalExists(j) /\ (TempExists(j) => dir[finalFile[j]] = tempFile[j])

Artifacts(j) ==
  (IF RemovesFinal(j) THEN {"final"} ELSE {}) \cup (IF TempExists(j) THEN {"temp"} ELSE {})

\* os.Stat that fails for another reason is taken for a file that is not there.
\* If it fails for the part alone, the published file goes without a comparison;
\* if it fails for the published file, only the part goes.
Glimpses(j) ==
  {d \in {{}, {"final"}, {"temp"}} :
     /\ "final" \in d => FinalExists(j)
     /\ "temp" \in d => TempExists(j)}

LookUp(j) ==
  \/ NoFault /\ doomed' = Artifacts(j) /\ UNCHANGED blind
  \/ Fault /\ doomed' \in Glimpses(j) /\ blind' = TRUE

\* process reads the row; if it cannot, it does not clean up.
Settle ==
  /\ pc = "settle"
  /\ \/ /\ LookUp(job)
        /\ seen' = cancelRequested[job]
        /\ Goto("clean")
     \/ /\ Fault
        /\ seen' = FALSE
        /\ blind' = TRUE
        /\ Goto("finish")
        /\ UNCHANGED doomed
  /\ UNCHANGED <<jobVars, rows, files, job, aborted, life, work, todo, canceling, try,
                 asked, left, cleaned, crashes, stops>>

\* Start looks up the artifacts of one interrupted job after the other.
Sweep ==
  /\ pc = "sweep"
  /\ \/ /\ todo = {}
        /\ Goto("recover")
        /\ NoFault
        /\ UNCHANGED <<job, todo, doomed, blind>>
     \/ \E j \in todo :
          /\ job' = j
          /\ todo' = todo \ {j}
          /\ LookUp(j)
          /\ Goto("clean")
  /\ UNCHANGED <<jobVars, rows, files, aborted, life, work, seen, canceling, try, asked,
                 left, cleaned, crashes, stops>>

\* log.Fatalf, or the death of the process.
Exit ==
  /\ Goto("down")
  /\ job' = 0
  /\ aborted' = FALSE
  /\ started' = FALSE
  /\ stopping' = FALSE
  /\ attempt' = 0
  /\ err' = "none"
  /\ seen' = FALSE
  /\ doomed' = {}
  /\ todo' = {}
  /\ canceling' = {}

\* The removals of cleanupArtifactRef, the published file first.  An error is
\* fatal to Start; process leaves the job active for the next start.
Remove ==
  /\ pc = "clean"
  /\ doomed # {}
  /\ \/ /\ NoFault
        /\ IF "final" \in doomed
             THEN /\ dir' = Unpublished
                  /\ doomed' = doomed \ {"final"}
                  /\ UNCHANGED <<parts, cleaned>>
             ELSE /\ parts' = parts \ {tempFile[job]}
                  /\ doomed' = {}
                  /\ cleaned' = cleaned \cup {job}
                  /\ UNCHANGED dir
        /\ UNCHANGED <<pc, job, life, aborted, work, seen, todo, canceling, left>>
     \/ /\ Fault
        /\ IF started
             THEN /\ Rest
                  /\ left' = left \cup {job}
                  /\ UNCHANGED <<life, todo, canceling>>
             ELSE Exit /\ UNCHANGED left
        /\ UNCHANGED <<files, cleaned>>
  /\ UNCHANGED <<jobVars, rows, try, asked, blind, crashes, stops>>

Cleaned ==
  /\ pc = "clean"
  /\ doomed = {}
  /\ cleaned' = cleaned \cup {job}
  /\ Goto(IF started THEN "finish" ELSE "sweep")
  /\ UNCHANGED <<jobVars, rows, files, job, aborted, life, work, sweep, canceling, try,
                 asked, left, blind, bounds>>

\* Mutation: a cancellation is forgotten.
AlwaysRequeued(j) == "queued"

\* RequeueRemoteUploadOnShutdown and RecoverRemoteUploadJobs keep a cancellation.
Requeued(j) == IF cancelRequested[j] THEN "canceled" ELSE "queued"

\* The state process gives the job after an error.
Outcome ==
  IF stopping THEN Requeued(job)
  ELSE IF err = "canceled" \/ seen THEN "canceled" ELSE "failed"

Finish ==
  /\ pc = "finish"
  /\ \/ NoFault /\ Release(job, Outcome) /\ UNCHANGED left
     \/ Fault /\ left' = left \cup {job} /\ UNCHANGED <<jobVars, cleaned>>
  /\ Rest
  /\ UNCHANGED <<rows, files, life, todo, canceling, try, asked, blind, crashes, stops>>

-----------------------------------------------------------------------------
(* Start and Shutdown.                                                     *)

\* Mutation: jobs that were being validated are overlooked.
NotValidating == {j \in Jobs : state[j] \in {"downloading", "saving"}}

\* Mutation: completed jobs are taken for interrupted ones.
NotEnded == {j \in Jobs : state[j] \in ActiveStates \cup {"completed"}}

\* ListInterruptedRemoteUploadArtifacts.
Interrupted == {j \in Jobs : Active(j)}

StartUp ==
  /\ pc = "down"
  /\ todo' = Interrupted
  /\ Goto("sweep")
  /\ UNCHANGED <<jobVars, rows, files, job, aborted, life, work, seen, doomed, canceling,
                 try, ghosts, bounds>>

\* RecoverRemoteUploadJobs: one transaction over the interrupted jobs.
Recover ==
  /\ pc = "recover"
  /\ \/ /\ NoFault
        /\ state' = [j \in Jobs |-> IF j \in Interrupted THEN Requeued(j) ELSE state[j]]
        /\ cancelRequested' =
             [j \in Jobs |-> IF j \in Interrupted THEN FALSE ELSE cancelRequested[j]]
        /\ tempFile' = [j \in Jobs |-> IF j \in Interrupted THEN NoFile ELSE tempFile[j]]
        /\ finalFile' = [j \in Jobs |-> IF j \in Interrupted THEN NoName ELSE finalFile[j]]
        /\ left' = {}
        /\ cleaned' = {}
        /\ Goto("stray")
        /\ UNCHANGED <<job, aborted, life, work, sweep, canceling>>
     \/ Fault /\ Exit /\ UNCHANGED <<jobVars, left, cleaned>>
  /\ UNCHANGED <<rows, files, try, asked, blind, crashes, stops>>

\* cleanupStrayParts, and the worker starts.
RemoveStrays ==
  /\ pc = "stray"
  /\ \/ /\ NoFault
        /\ parts' = {}
        /\ Rest
        /\ started' = TRUE
        /\ UNCHANGED <<stopping, todo, canceling>>
     \/ Fault /\ Exit /\ parts' \in SUBSET parts
  /\ UNCHANGED <<jobVars, rows, dir, try, ghosts, crashes, stops>>

\* Shutdown cancels runCtx, and the process ends when the worker has.
Stop ==
  /\ started
  /\ ~stopping
  /\ stops < MaxStops
  /\ stops' = stops + 1
  /\ stopping' = TRUE
  /\ UNCHANGED <<jobVars, rows, files, pc, job, aborted, started, work, sweep, canceling,
                 try, ghosts, faults, crashes>>

Stopped ==
  /\ stopping
  /\ pc = "idle"
  /\ Exit
  /\ UNCHANGED <<jobVars, rows, files, try, ghosts, bounds>>

\* The process dies, in Shutdown also because its ten seconds are over.
Crash ==
  /\ pc # "down"
  /\ crashes < MaxCrashes
  /\ crashes' = crashes + 1
  /\ Exit
  /\ UNCHANGED <<jobVars, rows, files, try, ghosts, faults, stops>>

-----------------------------------------------------------------------------
Init ==
  /\ state = [j \in Jobs |-> "none"]
  /\ cancelRequested = [j \in Jobs |-> FALSE]
  /\ tempFile = [j \in Jobs |-> NoFile]
  /\ finalFile = [j \in Jobs |-> NoName]
  /\ dir = [n \in Names |-> IF n \in Taken THEN Foreign ELSE NoFile]
  /\ rows = {<<n, Foreign>> : n \in Taken}
  /\ parts = {}
  /\ pc = "idle"
  /\ job = 0
  /\ started = TRUE
  /\ stopping = FALSE
  /\ aborted = FALSE
  /\ attempt = 0
  /\ err = "none"
  /\ seen = FALSE
  /\ doomed = {}
  /\ todo = {}
  /\ canceling = {}
  /\ try = [j \in Jobs |-> 0]
  /\ asked = {}
  /\ left = {}
  /\ cleaned = {}
  /\ blind = FALSE
  /\ faults = 0
  /\ crashes = 0
  /\ stops = 0

Publish == PrepareSaving \/ Link \/ Unlink \/ Published \/ Finalize

Worker ==
  \/ Claim \/ ReadBack \/ CreatePart \/ NamePart \/ Download \/ Probe \/ Publish
  \/ Settle \/ Remove \/ Cleaned \/ Finish

Startup == StartUp \/ Sweep \/ Recover \/ RemoveStrays

Next ==
  \/ \E j \in Jobs : Create(j) \/ Cancel(j) \/ Abort(j)
  \/ Worker \/ Startup \/ Stop \/ Stopped \/ Crash

Spec == Init /\ [][Next]_vars

\* The worker is a goroutine whose waits all end (a retry timer, the idle timeout
\* of a download, a canceled context), and a supervisor restarts the process.
FairSpec == Spec /\ WF_vars(Worker \/ Startup \/ Stopped)

-----------------------------------------------------------------------------
(* Properties.                                                             *)

\* Every variable has its type.
TypeOK ==
  /\ state \in [Jobs -> JobStates]
  /\ cancelRequested \in [Jobs -> BOOLEAN]
  /\ tempFile \in [Jobs -> Inodes \cup {NoFile}]
  /\ finalFile \in [Jobs -> Names \cup {NoName}]
  /\ rows \subseteq Names \X (Inodes \cup {Foreign})
  /\ dir \in [Names -> Inodes \cup {NoFile, Foreign}]
  /\ parts \subseteq Inodes
  /\ pc \in Labels
  /\ job \in {0} \cup Jobs
  /\ started \in BOOLEAN /\ stopping \in BOOLEAN /\ aborted \in BOOLEAN
  /\ attempt \in 0..Attempts
  /\ err \in {"none", "task", "canceled"}
  /\ seen \in BOOLEAN
  /\ doomed \subseteq {"final", "temp"}
  /\ todo \subseteq Jobs /\ canceling \subseteq Jobs
  /\ try \in [Jobs -> 0..(1 + MaxCrashes + MaxStops)]
  /\ asked \subseteq Jobs /\ left \subseteq Jobs /\ cleaned \subseteq Jobs
  /\ blind \in BOOLEAN
  /\ faults \in 0..MaxFaults /\ crashes \in 0..MaxCrashes /\ stops \in 0..MaxStops

VideosOf(j) == {row \in rows : row[2] \in InodesOf(j)}

\* A job is completed exactly when it has put one video into the catalog, however
\* often it was interrupted and started over.
CompletedOnce ==
  \A j \in Jobs :
    IF state[j] = "completed" THEN \E row \in rows : VideosOf(j) = {row}
    ELSE VideosOf(j) = {}

\* A cancellation that was accepted holds: the job never yields a video, whatever
\* the worker, a shutdown or a restart does with it meanwhile.
CancelHolds ==
  \A j \in asked : VideosOf(j) = {} /\ state[j] # "queued"

\* A published file is catalogued, or an active job names it so that the next
\* cleanup finds it, unless a lookup failed.
NoOrphan ==
  ~blind =>
    \A n \in Names, j \in Jobs :
      dir[n] \in InodesOf(j) =>
        <<n, dir[n]>> \in rows \/ (Active(j) /\ finalFile[j] = n)

\* The first cleanup of a job never removes the file of a video: where the name
\* was taken, the part that is still there tells the two files apart.  (A second
\* one may: SourceDurable.)
FirstCleanupSafe ==
  [][~blind =>
       \A row \in rows :
         dir[row[1]] = row[2] /\ dir'[row[1]] # row[2] =>
           pc = "clean" /\ job \in cleaned]_vars

\* Every job that was created ends, except those an error left active; these wait
\* for the next start.
QueueDrains ==
  <>[](\A j \in Jobs : state[j] = "none" \/ Terminal(j) \/ j \in left)

\* remote_upload_jobs.go, FinalizeRemoteUpload: "The caller has already made its
\* source file durable."
SourceDurable == \A row \in rows : dir[row[1]] = row[2]

=============================================================================
