--------------------------- MODULE BackupTransfer ---------------------------
(***************************************************************************)
(* One backup sent from one server to another                              *)
(* (src/backend/internal/backuptransfer).  The sender keeps a durable job  *)
(* and drives it from one goroutine: BeginImport, the ranges,              *)
(* FinalizeImport, and CancelImport once a cancellation is asked for.  The *)
(* receiver keeps a receipt, in memory and in a file, next to the staging  *)
(* uploads and the archives of backup.Manager.                             *)
(*                                                                         *)
(* A request that its sender has given up waiting for goes on at the       *)
(* receiver, and may be cut short there: two requests of the same sender   *)
(* can be in the hands of the receiver at once.  receiveMu serialises      *)
(* BeginImport, FinalizeImport, CancelImport and the cleanup; the ranges   *)
(* and the listing do not take it.                                         *)
(*                                                                         *)
(* Failures: lost answers, requests cut short, a stop or crash of either   *)
(* server, a receipt file that cannot be saved, an archive that fails its  *)
(* verification, staging that expires, a token that is revoked or expires. *)
(* The archive is one range; the sender's own job file is always saved.    *)
(***************************************************************************)
EXTENDS Naturals, FiniteSets

CONSTANTS
    Calls,          \* requests of the sender the receiver can have in hand
    NoCall,
    MaxAttempts,    \* maxAutomaticAttempts
    MaxUploads,     \* staging uploads there is room for
    MaxFailures     \* bounds the failures that happen, of whatever kind

ASSUME TransferAssumption ==
    /\ Calls \cap {"admin", "list"} = {}
    /\ NoCall \notin Calls \union {"admin", "list"}
    /\ MaxAttempts \in Nat \ {0} /\ MaxUploads \in Nat \ {0}
    /\ MaxFailures \in Nat

VARIABLES
    job,        \* the sender's TransferJob: state, cancel (CancelRequested),
                \* token (ReceiveToken is kept), attempts
    at,         \* where the sender's goroutine is: the request to make, or idle
    await,      \* the request whose answer it waits for
    dead,       \* the receive token is revoked or has expired
    rcpt,       \* the receipt in the receiver's memory: state, up, rec
    saved,      \* the receipt in its file
    staged,     \* the upload sessions: none, open, full (all ranges), final
    made,       \* how many uploads have been begun
    canceling,  \* uploadCanceling: uploads to remove when their writer ends
    archive,    \* uploads whose archive lies among the receiver's backups ...
    described,  \* ... and those whose meta file has been written next to it
    hand,       \* the requests in the hands of the receiver
    left        \* the failures that may still happen

senderVars == <<job, at, await>>
archives == <<archive, described>>
receiverVars == <<rcpt, saved, staged, made, canceling, archives>>
vars == <<senderVars, dead, receiverVars, hand, left>>

Uploads == 1..MaxUploads
Actors == Calls \union {"admin", "list"}
Active == {"queued", "active", "retrying"}   \* active: connecting, uploading, finalizing
Terminal == {"completed", "failed", "canceled"}

Points == {"idle", "begin", "put", "finalize", "cancel"}
Idle == [kind |-> "none", pc |-> "idle", up |-> 0]

\* Where a request holds receiveMu.
Locked == {"register", "mark", "publish", "describe", "sweep", "undo", "record", "drop"}
MuFree == \A a \in Actors : hand[a].pc \notin Locked

\* A writer has the file of the upload open (uploadWriters).
Written(u) == \E a \in Actors : hand[a].pc = "writing" /\ hand[a].up = u

Waiting(kind, a) == hand[a].kind = kind /\ hand[a].pc = "sent"

---------------------------------------------------------------------------
(***************************************************************************)
(* The sender hears the end of a request: an answer, or "lost" for every   *)
(* temporary error.  "refused" stands for the answers that are permanent   *)
(* errors to it: 400, 401, 403, 404, 409.                                  *)
(***************************************************************************)
FinishedCanceled == [job EXCEPT !.state = "canceled", !.cancel = FALSE, !.token = FALSE]

\* Mutation: one attempt too many.
FailOrRetryOnceMore(temporary) ==
    LET tries == job.attempts + 1
    IN  IF temporary /\ tries <= MaxAttempts
        THEN [job EXCEPT !.state = "retrying", !.attempts = tries]
        ELSE [job EXCEPT !.state = "failed", !.attempts = tries, !.token = temporary]

\* Mutation: attempts are not counted.
FailOrRetryUncounted(temporary) ==
    IF temporary THEN [job EXCEPT !.state = "retrying"]
    ELSE [job EXCEPT !.state = "failed", !.token = FALSE]

FailOrRetry(temporary) ==
    LET tries == job.attempts + 1
    IN  IF temporary /\ tries < MaxAttempts
        THEN [job EXCEPT !.state = "retrying", !.attempts = tries]
        ELSE [job EXCEPT !.state = "failed", !.attempts = tries, !.token = temporary]

JobAfter(answer) ==
    IF at = "cancel" THEN IF answer = "ok" THEN FinishedCanceled ELSE job
    ELSE CASE answer = "completed" -> [job EXCEPT !.state = "completed", !.token = FALSE]
           [] answer = "canceled" -> FinishedCanceled
           [] answer \in {"lost", "refused"} -> FailOrRetry(answer = "lost")
           [] OTHER -> job

PointAfter(answer) ==
    CASE at # "cancel" /\ answer = "uploading" -> "put"
      [] at # "cancel" /\ answer \in {"finalizing", "ok"} -> "finalize"
      [] OTHER -> "idle"

Hear(answer) ==
    /\ job' = JobAfter(answer)
    /\ at' = PointAfter(answer)
    /\ await' = NoCall

\* The handler of a ends; nobody hears it when its sender has given it up.
Answer(a, answer) ==
    /\ hand' = [hand EXCEPT ![a] = Idle]
    /\ IF a = await THEN Hear(answer) ELSE UNCHANGED senderVars

GoTo(a, pc, u) ==
    /\ hand' = [hand EXCEPT ![a].pc = pc, ![a].up = u]
    /\ UNCHANGED senderVars

Fail ==
    /\ left > 0
    /\ left' = left - 1

\* setReceiptState: memory first, then the file; the error may come before or
\* after the new file is in place.
SaveReceipt(r, ok) ==
    /\ rcpt' = r
    /\ IF ok THEN saved' = r /\ UNCHANGED left
       ELSE saved' \in {saved, r} /\ Fail

\* touchReceiveToken: it saves the receiver's state unless it has just done so.
Touch(a, answer) ==
    /\ UNCHANGED rcpt
    /\ \/ /\ ~dead /\ saved' \in {saved, rcpt} /\ UNCHANGED left
          /\ Answer(a, answer)
       \/ /\ ~dead /\ saved' = saved /\ Fail
          /\ Answer(a, "refused")

Refuse(a) == Answer(a, "refused") /\ UNCHANGED <<receiverVars, left>>

---------------------------------------------------------------------------
(***************************************************************************)
(* The sender.                                                             *)
(***************************************************************************)
Init ==
    /\ job = [state |-> "queued", cancel |-> FALSE, token |-> TRUE, attempts |-> 0]
    /\ at = "idle" /\ await = NoCall
    /\ dead = FALSE
    /\ rcpt = [state |-> "none", up |-> 0, rec |-> FALSE] /\ saved = rcpt
    /\ staged = [u \in Uploads |-> "none"] /\ made = 0
    /\ canceling = {} /\ archive = {} /\ described = {}
    /\ hand = [a \in Actors |-> Idle]
    /\ left = MaxFailures

\* nextRunnableJob and the start of processOne.
NextRunnable ==
    /\ at = "idle"
    /\ \/ /\ job.cancel /\ job.token
          /\ at' = "cancel"
          /\ UNCHANGED job
       \/ /\ ~job.cancel /\ job.state \in {"queued", "retrying"}
          /\ job' = [job EXCEPT !.state = "active"]
          /\ at' = "begin"
    /\ UNCHANGED <<await, dead, receiverVars, hand, left>>

\* peerBeginImport, peerPutRange, peerFinalizeImport, peerCancelImport.
Request(c) ==
    /\ at # "idle" /\ await = NoCall
    /\ hand[c] = Idle
    /\ hand' = [hand EXCEPT ![c] = [kind |-> at, pc |-> "sent", up |-> 0]]
    /\ await' = c
    /\ UNCHANGED <<job, at, dead, receiverVars, left>>

\* The connection breaks or the time to wait for an answer ends.
Lose ==
    /\ await # NoCall
    /\ Fail
    /\ Hear("lost")
    /\ UNCHANGED <<dead, receiverVars, hand>>

\* It cancels the context of the request under way; processOne goes on to tell
\* the receiver.
CancelTransfer ==
    /\ job.state \in Active
    /\ job' = [job EXCEPT !.state = "canceled", !.cancel = TRUE]
    /\ await' = NoCall
    /\ at' = IF at = "idle" THEN "idle" ELSE "cancel"
    /\ UNCHANGED <<dead, receiverVars, hand, left>>

RetryTransfer ==
    /\ job.state = "failed" /\ job.token
    /\ job' = [job EXCEPT !.state = "queued", !.attempts = 0]
    /\ UNCHANGED <<at, await, dead, receiverVars, hand, left>>

\* The sending process stops (requeueAfterShutdown) or dies, and starts again
\* (loadJobs).
SenderStop ==
    /\ Fail
    /\ job' = IF job.state = "active" THEN [job EXCEPT !.state = "queued"] ELSE job
    /\ at' = "idle" /\ await' = NoCall
    /\ UNCHANGED <<dead, receiverVars, hand>>

---------------------------------------------------------------------------
(***************************************************************************)
(* The receiver: BeginImport.                                              *)
(***************************************************************************)
Live == rcpt.state \in {"uploading", "finalizing"}

\* Mutation: staging that is gone is taken for expired without a look at the archives.
StagingGone == Live /\ staged[rcpt.up] = "none"

\* statusForReceipt finds neither the staging nor the archive it became.
Expired == Live /\ staged[rcpt.up] = "none" /\ rcpt.up \notin archive

BeginImport(c) ==
    /\ Waiting("begin", c) /\ MuFree
    /\ UNCHANGED <<dead, canceling, archive>>
    /\ \/ dead /\ Refuse(c)
       \/ /\ ~dead /\ rcpt.state \in {"completed", "canceled"}
          /\ Touch(c, rcpt.state)
          /\ UNCHANGED <<staged, made, described>>
       \/ /\ ~dead /\ Live /\ staged[rcpt.up] # "none"
          /\ Touch(c, IF staged[rcpt.up] = "open" THEN "uploading" ELSE "finalizing")
          /\ UNCHANGED <<staged, made, described>>
       \/ /\ ~dead /\ Live /\ staged[rcpt.up] = "none" /\ rcpt.up \in archive
          /\ described' = described \union {rcpt.up}
          /\ \E ok \in BOOLEAN :
                /\ SaveReceipt([rcpt EXCEPT !.state = "completed", !.rec = TRUE], ok)
                /\ Answer(c, IF ok THEN "completed" ELSE "refused")
          /\ UNCHANGED <<staged, made>>
       \/ /\ ~dead
          /\ rcpt.state = "none" \/ Expired
          /\ IF made < MaxUploads
             THEN /\ made' = made + 1
                  /\ staged' = [staged EXCEPT ![made + 1] = "open"]
                  /\ GoTo(c, "register", made + 1)
             ELSE Answer(c, "lost") /\ UNCHANGED <<made, staged>>   \* ErrInsufficientSpace
          /\ UNCHANGED <<rcpt, saved, described, left>>

\* The new session enters the receipt, the first time and in restartExpiredImport.
RegisterImport(c) ==
    /\ hand[c].pc = "register"
    /\ LET u == hand[c].up
           drop == [staged EXCEPT ![u] = "none"]
       IN  \/ dead /\ staged' = drop /\ Answer(c, "refused") /\ UNCHANGED <<rcpt, saved, left>>
           \/ /\ ~dead
              /\ \E ok \in BOOLEAN :
                    /\ SaveReceipt([state |-> "uploading", up |-> u, rec |-> FALSE], ok)
                    /\ staged' = IF ok THEN staged ELSE drop
                    /\ Answer(c, IF ok THEN "uploading" ELSE "refused")
    /\ UNCHANGED <<dead, made, canceling, archives>>

(***************************************************************************)
(* The receiver: PutImportRange.                                           *)
(***************************************************************************)
PutImportRange(c) ==
    /\ Waiting("put", c)
    /\ UNCHANGED <<dead, staged, made, canceling, archives>>
    /\ \/ /\ \/ dead \/ rcpt.state \in {"none", "finalizing"}
             \/ /\ rcpt.state = "uploading"
                /\ staged[rcpt.up] \in {"none", "final"} \/ Written(rcpt.up)
          /\ Refuse(c)
       \/ /\ ~dead /\ rcpt.state \in {"completed", "canceled"}
          /\ Answer(c, IF rcpt.state = "completed" THEN "ok" ELSE "canceled")
          /\ UNCHANGED <<rcpt, saved, left>>
       \/ /\ ~dead /\ rcpt.state = "uploading" /\ staged[rcpt.up] = "full"
          /\ ~Written(rcpt.up)
          /\ Touch(c, "ok")
       \/ /\ ~dead /\ rcpt.state = "uploading" /\ staged[rcpt.up] = "open"
          /\ ~Written(rcpt.up)
          /\ GoTo(c, "writing", rcpt.up)
          /\ UNCHANGED <<rcpt, saved, left>>

\* All bytes have come: the checkpoint of the range is written.
CommitRange(c) ==
    /\ hand[c].pc = "writing" /\ hand[c].up \notin canceling
    /\ staged' = [staged EXCEPT ![hand[c].up] = "full"]
    /\ \/ Touch(c, "ok")
       \/ dead /\ Answer(c, "refused") /\ UNCHANGED <<rcpt, saved, left>>
    /\ UNCHANGED <<dead, made, canceling, archives>>

\* The upload is being canceled: the last writer removes it (finishRangeWrite).
LeaveRange(c) ==
    /\ hand[c].pc = "writing" /\ hand[c].up \in canceling
    /\ staged' = [staged EXCEPT ![hand[c].up] = "none"]
    /\ canceling' = canceling \ {hand[c].up}
    /\ Answer(c, IF rcpt.state = "canceled" THEN "canceled" ELSE "refused")
    /\ UNCHANGED <<dead, rcpt, saved, made, archives, left>>

\* A request that was given up: it does not arrive, or its body is cut short.
CutShort(c) ==
    /\ c # await
    /\ \/ hand[c].pc = "sent"
       \/ hand[c].pc = "writing" /\ hand[c].up \notin canceling
    /\ Answer(c, "lost")
    /\ UNCHANGED <<dead, receiverVars, left>>

(***************************************************************************)
(* The receiver: FinalizeImport, and FinalizeUpload of backup.Manager.     *)
(***************************************************************************)
\* Mutation: the receipt's final state is not looked at.
FinalizeImportCanceledToo(c) ==
    /\ Waiting("finalize", c) /\ MuFree
    /\ ~dead /\ rcpt.up # 0
    /\ SaveReceipt([rcpt EXCEPT !.state = "finalizing"], TRUE)
    /\ GoTo(c, "mark", rcpt.up)
    /\ UNCHANGED <<dead, staged, made, canceling, archives>>

FinalizeImport(c) ==
    /\ Waiting("finalize", c) /\ MuFree
    /\ UNCHANGED <<dead, staged, made, canceling, archives>>
    /\ \/ (dead \/ rcpt.state = "none") /\ Refuse(c)
       \/ /\ ~dead /\ rcpt.state \in {"completed", "canceled"}
          /\ Answer(c, rcpt.state)
          /\ UNCHANGED <<rcpt, saved, left>>
       \/ /\ ~dead /\ Live
          /\ \E ok \in BOOLEAN :
                /\ SaveReceipt([rcpt EXCEPT !.state = "finalizing"], ok)
                /\ IF ok THEN GoTo(c, "mark", rcpt.up) ELSE Answer(c, "refused")

\* The session is looked up and marked; without one, the archive it may have
\* become is looked for (FindImportedUpload).
MarkUpload(c) ==
    /\ hand[c].pc = "mark"
    /\ LET u == hand[c].up IN
       \/ /\ staged[u] \in {"full", "final"} /\ ~Written(u)
          /\ staged' = [staged EXCEPT ![u] = "final"]
          /\ GoTo(c, "publish", u)
       \/ /\ staged[u] = "open" \/ Written(u)
             \/ (staged[u] = "none" /\ u \notin archive)
          /\ GoTo(c, "undo", u)
          /\ UNCHANGED staged
       \/ /\ staged[u] = "none" /\ u \in archive
          /\ GoTo(c, "record", u)
          /\ UNCHANGED staged
    /\ described' = IF staged[hand[c].up] = "none" /\ hand[c].up \in archive
                    THEN described \union {hand[c].up} ELSE described
    /\ UNCHANGED <<dead, rcpt, saved, made, canceling, archive, left>>

\* The hash, the archive and its database are verified, and the staging file is
\* renamed to its place among the backups.  An archive that an earlier attempt
\* has put there is taken as it is (recoverFinalizedUpload).
PublishArchive(c) ==
    /\ hand[c].pc = "publish"
    /\ archive' = archive \union {hand[c].up}
    /\ GoTo(c, "describe", hand[c].up)
    /\ UNCHANGED <<dead, rcpt, saved, staged, made, canceling, described, left>>

\* Verification stops: its request was given up; or the archive is not what it
\* should be, which clears the checkpoints; or its meta file cannot be written,
\* and the archive goes back to staging.
FailVerification(c) ==
    /\ hand[c].pc = "publish" /\ hand[c].up \notin described
    /\ \/ c # await /\ UNCHANGED <<staged, left>>
       \/ /\ Fail
          /\ staged' \in {staged, [staged EXCEPT ![hand[c].up] = "open"]}
    /\ GoTo(c, "undo", hand[c].up)
    /\ UNCHANGED <<dead, rcpt, saved, made, canceling, archives>>

DescribeArchive(c) ==
    /\ hand[c].pc = "describe"
    /\ described' = described \union {hand[c].up}
    /\ GoTo(c, "sweep", hand[c].up)
    /\ UNCHANGED <<dead, rcpt, saved, staged, made, canceling, archive, left>>

SweepUpload(c) ==
    /\ hand[c].pc = "sweep"
    /\ staged' = [staged EXCEPT ![hand[c].up] = "none"]
    /\ GoTo(c, "record", hand[c].up)
    /\ UNCHANGED <<dead, rcpt, saved, made, canceling, archives, left>>

UndoFinalize(c) ==
    /\ hand[c].pc = "undo"
    /\ staged' = [staged EXCEPT ![hand[c].up] = IF @ = "final" THEN "full" ELSE @]
    /\ \E ok \in BOOLEAN :
          /\ SaveReceipt([rcpt EXCEPT !.state = "uploading"], ok)
          /\ Answer(c, "refused")
    /\ UNCHANGED <<dead, made, canceling, archives>>

RecordImport(c) ==
    /\ hand[c].pc = "record"
    /\ \E ok \in BOOLEAN :
          /\ SaveReceipt([rcpt EXCEPT !.state = "completed", !.rec = TRUE], ok)
          /\ Answer(c, IF ok THEN "completed" ELSE "refused")
    /\ UNCHANGED <<dead, staged, made, canceling, archives>>

(***************************************************************************)
(* The receiver: cancellation by the sender or by its own administrator,   *)
(* and the cleanup that repeats what a stop interrupted.                   *)
(***************************************************************************)
\* The page offers it while the receipt is Cancellable.
AdminCancel ==
    /\ hand["admin"] = Idle
    /\ rcpt.state = "uploading"
    /\ hand' = [hand EXCEPT !["admin"] = [kind |-> "cancel", pc |-> "sent", up |-> 0]]
    /\ UNCHANGED <<senderVars, dead, receiverVars, left>>

CancelImport(a) ==
    /\ Waiting("cancel", a) /\ MuFree
    /\ UNCHANGED <<dead, staged, made, canceling, archives>>
    /\ LET admitted == a = "admin" \/ ~dead IN
       \/ (~admitted \/ rcpt.state = "finalizing") /\ Refuse(a)
       \/ /\ admitted /\ rcpt.state \in {"none", "completed", "canceled"}
          /\ UNCHANGED <<rcpt, saved, left>>
          /\ Answer(a, "ok")
       \/ /\ admitted /\ rcpt.state = "uploading"
          /\ \E ok \in BOOLEAN :
                /\ SaveReceipt([rcpt EXCEPT !.state = "canceled"], ok)
                /\ IF ok THEN GoTo(a, "drop", rcpt.up) ELSE Answer(a, "refused")

\* CancelUpload of backup.Manager: at once, or when the writer has ended.
CancelUpload(u) ==
    IF Written(u) THEN canceling' = canceling \union {u} /\ UNCHANGED staged
    ELSE staged' = [staged EXCEPT ![u] = "none"] /\ UNCHANGED canceling

DropUpload(a) ==
    /\ hand[a].pc = "drop"
    /\ CancelUpload(hand[a].up)
    /\ UNCHANGED <<dead, rcpt, saved, made, archives, left>>
    /\ Answer(a, "ok")

\* Mutation: the upload is forgotten although its writer is still at work.
CleanupWithoutWaiting ==
    /\ rcpt.state = "canceled" /\ rcpt.up # 0 /\ MuFree
    /\ CancelUpload(rcpt.up)
    /\ SaveReceipt([rcpt EXCEPT !.up = 0], TRUE)
    /\ UNCHANGED <<senderVars, dead, made, archives, hand>>

CleanupCanceled ==
    /\ rcpt.state = "canceled" /\ rcpt.up # 0 /\ MuFree
    /\ CancelUpload(rcpt.up)
    /\ IF Written(rcpt.up) THEN UNCHANGED <<rcpt, saved, left>>
       ELSE \/ SaveReceipt([rcpt EXCEPT !.up = 0], TRUE)
            \/ /\ UNCHANGED rcpt /\ Fail
               /\ saved' \in {saved, [rcpt EXCEPT !.up = 0]}
    /\ UNCHANGED <<senderVars, dead, made, archives, hand>>

(***************************************************************************)
(* The receiver: ListReceiveTransfers works on a copy of the receipt and   *)
(* without receiveMu (statusForReceipt).                                   *)
(***************************************************************************)
ListCopy ==
    /\ hand["list"] = Idle /\ Live
    /\ hand' = [hand EXCEPT !["list"] = [kind |-> "list", pc |-> "copied", up |-> rcpt.up]]
    /\ UNCHANGED <<senderVars, dead, receiverVars, left>>

ListLook ==
    /\ hand["list"].pc = "copied"
    /\ LET u == hand["list"].up
       IN  hand' = [hand EXCEPT !["list"] =
                       IF staged[u] = "none" /\ u \in archive THEN [@ EXCEPT !.pc = "found"]
                       ELSE Idle]
    /\ UNCHANGED <<senderVars, dead, receiverVars, left>>

ListRecover ==
    /\ hand["list"].pc = "found"
    /\ \E ok \in BOOLEAN :
          SaveReceipt([rcpt EXCEPT !.state = "completed", !.rec = TRUE], ok)
    /\ described' = described \union {hand["list"].up}
    /\ hand' = [hand EXCEPT !["list"] = Idle]
    /\ UNCHANGED <<senderVars, dead, staged, made, canceling, archive>>

---------------------------------------------------------------------------
(***************************************************************************)
(* The receiver's surroundings.                                            *)
(***************************************************************************)
\* RevokeReceiveToken saves the whole state of the receiver.
RevokeToken ==
    /\ ~dead
    /\ dead' = TRUE
    /\ saved' = rcpt
    /\ UNCHANGED <<senderVars, rcpt, staged, made, canceling, archives, hand, left>>

\* UploadTTL: staging that saw no range for three days is removed.  An exchange
\* between the servers takes minutes, so it ends while nothing is under way.
ExpireUpload(u) ==
    /\ staged[u] # "none" /\ at = "idle"
    /\ \A a \in Actors : hand[a] = Idle
    /\ Fail
    /\ staged' = [staged EXCEPT ![u] = "none"]
    /\ UNCHANGED <<senderVars, dead, rcpt, saved, made, canceling, archives, hand>>

\* The receiving process dies and starts again from its files.
ReceiverStop ==
    /\ Fail
    /\ rcpt' = saved
    /\ canceling' = {}
    /\ hand' = [a \in Actors |-> Idle]
    /\ IF await = NoCall THEN UNCHANGED senderVars ELSE Hear("lost")
    /\ UNCHANGED <<dead, saved, staged, made, archives>>

---------------------------------------------------------------------------
Handle(a) ==
    \/ CancelImport(a) \/ DropUpload(a)
    \/ /\ a \in Calls
       /\ \/ BeginImport(a) \/ RegisterImport(a)
          \/ PutImportRange(a) \/ CommitRange(a) \/ LeaveRange(a) \/ CutShort(a)
          \/ FinalizeImport(a) \/ MarkUpload(a) \/ PublishArchive(a) \/ FailVerification(a)
          \/ DescribeArchive(a) \/ SweepUpload(a) \/ UndoFinalize(a) \/ RecordImport(a)

Next ==
    \/ NextRunnable \/ Lose \/ CancelTransfer \/ RetryTransfer \/ SenderStop
    \/ \E c \in Calls : Request(c)
    \/ \E a \in Calls \union {"admin"} : Handle(a)
    \/ AdminCancel \/ CleanupCanceled \/ ListCopy \/ ListLook \/ ListRecover
    \/ RevokeToken \/ ReceiverStop
    \/ \E u \in Uploads : ExpireUpload(u)

\* The goroutines of both servers go on, and a Go mutex does not pass over a
\* waiter for ever.
Fairness ==
    /\ WF_vars(NextRunnable)
    /\ WF_vars(\E c \in Calls : Request(c))
    /\ \A a \in Calls \union {"admin"} : WF_vars(Handle(a))
    /\ WF_vars(CleanupCanceled)

Spec == Init /\ [][Next]_vars /\ Fairness

---------------------------------------------------------------------------
ReceiptType ==
    [state : {"none", "uploading", "finalizing", "completed", "canceled"},
     up : {0} \union Uploads, rec : BOOLEAN]

\* The values the state may take (types.go, store.go).
TypeOK ==
    /\ job \in [state : Active \union Terminal, cancel : BOOLEAN, token : BOOLEAN,
                attempts : 0..MaxAttempts]
    /\ at \in Points /\ await \in Calls \union {NoCall}
    /\ dead \in BOOLEAN
    /\ rcpt \in ReceiptType /\ saved \in ReceiptType
    /\ staged \in [Uploads -> {"none", "open", "full", "final"}]
    /\ made \in 0..MaxUploads
    /\ canceling \subseteq Uploads /\ archive \subseteq Uploads /\ described \subseteq archive
    /\ hand \in [Actors -> [kind : Points \union {"none", "list"},
                            pc : Locked \union {"idle", "sent", "writing", "copied", "found"},
                            up : {0} \union Uploads]]
    /\ left \in 0..MaxFailures

\* However often the requests are repeated, and whichever server restarts in
\* between, the transfer leaves at most one archive among the receiver's backups.
PublishedOnce == Cardinality(archive) <= 1

\* The job and the import together keep the promise of TransferOutcome.
Outcome == INSTANCE TransferOutcome WITH
    outcome <- CASE archive # {} -> "published"
                 [] archive = {} /\ saved.state = "canceled" -> "canceled"
                 [] OTHER -> "open",
    verdict <- CASE job.state = "completed" -> "completed"
                 [] job.state = "canceled" /\ ~job.cancel -> "canceled"
                 [] OTHER -> "open"
KeepsOutcome == Outcome!Spec

\* A transfer that nobody cancels comes to an end: its retries are bounded and
\* no request is waited for indefinitely.
TransferSettles == (job.state \in Active) ~> (job.state \notin Active)

\* The staging of a canceled import is given back, although its writer was at
\* work and the receiver may stop before it is done.
StagingReturned ==
    \A u \in Uploads : (saved.state = "canceled" /\ saved.up = u) ~> (staged[u] = "none")

=============================================================================
