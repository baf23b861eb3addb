------------------------- MODULE BackupTransferProofs -------------------------
(***************************************************************************)
(* Proofs about BackupTransfer, for any number of requests in hand, of     *)
(* attempts, uploads and failures: its types, that a backup is published   *)
(* at most once, and that it implements TransferOutcome.                   *)
(*                                                                         *)
(* A request that was given up goes on at the receiver beside its retry,   *)
(* and a restart puts the receipt back to what its file says.  What keeps  *)
(* the promise is therefore a relation of four things: the receipt in      *)
(* memory, the one in the file, the archives, and what the one request     *)
(* that holds receiveMu is about to do.                                    *)
(***************************************************************************)
EXTENDS BackupTransfer, FiniteSetTheorems, TLAPS

HandType == [kind : Points \union {"none", "list"},
             pc : Locked \union {"idle", "sent", "writing", "copied", "found"},
             up : {0} \union Uploads]

\* The labels of FinalizeImport under receiveMu, and those after the archive
\* has been put in its place.
Finalizing == {"mark", "publish", "describe", "sweep", "undo", "record"}
Published == {"describe", "sweep", "record"}

\* A receipt, in memory or in the file, beside the archives: it names the
\* archive there is, unless a cleanup has cleared the name of a receipt that is
\* final; and it is completed only if there is one.
ReceiptOK(r) ==
    /\ r \in ReceiptType
    /\ r.state = "none" => r.up = 0
    /\ r.state \in {"uploading", "finalizing"} => r.up \in Uploads
    /\ r.state = "completed" => archive # {}
    /\ \A u \in archive : r.up = u \/ (r.up = 0 /\ r.state \in {"canceled", "completed"})

\* Both receipts; one archive; and a cancellation on record is in memory too,
\* unless there is an archive.
ReceiptInv ==
    /\ ReceiptOK(rcpt) /\ ReceiptOK(saved)
    /\ \A u, v \in archive : u = v
    /\ archive = {} /\ saved.state = "canceled" => rcpt.state = "canceled"

\* What a request in hand relies on.  A new session enters the receipt only
\* while nothing is published or canceled; a finalization works on the upload
\* that both receipts name, and neither is canceled.
HandOK(h) ==
    /\ h.pc \in Locked \union {"writing"} => h.up \in Uploads
    /\ h.pc = "register" => archive = {} /\ rcpt.state # "canceled"
    /\ h.pc \in Finalizing =>
          /\ h.up = rcpt.up /\ h.up = saved.up
          /\ rcpt.state \in {"finalizing", "completed"}
          /\ saved.state \in {"finalizing", "completed"}
    /\ h.pc \in Published \union {"found"} => h.up \in archive

\* The requests in hand: receiveMu has one holder, and the listing never does.
HandInv ==
    /\ \A a \in Actors : HandOK(hand[a])
    /\ \A a, b \in Actors : hand[a].pc \in Locked /\ hand[b].pc \in Locked => a = b
    /\ hand["list"].pc \notin Locked

\* The sender: where its goroutine is goes with what the job says.
SenderInv ==
    /\ at \in {"begin", "put", "finalize"} => job.state = "active" /\ ~job.cancel
    /\ at = "cancel" => job.state = "canceled" /\ job.cancel
    /\ job.cancel => job.state = "canceled"
    /\ await # NoCall => at # "idle"
    /\ job.state \in Active => job.attempts < MaxAttempts

\* The inductive invariant.
IInv == TypeOK /\ ReceiptInv /\ HandInv /\ SenderInv

\* The type invariant in parts.
SenderTypes ==
    /\ job \in [state : Active \union Terminal, cancel : BOOLEAN, token : BOOLEAN,
                attempts : 0..MaxAttempts]
    /\ at \in Points /\ await \in Calls \union {NoCall}

StoreTypes ==
    /\ dead \in BOOLEAN
    /\ staged \in [Uploads -> {"none", "open", "full", "final"}]
    /\ made \in 0..MaxUploads
    /\ canceling \subseteq Uploads /\ archive \subseteq Uploads /\ described \subseteq archive
    /\ left \in 0..MaxFailures

\* What TransferOutcome sees of the two servers.
Result ==
    CASE archive # {} -> "published"
      [] archive = {} /\ saved.state = "canceled" -> "canceled"
      [] OTHER -> "open"

Verdict ==
    CASE job.state = "completed" -> "completed"
      [] job.state = "canceled" /\ ~job.cancel -> "canceled"
      [] OTHER -> "open"

\* Steps that TransferOutcome allows, of either server.
ResultStep == Result' = Result \/ Result = "open"
VerdictStep ==
    \/ Verdict' = Verdict
    \/ Verdict = "open" /\ (Verdict' = "completed" => archive # {})

\* Conclusions of the lemmas: the sender's part, the receiver's part, and that
\* of the requests only a has moved.
SenderKept == SenderTypes' /\ SenderInv' /\ VerdictStep
ReceiverKept == ReceiptInv' /\ HandInv' /\ ResultStep
Moves(a) ==
    /\ hand' \in [Actors -> HandType]
    /\ \A b \in Actors \ {a} : hand'[b] = hand[b]

AloneWith(a) == \A b \in Actors \ {a} : hand[b].pc \notin Locked

-----------------------------------------------------------------------------
\* What the assumption says of the names of requests and the zero upload.
LEMMA ActorsApart ==
    /\ Calls \subseteq Actors /\ "admin" \in Actors /\ "list" \in Actors
    /\ "list" \notin Calls /\ "admin" \notin Calls /\ NoCall \notin Actors
    /\ 0 \notin Uploads
BY TransferAssumption DEF Actors, Uploads

\* TypeOK in the parts that the actions disturb separately.
LEMMA TypeParts ==
    TypeOK <=> /\ SenderTypes /\ StoreTypes
               /\ rcpt \in ReceiptType /\ saved \in ReceiptType
               /\ hand \in [Actors -> HandType]
BY DEF TypeOK, SenderTypes, StoreTypes, HandType

\* The parts whose primed forms the lemmas give make up the invariant.
LEMMA InvParts == ReceiptInv /\ HandInv /\ SenderInv /\ SenderTypes /\ StoreTypes
                    /\ hand \in [Actors -> HandType] => IInv
BY TypeParts DEF IInv, ReceiptInv, ReceiptOK

\* The record fields of an updated receipt and of an updated request.
LEMMA ReceiptFields ==
  ASSUME NEW r \in ReceiptType, NEW s \in {"uploading", "finalizing", "completed", "canceled"}
  PROVE  /\ LET q == [r EXCEPT !.state = s] IN
              q \in ReceiptType /\ q.state = s /\ q.up = r.up
         /\ LET q == [r EXCEPT !.state = s, !.rec = TRUE] IN
              q \in ReceiptType /\ q.state = s /\ q.up = r.up
         /\ LET q == [r EXCEPT !.up = 0] IN
              q \in ReceiptType /\ q.state = r.state /\ q.up = 0
BY DEF ReceiptType

\* A request that is not in hand.
LEMMA IdleType == Idle \in HandType /\ Idle.pc = "idle" /\ Idle.up = 0
BY DEF Idle, HandType, Points

(***************************************************************************)
(* The sender hears an answer.  "completed" may be answered only when      *)
(* there is an archive.                                                    *)
(***************************************************************************)
LEMMA HearStep ==
  ASSUME IInv, await # NoCall, NEW x, Hear(x), x = "completed" => archive # {}
  PROVE  SenderKept
<1> USE DEF IInv, SenderInv, SenderKept, SenderTypes
<1>0. SenderTypes /\ at # "idle" /\ await' = NoCall /\ job' = JobAfter(x) /\ at' = PointAfter(x)
  BY TypeParts DEF Hear
<1>1. CASE at = "cancel"
  <2>1. at' = "idle" /\ job.state = "canceled" /\ job.cancel
    BY <1>0, <1>1 DEF PointAfter
  <2>2. CASE x = "ok"
    <3>1. job' = [job EXCEPT !.state = "canceled", !.cancel = FALSE, !.token = FALSE]
      BY <1>0, <1>1, <2>2 DEF JobAfter, FinishedCanceled
    <3> QED
      BY <1>0, <2>1, <3>1 DEF Terminal, Active, Points, VerdictStep, Verdict
  <2>3. CASE x # "ok"
    <3>1. job' = job
      BY <1>0, <1>1, <2>3 DEF JobAfter
    <3> QED
      BY <1>0, <2>1, <3>1 DEF Terminal, Active, Points, VerdictStep, Verdict
  <2> QED
    BY <2>2, <2>3
<1>2. CASE at # "cancel"
  <2>0. job.state = "active" /\ ~job.cancel /\ job.attempts < MaxAttempts
    BY <1>0, <1>2 DEF Points, Active
  <2>1. CASE x = "completed"
    <3>1. job' = [job EXCEPT !.state = "completed", !.token = FALSE] /\ at' = "idle"
      BY <1>0, <1>2, <2>1 DEF JobAfter, PointAfter
    <3> QED
      BY <1>0, <2>0, <2>1, <3>1 DEF Terminal, Active, Points, VerdictStep, Verdict
  <2>2. CASE x = "canceled"
    <3>1. job' = [job EXCEPT !.state = "canceled", !.cancel = FALSE, !.token = FALSE]
          /\ at' = "idle"
      BY <1>0, <1>2, <2>2 DEF JobAfter, PointAfter, FinishedCanceled
    <3> QED
      BY <1>0, <2>0, <3>1 DEF Terminal, Active, Points, VerdictStep, Verdict
  <2>3. CASE x \in {"lost", "refused"}
    <3>1. job' = FailOrRetry(x = "lost") /\ at' = "idle"
      BY <1>0, <1>2, <2>3 DEF JobAfter, PointAfter
    <3>2. \/ /\ job.attempts + 1 < MaxAttempts
             /\ job' = [job EXCEPT !.state = "retrying", !.attempts = job.attempts + 1]
          \/ job' = [job EXCEPT !.state = "failed", !.attempts = job.attempts + 1,
                                !.token = (x = "lost")]
      BY <3>1 DEF FailOrRetry
    <3>3. job.attempts + 1 \in 0..MaxAttempts
      BY <1>0, <2>0, TransferAssumption
    <3> QED
      BY <1>0, <2>0, <3>1, <3>2, <3>3 DEF Terminal, Active, Points, VerdictStep, Verdict
  <2>4. CASE x \notin {"completed", "canceled", "lost", "refused"}
    <3>1. job' = job /\ at' \in {"idle", "put", "finalize"}
      BY <1>0, <1>2, <2>4 DEF JobAfter, PointAfter
    <3> QED
      BY <1>0, <2>0, <3>1 DEF Terminal, Active, Points, VerdictStep, Verdict
  <2> QED
    BY <2>1, <2>2, <2>3, <2>4
<1> QED
  BY <1>1, <1>2

\* A step of the receiver leaves the sender as it is.
LEMMA SenderIdle ==
  ASSUME IInv, UNCHANGED senderVars
  PROVE  SenderKept
BY TypeParts DEF IInv, senderVars, SenderKept, SenderTypes, SenderInv, VerdictStep, Verdict

(***************************************************************************)
(* A handler ends, and a handler goes on.                                  *)
(***************************************************************************)
LEMMA AnswerStep ==
  ASSUME IInv, NEW a \in Actors, NEW x, Answer(a, x), x = "completed" => archive # {}
  PROVE  SenderKept /\ Moves(a) /\ hand'[a] = Idle
<1>1. SenderKept
  BY HearStep, SenderIdle, ActorsApart DEF Answer
<1>2. Moves(a) /\ hand'[a] = Idle
  BY IdleType, TypeParts DEF Answer, Moves, IInv
<1> QED
  BY <1>1, <1>2

\* A request that goes on to a label moves alone and leaves the sender as it
\* is.
LEMMA GoToStep ==
  ASSUME IInv, NEW a \in Actors, NEW pc \in Locked \union {"writing"}, NEW u \in Uploads,
         GoTo(a, pc, u)
  PROVE  SenderKept /\ Moves(a) /\ hand'[a].pc = pc /\ hand'[a].up = u
<1>1. hand \in [Actors -> HandType] /\ hand[a] \in HandType
  BY TypeParts DEF IInv
<1>2. hand' = [hand EXCEPT ![a] = [hand[a] EXCEPT !.pc = pc, !.up = u]]
  BY <1>1 DEF GoTo, HandType
<1>3. [hand[a] EXCEPT !.pc = pc, !.up = u] \in HandType
  BY <1>1 DEF HandType
<1> QED
  BY <1>1, <1>2, <1>3, SenderIdle DEF GoTo, Moves, HandType

(***************************************************************************)
(* The requests in hand after a step of one of them.  The others keep what *)
(* they rely on: nothing they use has changed, or none of them holds the   *)
(* mutex.                                                                  *)
(***************************************************************************)
LEMMA HandStep ==
  ASSUME IInv, NEW a \in Actors, Moves(a), archive \subseteq archive',
         \/ UNCHANGED <<rcpt, archive>> /\ saved' \in {saved, rcpt}
         \/ AloneWith(a),
         HandOK(hand[a])',
         hand'[a].pc \in Locked => a # "list" /\ AloneWith(a)
  PROVE  HandInv'
<1> USE DEF IInv, HandInv
<1>1. ASSUME NEW b \in Actors PROVE HandOK(hand[b])'
  <2>1. CASE b = a
    BY <2>1
  <2>2. CASE b # a
    <3>1. hand'[b] = hand[b] /\ HandOK(hand[b])
      BY <2>2 DEF Moves
    <3>2. CASE UNCHANGED <<rcpt, archive>> /\ saved' \in {saved, rcpt}
      BY <3>1, <3>2 DEF HandOK
    <3>3. CASE AloneWith(a)
      BY <2>2, <3>1, <3>3 DEF AloneWith, HandOK, Locked, Finalizing, Published
    <3> QED
      BY <3>2, <3>3
  <2> QED
    BY <2>1, <2>2
<1>2. ASSUME NEW b \in Actors, NEW c \in Actors,
             hand'[b].pc \in Locked, hand'[c].pc \in Locked
      PROVE  b = c
  BY <1>2 DEF Moves, AloneWith
<1>3. hand'["list"].pc \notin Locked
  BY ActorsApart DEF Moves
<1> QED
  BY <1>1, <1>2, <1>3

\* A step that leaves the receipt and the archives as they are, and at most
\* saves what the receipt says in memory, keeps the part of the receiver.
LEMMA QuietStep ==
  ASSUME IInv, NEW a \in Actors, Moves(a), UNCHANGED <<rcpt, archive>>, saved' \in {saved, rcpt},
         HandOK(hand[a])', hand'[a].pc \in Locked => a # "list" /\ AloneWith(a)
  PROVE  ReceiverKept
<1>1. HandInv'
  BY HandStep
<1>2. ReceiptInv' /\ ResultStep
  BY DEF IInv, ReceiptInv, ReceiptOK, ResultStep, Result
<1> QED
  BY <1>1, <1>2 DEF ReceiverKept

(***************************************************************************)
(* A receipt is saved, or the save fails: the archives are as they were,   *)
(* and a cancellation is not taken back unless there is an archive.        *)
(***************************************************************************)
LEMMA SavedReceipts ==
  ASSUME IInv, NEW r, ReceiptOK(r), rcpt' = r, saved' \in {saved, r}, UNCHANGED archive,
         archive = {} => r.state = "canceled" \/ rcpt.state # "canceled"
  PROVE  ReceiptInv' /\ ResultStep
BY DEF IInv, ReceiptInv, ReceiptOK, ResultStep, Result

\* The holder of receiveMu saves a receipt that agrees with the archives:
\* memory and file may now differ, and both are still right.
LEMMA SaveStep ==
  ASSUME IInv, NEW a \in Actors, Moves(a), AloneWith(a), a # "list",
         NEW r, NEW ok \in BOOLEAN, SaveReceipt(r, ok), ReceiptOK(r), UNCHANGED archive,
         archive = {} => r.state = "canceled" \/ rcpt.state # "canceled",
         HandOK(hand[a])'
  PROVE  ReceiverKept
<1>1. rcpt' = r /\ saved' \in {saved, r}
  BY DEF SaveReceipt
<1>2. ReceiptInv' /\ ResultStep
  BY <1>1, SavedReceipts
<1>3. HandInv'
  BY HandStep
<1> QED
  BY <1>2, <1>3 DEF ReceiverKept

\* Where a request that holds the mutex is alone with it, and so is one that
\* finds it free.
LEMMA Alone ==
  ASSUME IInv, NEW a \in Actors, hand[a].pc \in Locked \/ MuFree
  PROVE  AloneWith(a)
BY DEF IInv, HandInv, AloneWith, MuFree

\* A request that has left relies on nothing.
LEMMA IdleOK == ASSUME NEW a \in Actors, hand'[a] = Idle PROVE HandOK(hand[a])'
BY IdleType DEF HandOK, Locked, Finalizing, Published

\* A failure stays within its bound.
LEMMA FailType == ASSUME StoreTypes, left' = left \/ Fail PROVE left' \in 0..MaxFailures
BY TransferAssumption DEF StoreTypes, Fail

-----------------------------------------------------------------------------
(***************************************************************************)
(* A step keeps the invariant, and TransferOutcome allows it.              *)
(***************************************************************************)
StepOK == IInv' /\ ResultStep /\ VerdictStep

\* The parts of the sender and of the receiver make up a good step.
LEMMA Combine ==
  ASSUME SenderKept, ReceiverKept, StoreTypes', hand' \in [Actors -> HandType]
  PROVE  StepOK
BY DEF StepOK, IInv, TypeOK, SenderKept, ReceiverKept, SenderTypes, StoreTypes, HandType,
       ReceiptInv, ReceiptOK

\* The same for a step in which one request moves.
LEMMA ActorStep ==
  ASSUME IInv, NEW a \in Actors, SenderKept, Moves(a), ReceiverKept, StoreTypes'
  PROVE  StepOK
BY Combine DEF Moves

\* Steps that leave the receiver alone.
LEMMA SenderOnly ==
  ASSUME IInv, SenderKept, UNCHANGED <<dead, receiverVars, hand>>, left' = left \/ Fail
  PROVE  StepOK
<1> USE DEF IInv, receiverVars, archives
<1>1. ReceiptInv' /\ ResultStep
  BY DEF ReceiptInv, ReceiptOK, ResultStep, Result
<1>2. HandInv'
  BY DEF HandInv, HandOK
<1>3. StoreTypes'
  BY FailType, TypeParts DEF StoreTypes
<1> QED
  BY <1>1, <1>2, <1>3, Combine, TypeParts DEF ReceiverKept

\* The steps of the sender and of its administrator.
LEMMA SenderSteps ==
  ASSUME IInv, NextRunnable \/ Lose \/ CancelTransfer \/ RetryTransfer \/ SenderStop
  PROVE  StepOK
<1>0. SenderTypes /\ SenderInv
  BY TypeParts DEF IInv
<1> USE DEF SenderTypes, SenderInv
<1>1. CASE NextRunnable
  <2>1. SenderKept
    <3>1. CASE job.cancel /\ job.token /\ at' = "cancel" /\ UNCHANGED <<job, await>>
      BY <1>0, <3>1 DEF SenderKept, VerdictStep, Verdict, Points
    <3>2. CASE /\ ~job.cancel /\ job.state \in {"queued", "retrying"}
               /\ job' = [job EXCEPT !.state = "active"]
               /\ at' = "begin" /\ UNCHANGED await
      BY <1>0, <3>2 DEF SenderKept, VerdictStep, Verdict, Points, Active
    <3> QED
      BY <1>1, <3>1, <3>2 DEF NextRunnable
  <2> QED
    BY <1>1, <2>1, SenderOnly DEF NextRunnable
<1>2. CASE Lose
  BY <1>2, HearStep, SenderOnly DEF Lose
<1>3. CASE CancelTransfer
  <2>1. SenderKept
    BY <1>0, <1>3 DEF CancelTransfer, SenderKept, VerdictStep, Verdict, Points, Active, Terminal
  <2> QED
    BY <1>3, <2>1, SenderOnly DEF CancelTransfer
<1>4. CASE RetryTransfer
  <2>1. 0 \in 0..MaxAttempts /\ 0 < MaxAttempts
    BY TransferAssumption
  <2>2. SenderKept
    BY <1>0, <1>4, <2>1 DEF RetryTransfer, SenderKept, VerdictStep, Verdict, Points, Active
  <2> QED
    BY <1>4, <2>2, SenderOnly DEF RetryTransfer
<1>5. CASE SenderStop
  <2>1. SenderKept
    BY <1>0, <1>5 DEF SenderStop, SenderKept, VerdictStep, Verdict, Points, Active
  <2> QED
    BY <1>5, <2>1, SenderOnly DEF SenderStop
<1> QED
  BY <1>1, <1>2, <1>3, <1>4, <1>5

(***************************************************************************)
(* Requests and copies that start: the receiver's data stay as they are.   *)
(***************************************************************************)
LEMMA StartStep ==
  ASSUME IInv, NEW a \in Actors, NEW h \in HandType, hand' = [hand EXCEPT ![a] = h],
         h.pc \in {"idle", "sent", "copied"} \/ (h.pc = "found" /\ h.up \in archive),
         UNCHANGED <<dead, receiverVars, left>>, SenderKept
  PROVE  StepOK
<1> USE DEF receiverVars, archives
<1>1. Moves(a) /\ hand'[a] = h
  BY TypeParts DEF IInv, Moves
<1>2. HandOK(hand[a])' /\ h.pc \notin Locked
  BY <1>1 DEF HandOK, Locked, Finalizing, Published
<1>3. ReceiverKept
  BY <1>1, <1>2, QuietStep
<1>4. StoreTypes'
  BY TypeParts DEF IInv, StoreTypes
<1> QED
  BY <1>1, <1>3, <1>4, ActorStep

\* The sender sends a request.
LEMMA RequestStep ==
  ASSUME IInv, NEW c \in Calls, Request(c)
  PROVE  StepOK
<1> DEFINE h == [kind |-> at, pc |-> "sent", up |-> 0]
<1>0. SenderTypes /\ SenderInv /\ c \in Actors
  BY TypeParts, ActorsApart DEF IInv
<1>1. SenderKept
  BY <1>0 DEF Request, SenderKept, SenderTypes, SenderInv, VerdictStep, Verdict
<1>2. h \in HandType /\ h.pc = "sent"
  BY <1>0 DEF HandType, SenderTypes
<1>3. hand' = [hand EXCEPT ![c] = h] /\ UNCHANGED <<dead, receiverVars, left>>
  BY DEF Request
<1> HIDE DEF h
<1> QED
  BY <1>0, <1>1, <1>2, <1>3, StartStep

\* The receiver's administrator takes the mutex to cancel.
LEMMA AdminCancelStep ==
  ASSUME IInv, AdminCancel
  PROVE  StepOK
<1> DEFINE h == [kind |-> "cancel", pc |-> "sent", up |-> 0]
<1>1. h \in HandType /\ h.pc = "sent"
  BY DEF HandType, Points
<1>2. /\ hand' = [hand EXCEPT !["admin"] = h]
      /\ UNCHANGED <<dead, receiverVars, left>> /\ UNCHANGED senderVars
  BY DEF AdminCancel
<1> HIDE DEF h
<1> QED
  BY <1>1, <1>2, StartStep, SenderIdle, ActorsApart

\* The listing copies the receipts and looks for the archive.
LEMMA ListSteps ==
  ASSUME IInv, ListCopy \/ ListLook
  PROVE  StepOK
<1>1. CASE ListCopy
  <2> DEFINE h == [kind |-> "list", pc |-> "copied", up |-> rcpt.up]
  <2>1. h \in HandType /\ h.pc = "copied"
    BY DEF IInv, ReceiptInv, ReceiptOK, ReceiptType, HandType
  <2>2. /\ hand' = [hand EXCEPT !["list"] = h]
        /\ UNCHANGED <<dead, receiverVars, left>> /\ UNCHANGED senderVars
    BY <1>1 DEF ListCopy
  <2> HIDE DEF h
  <2> QED
    BY <2>1, <2>2, StartStep, SenderIdle, ActorsApart
<1>2. CASE ListLook
  <2> DEFINE u == hand["list"].up
             h == [hand["list"] EXCEPT !.pc = "found"]
  <2>1. hand["list"] \in HandType
    BY TypeParts, ActorsApart DEF IInv
  <2>2. h \in HandType /\ h.pc = "found" /\ h.up = u
    BY <2>1 DEF HandType
  <2>3. UNCHANGED <<dead, receiverVars, left>> /\ UNCHANGED senderVars
    BY <1>2 DEF ListLook
  <2>4. \/ hand' = [hand EXCEPT !["list"] = h] /\ u \in archive
        \/ hand' = [hand EXCEPT !["list"] = Idle]
    BY <1>2 DEF ListLook
  <2> HIDE DEF h
  <2> QED
    BY <2>2, <2>3, <2>4, IdleType, StartStep, SenderIdle, ActorsApart
<1> QED
  BY <1>1, <1>2

(***************************************************************************)
(* Handlers that end without touching the receipt, but for the receipt     *)
(* that touchReceiveToken may save.                                        *)
(***************************************************************************)
LEMMA QuietAnswer ==
  ASSUME IInv, NEW a \in Actors, NEW x, Answer(a, x), x = "completed" => archive # {},
         UNCHANGED <<rcpt, archive>>, saved' \in {saved, rcpt}, StoreTypes'
  PROVE  StepOK
<1>1. SenderKept /\ Moves(a) /\ hand'[a] = Idle
  BY AnswerStep
<1>2. HandOK(hand[a])' /\ hand'[a].pc \notin Locked
  BY <1>1, IdleOK, IdleType DEF Locked
<1>3. ReceiverKept
  BY <1>1, <1>2, QuietStep
<1> QED
  BY <1>1, <1>3, ActorStep

\* A request that is answered with an error.
LEMMA RefuseStep ==
  ASSUME IInv, NEW a \in Actors, Refuse(a), UNCHANGED dead
  PROVE  StepOK
<1>1. StoreTypes'
  BY TypeParts DEF IInv, StoreTypes, Refuse, receiverVars, archives
<1> QED
  BY <1>1, QuietAnswer DEF Refuse, receiverVars, archives

\* A request that ends with a save of the unchanged receipt; it may answer
\* "completed" only if there is an archive.
LEMMA TouchStep ==
  ASSUME IInv, NEW a \in Actors, NEW x, Touch(a, x), x = "completed" => archive # {},
         UNCHANGED archive, left' \in 0..MaxFailures => StoreTypes'
  PROVE  StepOK
<1>1. UNCHANGED rcpt /\ saved' \in {saved, rcpt} /\ (left' = left \/ Fail)
  BY DEF Touch
<1>2. StoreTypes'
  BY <1>1, FailType, TypeParts DEF IInv
<1>3. Answer(a, x) \/ Answer(a, "refused")
  BY DEF Touch
<1> QED
  BY <1>1, <1>2, <1>3, QuietAnswer

\* A completed receipt has an archive.
LEMMA CompletedHasArchive ==
  ASSUME IInv
  PROVE  rcpt.state = "completed" => archive # {}
BY DEF IInv, ReceiptInv, ReceiptOK

\* A handler saves the receipt and ends.
LEMMA SaveAnswer ==
  ASSUME IInv, NEW a \in Actors, AloneWith(a), a # "list",
         NEW r, NEW ok \in BOOLEAN, SaveReceipt(r, ok), ReceiptOK(r),
         archive = {} => r.state = "canceled" \/ rcpt.state # "canceled",
         NEW x, Answer(a, x), x = "completed" => archive # {},
         UNCHANGED archive, left' \in 0..MaxFailures => StoreTypes'
  PROVE  StepOK
<1>1. SenderKept /\ Moves(a) /\ hand'[a] = Idle
  BY AnswerStep
<1>2. HandOK(hand[a])'
  BY <1>1, IdleOK
<1>3. ReceiverKept
  BY <1>1, <1>2, SaveStep
<1>4. StoreTypes'
  BY FailType, TypeParts DEF IInv, SaveReceipt
<1> QED
  BY <1>1, <1>3, <1>4, ActorStep

\* A handler goes on to a label, and only the staging has changed.
LEMMA QuietGoTo ==
  ASSUME IInv, NEW a \in Actors, NEW pc \in Locked \union {"writing"}, NEW u \in Uploads,
         GoTo(a, pc, u), a # "list", pc \in Locked => AloneWith(a),
         UNCHANGED <<rcpt, saved, archive>>, HandOK(hand[a])', StoreTypes'
  PROVE  StepOK
<1>1. SenderKept /\ Moves(a) /\ hand'[a].pc = pc
  BY GoToStep
<1>2. ReceiverKept
  BY <1>1, QuietStep
<1> QED
  BY <1>1, <1>2, ActorStep

-----------------------------------------------------------------------------
(***************************************************************************)
(* BeginImport and its end.  A new session begins only while nothing is    *)
(* published: a receipt that is not there, or whose staging and archive    *)
(* are both gone, cannot name an archive.                                  *)
(***************************************************************************)
LEMMA NothingPublished ==
  ASSUME IInv, rcpt.state = "none" \/ Expired
  PROVE  archive = {} /\ rcpt.state \in {"none", "uploading", "finalizing"}
BY ActorsApart, TypeParts DEF IInv, ReceiptInv, ReceiptOK, Expired, Live, StoreTypes

\* BeginImport up to the new session.
LEMMA BeginStep ==
  ASSUME IInv, NEW c \in Calls, BeginImport(c)
  PROVE  StepOK
<1>0. /\ c \in Actors /\ c # "list" /\ AloneWith(c) /\ UNCHANGED <<dead, canceling, archive>>
      /\ StoreTypes
  BY ActorsApart, Alone, TypeParts DEF BeginImport, IInv
<1>1. CASE Refuse(c)
  BY <1>0, <1>1, RefuseStep
<1>2. CASE /\ \/ rcpt.state \in {"completed", "canceled"} /\ Touch(c, rcpt.state)
              \/ Touch(c, IF staged[rcpt.up] = "open" THEN "uploading" ELSE "finalizing")
           /\ UNCHANGED <<staged, made, described>>
  <2>1. left' \in 0..MaxFailures => StoreTypes'
    BY <1>0, <1>2 DEF StoreTypes
  <2> QED
    BY <1>0, <1>2, <2>1, TouchStep, CompletedHasArchive
<1>3. CASE /\ Live /\ rcpt.up \in archive
           /\ described' = described \union {rcpt.up}
           /\ \E ok \in BOOLEAN :
                 /\ SaveReceipt([rcpt EXCEPT !.state = "completed", !.rec = TRUE], ok)
                 /\ Answer(c, IF ok THEN "completed" ELSE "refused")
           /\ UNCHANGED <<staged, made>>
  <2> DEFINE r == [rcpt EXCEPT !.state = "completed", !.rec = TRUE]
  <2>1. ReceiptOK(rcpt) /\ archive # {}
    BY <1>3 DEF IInv, ReceiptInv
  <2>2. r.state = "completed" /\ r.up = rcpt.up /\ r \in ReceiptType
    BY <2>1, ReceiptFields DEF ReceiptOK
  <2>3. ReceiptOK(r)
    BY <1>3, <2>1, <2>2 DEF ReceiptOK, Live
  <2>4. left' \in 0..MaxFailures => StoreTypes'
    BY <1>0, <1>3 DEF StoreTypes
  <2>5. PICK ok \in BOOLEAN :
           SaveReceipt(r, ok) /\ Answer(c, IF ok THEN "completed" ELSE "refused")
    BY <1>3
  <2> HIDE DEF r
  <2> QED
    BY <1>0, <2>1, <2>3, <2>4, <2>5, SaveAnswer
<1>4. CASE /\ rcpt.state = "none" \/ Expired
           /\ IF made < MaxUploads
              THEN /\ made' = made + 1
                   /\ staged' = [staged EXCEPT ![made + 1] = "open"]
                   /\ GoTo(c, "register", made + 1)
              ELSE Answer(c, "lost") /\ UNCHANGED <<made, staged>>
           /\ UNCHANGED <<rcpt, saved, described, left>>
  <2>1. archive = {} /\ rcpt.state # "canceled"
    BY <1>4, NothingPublished
  <2>2. CASE made < MaxUploads
    <3>1. made + 1 \in Uploads /\ made + 1 \in 0..MaxUploads
      BY <1>0, <2>2, TransferAssumption DEF StoreTypes, Uploads
    <3>2. StoreTypes'
      BY <1>0, <1>4, <2>2, <3>1 DEF StoreTypes
    <3>3. hand'[c].pc = "register" /\ hand'[c].up = made + 1
      BY <1>0, <1>4, <2>2, <3>1, GoToStep DEF Locked
    <3>4. HandOK(hand[c])'
      BY <1>0, <1>4, <2>1, <3>1, <3>3 DEF HandOK, Finalizing, Published
    <3> QED
      BY <1>0, <1>4, <2>2, <3>1, <3>2, <3>4, QuietGoTo DEF Locked
  <2>3. CASE ~(made < MaxUploads)
    <3>1. StoreTypes'
      BY <1>0, <1>4, <2>3 DEF StoreTypes
    <3> QED
      BY <1>0, <1>4, <2>3, <3>1, QuietAnswer
  <2> QED
    BY <2>2, <2>3
<1> QED
  BY <1>1, <1>2, <1>3, <1>4 DEF BeginImport

\* The new session enters the receipt.
LEMMA RegisterStep ==
  ASSUME IInv, NEW c \in Calls, RegisterImport(c)
  PROVE  StepOK
<1> DEFINE u == hand[c].up
           r == [state |-> "uploading", up |-> u, rec |-> FALSE]
           drop == [staged EXCEPT ![u] = "none"]
<1>0. /\ c \in Actors /\ c # "list" /\ AloneWith(c) /\ StoreTypes
      /\ UNCHANGED <<dead, made, canceling, archive, described>>
  BY ActorsApart, Alone, TypeParts DEF RegisterImport, IInv, Locked, archives
<1>1. u \in Uploads /\ archive = {} /\ rcpt.state # "canceled"
  BY <1>0 DEF RegisterImport, IInv, HandInv, HandOK, Locked
<1>2. ReceiptOK(r)
  BY <1>1 DEF ReceiptOK, ReceiptType
<1>3. staged' \in {staged, drop}
  BY DEF RegisterImport
<1>4. left' \in 0..MaxFailures => StoreTypes'
  BY <1>0, <1>3 DEF StoreTypes
<1>5. CASE Answer(c, "refused") /\ UNCHANGED <<rcpt, saved, left>>
  BY <1>0, <1>4, <1>5, QuietAnswer DEF StoreTypes
<1>6. CASE \E ok \in BOOLEAN :
              SaveReceipt(r, ok) /\ Answer(c, IF ok THEN "uploading" ELSE "refused")
  <2>1. PICK ok \in BOOLEAN :
           SaveReceipt(r, ok) /\ Answer(c, IF ok THEN "uploading" ELSE "refused")
    BY <1>6
  <2> HIDE DEF r
  <2> QED
    BY <1>0, <1>1, <1>2, <1>4, <2>1, SaveAnswer
<1>7. (Answer(c, "refused") /\ UNCHANGED <<rcpt, saved, left>>)
      \/ \E ok \in BOOLEAN :
            SaveReceipt(r, ok) /\ Answer(c, IF ok THEN "uploading" ELSE "refused")
  BY DEF RegisterImport
<1> QED
  BY <1>5, <1>6, <1>7

(***************************************************************************)
(* The ranges.                                                             *)
(***************************************************************************)
LEMMA PutStep ==
  ASSUME IInv, NEW c \in Calls, PutImportRange(c)
  PROVE  StepOK
<1>0. /\ c \in Actors /\ c # "list" /\ StoreTypes
      /\ UNCHANGED <<dead, staged, made, canceling, archive, described>>
  BY ActorsApart, TypeParts DEF PutImportRange, IInv, archives
<1>1. left' \in 0..MaxFailures => StoreTypes'
  BY <1>0 DEF StoreTypes
<1>2. CASE Refuse(c)
  BY <1>0, <1>2, RefuseStep
<1>3. CASE \E x \in {"ok", "canceled"} : Answer(c, x) /\ UNCHANGED <<rcpt, saved, left>>
  <2>1. StoreTypes'
    BY <1>0, <1>1, <1>3 DEF StoreTypes
  <2> QED
    BY <1>0, <1>3, <2>1, QuietAnswer
<1>4. CASE Touch(c, "ok")
  BY <1>0, <1>1, <1>4, TouchStep
<1>5. CASE /\ rcpt.state = "uploading" /\ GoTo(c, "writing", rcpt.up)
           /\ UNCHANGED <<rcpt, saved, left>>
  <2>1. rcpt.up \in Uploads
    BY <1>5 DEF IInv, ReceiptInv, ReceiptOK
  <2>2. StoreTypes'
    BY <1>0, <1>1, <1>5 DEF StoreTypes
  <2>3. hand'[c].pc = "writing" /\ hand'[c].up = rcpt.up
    BY <1>0, <1>5, <2>1, GoToStep
  <2>4. HandOK(hand[c])'
    BY <2>1, <2>3 DEF HandOK, Finalizing, Published
  <2> QED
    BY <1>0, <1>5, <2>1, <2>2, <2>4, QuietGoTo DEF Locked
<1> QED
  BY <1>2, <1>3, <1>4, <1>5 DEF PutImportRange

\* The ends of a range that was written.
LEMMA RangeSteps ==
  ASSUME IInv, NEW c \in Calls, CommitRange(c) \/ LeaveRange(c) \/ CutShort(c)
  PROVE  StepOK
<1>0. c \in Actors /\ StoreTypes
  BY ActorsApart, TypeParts DEF IInv
<1>1. CASE CommitRange(c)
  <2>1. left' \in 0..MaxFailures => StoreTypes'
    BY <1>0, <1>1 DEF CommitRange, StoreTypes, archives
  <2>2. UNCHANGED archive
    BY <1>1 DEF CommitRange, archives
  <2>3. CASE Touch(c, "ok")
    BY <1>0, <2>1, <2>2, <2>3, TouchStep
  <2>4. CASE Answer(c, "refused") /\ UNCHANGED <<rcpt, saved, left>>
    BY <1>0, <2>1, <2>2, <2>4, QuietAnswer DEF StoreTypes
  <2> QED
    BY <1>1, <2>3, <2>4 DEF CommitRange
<1>2. CASE LeaveRange(c)
  <2>1. StoreTypes' /\ UNCHANGED <<rcpt, saved, archive>>
    BY <1>0, <1>2 DEF LeaveRange, StoreTypes, archives
  <2> QED
    BY <1>0, <1>2, <2>1, QuietAnswer DEF LeaveRange
<1>3. CASE CutShort(c)
  <2>1. StoreTypes' /\ UNCHANGED <<rcpt, saved, archive>>
    BY <1>0, <1>3 DEF CutShort, StoreTypes, receiverVars, archives
  <2> QED
    BY <1>0, <1>3, <2>1, QuietAnswer DEF CutShort
<1> QED
  BY <1>1, <1>2, <1>3

(***************************************************************************)
(* FinalizeImport.                                                         *)
(***************************************************************************)
LEMMA FinalizeStep ==
  ASSUME IInv, NEW c \in Calls, FinalizeImport(c)
  PROVE  StepOK
<1> DEFINE r == [rcpt EXCEPT !.state = "finalizing"]
<1>0. /\ c \in Actors /\ c # "list" /\ AloneWith(c) /\ StoreTypes /\ ReceiptOK(rcpt)
      /\ UNCHANGED <<dead, staged, made, canceling, archive, described>>
  BY ActorsApart, Alone, TypeParts DEF FinalizeImport, IInv, archives, ReceiptInv
<1>1. left' \in 0..MaxFailures => StoreTypes'
  BY <1>0 DEF StoreTypes
<1>2. CASE Refuse(c)
  BY <1>0, <1>2, RefuseStep
<1>3. CASE rcpt.state \in {"completed", "canceled"} /\ Answer(c, rcpt.state)
           /\ UNCHANGED <<rcpt, saved, left>>
  <2>1. StoreTypes'
    BY <1>0, <1>1, <1>3 DEF StoreTypes
  <2> QED
    BY <1>0, <1>3, <2>1, QuietAnswer, CompletedHasArchive
<1>4. CASE Live /\ \E ok \in BOOLEAN :
              /\ SaveReceipt(r, ok)
              /\ IF ok THEN GoTo(c, "mark", rcpt.up) ELSE Answer(c, "refused")
  <2>1. r.state = "finalizing" /\ r.up = rcpt.up /\ r \in ReceiptType
    BY <1>0, ReceiptFields DEF ReceiptOK
  <2>2. rcpt.up \in Uploads /\ rcpt.state # "canceled"
    BY <1>0, <1>4 DEF ReceiptOK, Live
  <2>3. ReceiptOK(r)
    BY <1>0, <1>4, <2>1, <2>2 DEF ReceiptOK, Live
  <2>4. PICK ok \in BOOLEAN :
           /\ SaveReceipt(r, ok)
           /\ IF ok THEN GoTo(c, "mark", rcpt.up) ELSE Answer(c, "refused")
    BY <1>4
  <2>5. CASE ok = TRUE
    <3>1. rcpt' = r /\ saved' = r /\ UNCHANGED left
      BY <2>4, <2>5 DEF SaveReceipt
    <3>2. GoTo(c, "mark", rcpt.up)
      BY <2>4, <2>5
    <3>3. SenderKept /\ Moves(c) /\ hand'[c].pc = "mark" /\ hand'[c].up = rcpt.up
      BY <1>0, <2>2, <3>2, GoToStep DEF Locked
    <3>4. HandOK(hand[c])'
      BY <2>1, <2>2, <3>1, <3>3 DEF HandOK, Published
    <3> HIDE DEF r
    <3>5. ReceiverKept
      BY <1>0, <2>2, <2>3, <2>4, <3>3, <3>4, SaveStep
    <3>6. StoreTypes'
      BY <1>0, <1>1, <3>1 DEF StoreTypes
    <3> QED
      BY <1>0, <3>3, <3>5, <3>6, ActorStep
  <2>6. CASE ok = FALSE
    <3>1. Answer(c, "refused")
      BY <2>4, <2>6
    <3> HIDE DEF r
    <3> QED
      BY <1>0, <1>1, <2>2, <2>3, <2>4, <3>1, SaveAnswer
  <2> QED
    BY <2>5, <2>6
<1>5. \/ Refuse(c)
      \/ /\ rcpt.state \in {"completed", "canceled"} /\ Answer(c, rcpt.state)
         /\ UNCHANGED <<rcpt, saved, left>>
      \/ Live /\ \E ok \in BOOLEAN :
            /\ SaveReceipt(r, ok)
            /\ IF ok THEN GoTo(c, "mark", rcpt.up) ELSE Answer(c, "refused")
  BY DEF FinalizeImport
<1> QED
  BY <1>2, <1>3, <1>4, <1>5

\* A finalization goes on: it holds the mutex, and both receipts name its upload.
LEMMA FinalizeAtWork ==
  ASSUME IInv, NEW c \in Calls, hand[c].pc \in Finalizing
  PROVE  /\ c \in Actors /\ c # "list" /\ AloneWith(c) /\ StoreTypes
         /\ hand[c].up \in Uploads /\ hand[c].up = rcpt.up /\ hand[c].up = saved.up
         /\ rcpt.state \in {"finalizing", "completed"}
         /\ saved.state \in {"finalizing", "completed"}
         /\ hand[c].pc \in Published => hand[c].up \in archive
<1>1. c \in Actors /\ c # "list" /\ hand[c].pc \in Locked /\ HandOK(hand[c])
  BY ActorsApart DEF Finalizing, Locked, IInv, HandInv
<1> QED
  BY <1>1, Alone, TypeParts DEF HandOK, IInv

\* FinalizeImport goes on to its next label.
LEMMA FinalizeGoTo ==
  ASSUME IInv, NEW c \in Calls, hand[c].pc \in Finalizing,
         NEW pc \in Finalizing, GoTo(c, pc, hand[c].up),
         UNCHANGED <<rcpt, saved, archive>>, StoreTypes',
         pc \in Published => hand[c].up \in archive
  PROVE  StepOK
<1>1. SenderKept /\ Moves(c) /\ hand'[c].pc = pc /\ hand'[c].up = hand[c].up
  BY FinalizeAtWork, GoToStep DEF Finalizing, Locked
<1>2. HandOK(hand[c])'
  BY <1>1, FinalizeAtWork DEF HandOK, Finalizing, Published
<1> QED
  BY <1>2, FinalizeAtWork, QuietGoTo DEF Finalizing, Locked

\* FinalizeImport looks its upload up: there is a session to mark, an archive,
\* or neither.
LEMMA MarkStep ==
  ASSUME IInv, NEW c \in Calls, MarkUpload(c)
  PROVE  StepOK
<1> DEFINE u == hand[c].up
<1>0. hand[c].pc \in Finalizing /\ u \in Uploads /\ StoreTypes
      /\ UNCHANGED <<dead, rcpt, saved, made, canceling, archive, left>>
  BY FinalizeAtWork DEF MarkUpload, Finalizing
<1>1. staged' \in {staged, [staged EXCEPT ![u] = "final"]}
  BY DEF MarkUpload
<1>2. described' \subseteq archive'
  BY <1>0 DEF MarkUpload, StoreTypes
<1>3. StoreTypes'
  BY <1>0, <1>1, <1>2 DEF StoreTypes
<1>4. \/ GoTo(c, "publish", u) \/ GoTo(c, "undo", u)
      \/ GoTo(c, "record", u) /\ u \in archive
  BY DEF MarkUpload
<1> QED
  BY <1>0, <1>3, <1>4, FinalizeGoTo DEF Finalizing, Published

\* The archive takes its name: from here the import is published.
LEMMA PublishStep ==
  ASSUME IInv, NEW c \in Calls, PublishArchive(c)
  PROVE  StepOK
<1> DEFINE u == hand[c].up
<1>0. /\ hand[c].pc \in Finalizing /\ hand[c].pc = "publish" /\ GoTo(c, "describe", u)
      /\ archive' = archive \union {u}
      /\ UNCHANGED <<dead, rcpt, saved, staged, made, canceling, described, left>>
  BY DEF PublishArchive, Finalizing
<1>1. /\ c \in Actors /\ c # "list" /\ AloneWith(c) /\ StoreTypes
      /\ u \in Uploads /\ u = rcpt.up /\ u = saved.up /\ u # 0
      /\ rcpt.state \in {"finalizing", "completed"}
      /\ saved.state \in {"finalizing", "completed"}
  BY <1>0, FinalizeAtWork, ActorsApart
<1>2. archive \subseteq {u}
  BY <1>1 DEF IInv, ReceiptInv, ReceiptOK
<1>3. ReceiptInv'
  BY <1>0, <1>1, <1>2 DEF IInv, ReceiptInv, ReceiptOK
<1>4. SenderKept /\ Moves(c) /\ hand'[c].pc = "describe" /\ hand'[c].up = u
  BY <1>0, <1>1, GoToStep DEF Locked
<1>5. HandOK(hand[c])'
  BY <1>0, <1>1, <1>4 DEF HandOK, Finalizing, Published
<1>6. HandInv'
  BY <1>0, <1>1, <1>4, <1>5, HandStep
<1>7. ResultStep
  BY <1>0, <1>1 DEF ResultStep, Result
<1>8. StoreTypes'
  BY <1>0, <1>1 DEF StoreTypes
<1> QED
  BY <1>1, <1>3, <1>4, <1>6, <1>7, <1>8, ActorStep DEF ReceiverKept

\* The verification, the meta file and the removal of the session.
LEMMA FinalizingSteps ==
  ASSUME IInv, NEW c \in Calls, FailVerification(c) \/ DescribeArchive(c) \/ SweepUpload(c)
  PROVE  StepOK
<1> DEFINE u == hand[c].up
<1>0. hand[c].pc \in Finalizing /\ u \in Uploads /\ StoreTypes
  BY FinalizeAtWork DEF FailVerification, DescribeArchive, SweepUpload, Finalizing
<1>1. CASE FailVerification(c)
  <2>1. /\ UNCHANGED <<dead, rcpt, saved, made, canceling, archive, described>>
        /\ GoTo(c, "undo", u) /\ left' \in 0..MaxFailures
        /\ staged' \in {staged, [staged EXCEPT ![u] = "open"]}
    BY <1>0, <1>1, FailType DEF FailVerification, archives
  <2>2. StoreTypes'
    BY <1>0, <2>1 DEF StoreTypes
  <2> QED
    BY <1>0, <2>1, <2>2, FinalizeGoTo DEF Finalizing, Published
<1>2. CASE DescribeArchive(c)
  <2>1. hand[c].pc = "describe" /\ u \in archive
    BY <1>0, <1>2, FinalizeAtWork DEF DescribeArchive, Published
  <2>2. StoreTypes'
    BY <1>0, <1>2, <2>1 DEF DescribeArchive, StoreTypes
  <2> QED
    BY <1>0, <1>2, <2>1, <2>2, FinalizeGoTo DEF DescribeArchive, Finalizing
<1>3. CASE SweepUpload(c)
  <2>1. hand[c].pc = "sweep" /\ u \in archive
    BY <1>0, <1>3, FinalizeAtWork DEF SweepUpload, Published
  <2>2. StoreTypes' /\ UNCHANGED archive
    BY <1>0, <1>3 DEF SweepUpload, StoreTypes, archives
  <2> QED
    BY <1>0, <1>3, <2>1, <2>2, FinalizeGoTo DEF SweepUpload, Finalizing
<1> QED
  BY <1>1, <1>2, <1>3

\* The two ends of FinalizeImport: undone, or recorded in the receipt.
LEMMA FinalizeEnds ==
  ASSUME IInv, NEW c \in Calls, UndoFinalize(c) \/ RecordImport(c)
  PROVE  StepOK
<1>0. /\ hand[c].pc \in Finalizing /\ hand[c].up \in Uploads /\ StoreTypes
      /\ c \in Actors /\ c # "list" /\ AloneWith(c) /\ rcpt.state # "canceled"
      /\ hand[c].up = rcpt.up /\ ReceiptOK(rcpt)
  BY FinalizeAtWork DEF UndoFinalize, RecordImport, Finalizing, IInv, ReceiptInv
<1>1. UNCHANGED <<dead, made, canceling, archive, described>>
  BY DEF UndoFinalize, RecordImport, archives
<1>2. left' \in 0..MaxFailures => StoreTypes'
  BY <1>0, <1>1 DEF StoreTypes, UndoFinalize, RecordImport
<1>3. CASE UndoFinalize(c)
  <2> DEFINE r == [rcpt EXCEPT !.state = "uploading"]
  <2>1. r.state = "uploading" /\ r.up = rcpt.up /\ r \in ReceiptType
    BY <1>0, ReceiptFields DEF ReceiptOK
  <2>2. ReceiptOK(r)
    BY <1>0, <2>1, ActorsApart DEF ReceiptOK
  <2>3. PICK ok \in BOOLEAN : SaveReceipt(r, ok) /\ Answer(c, "refused")
    BY <1>3 DEF UndoFinalize
  <2> HIDE DEF r
  <2> QED
    BY <1>0, <1>1, <1>2, <2>2, <2>3, SaveAnswer
<1>4. CASE RecordImport(c)
  <2> DEFINE r == [rcpt EXCEPT !.state = "completed", !.rec = TRUE]
  <2>1. r.state = "completed" /\ r.up = rcpt.up /\ r \in ReceiptType
    BY <1>0, ReceiptFields DEF ReceiptOK
  <2>2. archive # {}
    BY <1>4, FinalizeAtWork DEF RecordImport, Finalizing, Published
  <2>3. ReceiptOK(r)
    BY <1>0, <2>1, <2>2, ActorsApart DEF ReceiptOK
  <2>4. PICK ok \in BOOLEAN :
           SaveReceipt(r, ok) /\ Answer(c, IF ok THEN "completed" ELSE "refused")
    BY <1>4 DEF RecordImport
  <2> HIDE DEF r
  <2> QED
    BY <1>0, <1>1, <1>2, <2>2, <2>3, <2>4, SaveAnswer
<1> QED
  BY <1>3, <1>4

(***************************************************************************)
(* Cancellation and the cleanup.                                           *)
(***************************************************************************)
LEMMA CancelStep ==
  ASSUME IInv, NEW a \in Calls \union {"admin"}, CancelImport(a)
  PROVE  StepOK
<1> DEFINE r == [rcpt EXCEPT !.state = "canceled"]
<1>0. /\ a \in Actors /\ a # "list" /\ AloneWith(a) /\ StoreTypes /\ ReceiptOK(rcpt)
      /\ UNCHANGED <<dead, staged, made, canceling, archive, described>>
  BY ActorsApart, Alone, TypeParts DEF CancelImport, IInv, archives, ReceiptInv
<1>1. left' \in 0..MaxFailures => StoreTypes'
  BY <1>0 DEF StoreTypes
<1>2. CASE Refuse(a)
  BY <1>0, <1>2, RefuseStep
<1>3. CASE Answer(a, "ok") /\ UNCHANGED <<rcpt, saved, left>>
  <2>1. StoreTypes'
    BY <1>0, <1>1, <1>3 DEF StoreTypes
  <2> QED
    BY <1>0, <1>3, <2>1, QuietAnswer
<1>4. CASE rcpt.state = "uploading" /\ \E ok \in BOOLEAN :
              /\ SaveReceipt(r, ok)
              /\ IF ok THEN GoTo(a, "drop", rcpt.up) ELSE Answer(a, "refused")
  <2>1. r.state = "canceled" /\ r.up = rcpt.up /\ r \in ReceiptType
    BY <1>0, ReceiptFields DEF ReceiptOK
  <2>2. rcpt.up \in Uploads
    BY <1>0, <1>4 DEF ReceiptOK
  <2>3. ReceiptOK(r)
    BY <1>0, <2>1, <2>2, ActorsApart DEF ReceiptOK
  <2>4. PICK ok \in BOOLEAN :
           /\ SaveReceipt(r, ok)
           /\ IF ok THEN GoTo(a, "drop", rcpt.up) ELSE Answer(a, "refused")
    BY <1>4
  <2>5. CASE ok = TRUE
    <3>1. UNCHANGED left /\ GoTo(a, "drop", rcpt.up)
      BY <2>4, <2>5 DEF SaveReceipt
    <3>2. SenderKept /\ Moves(a) /\ hand'[a].pc = "drop" /\ hand'[a].up = rcpt.up
      BY <1>0, <2>2, <3>1, GoToStep DEF Locked
    <3>3. HandOK(hand[a])'
      BY <2>2, <3>2 DEF HandOK, Finalizing, Published
    <3>4. r.state = "canceled"
      BY <2>1
    <3> HIDE DEF r
    <3>5. ReceiverKept
      BY <1>0, <2>3, <2>4, <3>2, <3>3, <3>4, SaveStep
    <3>6. StoreTypes'
      BY <1>0, <1>1, <3>1 DEF StoreTypes
    <3> QED
      BY <1>0, <3>2, <3>5, <3>6, ActorStep
  <2>6. CASE ok = FALSE
    <3>1. Answer(a, "refused") /\ r.state = "canceled"
      BY <2>1, <2>4, <2>6
    <3> HIDE DEF r
    <3> QED
      BY <1>0, <1>1, <2>3, <2>4, <3>1, SaveAnswer
  <2> QED
    BY <2>5, <2>6
<1>5. \/ Refuse(a)
      \/ Answer(a, "ok") /\ UNCHANGED <<rcpt, saved, left>>
      \/ rcpt.state = "uploading" /\ \E ok \in BOOLEAN :
            /\ SaveReceipt(r, ok)
            /\ IF ok THEN GoTo(a, "drop", rcpt.up) ELSE Answer(a, "refused")
  BY DEF CancelImport
<1> QED
  BY <1>2, <1>3, <1>4, <1>5

\* CancelUpload of the manager keeps the types of its stores.
LEMMA CanceledUpload ==
  ASSUME StoreTypes, NEW u \in Uploads, CancelUpload(u)
  PROVE  /\ staged' \in [Uploads -> {"none", "open", "full", "final"}]
         /\ canceling' \subseteq Uploads
BY DEF CancelUpload, StoreTypes

\* A cancellation drops the staging of its upload.
LEMMA DropStep ==
  ASSUME IInv, NEW a \in Calls \union {"admin"}, DropUpload(a)
  PROVE  StepOK
<1>1. /\ a \in Actors /\ hand[a].up \in Uploads /\ StoreTypes
      /\ UNCHANGED <<dead, rcpt, saved, made, archive, described, left>>
  BY ActorsApart, TypeParts DEF DropUpload, IInv, HandInv, HandOK, Locked, archives
<1>2. StoreTypes'
  BY <1>1, CanceledUpload DEF DropUpload, StoreTypes
<1> QED
  BY <1>1, <1>2, QuietAnswer DEF DropUpload

\* A step of the receiver outside any request, while nobody holds the mutex or
\* the receipts have changed in the file only.
LEMMA SurroundingStep ==
  ASSUME IInv, UNCHANGED senderVars, UNCHANGED <<archive, hand>>, ReceiptInv', ResultStep,
         (UNCHANGED rcpt /\ saved' \in {saved, rcpt}) \/ MuFree, StoreTypes'
  PROVE  StepOK
<1>1. HandInv'
  BY DEF IInv, HandInv, HandOK, MuFree, Locked, Finalizing, Published
<1> QED
  BY <1>1, Combine, SenderIdle, TypeParts DEF ReceiverKept, IInv

\* The cleanup of canceled imports.
LEMMA CleanupStep ==
  ASSUME IInv, CleanupCanceled
  PROVE  StepOK
<1> DEFINE r == [rcpt EXCEPT !.up = 0]
<1>0. /\ StoreTypes /\ ReceiptOK(rcpt) /\ rcpt.state = "canceled" /\ rcpt.up # 0 /\ MuFree
      /\ UNCHANGED senderVars /\ UNCHANGED <<dead, made, archive, described, hand>>
      /\ CancelUpload(rcpt.up)
  BY TypeParts DEF CleanupCanceled, IInv, ReceiptInv, archives
<1>1. rcpt.up \in Uploads
  BY <1>0 DEF ReceiptOK, ReceiptType
<1>2. left' = left \/ Fail
  BY DEF CleanupCanceled, SaveReceipt
<1>3. StoreTypes'
  BY <1>0, <1>1, <1>2, CanceledUpload, FailType DEF StoreTypes
<1>4. r.state = "canceled" /\ r.up = 0 /\ r \in ReceiptType
  BY <1>0, ReceiptFields DEF ReceiptOK, ReceiptType
<1>5. ReceiptOK(r)
  BY <1>4 DEF ReceiptOK
<1>6. \/ rcpt' \in {rcpt, r} /\ saved' \in {saved, r}
  BY DEF CleanupCanceled, SaveReceipt
<1>7. ReceiptInv' /\ ResultStep
  <2> HIDE DEF r
  <2> QED
    BY <1>0, <1>4, <1>5, <1>6 DEF IInv, ReceiptInv, ReceiptOK, ResultStep, Result
<1> QED
  BY <1>0, <1>3, <1>7, SurroundingStep

(***************************************************************************)
(* The listing writes from its copy: the archive it has found is the one   *)
(* both receipts may name, whatever has become of them since.              *)
(***************************************************************************)
LEMMA ListRecoverStep ==
  ASSUME IInv, ListRecover
  PROVE  StepOK
<1> DEFINE r == [rcpt EXCEPT !.state = "completed", !.rec = TRUE]
           u == hand["list"].up
<1>0. /\ StoreTypes /\ ReceiptOK(rcpt) /\ u \in archive
      /\ UNCHANGED senderVars /\ UNCHANGED <<dead, staged, made, canceling, archive>>
      /\ hand' = [hand EXCEPT !["list"] = Idle] /\ described' = described \union {u}
      /\ hand \in [Actors -> HandType]
  BY TypeParts, ActorsApart DEF ListRecover, IInv, ReceiptInv, HandInv, HandOK
<1>1. r.state = "completed" /\ r.up = rcpt.up /\ r \in ReceiptType
  BY <1>0, ReceiptFields DEF ReceiptOK
<1>2. ReceiptOK(r)
  BY <1>0, <1>1, ActorsApart DEF ReceiptOK
<1>3. rcpt' = r /\ saved' \in {saved, r} /\ (left' = left \/ Fail)
  BY DEF ListRecover, SaveReceipt
<1>4. ReceiptInv' /\ ResultStep
  <2> HIDE DEF r
  <2> QED
    BY <1>0, <1>2, <1>3, SavedReceipts
<1>5. StoreTypes'
  BY <1>0, <1>3, FailType DEF StoreTypes
<1>6. Moves("list") /\ hand'["list"] = Idle
  BY <1>0, IdleType, ActorsApart DEF Moves
<1>7. ASSUME NEW b \in Actors PROVE HandOK(hand[b])'
  <2>1. CASE b = "list"
    BY <1>6, <2>1, IdleOK, ActorsApart
  <2>2. CASE b # "list"
    <3>1. hand'[b] = hand[b] /\ HandOK(hand[b])
      BY <1>0, <2>2 DEF IInv, HandInv
    <3>2. rcpt'.state = "completed" /\ rcpt'.up = rcpt.up
          /\ (saved' = saved \/ (saved'.state = "completed" /\ saved'.up = rcpt.up))
      BY <1>1, <1>3
    <3> QED
      BY <1>0, <3>1, <3>2 DEF HandOK
  <2> QED
    BY <2>1, <2>2
<1>8. HandInv'
  BY <1>0, <1>6, <1>7, IdleType, ActorsApart DEF IInv, HandInv, Locked
<1> QED
  BY <1>0, <1>4, <1>5, <1>6, <1>8, SenderIdle, ActorStep, ActorsApart DEF ReceiverKept

(***************************************************************************)
(* Revocation, expiry and the restart of the receiver.                     *)
(***************************************************************************)
LEMMA SurroundingSteps ==
  ASSUME IInv, RevokeToken \/ (\E u \in Uploads : ExpireUpload(u))
  PROVE  StepOK
<1>0. StoreTypes
  BY TypeParts DEF IInv
<1>1. CASE RevokeToken
  <2>1. /\ UNCHANGED senderVars /\ UNCHANGED <<rcpt, archive, hand>> /\ saved' = rcpt
        /\ StoreTypes'
    BY <1>0, <1>1 DEF RevokeToken, StoreTypes, archives
  <2>2. ReceiptInv' /\ ResultStep
    BY <2>1 DEF IInv, ReceiptInv, ReceiptOK, ResultStep, Result
  <2> QED
    BY <2>1, <2>2, SurroundingStep
<1>2. ASSUME NEW u \in Uploads, ExpireUpload(u) PROVE StepOK
  <2>1. /\ UNCHANGED senderVars /\ UNCHANGED <<rcpt, saved, archive, hand>>
        /\ UNCHANGED <<dead, made, canceling, described>>
        /\ staged' = [staged EXCEPT ![u] = "none"] /\ left' \in 0..MaxFailures
    BY <1>0, <1>2, FailType DEF ExpireUpload, archives
  <2>2. StoreTypes'
    BY <1>0, <2>1 DEF StoreTypes
  <2>3. ReceiptInv' /\ ResultStep
    BY <2>1 DEF IInv, ReceiptInv, ReceiptOK, ResultStep, Result
  <2> QED
    BY <2>1, <2>2, <2>3, SurroundingStep
<1> QED
  BY <1>1, <1>2

\* A restart of the receiver: the receipt is what its file says, and a
\* finalization is recovered.
LEMMA ReceiverStopStep ==
  ASSUME IInv, ReceiverStop
  PROVE  StepOK
<1>0. /\ StoreTypes /\ left' \in 0..MaxFailures /\ rcpt' = saved
      /\ UNCHANGED <<dead, saved, staged, made, archive, described>> /\ canceling' = {}
      /\ hand' = [a \in Actors |-> Idle]
  BY TypeParts, FailType DEF ReceiverStop, IInv, archives
<1>1. SenderKept
  BY HearStep, SenderIdle DEF ReceiverStop
<1>2. StoreTypes'
  BY <1>0 DEF StoreTypes
<1>3. ReceiptInv' /\ ResultStep
  BY <1>0 DEF IInv, ReceiptInv, ReceiptOK, ResultStep, Result
<1>4. hand' \in [Actors -> HandType] /\ \A a \in Actors : hand'[a] = Idle
  BY <1>0, IdleType
<1>5. HandInv'
  BY <1>4, IdleOK, IdleType, ActorsApart DEF HandInv, Locked
<1> QED
  BY <1>1, <1>2, <1>3, <1>4, <1>5, Combine DEF ReceiverKept

-----------------------------------------------------------------------------
(***************************************************************************)
(* The invariant.                                                          *)
(***************************************************************************)
LEMMA TransferInit == Init => IInv
<1> SUFFICES ASSUME Init PROVE IInv
  OBVIOUS
<1>1. SenderTypes /\ SenderInv
  BY TransferAssumption DEF Init, SenderTypes, SenderInv, Active, Terminal, Points
<1>2. StoreTypes
  <2>1. staged \in [Uploads -> {"none", "open", "full", "final"}]
    BY DEF Init
  <2>2. made \in 0..MaxUploads /\ left \in 0..MaxFailures
    BY TransferAssumption DEF Init
  <2> QED
    BY <2>1, <2>2 DEF Init, StoreTypes
<1>3. ReceiptInv
  BY DEF Init, ReceiptInv, ReceiptOK, ReceiptType
<1>4. hand \in [Actors -> HandType] /\ \A a \in Actors : hand[a] = Idle
  BY IdleType DEF Init
<1>5. HandInv
  BY <1>4, IdleType, ActorsApart DEF HandInv, HandOK, Locked, Finalizing, Published
<1> QED
  BY <1>1, <1>2, <1>3, <1>4, <1>5, InvParts

\* Any step of a request in hand.
LEMMA HandleStep ==
  ASSUME IInv, NEW a \in Calls \union {"admin"}, Handle(a)
  PROVE  StepOK
BY CancelStep, DropStep, BeginStep, RegisterStep, PutStep, RangeSteps, FinalizeStep, MarkStep,
   PublishStep, FinalizingSteps, FinalizeEnds DEF Handle

\* Every step keeps the invariant and is one TransferOutcome allows.
LEMMA TransferStep ==
  ASSUME IInv, [Next]_vars
  PROVE  StepOK
<1>1. CASE Next
  BY <1>1, SenderSteps, RequestStep, HandleStep, AdminCancelStep, CleanupStep, ListSteps,
     ListRecoverStep, SurroundingSteps, ReceiverStopStep DEF Next
<1>2. CASE UNCHANGED vars
  <2>1. SenderKept /\ UNCHANGED <<dead, receiverVars, hand>> /\ left' = left
    BY <1>2, SenderIdle DEF vars
  <2> QED
    BY <2>1, SenderOnly
<1> QED
  BY <1>1, <1>2

\* The relation of receipts, archives and requests described above holds
\* throughout, whatever is lost, repeated or restarted.
THEOREM TransferInvariant == Spec => []IInv
<1>1. IInv /\ [Next]_vars => IInv'
  BY TransferStep DEF StepOK
<1> QED
  BY TransferInit, <1>1, PTL DEF Spec

\* Every variable keeps to the values the code gives it (types.go, store.go).
THEOREM TransferTypeCorrect == Spec => []TypeOK
<1>1. IInv => TypeOK
  BY DEF IInv
<1> QED
  BY TransferInvariant, <1>1, PTL

\* However often the requests are repeated, and whichever server restarts in
\* between, at most one archive is published (receiver.go BeginImport,
\* FinalizeImport, upload.go recoverFinalizedUpload).
THEOREM OneArchive == Spec => []PublishedOnce
<1>1. IInv => PublishedOnce
  <2> SUFFICES ASSUME IInv PROVE Cardinality(archive) <= 1
    BY DEF PublishedOnce
  <2>1. CASE archive = {}
    BY <2>1, FS_EmptySet
  <2>2. CASE archive # {}
    <3>1. PICK u : u \in archive
      BY <2>2
    <3>2. archive = {u}
      BY <3>1 DEF IInv, ReceiptInv
    <3>3. Cardinality({u}) = 1
      BY FS_Singleton
    <3> QED
      BY <3>2, <3>3
  <2> QED
    BY <2>1, <2>2
<1> QED
  BY TransferInvariant, <1>1, PTL

(***************************************************************************)
(* The refinement.                                                         *)
(***************************************************************************)
\* The exchange of the two servers implements TransferOutcome: the import ends
\* once, the sender calls it completed only when the archive is there, and
\* neither server takes back what it has said (receiver.go setReceiptState,
\* outgoing.go processTransfer, failOrRetry).
THEOREM TransferImplementsOutcome == Spec => KeepsOutcome
<1>1. Init => Outcome!Init
  BY DEF Init, Outcome!Init
<1>2. IInv /\ [Next]_vars => [Outcome!Next]_(Outcome!vars)
  <2> SUFFICES ASSUME IInv, [Next]_vars PROVE [Outcome!Next]_(Outcome!vars)
    OBVIOUS
  <2>1. ResultStep /\ VerdictStep
    BY TransferStep DEF StepOK
  <2>2. /\ Result' \in {"published", "canceled", "open"}
        /\ Verdict' \in {"completed", "canceled", "open"}
    BY DEF Result, Verdict
  <2>3. archive # {} => Result = "published"
    BY DEF Result
  <2> DEFINE Step ==
          \/ /\ Result = "open" /\ Result' \in {"published", "canceled"}
             /\ (Verdict = "open" /\ Verdict' = "canceled") \/ Verdict' = Verdict
          \/ /\ \/ Verdict = "open" /\ Result = "published" /\ Verdict' = "completed"
                \/ Verdict = "open" /\ Verdict' = "canceled"
             /\ Result' = Result
          \/ Result' = Result /\ Verdict' = Verdict
  <2>4. Step
    BY <2>1, <2>2, <2>3 DEF ResultStep, VerdictStep
  <2> QED
    BY <2>4 DEF Result, Verdict, Outcome!Next, Outcome!vars, Outcome!Decide,
       Outcome!Complete, Outcome!Withdraw
<1> QED
  BY TransferInvariant, <1>1, <1>2, PTL DEF Spec, KeepsOutcome, Outcome!Spec

=============================================================================
