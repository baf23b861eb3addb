-------------------------- MODULE GenerationQueue --------------------------
(***************************************************************************)
(* The thumbnail queue of one drive (ThumbWorker of                        *)
(* src/backend/internal/preview/ffmpeg.go) with everybody who feeds it:    *)
(* the scan that enqueues without blocking, the reconciliation that blocks *)
(* while the channel is full, the worker that puts a video back for        *)
(* another attempt, and the preview tasks of the drive, which ask for a    *)
(* follow-up attempt when a preview becomes ready.  Preview tasks run      *)
(* under slots of the limiter they share with the other drives, so         *)
(* TaskLimiter is part of the state; the thumbnail limiter is only the     *)
(* promise that a call of Acquire returns (TaskLimiter!EveryCallReturns).  *)
(*                                                                         *)
(* Every critical section of videoQueue.mu and followUpMu and every        *)
(* channel operation is a step of its own.  followUpMu is held by the      *)
(* worker from "releasing" to "sending"; its other holders keep it for one *)
(* step only.                                                              *)
(***************************************************************************)
EXTENDS TaskLimiter, SequencesExt

CONSTANTS
    Videos,     \* the videos of the drive
    Previewed,  \* those whose preview is still to be made: each is a preview task
    Capacity    \* capacity of the channel (defaultWorkerQueueSize)

ASSUME GenerationAssumption ==
    /\ Previewed = Videos \cap Tasks
    /\ Capacity \in Nat \ {0}

NoVideo == "none"
ASSUME NoVideoAssumption == NoVideo \notin Videos

VARIABLES
    covered,    \* the videos whose thumbnail_url is set in the catalog
    reserved,   \* videoQueue.ids
    ch,         \* the channel ThumbWorker.ch
    sending,    \* videos a producer has reserved and not sent yet
    pc,         \* where the worker is
    cur,        \* the video the worker has taken from the channel
    again,      \* the attempt asked for a retry, or a follow-up was found
    activeID,   \* activeThumbnailID
    followUps,  \* keys of ThumbWorker.followUps
    cooling,    \* rateLimitState.until is in the future
    life,       \* of this worker set: running, retired by its gate, stopped
    preview,    \* where the preview task of each video is
    owed,       \* ghost: previews ready that no attempt has looked at yet
    dropped     \* ghost: those whose follow-up went with a reservation given back

queueVars == <<covered, reserved, ch, sending, pc, cur, again, activeID,
               followUps, cooling, life, preview, owed, dropped>>
vars == <<queueVars, limiterVars>>

WorkerPoints == {"select", "taken", "waiting", "reading", "generating",
                 "finish", "releasing", "requeue", "sending", "exited"}

\* "bare" and "dressed": generating, from a record without or with a thumbnail.
PreviewPoints == {"none", "bare", "dressed", "notify", "enqueue", "offer", "end", "ready"}

Stopped == life = "stopped"
FollowUpMuHeld == pc \in {"releasing", "requeue", "sending"}

---------------------------------------------------------------------------

Init ==
    /\ LimiterInit
    /\ covered \in SUBSET Videos
    /\ reserved = {} /\ ch = <<>> /\ sending = {}
    /\ pc = "select" /\ cur = NoVideo /\ again = FALSE
    /\ activeID = NoVideo /\ followUps = {}
    /\ cooling = FALSE /\ life = "running"
    /\ preview = [v \in Previewed |-> "none"]
    /\ owed = {} /\ dropped = {}

\* The follow-up that is lost when a reservation is given back: it was folded
\* into it, and no call and no worker about to requeue the video goes on for it.
Folded(v) ==
    {u \in {v} \cap owed : /\ preview[u] \notin {"notify", "enqueue"}
                         /\ ~(pc = "requeue" /\ cur = u)}

(***************************************************************************)
(* Producers.                                                              *)
(***************************************************************************)

\* Enqueue by a scan and EnqueueBlocking by the reconciliation, from a listing
\* that may be stale: the reservation, ...
ProducerReserve(v) ==
    /\ v \notin reserved
    /\ reserved' = reserved \union {v}
    /\ sending' = sending \union {v}
    /\ UNCHANGED <<covered, ch, pc, cur, again, activeID, followUps, cooling,
                   life, preview, owed, dropped, limiterVars>>

\* Mutation: the channel has no capacity.
ProducerSendPastCapacity(v) ==
    /\ v \in sending
    /\ ch' = Append(ch, v)
    /\ sending' = sending \ {v}
    /\ UNCHANGED <<covered, reserved, pc, cur, again, activeID, followUps, cooling,
                   life, preview, owed, dropped, limiterVars>>

\* ... the send, ...
ProducerSend(v) ==
    /\ v \in sending
    /\ Len(ch) < Capacity
    /\ ch' = Append(ch, v)
    /\ sending' = sending \ {v}
    /\ UNCHANGED <<covered, reserved, pc, cur, again, activeID, followUps, cooling,
                   life, preview, owed, dropped, limiterVars>>

\* ... or the end of the wait for it: the scan does not wait for a full channel
\* to drain, and the reconciliation stops when its own task is canceled.
ProducerGivesUp(v) ==
    /\ v \in sending
    /\ sending' = sending \ {v}
    /\ reserved' = reserved \ {v}
    /\ dropped' = dropped \union Folded(v)
    /\ UNCHANGED <<covered, ch, pc, cur, again, activeID, followUps, cooling,
                   life, preview, owed, limiterVars>>

(***************************************************************************)
(* The worker.                                                             *)
(***************************************************************************)

\* Run: Go's select may still prefer the channel when the context has ended.
Take ==
    /\ pc = "select"
    /\ ch # <<>>
    /\ pc' = "taken" /\ cur' = Head(ch) /\ ch' = Tail(ch) /\ again' = FALSE
    /\ UNCHANGED <<covered, reserved, sending, activeID, followUps, cooling, life,
                   preview, owed, dropped, limiterVars>>

Exit ==
    /\ pc = "select"
    /\ Stopped
    /\ pc' = "exited"
    /\ UNCHANGED <<covered, reserved, ch, sending, cur, again, activeID, followUps,
                   cooling, life, preview, owed, dropped, limiterVars>>

\* processQueuedTask names the active video, then asks TaskGuard and looks at the
\* context.
Activate ==
    /\ pc = "taken"
    /\ activeID' = cur
    /\ pc' = IF life = "running" THEN "waiting" ELSE "finish"
    /\ UNCHANGED <<covered, reserved, ch, sending, cur, again, followUps, cooling,
                   life, preview, owed, dropped, limiterVars>>

\* acquireGenerationSlot.  Only this goroutine starts a cooldown, so the second
\* look at it after the slot is acquired never finds one.
Acquired ==
    /\ pc = "waiting"
    /\ \/ ~Stopped /\ ~cooling /\ pc' = "reading"
       \/ Stopped /\ pc' = "finish"
    /\ UNCHANGED <<covered, reserved, ch, sending, cur, again, activeID, followUps,
                   cooling, life, preview, owed, dropped, limiterVars>>

\* process reads the video's record: a video with a thumbnail, hidden or gone
\* needs no work.
ReadVideo ==
    /\ pc = "reading"
    /\ \/ cur \notin covered /\ pc' = "generating"
       \/ pc' = "finish"
    /\ owed' = owed \ {cur} /\ dropped' = dropped \ {cur}
    /\ UNCHANGED <<covered, reserved, ch, sending, cur, again, activeID, followUps,
                   cooling, life, preview, limiterVars>>

\* The attempt ends: a thumbnail, an error that cools the drive and asks for a
\* retry, or another error.
EndAttempt ==
    /\ pc = "generating"
    /\ pc' = "finish"
    /\ \/ covered' = covered \union {cur} /\ UNCHANGED <<again, cooling>>
       \/ again' = TRUE /\ cooling' = TRUE /\ UNCHANGED covered
       \/ UNCHANGED <<covered, again, cooling>>
    /\ UNCHANGED <<reserved, ch, sending, cur, activeID, followUps, life, preview,
                   owed, dropped, limiterVars>>

\* Mutation: the note of a follow-up is dropped with the attempt.
DropFollowUp ==
    /\ pc = "finish"
    /\ pc' = "releasing"
    /\ followUps' = followUps \ {cur}
    /\ activeID' = (IF activeID = cur THEN NoVideo ELSE activeID)
    /\ UNCHANGED <<covered, reserved, ch, sending, cur, again, cooling, life, preview,
                   owed, dropped, limiterVars>>

\* finishQueued, which holds followUpMu until it returns.
CollectFollowUp ==
    /\ pc = "finish"
    /\ pc' = "releasing"
    /\ again' = (again \/ cur \in followUps)
    /\ followUps' = followUps \ {cur}
    /\ activeID' = (IF activeID = cur THEN NoVideo ELSE activeID)
    /\ UNCHANGED <<covered, reserved, ch, sending, cur, cooling, life, preview,
                   owed, dropped, limiterVars>>

ReleaseReservation ==
    /\ pc = "releasing"
    /\ reserved' = reserved \ {cur}
    /\ IF again /\ ~Stopped
       THEN pc' = "requeue" /\ UNCHANGED cur
       ELSE pc' = "select" /\ cur' = NoVideo
    /\ UNCHANGED <<covered, ch, sending, again, activeID, followUps, cooling, life,
                   preview, owed, dropped, limiterVars>>

\* EnqueueBlocking by the worker: somebody else may have been quicker.
Requeue ==
    /\ pc = "requeue"
    /\ IF cur \in reserved
       THEN pc' = "select" /\ cur' = NoVideo /\ UNCHANGED reserved
       ELSE pc' = "sending" /\ reserved' = reserved \union {cur} /\ UNCHANGED cur
    /\ UNCHANGED <<covered, ch, sending, again, activeID, followUps, cooling, life,
                   preview, owed, dropped, limiterVars>>

RequeueSend ==
    /\ pc = "sending"
    /\ \/ Len(ch) < Capacity /\ ch' = Append(ch, cur) /\ UNCHANGED reserved
       \/ Stopped /\ reserved' = reserved \ {cur} /\ UNCHANGED ch
    /\ pc' = "select" /\ cur' = NoVideo
    /\ UNCHANGED <<covered, sending, again, activeID, followUps, cooling, life,
                   preview, owed, dropped, limiterVars>>

WorkerStep ==
    \/ Take \/ Exit \/ Activate \/ Acquired \/ ReadVideo \/ EndAttempt
    \/ CollectFollowUp \/ ReleaseReservation \/ Requeue \/ RequeueSend

CoolDown ==
    /\ cooling
    /\ cooling' = FALSE
    /\ UNCHANGED <<covered, reserved, ch, sending, pc, cur, again, activeID,
                   followUps, life, preview, owed, dropped, limiterVars>>

(***************************************************************************)
(* The preview tasks of the drive.                                         *)
(***************************************************************************)

\* prepareQueued reads the record and waits for a slot; the dispatcher waits for
\* one video at a time.
StartPreview(v) ==
    /\ preview[v] = "none"
    /\ life = "running"
    /\ \A u \in Previewed : call[u] \notin {"waiting", "granted"}
    /\ Acquire(v)
    /\ preview' = [preview EXCEPT ![v] = IF v \in covered THEN "dressed" ELSE "bare"]
    /\ UNCHANGED <<covered, reserved, ch, sending, pc, cur, again, activeID,
                   followUps, cooling, life, owed, dropped>>

PreviewSlot(v) ==
    /\ Return(v)
    /\ preview' = [preview EXCEPT ![v] = IF call'[v] = "holding" THEN @ ELSE "none"]
    /\ UNCHANGED <<covered, reserved, ch, sending, pc, cur, again, activeID,
                   followUps, cooling, life, owed, dropped>>

\* Mutation: a preview that fails keeps its slot.
PreviewFailsHolding(v) ==
    /\ preview[v] \in {"bare", "dressed"}
    /\ call[v] = "holding"
    /\ preview' = [preview EXCEPT ![v] = "none"]
    /\ UNCHANGED <<covered, reserved, ch, sending, pc, cur, again, activeID,
                   followUps, cooling, life, owed, dropped, limiterVars>>

PreviewFails(v) ==
    /\ preview[v] \in {"bare", "dressed"}
    /\ Release(v)
    /\ preview' = [preview EXCEPT ![v] = "none"]
    /\ UNCHANGED <<covered, reserved, ch, sending, pc, cur, again, activeID,
                   followUps, cooling, life, owed, dropped>>

\* UpdatePreview has committed; OnPreviewReady comes next.
PreviewCommits(v) ==
    /\ preview[v] \in {"bare", "dressed"}
    /\ call[v] = "holding"
    /\ IF preview[v] = "bare"
       THEN preview' = [preview EXCEPT ![v] = "notify"] /\ owed' = owed \union {v}
       ELSE preview' = [preview EXCEPT ![v] = "end"] /\ UNCHANGED owed
    /\ UNCHANGED <<covered, reserved, ch, sending, pc, cur, again, activeID,
                   followUps, cooling, life, dropped, limiterVars>>

\* Mutation: a follow-up is an ordinary enqueue.
NotifyByEnqueue(v) ==
    /\ preview[v] = "notify"
    /\ ~FollowUpMuHeld
    /\ preview' = [preview EXCEPT ![v] = "enqueue"]
    /\ UNCHANGED <<covered, reserved, ch, sending, pc, cur, again, activeID,
                   followUps, cooling, life, owed, dropped, limiterVars>>

\* EnqueueFollowUp up to the end of its critical section.
FollowUpNotify(v) ==
    /\ preview[v] = "notify"
    /\ ~FollowUpMuHeld
    /\ IF activeID = v
       THEN followUps' = followUps \union {v} /\ preview' = [preview EXCEPT ![v] = "end"]
       ELSE preview' = [preview EXCEPT ![v] = "enqueue"] /\ UNCHANGED followUps
    /\ UNCHANGED <<covered, reserved, ch, sending, pc, cur, again, activeID,
                   cooling, life, owed, dropped, limiterVars>>

\* Its Enqueue: the reservation ...
FollowUpReserve(v) ==
    /\ preview[v] = "enqueue"
    /\ preview' = [preview EXCEPT ![v] = IF v \in reserved THEN "end" ELSE "offer"]
    /\ reserved' = reserved \union {v}
    /\ UNCHANGED <<covered, ch, sending, pc, cur, again, activeID, followUps,
                   cooling, life, owed, dropped, limiterVars>>

\* Mutation: a follow-up that found the channel full keeps its reservation.
FollowUpOfferLeaks(v) ==
    /\ preview[v] = "offer"
    /\ preview' = [preview EXCEPT ![v] = "end"]
    /\ IF Len(ch) < Capacity
       THEN ch' = Append(ch, v) /\ UNCHANGED dropped
       ELSE dropped' = dropped \union Folded(v) /\ UNCHANGED ch
    /\ UNCHANGED <<covered, reserved, sending, pc, cur, again, activeID, followUps,
                   cooling, life, owed, limiterVars>>

\* ... and the send, which reports a full channel to the caller.
FollowUpOffer(v) ==
    /\ preview[v] = "offer"
    /\ preview' = [preview EXCEPT ![v] = "end"]
    /\ IF Len(ch) < Capacity
       THEN ch' = Append(ch, v) /\ UNCHANGED <<reserved, dropped>>
       ELSE /\ reserved' = reserved \ {v} /\ UNCHANGED ch
            /\ dropped' = dropped \union Folded(v)
    /\ UNCHANGED <<covered, sending, pc, cur, again, activeID, followUps, cooling,
                   life, owed, limiterVars>>

EndPreview(v) ==
    /\ preview[v] = "end"
    /\ Release(v)
    /\ preview' = [preview EXCEPT ![v] = "ready"]
    /\ UNCHANGED <<covered, reserved, ch, sending, pc, cur, again, activeID,
                   followUps, cooling, life, owed, dropped>>

PreviewStep(v) ==
    \/ PreviewSlot(v) \/ PreviewFails(v) \/ PreviewCommits(v) \/ FollowUpNotify(v)
    \/ FollowUpReserve(v) \/ FollowUpOffer(v) \/ EndPreview(v)

(***************************************************************************)
(* The environment: the other drives' preview tasks (their cancellation    *)
(* and changes of the limit are TaskLimiter's), and the end of this worker *)
(* set.                                                                    *)
(***************************************************************************)
OtherDrive(t) == (Acquire(t) \/ Return(t) \/ Release(t)) /\ UNCHANGED queueVars

\* The gate moves to another generation, when no admitted task is left.
Retire ==
    /\ life = "running"
    /\ pc \in {"select", "taken"}
    /\ \A v \in Previewed : preview[v] \in {"none", "ready"}
    /\ life' = "retired"
    /\ UNCHANGED <<covered, reserved, ch, sending, pc, cur, again, activeID,
                   followUps, cooling, preview, owed, dropped, limiterVars>>

\* The worker set's context is canceled.
Stop ==
    /\ ~Stopped
    /\ life' = "stopped"
    /\ canceled' = canceled \union Previewed
    /\ UNCHANGED <<covered, reserved, ch, sending, pc, cur, again, activeID,
                   followUps, cooling, preview, owed, dropped, limit, active, waiters, call>>

Next ==
    \/ \E v \in Videos : ProducerReserve(v) \/ ProducerSend(v) \/ ProducerGivesUp(v)
    \/ \E v \in Previewed : StartPreview(v) \/ PreviewStep(v)
    \/ \E t \in Tasks \ Previewed : OtherDrive(t)
    \/ WorkerStep \/ CoolDown \/ Retire \/ Stop

(***************************************************************************)
(* Every goroutine that can run does; a generation ends (its context has a *)
(* deadline), a cooldown expires, the senders blocked on a channel are     *)
(* served in their order and a mutex does not starve a waiter.  Producers, *)
(* the administrator and Stop owe nothing.                                 *)
(***************************************************************************)
Fairness ==
    /\ WF_vars(WorkerStep) /\ WF_vars(CoolDown)
    /\ \A v \in Videos : SF_vars(ProducerSend(v))
    /\ \A v \in Previewed : WF_vars(PreviewStep(v)) /\ SF_vars(FollowUpNotify(v))
    /\ \A t \in Tasks \ Previewed :
          WF_vars(Return(t) /\ UNCHANGED queueVars) /\ WF_vars(Release(t) /\ UNCHANGED queueVars)

Spec == Init /\ [][Next]_vars /\ Fairness

---------------------------------------------------------------------------

\* The type invariant.
TypeOK ==
    /\ LimiterTypeOK
    /\ covered \subseteq Videos /\ reserved \subseteq Videos /\ sending \subseteq Videos
    /\ followUps \subseteq Previewed /\ owed \subseteq Previewed
    /\ dropped \subseteq owed
    /\ ch \in Seq(Videos) /\ Len(ch) <= Capacity
    /\ pc \in WorkerPoints
    /\ cur \in Videos \union {NoVideo} /\ activeID \in Videos \union {NoVideo}
    /\ again \in BOOLEAN /\ cooling \in BOOLEAN
    /\ life \in {"running", "retired", "stopped"}
    /\ preview \in [Previewed -> PreviewPoints]

\* The videos each holder of a reservation answers for.
InChannel == ToSet(ch)
Offering == {v \in Previewed : preview[v] = "offer"}
InHand == IF pc \in {"select", "requeue", "exited"} THEN {} ELSE {cur}

(***************************************************************************)
(* A video is reserved as long as exactly one of the channel, a producer,  *)
(* a follow-up and the worker has it: a reservation that leaks keeps the   *)
(* video out of the queue and WaitIdle waiting forever, one that is lost   *)
(* has the video generated twice (ffmpeg.go:1378-1404, 1552-1584).         *)
(***************************************************************************)
ReservedOnce ==
    /\ reserved = InChannel \union sending \union Offering \union InHand
    /\ IsInjective(ch)
    /\ InChannel \cap (sending \union Offering \union InHand) = {}
    /\ sending \cap (Offering \union InHand) = {}
    /\ Offering \cap InHand = {}

(***************************************************************************)
(* A preview that has become ready is never folded into an attempt that    *)
(* read the video before: until an attempt has looked, either the call is  *)
(* still under way, or the note, a queued entry or an attempt about to     *)
(* read stands for it, or this worker set is at its end.  Outside of this: *)
(* a follow-up is lost with the reservation it relied on, when a producer  *)
(* gives it back or the follow-up's own send finds the channel full        *)
(* (ffmpeg.go:1320-1333, 1552-1584, 1586-1607, 1905-1929).                 *)
(***************************************************************************)
FollowUpInHand ==
    \A v \in owed :
        \/ life # "running"
        \/ preview[v] \in {"notify", "enqueue", "offer"}
        \/ v \in InChannel \union sending \union followUps
        \/ v = cur /\ pc \in {"taken", "waiting", "reading", "requeue", "sending"}
        \/ v = cur /\ pc = "releasing" /\ again
        \/ v \in dropped

(***************************************************************************)
(* The worker waits for room in the channel that only it drains, and holds *)
(* followUpMu meanwhile.                                                   *)
(***************************************************************************)
Jammed == pc = "sending" /\ Len(ch) = Capacity

(***************************************************************************)
(* A preview that has become ready gets an attempt that sees it            *)
(* (ffmpeg.go:1586-1590), unless the worker set ends, its queue jams, or   *)
(* the follow-up is dropped.  It is dropped without a word to anybody when *)
(* it was acknowledged because the video was reserved (1557-1558, 1574-    *)
(* 1575) and the producer then finds the channel full or is canceled       *)
(* (1563-1565, 1580-1582); and with an answer to its caller, who logs it,  *)
(* when its own send finds the channel full.                               *)
(***************************************************************************)
FollowUpHonoured ==
    \A v \in Previewed :
        v \in owed ~> (v \notin owed \/ life # "running" \/ Jammed \/ v \in dropped)

(***************************************************************************)
(* The preview tasks of one drive do not keep those of another from the    *)
(* shared slots, unless a thumbnail queue jams (limiter.go:40-41).         *)
(***************************************************************************)
PreviewSlotsTurnOver ==
    \A t \in Tasks : call[t] = "waiting" ~> (call[t] # "waiting" \/ Jammed)

(***************************************************************************)
(* "EnqueueFollowUp schedules thumbnail work after the currently running   *)
(* attempt when necessary" (ffmpeg.go:1586): it returns, to a preview task *)
(* that holds a shared slot.                                               *)
(***************************************************************************)
FollowUpReturns == \A v \in Previewed : preview[v] = "notify" ~> (preview[v] # "notify" \/ Stopped)

=============================================================================
