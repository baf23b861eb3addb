------------------------ MODULE GenerationQueueProofs ------------------------
(***************************************************************************)
(* Proofs about GenerationQueue, for any set of videos, any capacity of    *)
(* the channel, any number of other drives' tasks and any limits.          *)
(*                                                                         *)
(* The limiter inside keeps its own invariant (TaskLimiterProofs).  Of the *)
(* queue the inductive invariant says who answers for a reservation, and,  *)
(* for a preview that became ready, which of the three - the caller, the   *)
(* note for the worker, the queue - has it, at each place of the worker.   *)
(***************************************************************************)
EXTENDS GenerationQueue, TaskLimiterProofs

\* The variables of the queue have their types.
QueueTypes ==
    /\ covered \subseteq Videos /\ reserved \subseteq Videos /\ sending \subseteq Videos
    /\ followUps \subseteq Previewed /\ owed \subseteq Previewed /\ dropped \subseteq owed
    /\ ch \in Seq(Videos) /\ Len(ch) <= Capacity
    /\ pc \in WorkerPoints
    /\ cur \in Videos \union {NoVideo} /\ activeID \in Videos \union {NoVideo}
    /\ again \in BOOLEAN /\ cooling \in BOOLEAN
    /\ life \in {"running", "retired", "stopped"}
    /\ preview \in [Previewed -> PreviewPoints]

\* A preview task that waits for a slot or returns with one is before its work.
CallInv ==
    \A v \in Previewed : call[v] \in {"waiting", "granted"} => preview[v] \in {"bare", "dressed"}

\* The worker has a video except where it selects, and names it while it is at it.
WorkerInv ==
    /\ pc \in {"select", "exited"} <=> cur = NoVideo
    /\ pc \in {"waiting", "reading", "generating", "finish"} => activeID = cur
    /\ pc = "exited" => Stopped

\* An attempt that has read its video and finds it owed again knows why.
NoteInv ==
    life = "running" /\ cur \in owed =>
        /\ pc \in {"generating", "finish"} => preview[cur] = "notify" \/ cur \in followUps
        /\ pc = "releasing" => preview[cur] = "notify" \/ again

\* The inductive invariant.
IInv ==
    /\ LimiterInv /\ QueueTypes /\ CallInv /\ WorkerInv /\ ReservedOnce /\ NoteInv
    /\ FollowUpInHand

-----------------------------------------------------------------------------
(***************************************************************************)
(* The channel as a set: what a send adds and a receive takes away.        *)
(***************************************************************************)
LEMMA SendFacts ==
  ASSUME NEW s \in Seq(Videos), NEW v \in Videos, v \notin ToSet(s), IsInjective(s)
  PROVE  /\ ToSet(Append(s, v)) = ToSet(s) \union {v} /\ IsInjective(Append(s, v))
         /\ Append(s, v) \in Seq(Videos) /\ Len(Append(s, v)) = Len(s) + 1
<1> DEFINE a == Append(s, v)
<1>1. /\ a \in Seq(Videos) /\ Len(a) = Len(s) + 1 /\ Len(s) \in Nat
      /\ \A i \in 1 .. Len(s) : a[i] = s[i]
      /\ a[Len(s) + 1] = v
  BY AppendProperties, LenProperties
<1>2. DOMAIN a = 1 .. Len(s) + 1 /\ DOMAIN s = 1 .. Len(s)
  BY <1>1, LenProperties
<1> HIDE DEF a
<1>3. \A i \in 1 .. Len(s) : s[i] # v
  BY <1>2 DEF ToSet
<1>4. ToSet(a) = ToSet(s) \union {v}
  BY <1>1, <1>2 DEF ToSet
<1>5. IsInjective(a)
  BY <1>1, <1>2, <1>3 DEF IsInjective
<1> QED
  BY <1>1, <1>4, <1>5 DEF a

\* What a receive takes from a channel without repetitions.
LEMMA ReceiveFacts ==
  ASSUME NEW s \in Seq(Videos), s # <<>>, IsInjective(s)
  PROVE  /\ ToSet(Tail(s)) = ToSet(s) \ {Head(s)} /\ IsInjective(Tail(s))
         /\ Head(s) \in ToSet(s) /\ Head(s) \in Videos
         /\ Tail(s) \in Seq(Videos) /\ Len(Tail(s)) <= Len(s)
<1> DEFINE r == Tail(s)
<1>1. /\ Head(s) = s[1] /\ r \in Seq(Videos) /\ Len(r) = Len(s) - 1
      /\ Len(s) \in Nat /\ Len(s) >= 1 /\ s[1] \in Videos
      /\ \A i \in 1 .. Len(r) : r[i] = s[i + 1]
  BY HeadTailProperties, LenProperties, EmptySeq
<1>2. DOMAIN r = 1 .. Len(s) - 1 /\ DOMAIN s = 1 .. Len(s)
  BY <1>1, LenProperties
<1> HIDE DEF r
<1>3. \A i \in 2 .. Len(s) : i - 1 \in 1 .. Len(s) - 1 /\ s[i] = r[i - 1]
  BY <1>1
<1>4. ToSet(r) = ToSet(s) \ {Head(s)}
  <2>1. ASSUME NEW x \in ToSet(r) PROVE x \in ToSet(s) \ {Head(s)}
    <3>1. PICK i \in 1 .. Len(s) - 1 : x = r[i]
      BY <1>2, <2>1 DEF ToSet
    <3>2. i + 1 \in 1 .. Len(s) /\ x = s[i + 1] /\ i + 1 # 1 /\ 1 \in 1 .. Len(s)
      BY <1>1, <3>1
    <3> QED
      BY <1>1, <1>2, <3>2 DEF ToSet, IsInjective
  <2>2. ASSUME NEW x \in ToSet(s), x # Head(s) PROVE x \in ToSet(r)
    <3>1. PICK i \in 1 .. Len(s) : x = s[i]
      BY <1>2, <2>2 DEF ToSet
    <3>2. i \in 2 .. Len(s)
      BY <1>1, <2>2, <3>1
    <3> QED
      BY <1>2, <1>3, <3>1, <3>2 DEF ToSet
  <2> QED
    BY <2>1, <2>2
<1>5. IsInjective(r)
  <2>1. ASSUME NEW i \in 1 .. Len(s) - 1, NEW k \in 1 .. Len(s) - 1, r[i] = r[k] PROVE i = k
    <3>1. i + 1 \in 1 .. Len(s) /\ k + 1 \in 1 .. Len(s) /\ s[i + 1] = s[k + 1]
      BY <1>1, <2>1
    <3>2. i + 1 = k + 1
      BY <1>2, <3>1 DEF IsInjective
    <3> QED
      BY <3>2
  <2> QED
    BY <1>2, <2>1 DEF IsInjective
<1>6. Head(s) \in ToSet(s)
  BY <1>1, <1>2 DEF ToSet
<1> QED
  BY <1>1, <1>4, <1>5, <1>6 DEF r

\* The empty channel, and the videos in any channel.
LEMMA InChannelFacts ==
  /\ ToSet(<<>>) = {} /\ IsInjective(<<>>)
  /\ \A s \in Seq(Videos) : ToSet(s) \subseteq Videos /\ Len(s) \in Nat
<1>1. ASSUME NEW s \in Seq(Videos) PROVE ToSet(s) \subseteq Videos /\ Len(s) \in Nat
  BY LenProperties, ElementOfSeq DEF ToSet
<1> QED
  BY <1>1 DEF ToSet, IsInjective

(***************************************************************************)
(* What a critical section of the limiter does to the calls: its own goes  *)
(* on, others can only be granted what they wait for.                      *)
(***************************************************************************)
Kept(c, t) == call'[t] = c[t] \/ (c[t] = "waiting" /\ call'[t] = "granted")

\* Dispatching wakes calls and does nothing else to them.
LEMMA DispatchCalls ==
  ASSUME NEW q, NEW n, NEW c, NEW m \in Nat \ {0}, Accounts(q, n, c), Dispatch(q, n, m, c)
  PROVE  \A t \in Tasks : Kept(c, t)
<1>1. q \in Seq(Tasks) /\ n \in Nat /\ Len(q) \in Nat
  BY LenProperties DEF Accounts
<1>2. Granted(q, n, m) \in 0 .. Len(q)
  BY <1>1, GrantedBounds
<1> QED
  BY <1>1, <1>2 DEF Dispatch, Accounts, Kept

\* What each operation of the limiter does to the caller's call and to the
\* others'.
LEMMA LimiterCalls ==
  ASSUME LimiterInv, NEW t \in Tasks
  PROVE  /\ Acquire(t) => /\ call'[t] \in {"waiting", "granted"}
                          /\ \A u \in Tasks \ {t} : Kept(call, u)
         /\ Return(t) => /\ call[t] \in {"waiting", "granted"} /\ call'[t] \in {"idle", "holding"}
                         /\ \A u \in Tasks \ {t} : Kept(call, u)
         /\ Release(t) => /\ call[t] = "holding" /\ call'[t] = "idle"
                          /\ \A u \in Tasks \ {t} : Kept(call, u)
<1> USE DEF LimiterInv
<1>1. call \in [Tasks -> CallStates]
  BY DEF Accounts
<1>2. CASE Acquire(t)
  <2> DEFINE c == [call EXCEPT ![t] = "waiting"]
  <2>1. Accounts(Append(waiters, t), active, c)
    BY <1>2, JoinAccounts DEF Acquire
  <2>2. \A u \in Tasks : Kept(c, u)
    BY <1>2, <2>1, DispatchCalls DEF Acquire
  <2> QED
    BY <1>1, <1>2, <2>2 DEF Kept, Acquire, Return, TakeSlot, RefuseSlot, LeaveQueue, Release
<1>3. CASE RefuseSlot(t) \/ Release(t)
  <2> DEFINE c == [call EXCEPT ![t] = "idle"]
  <2>1. Accounts(waiters, active - 1, c)
    BY <1>3, GiveBackAccounts DEF RefuseSlot, Release
  <2>2. \A u \in Tasks : Kept(c, u)
    BY <1>3, <2>1, DispatchCalls DEF RefuseSlot, Release
  <2> QED
    BY <1>1, <1>3, <2>2 DEF Kept, Acquire, Return, TakeSlot, RefuseSlot, LeaveQueue, Release
<1>4. CASE LeaveQueue(t)
  <2> DEFINE c == [call EXCEPT ![t] = "idle"]
  <2>1. PICK i \in 1 .. Len(waiters) :
            waiters[i] = t /\ Dispatch(Without(waiters, i), active, limit, c)
    BY <1>4 DEF LeaveQueue
  <2>2. Accounts(Without(waiters, i), active, c)
    BY <1>4, <2>1, LeaveAccounts DEF LeaveQueue
  <2>3. \A u \in Tasks : Kept(c, u)
    BY <2>1, <2>2, DispatchCalls
  <2> QED
    BY <1>1, <1>4, <2>3 DEF Kept, Acquire, Return, TakeSlot, RefuseSlot, LeaveQueue, Release
<1>5. CASE TakeSlot(t)
  BY <1>1, <1>5 DEF Kept, Acquire, Return, TakeSlot, RefuseSlot, LeaveQueue, Release
<1> QED
  BY <1>2, <1>3, <1>4, <1>5 DEF Return

\* The invariant holds at first.
LEMMA QueueInit == Init => IInv
<1> SUFFICES ASSUME Init PROVE IInv
  OBVIOUS
<1> USE GenerationAssumption DEF Init
<1>1. LimiterInv
  BY InitInv
<1>2. QueueTypes
  <2>1. ch \in Seq(Videos) /\ Len(ch) = 0
    BY EmptySeq
  <2>2. preview \in [Previewed -> PreviewPoints]
    BY DEF PreviewPoints
  <2>3. Len(ch) <= Capacity
    BY <2>1
  <2> QED
    BY <2>1, <2>2, <2>3 DEF QueueTypes, WorkerPoints
<1>3. CallInv /\ WorkerInv /\ NoteInv /\ FollowUpInHand
  BY DEF CallInv, WorkerInv, NoteInv, FollowUpInHand, LimiterInit
<1>4. ReservedOnce
  BY InChannelFacts DEF ReservedOnce, InChannel, Offering, InHand
<1> QED
  BY <1>1, <1>2, <1>3, <1>4 DEF IInv

(***************************************************************************)
(* The steps that send, the one that receives and the one that returns     *)
(* from the limiter.                                                       *)
(***************************************************************************)
LEMMA SendEffect ==
  ASSUME QueueTypes, ReservedOnce, NEW v \in Videos, v \notin InChannel,
         Len(ch) < Capacity, ch' = Append(ch, v)
  PROVE  /\ InChannel' = InChannel \union {v} /\ IsInjective(ch')
         /\ ch' \in Seq(Videos) /\ Len(ch') <= Capacity
<1>1. ch \in Seq(Videos) /\ Len(ch) \in Nat /\ Capacity \in Nat
  BY LenProperties, GenerationAssumption DEF QueueTypes
<1> QED
  BY <1>1, SendFacts DEF ReservedOnce, InChannel

\* An unchanged channel holds the same videos.
LEMMA SameChannel == ch' = ch => InChannel' = InChannel
BY DEF InChannel

\* The worker takes the first video of the channel.
LEMMA TakeEffect ==
  ASSUME QueueTypes, ReservedOnce, Take
  PROVE  /\ cur' \in InChannel /\ cur' \in Videos /\ InChannel' = InChannel \ {cur'}
         /\ IsInjective(ch') /\ ch' \in Seq(Videos) /\ Len(ch') <= Capacity
<1>1. /\ ch \in Seq(Videos) /\ ch # <<>> /\ IsInjective(ch) /\ ch' = Tail(ch) /\ cur' = Head(ch)
      /\ Len(ch) \in Nat /\ Capacity \in Nat /\ Len(ch) <= Capacity
  BY LenProperties, GenerationAssumption DEF QueueTypes, ReservedOnce, Take
<1>2. Len(ch') \in Nat
  BY <1>1, ReceiveFacts, LenProperties
<1> QED
  BY <1>1, <1>2, ReceiveFacts DEF InChannel

\* The call of a preview task returns, with a slot or without: it moves alone.
LEMMA SlotEffect ==
  ASSUME LimiterInv, QueueTypes, CallInv, NEW v \in Previewed, PreviewSlot(v)
  PROVE  /\ preview[v] \in {"bare", "dressed"} /\ preview'[v] \in {"bare", "dressed", "none"}
         /\ preview' \in [Previewed -> PreviewPoints]
         /\ \A u \in Previewed \ {v} : preview'[u] = preview[u]
<1>1. call[v] \in {"waiting", "granted"}
  BY LimiterCalls, GenerationAssumption DEF PreviewSlot
<1>2. preview[v] \in {"bare", "dressed"}
  BY <1>1 DEF CallInv
<1> QED
  BY <1>2 DEF QueueTypes, PreviewSlot, PreviewPoints

-----------------------------------------------------------------------------
(***************************************************************************)
(* The limiter sees only steps of its own, and the end of contexts.        *)
(***************************************************************************)
LEMMA LimiterStep == IInv /\ [Next]_vars => LimiterInv'
<1> SUFFICES ASSUME IInv, [Next]_vars PROVE LimiterInv'
  OBVIOUS
<1>1. CASE [LimiterNext]_limiterVars
  BY <1>1, NextInv DEF IInv
<1>2. CASE Stop
  BY <1>2, GenerationAssumption
     DEF IInv, Stop, LimiterInv, Accounts, OwnersOf, NoIdleSlot
<1>3. Previewed \subseteq Tasks
  BY GenerationAssumption
<1>4. CASE UNCHANGED limiterVars
  BY <1>1, <1>4
<1>5. (\E v \in Videos : ProducerReserve(v) \/ ProducerSend(v) \/ ProducerGivesUp(v))
         => UNCHANGED limiterVars
  BY DEF ProducerReserve, ProducerSend, ProducerGivesUp
<1>6. WorkerStep \/ CoolDown \/ Retire => UNCHANGED limiterVars
  BY DEF WorkerStep, Take, Exit, Activate, Acquired, ReadVideo, EndAttempt, CollectFollowUp,
         ReleaseReservation, Requeue, RequeueSend, CoolDown, Retire
<1>7. ASSUME NEW v \in Previewed, StartPreview(v) \/ PreviewStep(v)
      PROVE  Acquire(v) \/ Return(v) \/ Release(v) \/ UNCHANGED limiterVars
  BY <1>7 DEF StartPreview, PreviewStep, PreviewSlot, PreviewFails, PreviewCommits,
              FollowUpNotify, FollowUpReserve, FollowUpOffer, EndPreview
<1>8. ASSUME NEW t \in Tasks, OtherDrive(t) PROVE Acquire(t) \/ Return(t) \/ Release(t)
  BY <1>8 DEF OtherDrive
<1>9. CASE \E t \in Tasks : Acquire(t) \/ Return(t) \/ Release(t)
  BY <1>1, <1>9 DEF LimiterNext
<1> QED
  BY <1>2, <1>3, <1>4, <1>5, <1>6, <1>7, <1>8, <1>9 DEF Next, vars

(***************************************************************************)
(* Types of the queue.                                                     *)
(***************************************************************************)
LEMMA TypeStep == IInv /\ [Next]_vars => QueueTypes'
<1> SUFFICES ASSUME IInv, [Next]_vars PROVE QueueTypes'
  OBVIOUS
<1> USE GenerationAssumption, NoVideoAssumption, SameChannel, SendEffect, TakeEffect,
    SlotEffect
      DEF IInv, QueueTypes, ReservedOnce, WorkerPoints, PreviewPoints, WorkerInv, Stopped,
          limiterVars, queueVars
<1>1. ASSUME NEW v \in Videos, ProducerReserve(v) PROVE QueueTypes'
  BY <1>1 DEF ProducerReserve
<1>2. ASSUME NEW v \in Videos, ProducerSend(v) PROVE QueueTypes'
  BY <1>2 DEF ProducerSend
<1>3. ASSUME NEW v \in Videos, ProducerGivesUp(v) PROVE QueueTypes'
  BY <1>3 DEF ProducerGivesUp, Folded
<1>4. CASE Take
  BY <1>4 DEF Take
<1>5. CASE Exit
  BY <1>5 DEF Exit
<1>6. CASE Activate
  BY <1>6 DEF Activate
<1>7. CASE Acquired
  BY <1>7 DEF Acquired
<1>8. CASE ReadVideo
  BY <1>8 DEF ReadVideo
<1>9. CASE EndAttempt
  BY <1>9 DEF EndAttempt
<1>10. CASE CollectFollowUp
  BY <1>10 DEF CollectFollowUp
<1>11. CASE ReleaseReservation
  BY <1>11 DEF ReleaseReservation
<1>12. CASE Requeue
  BY <1>12 DEF Requeue
<1>13. CASE RequeueSend
  BY <1>13 DEF RequeueSend
<1>14. ASSUME NEW v \in Previewed, StartPreview(v) PROVE QueueTypes'
  BY <1>14 DEF StartPreview
<1>15. ASSUME NEW v \in Previewed, PreviewSlot(v) PROVE QueueTypes'
  BY <1>15 DEF PreviewSlot
<1>16. ASSUME NEW v \in Previewed, PreviewFails(v) PROVE QueueTypes'
  BY <1>16 DEF PreviewFails
<1>17. ASSUME NEW v \in Previewed, PreviewCommits(v) PROVE QueueTypes'
  BY <1>17 DEF PreviewCommits
<1>18. ASSUME NEW v \in Previewed, FollowUpNotify(v) PROVE QueueTypes'
  BY <1>18 DEF FollowUpNotify
<1>19. ASSUME NEW v \in Previewed, FollowUpReserve(v) PROVE QueueTypes'
  BY <1>19 DEF FollowUpReserve
<1>20. ASSUME NEW v \in Previewed, FollowUpOffer(v) PROVE QueueTypes'
  BY <1>20 DEF FollowUpOffer, Folded
<1>21. ASSUME NEW v \in Previewed, EndPreview(v) PROVE QueueTypes'
  BY <1>21 DEF EndPreview
<1>22. ASSUME NEW t \in Tasks \ Previewed, OtherDrive(t) PROVE QueueTypes'
  BY <1>22 DEF OtherDrive
<1>23. CASE CoolDown
  BY <1>23 DEF CoolDown
<1>24. CASE Retire
  BY <1>24 DEF Retire
<1>25. CASE Stop
  BY <1>25 DEF Stop
<1>26. CASE UNCHANGED vars
  BY <1>26 DEF vars, queueVars
<1> QED
  BY <1>1, <1>2, <1>3, <1>4, <1>5, <1>6, <1>7, <1>8, <1>9, <1>10, <1>11, <1>12, <1>13,
      <1>14, <1>15, <1>16, <1>17, <1>18, <1>19, <1>20, <1>21, <1>22, <1>23, <1>24, <1>25,
      <1>26
     DEF Next, WorkerStep, PreviewStep

(***************************************************************************)
(* Waiting preview tasks are before their work.                            *)
(***************************************************************************)
LEMMA CallStep == IInv /\ [Next]_vars => CallInv'
<1> SUFFICES ASSUME IInv, [Next]_vars PROVE CallInv'
  OBVIOUS
<1> USE GenerationAssumption, LimiterCalls
      DEF IInv, CallInv, QueueTypes, Kept, limiterVars, queueVars
<1>1. ASSUME NEW v \in Videos, ProducerReserve(v) PROVE CallInv'
  BY <1>1 DEF ProducerReserve
<1>2. ASSUME NEW v \in Videos, ProducerSend(v) PROVE CallInv'
  BY <1>2 DEF ProducerSend
<1>3. ASSUME NEW v \in Videos, ProducerGivesUp(v) PROVE CallInv'
  BY <1>3 DEF ProducerGivesUp
<1>4. CASE Take
  BY <1>4 DEF Take
<1>5. CASE Exit
  BY <1>5 DEF Exit
<1>6. CASE Activate
  BY <1>6 DEF Activate
<1>7. CASE Acquired
  BY <1>7 DEF Acquired
<1>8. CASE ReadVideo
  BY <1>8 DEF ReadVideo
<1>9. CASE EndAttempt
  BY <1>9 DEF EndAttempt
<1>10. CASE CollectFollowUp
  BY <1>10 DEF CollectFollowUp
<1>11. CASE ReleaseReservation
  BY <1>11 DEF ReleaseReservation
<1>12. CASE Requeue
  BY <1>12 DEF Requeue
<1>13. CASE RequeueSend
  BY <1>13 DEF RequeueSend
<1>14. ASSUME NEW v \in Previewed, StartPreview(v) PROVE CallInv'
  BY <1>14 DEF StartPreview
<1>15. ASSUME NEW v \in Previewed, PreviewSlot(v) PROVE CallInv'
  BY <1>15 DEF PreviewSlot
<1>16. ASSUME NEW v \in Previewed, PreviewFails(v) PROVE CallInv'
  BY <1>16 DEF PreviewFails
<1>17. ASSUME NEW v \in Previewed, PreviewCommits(v) PROVE CallInv'
  BY <1>17 DEF PreviewCommits
<1>18. ASSUME NEW v \in Previewed, FollowUpNotify(v) PROVE CallInv'
  BY <1>18 DEF FollowUpNotify
<1>19. ASSUME NEW v \in Previewed, FollowUpReserve(v) PROVE CallInv'
  BY <1>19 DEF FollowUpReserve
<1>20. ASSUME NEW v \in Previewed, FollowUpOffer(v) PROVE CallInv'
  BY <1>20 DEF FollowUpOffer
<1>21. ASSUME NEW v \in Previewed, EndPreview(v) PROVE CallInv'
  BY <1>21 DEF EndPreview
<1>22. ASSUME NEW t \in Tasks \ Previewed, OtherDrive(t) PROVE CallInv'
  BY <1>22 DEF OtherDrive
<1>23. CASE CoolDown
  BY <1>23 DEF CoolDown
<1>24. CASE Retire
  BY <1>24 DEF Retire
<1>25. CASE Stop
  BY <1>25 DEF Stop
<1>26. CASE UNCHANGED vars
  BY <1>26 DEF vars, queueVars
<1> QED
  BY <1>1, <1>2, <1>3, <1>4, <1>5, <1>6, <1>7, <1>8, <1>9, <1>10, <1>11, <1>12, <1>13,
      <1>14, <1>15, <1>16, <1>17, <1>18, <1>19, <1>20, <1>21, <1>22, <1>23, <1>24, <1>25,
      <1>26
     DEF Next, WorkerStep, PreviewStep

(***************************************************************************)
(* The place of the worker.                                                *)
(***************************************************************************)
LEMMA WorkerPlaceStep == IInv /\ [Next]_vars => WorkerInv'
<1> SUFFICES ASSUME IInv, [Next]_vars PROVE WorkerInv'
  OBVIOUS
<1> USE NoVideoAssumption, GenerationAssumption, SameChannel, SendEffect, TakeEffect,
    SlotEffect
      DEF IInv, WorkerInv, QueueTypes, Stopped, limiterVars, queueVars, ReservedOnce
<1>1. ASSUME NEW v \in Videos, ProducerReserve(v) PROVE WorkerInv'
  BY <1>1 DEF ProducerReserve
<1>2. ASSUME NEW v \in Videos, ProducerSend(v) PROVE WorkerInv'
  BY <1>2 DEF ProducerSend
<1>3. ASSUME NEW v \in Videos, ProducerGivesUp(v) PROVE WorkerInv'
  BY <1>3 DEF ProducerGivesUp
<1>4. CASE Take
  BY <1>4 DEF Take
<1>5. CASE Exit
  BY <1>5 DEF Exit
<1>6. CASE Activate
  BY <1>6 DEF Activate
<1>7. CASE Acquired
  BY <1>7 DEF Acquired
<1>8. CASE ReadVideo
  BY <1>8 DEF ReadVideo
<1>9. CASE EndAttempt
  BY <1>9 DEF EndAttempt
<1>10. CASE CollectFollowUp
  BY <1>10 DEF CollectFollowUp
<1>11. CASE ReleaseReservation
  BY <1>11 DEF ReleaseReservation
<1>12. CASE Requeue
  BY <1>12 DEF Requeue
<1>13. CASE RequeueSend
  BY <1>13 DEF RequeueSend
<1>14. ASSUME NEW v \in Previewed, StartPreview(v) PROVE WorkerInv'
  BY <1>14 DEF StartPreview
<1>15. ASSUME NEW v \in Previewed, PreviewSlot(v) PROVE WorkerInv'
  BY <1>15 DEF PreviewSlot
<1>16. ASSUME NEW v \in Previewed, PreviewFails(v) PROVE WorkerInv'
  BY <1>16 DEF PreviewFails
<1>17. ASSUME NEW v \in Previewed, PreviewCommits(v) PROVE WorkerInv'
  BY <1>17 DEF PreviewCommits
<1>18. ASSUME NEW v \in Previewed, FollowUpNotify(v) PROVE WorkerInv'
  BY <1>18 DEF FollowUpNotify
<1>19. ASSUME NEW v \in Previewed, FollowUpReserve(v) PROVE WorkerInv'
  BY <1>19 DEF FollowUpReserve
<1>20. ASSUME NEW v \in Previewed, FollowUpOffer(v) PROVE WorkerInv'
  BY <1>20 DEF FollowUpOffer
<1>21. ASSUME NEW v \in Previewed, EndPreview(v) PROVE WorkerInv'
  BY <1>21 DEF EndPreview
<1>22. ASSUME NEW t \in Tasks \ Previewed, OtherDrive(t) PROVE WorkerInv'
  BY <1>22 DEF OtherDrive
<1>23. CASE CoolDown
  BY <1>23 DEF CoolDown
<1>24. CASE Retire
  BY <1>24 DEF Retire
<1>25. CASE Stop
  BY <1>25 DEF Stop
<1>26. CASE UNCHANGED vars
  BY <1>26 DEF vars, queueVars
<1> QED
  BY <1>1, <1>2, <1>3, <1>4, <1>5, <1>6, <1>7, <1>8, <1>9, <1>10, <1>11, <1>12, <1>13,
      <1>14, <1>15, <1>16, <1>17, <1>18, <1>19, <1>20, <1>21, <1>22, <1>23, <1>24, <1>25,
      <1>26
     DEF Next, WorkerStep, PreviewStep

(***************************************************************************)
(* Reservations and their holders.                                         *)
(***************************************************************************)
LEMMA ReserveStep == IInv /\ [Next]_vars => ReservedOnce'
<1> SUFFICES ASSUME IInv, [Next]_vars PROVE ReservedOnce'
  OBVIOUS
<1> USE GenerationAssumption, NoVideoAssumption, SameChannel, SendEffect, TakeEffect,
    SlotEffect
      DEF IInv, QueueTypes, ReservedOnce, Offering, InHand, WorkerInv, CallInv, limiterVars,
          queueVars
<1>1. ASSUME NEW v \in Videos, ProducerReserve(v) PROVE ReservedOnce'
  BY <1>1 DEF ProducerReserve
<1>2. ASSUME NEW v \in Videos, ProducerSend(v) PROVE ReservedOnce'
  BY <1>2 DEF ProducerSend
<1>3. ASSUME NEW v \in Videos, ProducerGivesUp(v) PROVE ReservedOnce'
  BY <1>3 DEF ProducerGivesUp
<1>4. CASE Take
  <2>1. InHand = {} /\ InHand' = {cur'} /\ UNCHANGED <<reserved, sending, preview>>
    BY <1>4 DEF Take
  <2>2. cur' \in InChannel /\ InChannel' = InChannel \ {cur'} /\ IsInjective(ch')
    BY <1>4, TakeEffect
  <2> HIDE DEF InHand
  <2> QED
    BY <2>1, <2>2
<1>5. CASE Exit
  BY <1>5 DEF Exit
<1>6. CASE Activate
  BY <1>6 DEF Activate
<1>7. CASE Acquired
  BY <1>7 DEF Acquired
<1>8. CASE ReadVideo
  BY <1>8 DEF ReadVideo
<1>9. CASE EndAttempt
  BY <1>9 DEF EndAttempt
<1>10. CASE CollectFollowUp
  BY <1>10 DEF CollectFollowUp
<1>11. CASE ReleaseReservation
  BY <1>11 DEF ReleaseReservation
<1>12. CASE Requeue
  BY <1>12 DEF Requeue
<1>13. CASE RequeueSend
  BY <1>13 DEF RequeueSend
<1>14. ASSUME NEW v \in Previewed, StartPreview(v) PROVE ReservedOnce'
  BY <1>14 DEF StartPreview
<1>15. ASSUME NEW v \in Previewed, PreviewSlot(v) PROVE ReservedOnce'
  <2>1. Offering' = Offering
    BY <1>15, SlotEffect
  <2>2. InHand' = InHand /\ InChannel' = InChannel /\ UNCHANGED <<ch, reserved, sending>>
    BY <1>15 DEF PreviewSlot
  <2> HIDE DEF Offering, InHand
  <2> QED
    BY <2>1, <2>2
<1>16. ASSUME NEW v \in Previewed, PreviewFails(v) PROVE ReservedOnce'
  BY <1>16 DEF PreviewFails
<1>17. ASSUME NEW v \in Previewed, PreviewCommits(v) PROVE ReservedOnce'
  BY <1>17 DEF PreviewCommits
<1>18. ASSUME NEW v \in Previewed, FollowUpNotify(v) PROVE ReservedOnce'
  BY <1>18 DEF FollowUpNotify
<1>19. ASSUME NEW v \in Previewed, FollowUpReserve(v) PROVE ReservedOnce'
  BY <1>19 DEF FollowUpReserve
<1>20. ASSUME NEW v \in Previewed, FollowUpOffer(v) PROVE ReservedOnce'
  BY <1>20 DEF FollowUpOffer
<1>21. ASSUME NEW v \in Previewed, EndPreview(v) PROVE ReservedOnce'
  BY <1>21 DEF EndPreview
<1>22. ASSUME NEW t \in Tasks \ Previewed, OtherDrive(t) PROVE ReservedOnce'
  BY <1>22 DEF OtherDrive
<1>23. CASE CoolDown
  BY <1>23 DEF CoolDown
<1>24. CASE Retire
  BY <1>24 DEF Retire
<1>25. CASE Stop
  BY <1>25 DEF Stop
<1>26. CASE UNCHANGED vars
  BY <1>26 DEF vars, queueVars
<1> QED
  BY <1>1, <1>2, <1>3, <1>4, <1>5, <1>6, <1>7, <1>8, <1>9, <1>10, <1>11, <1>12, <1>13,
      <1>14, <1>15, <1>16, <1>17, <1>18, <1>19, <1>20, <1>21, <1>22, <1>23, <1>24, <1>25,
      <1>26
     DEF Next, WorkerStep, PreviewStep

(***************************************************************************)
(* Why an attempt goes on.                                                 *)
(***************************************************************************)
LEMMA NoteStep == IInv /\ [Next]_vars => NoteInv'
<1> SUFFICES ASSUME IInv, [Next]_vars PROVE NoteInv'
  OBVIOUS
<1> USE GenerationAssumption, NoVideoAssumption, SameChannel, SendEffect, TakeEffect,
    SlotEffect
      DEF IInv, QueueTypes, NoteInv, WorkerInv, FollowUpMuHeld, Stopped, CallInv,
          limiterVars, queueVars
<1>1. ASSUME NEW v \in Videos, ProducerReserve(v) PROVE NoteInv'
  BY <1>1 DEF ProducerReserve
<1>2. ASSUME NEW v \in Videos, ProducerSend(v) PROVE NoteInv'
  BY <1>2 DEF ProducerSend
<1>3. ASSUME NEW v \in Videos, ProducerGivesUp(v) PROVE NoteInv'
  BY <1>3 DEF ProducerGivesUp
<1>4. CASE Take
  BY <1>4 DEF Take
<1>5. CASE Exit
  BY <1>5 DEF Exit
<1>6. CASE Activate
  BY <1>6 DEF Activate
<1>7. CASE Acquired
  BY <1>7 DEF Acquired
<1>8. CASE ReadVideo
  BY <1>8 DEF ReadVideo
<1>9. CASE EndAttempt
  BY <1>9 DEF EndAttempt
<1>10. CASE CollectFollowUp
  BY <1>10 DEF CollectFollowUp
<1>11. CASE ReleaseReservation
  BY <1>11 DEF ReleaseReservation
<1>12. CASE Requeue
  BY <1>12 DEF Requeue
<1>13. CASE RequeueSend
  BY <1>13 DEF RequeueSend
<1>14. ASSUME NEW v \in Previewed, StartPreview(v) PROVE NoteInv'
  BY <1>14 DEF StartPreview
<1>15. ASSUME NEW v \in Previewed, PreviewSlot(v) PROVE NoteInv'
  BY <1>15 DEF PreviewSlot
<1>16. ASSUME NEW v \in Previewed, PreviewFails(v) PROVE NoteInv'
  BY <1>16 DEF PreviewFails
<1>17. ASSUME NEW v \in Previewed, PreviewCommits(v) PROVE NoteInv'
  BY <1>17 DEF PreviewCommits
<1>18. ASSUME NEW v \in Previewed, FollowUpNotify(v) PROVE NoteInv'
  BY <1>18 DEF FollowUpNotify
<1>19. ASSUME NEW v \in Previewed, FollowUpReserve(v) PROVE NoteInv'
  BY <1>19 DEF FollowUpReserve
<1>20. ASSUME NEW v \in Previewed, FollowUpOffer(v) PROVE NoteInv'
  BY <1>20 DEF FollowUpOffer
<1>21. ASSUME NEW v \in Previewed, EndPreview(v) PROVE NoteInv'
  BY <1>21 DEF EndPreview
<1>22. ASSUME NEW t \in Tasks \ Previewed, OtherDrive(t) PROVE NoteInv'
  BY <1>22 DEF OtherDrive
<1>23. CASE CoolDown
  BY <1>23 DEF CoolDown
<1>24. CASE Retire
  BY <1>24 DEF Retire
<1>25. CASE Stop
  BY <1>25 DEF Stop
<1>26. CASE UNCHANGED vars
  BY <1>26 DEF vars, queueVars
<1> QED
  BY <1>1, <1>2, <1>3, <1>4, <1>5, <1>6, <1>7, <1>8, <1>9, <1>10, <1>11, <1>12, <1>13,
      <1>14, <1>15, <1>16, <1>17, <1>18, <1>19, <1>20, <1>21, <1>22, <1>23, <1>24, <1>25,
      <1>26
     DEF Next, WorkerStep, PreviewStep

(***************************************************************************)
(* Previews that became ready.                                             *)
(***************************************************************************)
LEMMA FollowUpStep == IInv /\ [Next]_vars => FollowUpInHand'
<1> SUFFICES ASSUME IInv, [Next]_vars PROVE FollowUpInHand'
  OBVIOUS
<1> USE GenerationAssumption, NoVideoAssumption, SameChannel, SendEffect, TakeEffect,
    SlotEffect
      DEF IInv, QueueTypes, ReservedOnce, Offering, InHand, WorkerInv, CallInv, NoteInv,
          FollowUpInHand, FollowUpMuHeld, Stopped, limiterVars, queueVars
<1>1. ASSUME NEW v \in Videos, ProducerReserve(v) PROVE FollowUpInHand'
  BY <1>1 DEF ProducerReserve
<1>2. ASSUME NEW v \in Videos, ProducerSend(v) PROVE FollowUpInHand'
  BY <1>2 DEF ProducerSend
<1>3. ASSUME NEW v \in Videos, ProducerGivesUp(v) PROVE FollowUpInHand'
  BY <1>3 DEF ProducerGivesUp, Folded
<1>4. CASE Take
  BY <1>4 DEF Take
<1>5. CASE Exit
  BY <1>5 DEF Exit
<1>6. CASE Activate
  BY <1>6 DEF Activate
<1>7. CASE Acquired
  BY <1>7 DEF Acquired
<1>8. CASE ReadVideo
  BY <1>8 DEF ReadVideo
<1>9. CASE EndAttempt
  BY <1>9 DEF EndAttempt
<1>10. CASE CollectFollowUp
  BY <1>10 DEF CollectFollowUp
<1>11. CASE ReleaseReservation
  BY <1>11 DEF ReleaseReservation
<1>12. CASE Requeue
  BY <1>12 DEF Requeue
<1>13. CASE RequeueSend
  BY <1>13 DEF RequeueSend
<1>14. ASSUME NEW v \in Previewed, StartPreview(v) PROVE FollowUpInHand'
  BY <1>14 DEF StartPreview
<1>15. ASSUME NEW v \in Previewed, PreviewSlot(v) PROVE FollowUpInHand'
  BY <1>15 DEF PreviewSlot
<1>16. ASSUME NEW v \in Previewed, PreviewFails(v) PROVE FollowUpInHand'
  BY <1>16 DEF PreviewFails
<1>17. ASSUME NEW v \in Previewed, PreviewCommits(v) PROVE FollowUpInHand'
  BY <1>17 DEF PreviewCommits
<1>18. ASSUME NEW v \in Previewed, FollowUpNotify(v) PROVE FollowUpInHand'
  BY <1>18 DEF FollowUpNotify
<1>19. ASSUME NEW v \in Previewed, FollowUpReserve(v) PROVE FollowUpInHand'
  <2>1. /\ preview[v] = "enqueue" /\ InChannel' = InChannel
        /\ UNCHANGED <<pc, cur, again, sending, followUps, life, owed, dropped>>
        /\ \A u \in Previewed \ {v} : preview'[u] = preview[u]
    BY <1>19 DEF FollowUpReserve
  <2>2. CASE v \notin reserved
    <3>1. preview'[v] = "offer"
      BY <1>19, <2>2 DEF FollowUpReserve
    <3> QED
      BY <2>1, <3>1
  <2>3. CASE v \in reserved
    <3>1. v \in InChannel \union sending \/ (v = cur /\ pc \notin {"select", "requeue", "exited"})
      BY <2>1, <2>3
    <3>2. life = "running" /\ v \in owed /\ v = cur =>
             /\ pc \in {"generating", "finish"} => v \in followUps
             /\ pc = "releasing" => again
      BY <2>1
    <3> QED
      BY <2>1, <3>1, <3>2 DEF WorkerPoints
  <2> QED
    BY <2>2, <2>3
<1>20. ASSUME NEW v \in Previewed, FollowUpOffer(v) PROVE FollowUpInHand'
  BY <1>20 DEF FollowUpOffer, Folded
<1>21. ASSUME NEW v \in Previewed, EndPreview(v) PROVE FollowUpInHand'
  BY <1>21 DEF EndPreview
<1>22. ASSUME NEW t \in Tasks \ Previewed, OtherDrive(t) PROVE FollowUpInHand'
  BY <1>22 DEF OtherDrive
<1>23. CASE CoolDown
  BY <1>23 DEF CoolDown
<1>24. CASE Retire
  BY <1>24 DEF Retire
<1>25. CASE Stop
  BY <1>25 DEF Stop
<1>26. CASE UNCHANGED vars
  BY <1>26 DEF vars, queueVars
<1> QED
  BY <1>1, <1>2, <1>3, <1>4, <1>5, <1>6, <1>7, <1>8, <1>9, <1>10, <1>11, <1>12, <1>13,
      <1>14, <1>15, <1>16, <1>17, <1>18, <1>19, <1>20, <1>21, <1>22, <1>23, <1>24, <1>25,
      <1>26
     DEF Next, WorkerStep, PreviewStep


\* Every step keeps the invariant.
LEMMA QueueNext == IInv /\ [Next]_vars => IInv'
BY LimiterStep, TypeStep, CallStep, WorkerPlaceStep, ReserveStep, NoteStep, FollowUpStep
   DEF IInv

-----------------------------------------------------------------------------
(* The theorems.                                                           *)

\* The inductive invariant: who answers for each reservation and for each preview
\* that became ready, at every place of the worker.
THEOREM GenerationInvariant == Spec => []IInv
BY QueueInit, QueueNext, PTL DEF Spec

\* The types, for any number of videos, drives and slots; the channel never holds
\* more than it can.
THEOREM GenerationTypeCorrect == Spec => []TypeOK
<1>1. IInv => TypeOK
  BY DEF IInv, LimiterInv, Accounts, QueueTypes, TypeOK, LimiterTypeOK
<1> QED
  BY <1>1, GenerationInvariant, PTL

\* The slots of the shared limiter are accounted for also under the preview tasks,
\* which keep one while they ask for a follow-up (limiter.go:57-82).
THEOREM PreviewSlotsNeverLeak == Spec => []SlotsAccounted
<1>1. IInv => SlotsAccounted
  BY DEF IInv, LimiterInv, Accounts, SlotsAccounted, OwnersOf, Owners
<1> QED
  BY <1>1, GenerationInvariant, PTL

\* A reservation has exactly one holder (ffmpeg.go:1378-1404, 1552-1584).
THEOREM ReservationsHaveOneHolder == Spec => []ReservedOnce
<1>1. IInv => ReservedOnce
  BY DEF IInv
<1> QED
  BY <1>1, GenerationInvariant, PTL

\* A preview that has become ready is never folded into an attempt that read the
\* video before; what may happen to it is that it is dropped with a reservation
\* that is given back (ffmpeg.go:1320-1333, 1552-1584, 1586-1607, 1905-1929).
THEOREM FollowUpsAreInHand == Spec => []FollowUpInHand
<1>1. IInv => FollowUpInHand
  BY DEF IInv
<1> QED
  BY <1>1, GenerationInvariant, PTL

=============================================================================
