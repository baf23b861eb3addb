---------------------------- MODULE TaskLimiter ----------------------------
(***************************************************************************)
(* The global concurrency budget of src/backend/internal/tasklimit: one    *)
(* Limiter is shared by the thumbnail workers of all drives, one by the    *)
(* preview workers, one by the fingerprint workers.                        *)
(*                                                                         *)
(* A task is one call of Acquire and the work done under the slot it       *)
(* returns.  Acquire is three steps: it queues the call and dispatches     *)
(* under the mutex, sleeps in a select, and takes the mutex again to       *)
(* return, so that a grant, a cancellation and a change of the limit can   *)
(* fall between any two of them.  Everything done under one holding of the *)
(* mutex is one step.                                                      *)
(***************************************************************************)
EXTENDS Integers, Sequences, FiniteSets

CONSTANTS
    Tasks,      \* the calls of Acquire
    MaxLimit    \* bound of the limits an administrator may set

ASSUME LimiterAssumption == IsFiniteSet(Tasks) /\ MaxLimit \in Nat \ {0}

VARIABLES
    limit,      \* Limiter.limit
    active,     \* Limiter.active
    waiters,    \* Limiter.waiters, in arrival order
    call,       \* where each task's call of Acquire is
    canceled    \* the tasks whose context has been canceled

limiterVars == <<limit, active, waiters, call, canceled>>

\* "granted": dispatched, but the caller has not taken the mutex again yet.
CallStates == {"idle", "waiting", "granted", "holding"}

\* The tasks that own a slot.
Owners == {t \in Tasks : call[t] \in {"granted", "holding"}}

(***************************************************************************)
(* dispatchLocked on a queue q, a number n of slots in use and a limit m:  *)
(* it hands slots to the head of the queue while there are any.            *)
(***************************************************************************)
\* Mutation: one slot too many.
GrantedPastLimit(q, n, m) == IF n > m THEN 0 ELSE IF m - n + 1 < Len(q) THEN m - n + 1 ELSE Len(q)

Granted(q, n, m) == IF n >= m THEN 0 ELSE IF m - n < Len(q) THEN m - n ELSE Len(q)

Dispatch(q, n, m, c) ==
    LET k == Granted(q, n, m)
    IN  /\ active' = n + k
        /\ waiters' = SubSeq(q, k + 1, Len(q))
        /\ call' = [t \in Tasks |->
                      IF \E i \in 1 .. k : q[i] = t THEN "granted" ELSE c[t]]

\* The queue without its i-th entry.
Without(q, i) == SubSeq(q, 1, i - 1) \o SubSeq(q, i + 1, Len(q))

---------------------------------------------------------------------------

LimiterInit ==
    /\ limit \in 1 .. MaxLimit
    /\ active = 0
    /\ waiters = <<>>
    /\ call = [t \in Tasks |-> "idle"]
    /\ canceled = {}

\* Mutation: a new call goes to the head of the queue.
AcquireInFront(t) ==
    /\ call[t] = "idle"
    /\ t \notin canceled
    /\ Dispatch(<<t>> \o waiters, active, limit, [call EXCEPT ![t] = "waiting"])
    /\ UNCHANGED <<limit, canceled>>

\* A call with a live context joins the queue.
Acquire(t) ==
    /\ call[t] = "idle"
    /\ t \notin canceled
    /\ Dispatch(Append(waiters, t), active, limit, [call EXCEPT ![t] = "waiting"])
    /\ UNCHANGED <<limit, canceled>>

\* The select was woken by the grant and the context is still live.
TakeSlot(t) ==
    /\ call[t] = "granted"
    /\ t \notin canceled
    /\ call' = [call EXCEPT ![t] = "holding"]
    /\ UNCHANGED <<limit, active, waiters, canceled>>

\* Mutation: a slot granted to a canceled call is forgotten.
RefuseAndForget(t) ==
    /\ call[t] = "granted"
    /\ t \in canceled
    /\ Dispatch(waiters, active, limit, [call EXCEPT ![t] = "idle"])
    /\ UNCHANGED <<limit, canceled>>

\* The context was canceled: after a grant the slot goes back ...
RefuseSlot(t) ==
    /\ call[t] = "granted"
    /\ t \in canceled
    /\ Dispatch(waiters, active - 1, limit, [call EXCEPT ![t] = "idle"])
    /\ UNCHANGED <<limit, canceled>>

\* Mutation: a canceled call stays in the queue.
LeaveTicketBehind(t) ==
    /\ call[t] = "waiting"
    /\ t \in canceled
    /\ Dispatch(waiters, active, limit, [call EXCEPT ![t] = "idle"])
    /\ UNCHANGED <<limit, canceled>>

\* ... and before one the call leaves the queue, wherever it stands.
LeaveQueue(t) ==
    /\ call[t] = "waiting"
    /\ t \in canceled
    /\ \E i \in 1 .. Len(waiters) :
          /\ waiters[i] = t
          /\ Dispatch(Without(waiters, i), active, limit, [call EXCEPT ![t] = "idle"])
    /\ UNCHANGED <<limit, canceled>>

\* Mutation: the release function may be called twice.
ReleaseTwice(t) ==
    /\ call[t] \in {"holding", "idle"}
    /\ Dispatch(waiters, active - 1, limit, [call EXCEPT ![t] = "idle"])
    /\ UNCHANGED <<limit, canceled>>

\* Mutation: a slot that is freed is not handed on.
ReleaseSilently(t) ==
    /\ call[t] = "holding"
    /\ active' = active - 1
    /\ call' = [call EXCEPT ![t] = "idle"]
    /\ UNCHANGED <<limit, waiters, canceled>>

\* The first call of the release function; later ones do nothing (OnceFunc).
Release(t) ==
    /\ call[t] = "holding"
    /\ Dispatch(waiters, active - 1, limit, [call EXCEPT ![t] = "idle"])
    /\ UNCHANGED <<limit, canceled>>

\* Mutation: a raised limit wakes nobody.
SetLimitSilently(n) ==
    /\ limit' = (IF n < 1 THEN 1 ELSE n)
    /\ UNCHANGED <<active, waiters, call, canceled>>

\* A change of the setting; running tasks keep their slots.
SetLimit(n) ==
    /\ limit' = (IF n < 1 THEN 1 ELSE n)
    /\ Dispatch(waiters, active, limit', call)
    /\ UNCHANGED canceled

\* The drive of the task is detached, or the round it belongs to is stopped.
Cancel(t) ==
    /\ canceled' = canceled \union {t}
    /\ UNCHANGED <<limit, active, waiters, call>>

\* The next task under this name has a context of its own.
Renew(t) ==
    /\ call[t] = "idle"
    /\ canceled' = canceled \ {t}
    /\ UNCHANGED <<limit, active, waiters, call>>

Return(t) == TakeSlot(t) \/ RefuseSlot(t) \/ LeaveQueue(t)

LimiterNext ==
    \/ \E t \in Tasks :
          \/ Acquire(t) \/ Return(t) \/ Release(t)
          \/ Cancel(t) \/ Renew(t)
    \/ \E n \in 0 .. MaxLimit : SetLimit(n)

(***************************************************************************)
(* A goroutine that can run does run, and the work under a slot ends: it   *)
(* is an ffmpeg or network call under a context with a deadline.           *)
(***************************************************************************)
LimiterFairness == \A t \in Tasks : WF_limiterVars(Return(t)) /\ WF_limiterVars(Release(t))

LimiterSpec == LimiterInit /\ [][LimiterNext]_limiterVars /\ LimiterFairness

---------------------------------------------------------------------------

\* The type invariant.
LimiterTypeOK ==
    /\ limit \in Nat \ {0}
    /\ active \in Nat
    /\ waiters \in Seq(Tasks)
    /\ call \in [Tasks -> CallStates]
    /\ canceled \subseteq Tasks

(***************************************************************************)
(* No slot leaks and none is handed out twice: the counter agrees with the *)
(* tasks that own a slot, whatever the order of grants, cancellations and  *)
(* releases (limiter.go:57-82).                                            *)
(***************************************************************************)
SlotsAccounted == active = Cardinality(Owners)

(***************************************************************************)
(* The queue holds every sleeping call exactly once, and nobody else: a    *)
(* canceled call left in it would be granted a slot that nobody returns.   *)
(***************************************************************************)
QueueAccounted ==
    /\ \A t \in Tasks : call[t] = "waiting" <=> \E i \in 1 .. Len(waiters) : waiters[i] = t
    /\ \A i, j \in 1 .. Len(waiters) : waiters[i] = waiters[j] => i = j

(***************************************************************************)
(* Nobody sleeps while a slot is free: every path that frees a slot, gives *)
(* up a place or raises the limit dispatches before it unlocks.            *)
(***************************************************************************)
NoIdleSlot == waiters # <<>> => active >= limit

(***************************************************************************)
(* A slot is granted only within the limit in force: after a reduction new *)
(* tasks wait for enough slots to drain (limiter.go:9-11).                 *)
(***************************************************************************)
GrantsWithinLimit ==
    [][\A t \in Tasks : call[t] # "granted" /\ call'[t] = "granted" => active' <= limit']_limiterVars

\* t sleeps in the queue q, and u does not stand before it.
Ahead(q, t, u) == \E i \in 1 .. Len(q) : q[i] = t /\ \A j \in 1 .. i : q[j] # u

(***************************************************************************)
(* Slots are granted in arrival order (limiter.go:9): as long as a call    *)
(* sleeps, nobody who queued or queues after it gets before it or is       *)
(* granted a slot, whoever leaves the queue meanwhile.                     *)
(***************************************************************************)
ArrivalOrder ==
    [][\A t, u \in Tasks :
          Ahead(waiters, t, u) /\ call'[t] = "waiting"
            => Ahead(waiters', t, u) /\ (call'[u] = "granted" => call[u] = "granted")]_limiterVars

(***************************************************************************)
(* Every call of Acquire returns.                                          *)
(***************************************************************************)
EveryCallReturns == \A t \in Tasks : call[t] \in {"waiting", "granted"} ~> call[t] \in {"idle", "holding"}

=============================================================================
