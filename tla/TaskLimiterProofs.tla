------------------------- MODULE TaskLimiterProofs -------------------------
(***************************************************************************)
(* Proofs about TaskLimiter, for any finite set of tasks and any limits.   *)
(*                                                                         *)
(* Every critical section of the limiter changes the queue, the counter    *)
(* and the call states in an elementary way and then dispatches.  So the   *)
(* proof has two halves: each section's own change keeps the books         *)
(* (Accounts), and dispatching keeps them and leaves nobody asleep beside  *)
(* a free slot.                                                            *)
(***************************************************************************)
EXTENDS TaskLimiter, TLAPS, FiniteSetTheorems, FunctionTheorems, SequenceTheorems

OwnersOf(c) == {t \in Tasks : c[t] \in {"granted", "holding"}}

\* A queue, a counter and call states that agree with each other.
Accounts(q, n, c) ==
    /\ q \in Seq(Tasks) /\ n \in Nat /\ c \in [Tasks -> CallStates]
    /\ \A t \in Tasks : c[t] = "waiting" <=> \E i \in 1 .. Len(q) : q[i] = t
    /\ \A i, j \in 1 .. Len(q) : q[i] = q[j] => i = j
    /\ n = Cardinality(OwnersOf(c))

\* The inductive invariant.
LimiterInv ==
    /\ limit \in Nat \ {0} /\ canceled \subseteq Tasks
    /\ Accounts(waiters, active, call)
    /\ NoIdleSlot

---------------------------------------------------------------------------

(***************************************************************************)
(* The number of grants of one dispatch (limiter.go:85-93): as many as     *)
(* there are free slots and sleeping calls.                                *)
(***************************************************************************)
LEMMA GrantedBounds ==
  ASSUME NEW q \in Seq(Tasks), NEW n \in Nat, NEW m \in Nat \ {0}
  PROVE  /\ Granted(q, n, m) \in 0 .. Len(q)
         /\ Granted(q, n, m) > 0 => n + Granted(q, n, m) <= m
         /\ Granted(q, n, m) < Len(q) => n + Granted(q, n, m) >= m
<1>1. Len(q) \in Nat
  BY LenProperties
<1> QED
  BY <1>1 DEF Granted

(***************************************************************************)
(* The first k entries of a queue without repetitions are k tasks.         *)
(***************************************************************************)
LEMMA HeadCardinality ==
  ASSUME NEW q \in Seq(Tasks), NEW k \in 0 .. Len(q),
         \A i, j \in 1 .. Len(q) : q[i] = q[j] => i = j
  PROVE  LET T == {t \in Tasks : \E i \in 1 .. k : q[i] = t}
         IN  IsFiniteSet(T) /\ Cardinality(T) = k
<1> DEFINE T == {t \in Tasks : \E i \in 1 .. k : q[i] = t}
           f == [i \in 1 .. k |-> q[i]]
<1>1. /\ Len(q) \in Nat /\ k \in Nat
      /\ 1 .. k \subseteq 1 .. Len(q)
      /\ \A i \in 1 .. Len(q) : q[i] \in Tasks
  BY LenProperties, ElementOfSeq
<1>2. f \in [1 .. k -> T]
  BY <1>1
<1>3. \A a, b \in 1 .. k : f[a] = f[b] => a = b
  BY <1>1
<1>4. \A t \in T : \E i \in 1 .. k : f[i] = t
  OBVIOUS
<1>5. f \in Bijection(1 .. k, T)
  <2> HIDE DEF f, T
  <2> QED
    BY <1>2, <1>3, <1>4, Fun_IsBij
<1>6. IsFiniteSet(1 .. k) /\ Cardinality(1 .. k) = k
  BY <1>1, FS_Interval
<1>7. ExistsBijection(1 .. k, T)
  BY <1>5 DEF ExistsBijection
<1>8. IsFiniteSet(T) /\ Cardinality(T) = k
  BY <1>6, <1>7, FS_Bijection
<1> QED
  BY <1>8

(***************************************************************************)
(* Any set of tasks is finite.                                             *)
(***************************************************************************)
LEMMA OwnersFinite ==
  ASSUME NEW c
  PROVE  IsFiniteSet(OwnersOf(c)) /\ Cardinality(OwnersOf(c)) \in Nat
BY LimiterAssumption, FS_Subset, FS_CardinalityType DEF OwnersOf

(***************************************************************************)
(* dispatchLocked keeps the books and leaves nobody asleep beside a free   *)
(* slot (limiter.go:85-93).                                                *)
(***************************************************************************)
LEMMA DispatchAccounts ==
  ASSUME NEW q, NEW n, NEW c, NEW m \in Nat \ {0},
         Accounts(q, n, c), Dispatch(q, n, m, c)
  PROVE  /\ Accounts(waiters', active', call')
         /\ waiters' # <<>> => active' >= m
<1> DEFINE k == Granted(q, n, m)
           T == {t \in Tasks : \E i \in 1 .. k : q[i] = t}
<1>1. /\ q \in Seq(Tasks) /\ n \in Nat /\ c \in [Tasks -> CallStates]
      /\ Len(q) \in Nat
      /\ \A i \in 1 .. Len(q) : q[i] \in Tasks
      /\ \A i, j \in 1 .. Len(q) : q[i] = q[j] => i = j
  BY LenProperties, ElementOfSeq DEF Accounts
<1>2. k \in 0 .. Len(q) /\ (k < Len(q) => n + k >= m)
  BY <1>1, GrantedBounds
<1>3. /\ active' = n + k
      /\ waiters' = SubSeq(q, k + 1, Len(q))
      /\ call' = [t \in Tasks |-> IF t \in T THEN "granted" ELSE c[t]]
  BY DEF Dispatch
<1> HIDE DEF k
<1>4. /\ waiters' \in Seq(Tasks)
      /\ Len(waiters') = Len(q) - k
      /\ \A i \in 1 .. Len(q) - k : waiters'[i] = q[k + i]
  <2>1. \A i \in k + 1 .. Len(q) : q[i] \in Tasks
    BY <1>1, <1>2
  <2>2. /\ waiters' \in Seq(Tasks)
        /\ Len(waiters') = IF k + 1 <= Len(q) THEN Len(q) - (k + 1) + 1 ELSE 0
        /\ \A i \in 1 .. Len(q) - (k + 1) + 1 : waiters'[i] = q[(k + 1) + i - 1]
    BY <1>1, <1>2, <1>3, <2>1, SubSeqProperties
  <2> QED
    BY <1>1, <1>2, <2>2
<1>5. \A t \in Tasks : call'[t] = "waiting" <=> \E i \in 1 .. Len(waiters') : waiters'[i] = t
  <2> TAKE t \in Tasks
  <2>1. c[t] = "waiting" <=> \E i \in 1 .. Len(q) : q[i] = t
    BY DEF Accounts
  <2>2. CASE t \in T
    <3>1. PICK a \in 1 .. k : q[a] = t
      BY <2>2
    <3>2. call'[t] # "waiting"
      BY <1>3, <2>2
    <3>3. \A i \in 1 .. Len(waiters') : waiters'[i] # t
      BY <1>1, <1>2, <1>4, <3>1
    <3> QED
      BY <3>2, <3>3
  <2>3. CASE t \notin T
    <3>1. call'[t] = c[t]
      BY <1>3, <2>3
    <3>2. ASSUME NEW a \in 1 .. Len(q), q[a] = t
          PROVE  \E i \in 1 .. Len(waiters') : waiters'[i] = t
      <4>1. a > k
        BY <1>1, <1>2, <2>3, <3>2
      <4>2. a - k \in 1 .. Len(q) - k /\ waiters'[a - k] = t
        BY <1>1, <1>2, <1>4, <3>2, <4>1
      <4> QED
        BY <1>4, <4>2
    <3>3. ASSUME NEW a \in 1 .. Len(waiters'), waiters'[a] = t
          PROVE  \E i \in 1 .. Len(q) : q[i] = t
      <4>1. a \in 1 .. Len(q) - k /\ q[k + a] = t
        BY <1>4, <3>3
      <4>2. k + a \in 1 .. Len(q)
        BY <1>1, <1>2, <4>1
      <4> QED
        BY <4>1, <4>2
    <3> QED
      BY <2>1, <3>1, <3>2, <3>3
  <2> QED
    BY <2>2, <2>3
<1>6. \A i, j \in 1 .. Len(waiters') : waiters'[i] = waiters'[j] => i = j
  BY <1>1, <1>2, <1>4
<1>7. call' \in [Tasks -> CallStates]
  BY <1>1, <1>3 DEF CallStates
<1>8. active' = Cardinality(OwnersOf(call'))
  <2>1. IsFiniteSet(T) /\ Cardinality(T) = k
    BY <1>1, <1>2, HeadCardinality
  <2>2. T \cap OwnersOf(c) = {}
    BY <1>1, <1>2 DEF OwnersOf, Accounts
  <2>3. OwnersOf(call') = OwnersOf(c) \cup T
    BY <1>3 DEF OwnersOf
  <2>4. Cardinality(OwnersOf(c) \cap T) = 0
    BY <2>2, FS_EmptySet
  <2>5. IsFiniteSet(OwnersOf(c)) /\ Cardinality(OwnersOf(c)) = n
    BY OwnersFinite DEF Accounts
  <2> HIDE DEF T
  <2>6. Cardinality(OwnersOf(c) \cup T) = n + k - 0
    BY <2>1, <2>4, <2>5, FS_Union
  <2>7. active' = n + k - 0
    BY <1>1, <1>2, <1>3
  <2> QED
    BY <2>3, <2>6, <2>7
<1>9. waiters' # <<>> => active' >= m
  <2>1. waiters' # <<>> => Len(waiters') > 0
    BY <1>4, EmptySeq
  <2> QED
    BY <1>1, <1>2, <1>3, <1>4, <2>1
<1>10. active' \in Nat
  BY <1>1, <1>2, <1>3
<1> QED
  BY <1>4, <1>5, <1>6, <1>7, <1>8, <1>9, <1>10 DEF Accounts

(***************************************************************************)
(* A task that gives its slot back: the change RefuseSlot and Release make *)
(* before they dispatch (limiter.go:62, 80).                               *)
(***************************************************************************)
LEMMA GiveBackAccounts ==
  ASSUME NEW t \in Tasks, LimiterInv, call[t] \in {"granted", "holding"}
  PROVE  Accounts(waiters, active - 1, [call EXCEPT ![t] = "idle"])
<1> DEFINE c == [call EXCEPT ![t] = "idle"]
<1>1. Accounts(waiters, active, call)
  BY DEF LimiterInv
<1>2. c \in [Tasks -> CallStates] /\ \A u \in Tasks : c[u] = "waiting" <=> call[u] = "waiting"
  BY <1>1 DEF Accounts, CallStates
<1>3. OwnersOf(c) = OwnersOf(call) \ {t} /\ t \in OwnersOf(call)
  BY <1>1 DEF Accounts, OwnersOf
<1>4. Cardinality(OwnersOf(c)) = active - 1
  BY <1>1, <1>3, OwnersFinite, FS_RemoveElement DEF Accounts
<1>5. active - 1 \in Nat
  BY <1>4, OwnersFinite
<1> HIDE DEF c
<1>6. Accounts(waiters, active - 1, c)
  BY <1>1, <1>2, <1>4, <1>5 DEF Accounts
<1> QED
  BY <1>6 DEF c

(***************************************************************************)
(* A call that joins the queue (limiter.go:51-53).                         *)
(***************************************************************************)
LEMMA JoinAccounts ==
  ASSUME NEW t \in Tasks, LimiterInv, call[t] = "idle"
  PROVE  Accounts(Append(waiters, t), active, [call EXCEPT ![t] = "waiting"])
<1> DEFINE c == [call EXCEPT ![t] = "waiting"]
           q == Append(waiters, t)
<1>1. Accounts(waiters, active, call) /\ Len(waiters) \in Nat
  BY LenProperties DEF LimiterInv, Accounts
<1>2. c \in [Tasks -> CallStates] /\ OwnersOf(c) = OwnersOf(call)
  BY <1>1 DEF Accounts, CallStates, OwnersOf
<1>3. /\ q \in Seq(Tasks) /\ Len(q) = Len(waiters) + 1
      /\ q[Len(waiters) + 1] = t
      /\ \A i \in 1 .. Len(waiters) : q[i] = waiters[i]
  BY <1>1 DEF Accounts
<1>4. \A i \in 1 .. Len(waiters) : waiters[i] # t
  BY <1>1 DEF Accounts
<1> HIDE DEF q
<1>5. \A u \in Tasks : c[u] = "waiting" <=> \E i \in 1 .. Len(q) : q[i] = u
  <2> TAKE u \in Tasks
  <2>1. CASE u = t
    BY <1>1, <1>3, <2>1 DEF Accounts
  <2>2. CASE u # t
    <3>1. c[u] = "waiting" <=> \E i \in 1 .. Len(waiters) : waiters[i] = u
      BY <1>1, <2>2 DEF Accounts
    <3> QED
      BY <1>1, <1>3, <2>2, <3>1
  <2> QED
    BY <2>1, <2>2
<1>6. \A i, j \in 1 .. Len(q) : q[i] = q[j] => i = j
  BY <1>1, <1>3, <1>4 DEF Accounts
<1> HIDE DEF c
<1>7. Accounts(q, active, c)
  BY <1>1, <1>2, <1>3, <1>5, <1>6 DEF Accounts
<1> QED
  BY <1>7 DEF c, q

(***************************************************************************)
(* Removing one entry keeps the others in their order                      *)
(* (limiter.go:64-69).                                                     *)
(***************************************************************************)
LEMMA WithoutProperties ==
  ASSUME NEW w \in Seq(Tasks), NEW a \in 1 .. Len(w)
  PROVE  /\ Without(w, a) \in Seq(Tasks)
         /\ Len(Without(w, a)) = Len(w) - 1
         /\ \A i \in 1 .. a - 1 : Without(w, a)[i] = w[i]
         /\ \A i \in a .. Len(w) - 1 : Without(w, a)[i] = w[i + 1]
<1> DEFINE q == Without(w, a)
           q1 == SubSeq(w, 1, a - 1)
           q2 == SubSeq(w, a + 1, Len(w))
<1>1. Len(w) \in Nat /\ \A i \in 1 .. Len(w) : w[i] \in Tasks
  BY LenProperties, ElementOfSeq
<1>2. /\ q1 \in Seq(Tasks) /\ Len(q1) = a - 1
      /\ \A i \in 1 .. a - 1 : q1[i] = w[i]
  <2>1. \A i \in 1 .. a - 1 : w[i] \in Tasks
    BY <1>1
  <2>2. /\ q1 \in Seq(Tasks)
        /\ Len(q1) = IF 1 <= a - 1 THEN (a - 1) - 1 + 1 ELSE 0
        /\ \A i \in 1 .. (a - 1) - 1 + 1 : q1[i] = w[1 + i - 1]
    BY <1>1, <2>1, SubSeqProperties
  <2> QED
    BY <1>1, <2>2
<1>3. /\ q2 \in Seq(Tasks) /\ Len(q2) = Len(w) - a
      /\ \A i \in 1 .. Len(w) - a : q2[i] = w[a + i]
  <2>1. \A i \in a + 1 .. Len(w) : w[i] \in Tasks
    BY <1>1
  <2>2. /\ q2 \in Seq(Tasks)
        /\ Len(q2) = IF a + 1 <= Len(w) THEN Len(w) - (a + 1) + 1 ELSE 0
        /\ \A i \in 1 .. Len(w) - (a + 1) + 1 : q2[i] = w[(a + 1) + i - 1]
    BY <1>1, <2>1, SubSeqProperties
  <2> QED
    BY <1>1, <2>2
<1> HIDE DEF q1, q2
<1>4. /\ q1 \o q2 \in Seq(Tasks)
      /\ Len(q1 \o q2) = Len(q1) + Len(q2)
      /\ \A i \in 1 .. Len(q1) + Len(q2) :
            (q1 \o q2)[i] = IF i <= Len(q1) THEN q1[i] ELSE q2[i - Len(q1)]
  BY <1>2, <1>3, ConcatProperties
<1>5. q = q1 \o q2
  BY DEF Without, q1, q2
<1> HIDE DEF q
<1>6. Len(q) = Len(w) - 1
  BY <1>1, <1>2, <1>3, <1>4, <1>5
<1>7. \A i \in 1 .. a - 1 : q[i] = w[i]
  BY <1>1, <1>2, <1>3, <1>4, <1>5
<1>8. ASSUME NEW i \in a .. Len(w) - 1
      PROVE  q[i] = w[i + 1]
  <2>1. q[i] = q2[i - (a - 1)]
    BY <1>1, <1>2, <1>3, <1>4, <1>5
  <2>2. i - (a - 1) \in 1 .. Len(w) - a /\ a + (i - (a - 1)) = i + 1
    BY <1>1
  <2> QED
    BY <1>3, <2>1, <2>2
<1>9. q \in Seq(Tasks)
  BY <1>4, <1>5
<1> QED
  BY <1>6, <1>7, <1>8, <1>9 DEF q

(***************************************************************************)
(* A canceled call that leaves the queue (limiter.go:64-69).               *)
(***************************************************************************)
LEMMA LeaveAccounts ==
  ASSUME NEW t \in Tasks, LimiterInv, NEW a \in 1 .. Len(waiters), waiters[a] = t,
         call[t] = "waiting"
  PROVE  Accounts(Without(waiters, a), active, [call EXCEPT ![t] = "idle"])
<1> DEFINE c == [call EXCEPT ![t] = "idle"]
           q == Without(waiters, a)
<1>1. Accounts(waiters, active, call) /\ Len(waiters) \in Nat
  BY LenProperties DEF LimiterInv, Accounts
<1>2. c \in [Tasks -> CallStates] /\ OwnersOf(c) = OwnersOf(call)
  BY <1>1 DEF Accounts, CallStates, OwnersOf
<1>3. /\ q \in Seq(Tasks) /\ Len(q) = Len(waiters) - 1
      /\ \A i \in 1 .. a - 1 : q[i] = waiters[i]
      /\ \A i \in a .. Len(waiters) - 1 : q[i] = waiters[i + 1]
  BY <1>1, WithoutProperties DEF Accounts
<1> HIDE DEF q
<1>4. \A i \in 1 .. Len(waiters) : waiters[i] = t => i = a
  BY <1>1 DEF Accounts
<1>5. ASSUME NEW i \in 1 .. Len(q)
      PROVE  \E j \in 1 .. Len(waiters) : j # a /\ q[i] = waiters[j] /\ j = (IF i < a THEN i ELSE i + 1)
  BY <1>1, <1>3
<1>6. ASSUME NEW j \in 1 .. Len(waiters), j # a
      PROVE  \E i \in 1 .. Len(q) : q[i] = waiters[j]
  <2>1. CASE j < a
    BY <1>1, <1>3, <2>1
  <2>2. CASE j > a
    <3>1. j - 1 \in a .. Len(waiters) - 1 /\ (j - 1) + 1 = j
      BY <1>1, <2>2
    <3>2. q[j - 1] = waiters[j]
      BY <1>3, <3>1
    <3>3. j - 1 \in 1 .. Len(q)
      BY <1>1, <1>3, <3>1
    <3> QED
      BY <3>2, <3>3
  <2> QED
    BY <1>1, <1>6, <2>1, <2>2
<1>7. \A u \in Tasks : c[u] = "waiting" <=> \E i \in 1 .. Len(q) : q[i] = u
  <2> TAKE u \in Tasks
  <2>1. call[u] = "waiting" <=> \E i \in 1 .. Len(waiters) : waiters[i] = u
    BY <1>1 DEF Accounts
  <2>2. CASE u = t
    <3>1. c[u] # "waiting"
      BY <1>1, <2>2 DEF Accounts
    <3>2. \A i \in 1 .. Len(q) : q[i] # u
      BY <1>4, <1>5, <2>2
    <3> QED
      BY <3>1, <3>2
  <2>3. CASE u # t
    <3>1. c[u] = call[u]
      BY <1>1, <2>3 DEF Accounts
    <3>2. ASSUME NEW j \in 1 .. Len(waiters), waiters[j] = u
          PROVE  \E i \in 1 .. Len(q) : q[i] = u
      BY <1>6, <2>3, <3>2
    <3>3. ASSUME NEW i \in 1 .. Len(q), q[i] = u
          PROVE  \E j \in 1 .. Len(waiters) : waiters[j] = u
      BY <1>5, <3>3
    <3> QED
      BY <2>1, <3>1, <3>2, <3>3
  <2> QED
    BY <2>2, <2>3
<1>8. ASSUME NEW i \in 1 .. Len(q), NEW j \in 1 .. Len(q), q[i] = q[j]
      PROVE  i = j
  <2>1. PICK x \in 1 .. Len(waiters) :
            q[i] = waiters[x] /\ x = (IF i < a THEN i ELSE i + 1)
    BY <1>5
  <2>2. PICK y \in 1 .. Len(waiters) :
            q[j] = waiters[y] /\ y = (IF j < a THEN j ELSE j + 1)
    BY <1>5
  <2>3. x = y
    <3>1. waiters[x] = waiters[y]
      BY <1>8, <2>1, <2>2
    <3>2. \A k, l \in 1 .. Len(waiters) : waiters[k] = waiters[l] => k = l
      BY <1>1 DEF Accounts
    <3> QED
      BY <3>1, <3>2
  <2>4. i \in Nat /\ j \in Nat /\ a \in Nat
    BY <1>1, <1>3
  <2> QED
    BY <2>1, <2>2, <2>3, <2>4
<1> HIDE DEF c
<1>9. Accounts(q, active, c)
  BY <1>1, <1>2, <1>3, <1>7, <1>8 DEF Accounts
<1> QED
  BY <1>9 DEF c, q

---------------------------------------------------------------------------

(***************************************************************************)
(* Whoever one dispatch grants a slot is granted it within the limit.      *)
(***************************************************************************)
LEMMA DispatchGrants ==
  ASSUME NEW q, NEW n, NEW c, NEW m \in Nat \ {0},
         Accounts(q, n, c), Dispatch(q, n, m, c),
         NEW t \in Tasks, c[t] # "granted", call'[t] = "granted"
  PROVE  active' <= m
<1> DEFINE k == Granted(q, n, m)
<1>1. q \in Seq(Tasks) /\ n \in Nat /\ Len(q) \in Nat
  BY LenProperties DEF Accounts
<1>2. k \in 0 .. Len(q) /\ (k > 0 => n + k <= m)
  BY <1>1, GrantedBounds
<1>3. /\ active' = n + k
      /\ call' = [x \in Tasks |-> IF \E i \in 1 .. k : q[i] = x THEN "granted" ELSE c[x]]
  BY DEF Dispatch
<1> HIDE DEF k
<1>4. \E i \in 1 .. k : q[i] = t
  BY <1>3
<1> QED
  BY <1>2, <1>3, <1>4

(***************************************************************************)
(* A dispatch over books that agree establishes the invariant.             *)
(***************************************************************************)
LEMMA DispatchInv ==
  ASSUME NEW q, NEW n, NEW c, Accounts(q, n, c), Dispatch(q, n, limit', c),
         limit' \in Nat \ {0}, canceled' \subseteq Tasks
  PROVE  LimiterInv'
<1>1. Accounts(waiters', active', call') /\ (waiters' # <<>> => active' >= limit')
  BY DispatchAccounts
<1> QED
  BY <1>1 DEF LimiterInv, NoIdleSlot, Accounts, OwnersOf

(***************************************************************************)
(* A new limiter keeps its books.                                          *)
(***************************************************************************)
LEMMA InitInv == LimiterInit => LimiterInv
<1> SUFFICES ASSUME LimiterInit PROVE LimiterInv
  OBVIOUS
<1>1. OwnersOf(call) = {} /\ call \in [Tasks -> CallStates]
  BY DEF LimiterInit, OwnersOf, CallStates
<1>2. waiters \in Seq(Tasks) /\ Len(waiters) = 0
  BY EmptySeq DEF LimiterInit
<1>3. active = Cardinality(OwnersOf(call))
  BY <1>1, FS_EmptySet DEF LimiterInit
<1>4. \A t \in Tasks : call[t] # "waiting"
  BY DEF LimiterInit
<1>5. Accounts(waiters, active, call)
  BY <1>1, <1>2, <1>3, <1>4 DEF LimiterInit, Accounts
<1> QED
  BY <1>5, LimiterAssumption DEF LimiterInit, LimiterInv, NoIdleSlot

(***************************************************************************)
(* Every critical section keeps the invariant.                             *)
(***************************************************************************)
LEMMA NextInv == LimiterInv /\ [LimiterNext]_limiterVars => LimiterInv'
<1> SUFFICES ASSUME LimiterInv, [LimiterNext]_limiterVars
             PROVE  LimiterInv'
  OBVIOUS
<1> USE DEF LimiterInv
<1>1. ASSUME NEW t \in Tasks, Acquire(t)
      PROVE  LimiterInv'
  <2>1. Accounts(Append(waiters, t), active, [call EXCEPT ![t] = "waiting"])
    BY <1>1, JoinAccounts DEF Acquire
  <2> QED
    BY <1>1, <2>1, DispatchInv DEF Acquire
<1>2. ASSUME NEW t \in Tasks, TakeSlot(t)
      PROVE  LimiterInv'
  <2>1. OwnersOf(call') = OwnersOf(call) /\ call' \in [Tasks -> CallStates]
    BY <1>2 DEF TakeSlot, OwnersOf, CallStates, Accounts
  <2>2. \A u \in Tasks : call'[u] = "waiting" <=> call[u] = "waiting"
    BY <1>2 DEF TakeSlot, Accounts
  <2>3. Accounts(waiters, active, call')
    BY <2>1, <2>2 DEF Accounts
  <2> QED
    BY <1>2, <2>3 DEF TakeSlot, NoIdleSlot, Accounts, OwnersOf
<1>3. ASSUME NEW t \in Tasks, RefuseSlot(t)
      PROVE  LimiterInv'
  <2>1. Accounts(waiters, active - 1, [call EXCEPT ![t] = "idle"])
    BY <1>3, GiveBackAccounts DEF RefuseSlot
  <2> QED
    BY <1>3, <2>1, DispatchInv DEF RefuseSlot
<1>4. ASSUME NEW t \in Tasks, LeaveQueue(t)
      PROVE  LimiterInv'
  <2>1. PICK i \in 1 .. Len(waiters) :
            /\ waiters[i] = t
            /\ Dispatch(Without(waiters, i), active, limit, [call EXCEPT ![t] = "idle"])
    BY <1>4 DEF LeaveQueue
  <2>2. Accounts(Without(waiters, i), active, [call EXCEPT ![t] = "idle"])
    BY <1>4, <2>1, LeaveAccounts DEF LeaveQueue
  <2> QED
    BY <1>4, <2>1, <2>2, DispatchInv DEF LeaveQueue
<1>5. ASSUME NEW t \in Tasks, Release(t)
      PROVE  LimiterInv'
  <2>1. Accounts(waiters, active - 1, [call EXCEPT ![t] = "idle"])
    BY <1>5, GiveBackAccounts DEF Release
  <2> QED
    BY <1>5, <2>1, DispatchInv DEF Release
<1>6. ASSUME NEW n \in 0 .. MaxLimit, SetLimit(n)
      PROVE  LimiterInv'
  <2>1. limit' \in Nat \ {0}
    BY <1>6, LimiterAssumption DEF SetLimit
  <2> QED
    BY <1>6, <2>1, DispatchInv DEF SetLimit
<1>7. ASSUME NEW t \in Tasks, Cancel(t) \/ Renew(t)
      PROVE  LimiterInv'
  BY <1>7 DEF Cancel, Renew, NoIdleSlot, Accounts, OwnersOf
<1>8. CASE UNCHANGED limiterVars
  BY <1>8 DEF limiterVars, NoIdleSlot, Accounts, OwnersOf
<1> QED
  BY <1>1, <1>2, <1>3, <1>4, <1>5, <1>6, <1>7, <1>8 DEF LimiterNext, Return

(***************************************************************************)
(* The invariant holds in every behaviour of the limiter.                  *)
(***************************************************************************)
THEOREM LimiterInvariant == LimiterSpec => []LimiterInv
<1> QED
  BY InitInv, NextInv, PTL DEF LimiterSpec

(***************************************************************************)
(* The limiter's variables keep their types; in particular the counter     *)
(* never falls below zero (limiter.go:62, 80).                             *)
(***************************************************************************)
THEOREM LimiterTypeCorrect == LimiterSpec => []LimiterTypeOK
<1>1. LimiterInv => LimiterTypeOK
  BY DEF LimiterInv, LimiterTypeOK, Accounts
<1> QED
  BY <1>1, LimiterInvariant, PTL

(***************************************************************************)
(* The counter is the number of slots that tasks own, in every order of    *)
(* grants, cancellations and releases (limiter.go:57-82).                  *)
(***************************************************************************)
THEOREM SlotsNeverLeak == LimiterSpec => []SlotsAccounted
<1>1. LimiterInv => SlotsAccounted
  BY DEF LimiterInv, SlotsAccounted, Owners, OwnersOf, Accounts
<1> QED
  BY <1>1, LimiterInvariant, PTL

(***************************************************************************)
(* The queue holds every sleeping call once, and nobody else               *)
(* (limiter.go:50-53, 64-69, 85-93).                                       *)
(***************************************************************************)
THEOREM QueueIsExact == LimiterSpec => []QueueAccounted
<1>1. LimiterInv => QueueAccounted
  BY DEF LimiterInv, QueueAccounted, Accounts
<1> QED
  BY <1>1, LimiterInvariant, PTL

(***************************************************************************)
(* No call sleeps while a slot is free (limiter.go:30-38, 71, 81, 85-93).  *)
(***************************************************************************)
THEOREM NobodySleepsBesideASlot == LimiterSpec => []NoIdleSlot
<1>1. LimiterInv => NoIdleSlot
  BY DEF LimiterInv
<1> QED
  BY <1>1, LimiterInvariant, PTL

---------------------------------------------------------------------------

(***************************************************************************)
(* A task that one dispatch promotes finds the counter within the limit.   *)
(***************************************************************************)
LEMMA PromotionWithinLimit ==
  ASSUME NEW q, NEW n, NEW c, Accounts(q, n, c), Dispatch(q, n, limit, c),
         LimiterInv, limit' = limit,
         NEW u \in Tasks, c[u] # "granted", call'[u] = "granted"
  PROVE  active' <= limit'
<1>1. limit \in Nat \ {0}
  BY DEF LimiterInv
<1>2. \A t \in Tasks : c[t] # "granted" /\ call'[t] = "granted" => active' <= limit
  BY <1>1, DispatchGrants
<1> QED
  BY <1>2

\* A task's call goes from waiting to granted.
Promotes(t) == call[t] # "granted" /\ call'[t] = "granted"

(***************************************************************************)
(* A slot is granted only within the limit in force, so that after a       *)
(* reduction new tasks wait for enough slots to drain (limiter.go:9-11).   *)
(***************************************************************************)
THEOREM GrantsStayWithinLimit == LimiterSpec => GrantsWithinLimit
<1>1. ASSUME LimiterInv, [LimiterNext]_limiterVars, NEW u \in Tasks, Promotes(u)
      PROVE  active' <= limit'
  <2> USE <1>1
  <2>1. ASSUME NEW t \in Tasks, Acquire(t)
        PROVE  active' <= limit'
    <3>1. Accounts(Append(waiters, t), active, [call EXCEPT ![t] = "waiting"])
      BY <2>1, JoinAccounts DEF Acquire
    <3>2. [call EXCEPT ![t] = "waiting"][u] # "granted"
      BY DEF LimiterInv, Accounts, Promotes
    <3> QED
      BY <2>1, <3>1, <3>2, PromotionWithinLimit DEF Acquire, Promotes
  <2>2. ASSUME NEW t \in Tasks, RefuseSlot(t) \/ Release(t)
        PROVE  active' <= limit'
    <3>1. Accounts(waiters, active - 1, [call EXCEPT ![t] = "idle"])
      BY <2>2, GiveBackAccounts DEF RefuseSlot, Release
    <3>2. [call EXCEPT ![t] = "idle"][u] # "granted"
      BY DEF LimiterInv, Accounts, Promotes
    <3> QED
      BY <2>2, <3>1, <3>2, PromotionWithinLimit DEF RefuseSlot, Release, Promotes
  <2>3. ASSUME NEW t \in Tasks, LeaveQueue(t)
        PROVE  active' <= limit'
    <3>1. PICK i \in 1 .. Len(waiters) :
              /\ waiters[i] = t
              /\ Dispatch(Without(waiters, i), active, limit, [call EXCEPT ![t] = "idle"])
      BY <2>3 DEF LeaveQueue
    <3>2. Accounts(Without(waiters, i), active, [call EXCEPT ![t] = "idle"])
      BY <2>3, <3>1, LeaveAccounts DEF LeaveQueue
    <3>3. [call EXCEPT ![t] = "idle"][u] # "granted"
      BY DEF LimiterInv, Accounts, Promotes
    <3> QED
      BY <2>3, <3>1, <3>2, <3>3, PromotionWithinLimit DEF LeaveQueue, Promotes
  <2>4. ASSUME NEW n \in 0 .. MaxLimit, SetLimit(n)
        PROVE  active' <= limit'
    <3>1. limit' \in Nat \ {0}
      BY <2>4, LimiterAssumption DEF SetLimit
    <3> QED
      BY <2>4, <3>1, DispatchGrants DEF SetLimit, LimiterInv, Promotes
  <2>5. ASSUME NEW t \in Tasks, TakeSlot(t) \/ Cancel(t) \/ Renew(t)
        PROVE  FALSE
    BY <2>5 DEF TakeSlot, Cancel, Renew, Promotes, LimiterInv, Accounts
  <2>6. CASE UNCHANGED limiterVars
    BY <2>6 DEF limiterVars, Promotes
  <2> QED
    BY <2>1, <2>2, <2>3, <2>4, <2>5, <2>6 DEF LimiterNext, Return
<1>2. LimiterInv /\ [LimiterNext]_limiterVars
        => [\A t \in Tasks : call[t] # "granted" /\ call'[t] = "granted"
              => active' <= limit']_limiterVars
  BY <1>1 DEF Promotes
<1> QED
  BY <1>2, LimiterInvariant, PTL DEF LimiterSpec, GrantsWithinLimit

(***************************************************************************)
(* A dispatch that leaves t asleep has not reached anybody behind t, and   *)
(* keeps them behind it (limiter.go:85-93).                                *)
(***************************************************************************)
LEMMA DispatchOrder ==
  ASSUME NEW q, NEW n, NEW c, NEW m \in Nat \ {0},
         Accounts(q, n, c), Dispatch(q, n, m, c),
         NEW t \in Tasks, NEW u \in Tasks, Ahead(q, t, u), call'[t] = "waiting"
  PROVE  Ahead(waiters', t, u) /\ call'[u] = c[u]
<1> DEFINE k == Granted(q, n, m)
<1>1. /\ q \in Seq(Tasks) /\ n \in Nat /\ Len(q) \in Nat
      /\ \A i \in 1 .. Len(q) : q[i] \in Tasks
  BY LenProperties, ElementOfSeq DEF Accounts
<1>2. k \in 0 .. Len(q)
  BY <1>1, GrantedBounds
<1>3. /\ waiters' = SubSeq(q, k + 1, Len(q))
      /\ call' = [x \in Tasks |-> IF \E i \in 1 .. k : q[i] = x THEN "granted" ELSE c[x]]
  BY DEF Dispatch
<1> HIDE DEF k
<1>4. PICK i \in 1 .. Len(q) : q[i] = t /\ \A j \in 1 .. i : q[j] # u
  BY DEF Ahead
<1>5. i > k
  BY <1>1, <1>2, <1>3, <1>4
<1>6. call'[u] = c[u]
  BY <1>1, <1>2, <1>3, <1>4, <1>5
<1>7. /\ Len(waiters') = Len(q) - k
      /\ \A j \in 1 .. Len(q) - k : waiters'[j] = q[k + j]
  <2>1. \A j \in k + 1 .. Len(q) : q[j] \in Tasks
    BY <1>1, <1>2
  <2>2. /\ Len(waiters') = IF k + 1 <= Len(q) THEN Len(q) - (k + 1) + 1 ELSE 0
        /\ \A j \in 1 .. Len(q) - (k + 1) + 1 : waiters'[j] = q[(k + 1) + j - 1]
    BY <1>1, <1>2, <1>3, <2>1, SubSeqProperties
  <2> QED
    BY <1>1, <1>2, <2>2
<1>8. i - k \in 1 .. Len(waiters') /\ waiters'[i - k] = t
  BY <1>1, <1>2, <1>4, <1>5, <1>7
<1>9. ASSUME NEW j \in 1 .. i - k
      PROVE  waiters'[j] # u
  <2>1. j \in 1 .. Len(q) - k /\ k + j \in 1 .. i
    BY <1>1, <1>2, <1>5
  <2> QED
    BY <1>4, <1>7, <2>1
<1> QED
  BY <1>6, <1>8, <1>9 DEF Ahead

(***************************************************************************)
(* A newcomer stands behind everybody (limiter.go:51).                     *)
(***************************************************************************)
LEMMA JoinOrder ==
  ASSUME NEW w \in Seq(Tasks), NEW s \in Tasks, NEW t \in Tasks, NEW u \in Tasks,
         Ahead(w, t, u)
  PROVE  Ahead(Append(w, s), t, u)
<1>1. PICK i \in 1 .. Len(w) : w[i] = t /\ \A j \in 1 .. i : w[j] # u
  BY DEF Ahead
<1>2. /\ Len(w) \in Nat /\ Len(Append(w, s)) = Len(w) + 1
      /\ \A j \in 1 .. Len(w) : Append(w, s)[j] = w[j]
  BY LenProperties, AppendProperties
<1>3. /\ i \in 1 .. Len(Append(w, s)) /\ Append(w, s)[i] = t
      /\ \A j \in 1 .. i : Append(w, s)[j] # u
  BY <1>1, <1>2
<1> QED
  BY <1>3 DEF Ahead

(***************************************************************************)
(* A call that leaves the queue lets nobody past another                   *)
(* (limiter.go:67-72).                                                     *)
(***************************************************************************)
LEMMA LeaveOrder ==
  ASSUME NEW w \in Seq(Tasks), NEW a \in 1 .. Len(w), NEW t \in Tasks, NEW u \in Tasks,
         Ahead(w, t, u), w[a] # t
  PROVE  Ahead(Without(w, a), t, u)
<1> DEFINE q == Without(w, a)
<1>1. PICK i \in 1 .. Len(w) : w[i] = t /\ \A j \in 1 .. i : w[j] # u
  BY DEF Ahead
<1>2. /\ Len(w) \in Nat /\ Len(q) = Len(w) - 1
      /\ \A x \in 1 .. a - 1 : q[x] = w[x]
      /\ \A x \in a .. Len(w) - 1 : q[x] = w[x + 1]
  BY LenProperties, WithoutProperties
<1> HIDE DEF q
<1>3. CASE i < a
  <2>1. i \in 1 .. a - 1 /\ i \in 1 .. Len(q)
    BY <1>2, <1>3
  <2>2. q[i] = t
    BY <1>1, <1>2, <2>1
  <2>3. ASSUME NEW j \in 1 .. i
        PROVE  q[j] # u
    <3>1. j \in 1 .. a - 1
      BY <2>1
    <3> QED
      BY <1>1, <1>2, <3>1
  <2> QED
    BY <2>1, <2>2, <2>3 DEF Ahead, q
<1>4. CASE i > a
  <2>1. i - 1 \in a .. Len(w) - 1 /\ (i - 1) + 1 = i /\ i - 1 \in 1 .. Len(q)
    BY <1>2, <1>4
  <2>2. q[i - 1] = t
    BY <1>1, <1>2, <2>1
  <2>3. ASSUME NEW j \in 1 .. i - 1
        PROVE  q[j] # u
    <3>1. CASE j < a
      BY <1>1, <1>2, <3>1
    <3>2. CASE j >= a
      <4>1. j \in a .. Len(w) - 1 /\ j + 1 \in 1 .. i
        BY <1>2, <1>4, <3>2
      <4> QED
        BY <1>1, <1>2, <4>1
    <3> QED
      BY <1>2, <3>1, <3>2
  <2> QED
    BY <2>1, <2>2, <2>3 DEF Ahead, q
<1> QED
  BY <1>1, <1>2, <1>3, <1>4

(***************************************************************************)
(* Slots are granted in arrival order: as long as a call sleeps, nobody    *)
(* who came after it gets before it or is granted a slot (limiter.go:9,    *)
(* 51, 67-72, 85-93).                                                      *)
(***************************************************************************)
THEOREM SlotsInArrivalOrder == LimiterSpec => ArrivalOrder
<1>1. ASSUME LimiterInv, [LimiterNext]_limiterVars, NEW t \in Tasks, NEW u \in Tasks,
             Ahead(waiters, t, u), call'[t] = "waiting"
      PROVE  Ahead(waiters', t, u) /\ (call'[u] = "granted" => call[u] = "granted")
  <2> USE <1>1
  <2>1. /\ Accounts(waiters, active, call) /\ limit \in Nat \ {0}
        /\ waiters \in Seq(Tasks) /\ call \in [Tasks -> CallStates]
    BY DEF LimiterInv, Accounts
  <2>2. ASSUME NEW s \in Tasks, Acquire(s)
        PROVE  Ahead(waiters', t, u) /\ (call'[u] = "granted" => call[u] = "granted")
    <3> DEFINE c == [call EXCEPT ![s] = "waiting"]
    <3>1. Accounts(Append(waiters, s), active, c)
      BY <2>2, JoinAccounts DEF Acquire
    <3>2. Ahead(Append(waiters, s), t, u)
      BY <2>1, JoinOrder
    <3>3. c[u] = "granted" => call[u] = "granted"
      BY <2>1
    <3>4. Dispatch(Append(waiters, s), active, limit, c)
      BY <2>2 DEF Acquire
    <3> HIDE DEF c
    <3> QED
      BY <2>1, <3>1, <3>2, <3>3, <3>4, DispatchOrder
  <2>3. ASSUME NEW s \in Tasks, RefuseSlot(s) \/ Release(s)
        PROVE  Ahead(waiters', t, u) /\ (call'[u] = "granted" => call[u] = "granted")
    <3> DEFINE c == [call EXCEPT ![s] = "idle"]
    <3>1. Accounts(waiters, active - 1, c)
      BY <2>3, GiveBackAccounts DEF RefuseSlot, Release
    <3>2. c[u] = "granted" => call[u] = "granted"
      BY <2>1
    <3>3. Dispatch(waiters, active - 1, limit, c)
      BY <2>3 DEF RefuseSlot, Release
    <3> HIDE DEF c
    <3> QED
      BY <2>1, <3>1, <3>2, <3>3, DispatchOrder
  <2>4. ASSUME NEW s \in Tasks, LeaveQueue(s)
        PROVE  Ahead(waiters', t, u) /\ (call'[u] = "granted" => call[u] = "granted")
    <3> DEFINE c == [call EXCEPT ![s] = "idle"]
    <3>1. PICK a \in 1 .. Len(waiters) :
              waiters[a] = s /\ Dispatch(Without(waiters, a), active, limit, c)
      BY <2>4 DEF LeaveQueue
    <3>2. Accounts(Without(waiters, a), active, c)
      BY <2>4, <3>1, LeaveAccounts DEF LeaveQueue
    <3>3. s # t
      <4>1. c[s] = "idle" /\ (call'[s] = "granted" \/ call'[s] = c[s])
        BY <2>1, <3>1 DEF Dispatch
      <4> QED
        BY <4>1
    <3>4. Ahead(Without(waiters, a), t, u)
      BY <2>1, <3>1, <3>3, LeaveOrder
    <3>5. c[u] = "granted" => call[u] = "granted"
      BY <2>1
    <3> HIDE DEF c
    <3> QED
      BY <2>1, <3>1, <3>2, <3>4, <3>5, DispatchOrder
  <2>5. ASSUME NEW n \in 0 .. MaxLimit, SetLimit(n)
        PROVE  Ahead(waiters', t, u) /\ (call'[u] = "granted" => call[u] = "granted")
    <3>1. limit' \in Nat \ {0} /\ Dispatch(waiters, active, limit', call)
      BY <2>5, LimiterAssumption DEF SetLimit
    <3> QED
      BY <2>1, <3>1, DispatchOrder
  <2>6. ASSUME NEW s \in Tasks, TakeSlot(s) \/ Cancel(s) \/ Renew(s)
        PROVE  Ahead(waiters', t, u) /\ (call'[u] = "granted" => call[u] = "granted")
    BY <2>1, <2>6 DEF TakeSlot, Cancel, Renew, Ahead
  <2>7. CASE UNCHANGED limiterVars
    BY <2>7 DEF limiterVars, Ahead
  <2> QED
    BY <2>2, <2>3, <2>4, <2>5, <2>6, <2>7 DEF LimiterNext, Return
<1>2. LimiterInv /\ [LimiterNext]_limiterVars
        => [\A t, u \in Tasks :
              Ahead(waiters, t, u) /\ call'[t] = "waiting"
                => Ahead(waiters', t, u) /\ (call'[u] = "granted" => call[u] = "granted")]_limiterVars
  BY <1>1
<1> QED
  BY <1>2, LimiterInvariant, PTL DEF LimiterSpec, ArrivalOrder

=============================================================================
