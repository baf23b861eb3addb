--------------------------- MODULE DriveScanProofs ---------------------------
(***************************************************************************)
(* Proofs about DriveScan, for any drive, any number of files, skip lists  *)
(* and start directories, and any number of moves, faults and changes of   *)
(* the configuration.                                                      *)
(*                                                                         *)
(* A scan decides from what it read at several moments.  ScanInv says what *)
(* of it is still good when rows are deleted: the directories were visited *)
(* along the tree (WalkInv), counters never run ahead of the scans that    *)
(* missed a row (CountInv), a doomed row was missed often enough           *)
(* (DoomedInv), and for each file that has not changed place the walk      *)
(* knows where it stands above it (KeptInv).  CleanInv is about a scan in  *)
(* which nothing moves or fails: it sees the configured part and no more,  *)
(* and every row it does not confirm is clear of the skip list when the    *)
(* missing files are evaluated, so that nothing protects it.               *)
(***************************************************************************)
EXTENDS DriveScan, TLAPS, FiniteSetTheorems, SequenceTheorems, WellFoundedInduction

-----------------------------------------------------------------------------
(* Sequences.                                                              *)

\* A set of natural numbers that is not empty has a least member.
LEMMA LeastNat ==
  ASSUME NEW T \in SUBSET Nat, T # {}
  PROVE  \E x \in T : \A y \in T : x <= y
<1> DEFINE R == {ss \in Nat \X Nat : ss[1] < ss[2]}
<1>1. IsWellFoundedOn(R, Nat)
  BY NatLessThanWellFounded DEF OpToRel
<1>2. \A x, y \in Nat : <<y, x>> \in R <=> y < x
  OBVIOUS
<1> HIDE DEF R
<1>3. PICK x \in T : \A y \in T : ~ (<<y, x>> \in R)
  BY <1>1, WFMin
<1>4. \A y \in T : ~ (y < x)
  BY <1>2, <1>3
<1> QED
  BY <1>4

Frames == Seq([chain : Seq(Dirs), dirs : SUBSET Dirs])

\* The directories that a stack of frames still holds.
Held(frames) == UNION {frames[i].dirs : i \in DOMAIN frames}

\* Settling a stack drops attempted directories and nothing else.
LEMMA SettleKeeps ==
  ASSUME NEW frames \in Frames, NEW attempted
  PROVE  /\ Settle(frames, attempted) \in Frames
         /\ Held(Settle(frames, attempted)) \subseteq Held(frames)
         /\ Held(frames) \ attempted \subseteq Held(Settle(frames, attempted))
         /\ \A i \in DOMAIN Settle(frames, attempted) : \E j \in DOMAIN frames :
               /\ Settle(frames, attempted)[i].chain = frames[j].chain
               /\ Settle(frames, attempted)[i].dirs \subseteq frames[j].dirs
         /\ 1 \in DOMAIN Settle(frames, attempted) =>
               Settle(frames, attempted)[1].dirs \cap attempted = {}
<1> DEFINE rest(i) == frames[i].dirs \ attempted
           open == {i \in DOMAIN frames : rest(i) # {}}
           top == CHOOSE i \in open : \A j \in open : i <= j
           tail == SubSeq(frames, top, Len(frames))
<1>1. Settle(frames, attempted) = IF open = {} THEN <<>> ELSE [tail EXCEPT ![1].dirs = rest(top)]
  BY DEF Settle
<1>2. DOMAIN frames = 1 .. Len(frames) /\ Len(frames) \in Nat
      /\ \A i \in DOMAIN frames : frames[i] \in [chain : Seq(Dirs), dirs : SUBSET Dirs]
  <2> HIDE DEF open
  <2> QED
    BY LenProperties, ElementOfSeq DEF Frames
<1>3. CASE open = {}
  <2>1. Settle(frames, attempted) = <<>>
    BY <1>1, <1>3
  <2>2. Held(frames) \ attempted = {}
    BY <1>3 DEF Held
  <2>3. <<>> \in Frames /\ DOMAIN <<>> = {}
    BY DEF Frames
  <2> QED
    BY <2>1, <2>2, <2>3 DEF Held
<1>4. CASE open # {}
  <2>1. top \in open /\ \A j \in open : top <= j
    <3>1. open \in SUBSET Nat
      BY <1>2
    <3>2. \E i \in open : \A j \in open : i <= j
      <4> HIDE DEF open
      <4> QED
        BY <1>4, <3>1, LeastNat
    <3> HIDE DEF open
    <3> QED
      BY <3>2
  <2>2. top \in 1 .. Len(frames) /\ rest(top) \in SUBSET Dirs /\ rest(top) \subseteq frames[top].dirs
    BY <1>2, <2>1
  <2> HIDE DEF top, open
  <2>3. /\ tail \in Frames /\ Len(tail) = Len(frames) - top + 1
        /\ \A i \in 1 .. Len(tail) : tail[i] = frames[top + i - 1]
    <3>1. \A i \in top .. Len(frames) : frames[i] \in [chain : Seq(Dirs), dirs : SUBSET Dirs]
      BY <1>2, <2>2
    <3> QED
      BY <1>2, <2>2, <3>1, SubSeqProperties DEF Frames
  <2> DEFINE s == [tail EXCEPT ![1].dirs = rest(top)]
             first == [frames[top] EXCEPT !.dirs = rest(top)]
  <2>4. tail[1] = frames[top] /\ 1 \in 1 .. Len(tail) /\ DOMAIN tail = 1 .. Len(tail)
    BY <1>2, <2>2, <2>3 DEF Frames
  <2>5. /\ first \in [chain : Seq(Dirs), dirs : SUBSET Dirs]
        /\ first.chain = frames[top].chain /\ first.dirs = rest(top)
        /\ first.dirs \cap attempted = {}
    BY <1>2, <2>2
  <2>6. s = [tail EXCEPT ![1] = first]
    BY <2>4
  <2> HIDE DEF first, tail
  <2>7. /\ s \in Frames /\ DOMAIN s = 1 .. Len(tail)
        /\ s[1] = first /\ \A i \in 2 .. Len(tail) : s[i] = frames[top + i - 1]
    <3>1. /\ s \in Frames /\ Len(s) = Len(tail)
          /\ \A i \in 1 .. Len(tail) : s[i] = IF i = 1 THEN first ELSE tail[i]
      <4> HIDE DEF s
      <4>1. tail \in Seq([chain : Seq(Dirs), dirs : SUBSET Dirs])
        BY <2>3 DEF Frames
      <4> QED
        BY <2>4, <2>5, <2>6, <4>1, ExceptSeq DEF Frames
    <3>2. DOMAIN s = 1 .. Len(tail)
      BY <3>1, LenProperties DEF Frames
    <3> HIDE DEF s
    <3> QED
      BY <2>3, <2>4, <3>1, <3>2
  <2> HIDE DEF s
  <2>8. \A i \in DOMAIN s : /\ top + i - 1 \in DOMAIN frames
                            /\ s[i].chain = frames[top + i - 1].chain
                            /\ s[i].dirs \subseteq frames[top + i - 1].dirs
    <3> TAKE i \in DOMAIN s
    <3>1. i \in 1 .. Len(tail) /\ top + i - 1 \in DOMAIN frames
      BY <1>2, <2>2, <2>3, <2>7
    <3>2. CASE i = 1
      BY <1>2, <2>2, <2>5, <2>7, <3>1, <3>2
    <3>3. CASE i # 1
      BY <2>2, <2>7, <3>1, <3>3
    <3> QED
      BY <3>2, <3>3
  <2>9. Held(frames) \ attempted \subseteq Held(s)
    <3> SUFFICES ASSUME NEW i \in DOMAIN frames, NEW d \in frames[i].dirs, d \notin attempted
                 PROVE  d \in Held(s)
      BY DEF Held
    <3>1. i \in open /\ d \in rest(i)
      BY DEF open
    <3>2. top <= i
      BY <2>1, <3>1
    <3>3. i - top + 1 \in DOMAIN s /\ top + (i - top + 1) - 1 = i
      BY <1>2, <2>2, <2>3, <2>7, <3>2
    <3>4. CASE i = top
      <4>1. 1 \in DOMAIN s /\ d \in s[1].dirs
        BY <2>4, <2>5, <2>7, <3>1, <3>4
      <4> QED
        BY <4>1 DEF Held
    <3>5. CASE i # top
      <4>1. s[i - top + 1] = frames[i]
        BY <1>2, <2>2, <2>3, <2>7, <3>2, <3>3, <3>5
      <4> QED
        BY <3>3, <4>1 DEF Held
    <3> QED
      BY <3>4, <3>5
  <2>10. Settle(frames, attempted) = s
    BY <1>1, <1>4 DEF s, tail
  <2> QED
    BY <2>5, <2>7, <2>8, <2>9, <2>10 DEF Held
<1> QED
  BY <1>3, <1>4

\* A listing puts every member of a finite set into a sequence.
LEMMA SetToSeqLists ==
  ASSUME NEW S, IsFiniteSet(S)
  PROVE  /\ SetToSeq(S) \in Seq(S)
         /\ \A x \in S : \E i \in DOMAIN SetToSeq(S) : SetToSeq(S)[i] = x
<1> DEFINE n == Cardinality(S)
           s == SetToSeq(S)
<1>1. n \in Nat /\ ExistsBijection(1 .. n, S)
  BY FS_CardinalityType
<1>2. \E f \in [1 .. n -> S] : IsInjective(f)
  BY <1>1 DEF ExistsBijection, Bijection, Injection
<1>3. s \in [1 .. n -> S] /\ IsInjective(s)
  BY <1>2 DEF SetToSeq
<1>4. s \in Injection(1 .. n, S)
  BY <1>3 DEF Injection
<1>5. IsFiniteSet(1 .. n) /\ Cardinality(1 .. n) = n
  BY <1>1, FS_Interval
<1> HIDE DEF s
<1>6. s \in Surjection(1 .. n, S)
  BY <1>4, <1>5, FS_Injection
<1>7. \A x \in S : \E i \in 1 .. n : s[i] = x
  BY <1>6 DEF Surjection
<1> QED
  BY <1>1, <1>3, <1>7 DEF s
-----------------------------------------------------------------------------
(* The tree of directories, for any parent function u.                     *)

\* The operator Above of the model, for any parent function.
AboveIn(u, d) ==
    {a \in Places : \A S \in SUBSET Places :
        d \in S /\ (\A e \in S \ {Root, Nowhere} : u[e] \in S) => a \in S}

ParentsIn(u) == \A x \in Dirs \ {Root} : u[x] \in Places
Tree(u) == ParentsIn(u) /\ \A x \in Dirs \ {Root} : x \notin AboveIn(u, u[x])

\* The model's operator is this one, for the present parents.
LEMMA AboveHere == ASSUME NEW d PROVE Above(d) = AboveIn(under, d)
  BY DEF Above, AboveIn

\* A directory is above itself.
LEMMA AboveSelf ==
  ASSUME NEW u, NEW d \in Places
  PROVE  d \in AboveIn(u, d) /\ AboveIn(u, d) \subseteq Places
  BY DEF AboveIn

\* With a directory, its parent is above.
LEMMA AboveUp ==
  ASSUME NEW u, ParentsIn(u), NEW d, NEW e \in AboveIn(u, d), e \notin {Root, Nowhere}
  PROVE  u[e] \in AboveIn(u, d)
  BY DEF AboveIn, ParentsIn, Places

\* A set that is closed under parents holds all that is above its members.
LEMMA AboveLeast ==
  ASSUME NEW u, NEW d, NEW S \in SUBSET Places, d \in S,
         \A e \in S \ {Root, Nowhere} : u[e] \in S
  PROVE  AboveIn(u, d) \subseteq S
  BY DEF AboveIn

\* What is above a directory that is above d is above d.
LEMMA AboveTransitive ==
  ASSUME NEW u, ParentsIn(u), NEW c, NEW b \in AboveIn(u, c), NEW a \in AboveIn(u, b)
  PROVE  a \in AboveIn(u, c)
<1>1. AboveIn(u, c) \in SUBSET Places
  BY DEF AboveIn
<1>2. \A e \in AboveIn(u, c) \ {Root, Nowhere} : u[e] \in AboveIn(u, c)
  BY AboveUp
<1>3. AboveIn(u, b) \subseteq AboveIn(u, c)
  BY <1>1, <1>2, AboveLeast
<1> QED
  BY <1>3

\* What is above a directory: itself and what is above its parent.
LEMMA AboveStep ==
  ASSUME NEW u, ParentsIn(u), NEW d \in Dirs \ {Root}
  PROVE  AboveIn(u, d) = {d} \cup AboveIn(u, u[d])
<1> DEFINE S == {d} \cup AboveIn(u, u[d])
<1>1. d \in Places /\ u[d] \in Places /\ d # Nowhere
  BY DriveScanAssumption DEF Places, ParentsIn
<1>2. S \in SUBSET Places /\ d \in S
  BY <1>1, AboveSelf
<1>3. \A e \in S \ {Root, Nowhere} : u[e] \in S
  BY <1>1, AboveSelf, AboveUp
<1>4. AboveIn(u, d) \subseteq S
  <2> HIDE DEF S
  <2> QED
    BY <1>2, <1>3, AboveLeast
<1>5. u[d] \in AboveIn(u, d)
  BY <1>1, AboveSelf, AboveUp
<1>6. AboveIn(u, u[d]) \subseteq AboveIn(u, d)
  BY <1>5, AboveTransitive
<1> QED
  BY <1>1, <1>4, <1>6, AboveSelf

\* Nothing is above the root, nor above what is gone.
LEMMA AboveStop ==
  ASSUME NEW u, NEW d \in {Root, Nowhere}
  PROVE  AboveIn(u, d) = {d}
<1>1. d \in Places
  BY DriveScanAssumption DEF Places
<1>2. AboveIn(u, d) \subseteq {d}
  <2>1. {d} \in SUBSET Places /\ \A e \in {d} \ {Root, Nowhere} : u[e] \in {d}
    BY <1>1
  <2> QED
    BY <2>1 DEF AboveIn
<1> QED
  BY <1>1, <1>2, AboveSelf

\* Moves elsewhere change nothing above a directory.
LEMMA AboveKept ==
  ASSUME NEW u, NEW v, ParentsIn(u), ParentsIn(v), NEW d \in Places,
         \A e \in AboveIn(u, d) \ {Root, Nowhere} : v[e] = u[e]
  PROVE  AboveIn(v, d) = AboveIn(u, d)
<1> DEFINE S == AboveIn(u, d) \cap AboveIn(v, d)
<1>1. AboveIn(u, d) \in SUBSET Places /\ d \in AboveIn(u, d) /\ d \in AboveIn(v, d)
  BY AboveSelf
<1>2. \A e \in AboveIn(u, d) \ {Root, Nowhere} : v[e] \in AboveIn(u, d)
  BY AboveUp
<1>3. AboveIn(v, d) \subseteq AboveIn(u, d)
  BY <1>1, <1>2, AboveLeast
<1>4. \A e \in S \ {Root, Nowhere} : u[e] \in S
  BY AboveUp
<1>5. S \in SUBSET Places /\ d \in S
  BY <1>1
<1>6. AboveIn(u, d) \subseteq S
  BY <1>4, <1>5, AboveLeast
<1> QED
  BY <1>3, <1>6

\* In a tree nothing lies below itself: two directories that are above one
\* another are the same.
LEMMA AboveAntisymmetric ==
  ASSUME NEW u, Tree(u), NEW b \in Places, NEW a \in AboveIn(u, b), b \in AboveIn(u, a)
  PROVE  a = b
<1>0. ParentsIn(u) /\ a \in Places
  BY DEF Tree, AboveIn
<1> SUFFICES ASSUME a # b PROVE FALSE
  OBVIOUS
<1>1. CASE b \in {Root, Nowhere}
  BY <1>1, AboveStop
<1>2. CASE b \notin {Root, Nowhere}
  <2>1. b \in Dirs \ {Root}
    BY <1>2 DEF Places
  <2>2. a \in AboveIn(u, u[b])
    BY <1>0, <2>1, AboveStep
  <2>3. b \in AboveIn(u, u[b])
    BY <1>0, <2>2, AboveTransitive
  <2> QED
    BY <2>1, <2>3 DEF Tree
<1> QED
  BY <1>1, <1>2

\* A tree depends on the parents of directories alone.
LEMMA TreeKept ==
  ASSUME NEW u, Tree(u), NEW v, \A e \in Dirs \ {Root} : v[e] = u[e]
  PROVE  Tree(v)
<1>1. ParentsIn(u) /\ ParentsIn(v)
  BY DEF Tree, ParentsIn
<1> SUFFICES ASSUME NEW y \in Dirs \ {Root} PROVE y \notin AboveIn(v, v[y])
  BY <1>1 DEF Tree
<1>2. \A e \in AboveIn(u, u[y]) \ {Root, Nowhere} : v[e] = u[e]
  BY DEF AboveIn, Places
<1>3. AboveIn(v, u[y]) = AboveIn(u, u[y])
  BY <1>1, <1>2, AboveKept DEF ParentsIn
<1> QED
  BY <1>3 DEF Tree

\* A directory that is moved anywhere but below itself leaves a tree.
LEMMA TreeMove ==
  ASSUME NEW u, Tree(u), NEW x \in Dirs \ {Root}, NEW d \in Places, x \notin AboveIn(u, d),
         NEW v, \A e \in Dirs \ {Root} : v[e] = IF e = x THEN d ELSE u[e]
  PROVE  Tree(v)
<1>1. ParentsIn(u) /\ ParentsIn(v)
  BY DEF Tree, ParentsIn
<1>2. AboveIn(v, d) = AboveIn(u, d)
  <2>1. \A e \in AboveIn(u, d) \ {Root, Nowhere} : v[e] = u[e]
    BY AboveSelf DEF Places
  <2> QED
    BY <1>1, <2>1, AboveKept
<1> SUFFICES ASSUME NEW y \in Dirs \ {Root}, y \in AboveIn(v, v[y]) PROVE FALSE
  BY <1>1 DEF Tree
<1>3. CASE y = x
  BY <1>2, <1>3
<1>4. CASE y # x
  <2>1. v[y] = u[y] /\ u[y] \in Places /\ y \notin AboveIn(u, u[y]) /\ x \in Places
    BY <1>4 DEF Tree, ParentsIn, Places
  <2>2. CASE x \notin AboveIn(u, u[y])
    <3>1. \A e \in AboveIn(u, u[y]) \ {Root, Nowhere} : v[e] = u[e]
      BY <2>1, <2>2, AboveSelf DEF Places
    <3>2. AboveIn(v, u[y]) = AboveIn(u, u[y])
      BY <1>1, <2>1, <3>1, AboveKept
    <3> QED
      BY <2>1, <3>2
  <2>3. CASE x \in AboveIn(u, u[y])
    <3> DEFINE S == AboveIn(u, u[y]) \cup AboveIn(u, d)
    <3>1. S \in SUBSET Places /\ v[y] \in S /\ d \in S
      BY <2>1, AboveSelf
    <3>2. \A e \in S \ {Root, Nowhere} : v[e] \in S
      <4> TAKE e \in S \ {Root, Nowhere}
      <4>1. e \in Dirs \ {Root}
        BY <3>1 DEF Places
      <4>2. e # x => u[e] \in S
        BY <1>1, AboveUp
      <4> QED
        BY <3>1, <4>1, <4>2
    <3>3. AboveIn(v, v[y]) \subseteq S
      <4> HIDE DEF S
      <4> QED
        BY <3>1, <3>2, AboveLeast
    <3>4. y \in AboveIn(u, d)
      BY <2>1, <3>3
    <3>5. u[y] \in AboveIn(u, d)
      BY <1>1, <3>4, AboveUp, DriveScanAssumption DEF Places
    <3>6. x \in AboveIn(u, d)
      BY <1>1, <2>3, <3>5, AboveTransitive
    <3> QED
      BY <3>6
  <2> QED
    BY <2>2, <2>3
<1> QED
  BY <1>3, <1>4
-----------------------------------------------------------------------------
(* The types of all variables.                                             *)

Rows     == [parent : Dirs, chain : Seq(Dirs)]
Findings == Seq([file : Files, chain : Seq(Dirs) \ {<<>>}])
PutOff   == Seq([dir : Dirs, chain : Seq(Dirs)])
Walks    == [attempted : SUBSET Dirs, pending : PutOff, retrying : BOOLEAN]
Snapshots == [E : SUBSET Dirs, F : SUBSET Dirs, X : SUBSET Dirs,
              seen : SUBSET Files, issues : BOOLEAN]
Backfills == [todo : SUBSET Dirs, complete : BOOLEAN, protect : BOOLEAN]

DriveTypes ==
    /\ under \in [(Dirs \cup Files) \ {Root} -> Places]
    /\ config \in [start : Starts, skip : SkipLists]
CatalogTypes ==
    /\ rows \in [Files -> {Absent} \cup Rows]
    /\ misses \in [Files -> 0 .. 2]
    /\ policy \in [applied : SUBSET Dirs, done : SUBSET Dirs]
WalkTypes ==
    /\ pc \in {"idle", "scan", "backfill", "evaluate", "delete"}
    /\ stack \in Frames
    /\ walk \in Walks
    /\ snap \in Snapshots
    /\ found \in Findings
CleanupTypes ==
    /\ backfill \in Backfills
    /\ doomed \in SUBSET Files
HistoryTypes ==
    /\ left \in SUBSET Files /\ spared \in SUBSET Files
    /\ clean \in BOOLEAN /\ unruled \in BOOLEAN
    /\ unseen \in [Files -> 0 .. 2]
Types == DriveTypes /\ CatalogTypes /\ WalkTypes /\ CleanupTypes /\ HistoryTypes

\* The constants, as the proofs use them.
LEMMA Constants ==
  /\ Root \in Dirs /\ Root \in Places /\ Nowhere \in Places /\ Dirs \subseteq Places
  /\ Nowhere \notin Dirs /\ Nowhere \notin Files /\ Nowhere # Root
  /\ Dirs \cap Files = {} /\ Root \notin Files
  /\ Files \subseteq (Dirs \cup Files) \ {Root} /\ Dirs \ {Root} \subseteq (Dirs \cup Files) \ {Root}
  /\ IsFiniteSet(Dirs) /\ IsFiniteSet(Files)
  /\ \A s \in Starts : s \in Dirs
  /\ \A s \in SkipLists : s \subseteq Dirs /\ Root \notin s
  BY DriveScanAssumption DEF Places

\* The mark for a missing row is not a row.
LEMMA AbsentIsNoRow == Absent \notin Rows
  BY Constants DEF Absent, Rows

\* What a frame on top of the stack leads to once it settles.
LEMMA PushSettles ==
  ASSUME NEW frames \in Frames, NEW chain \in Seq(Dirs), NEW dirs \in SUBSET Dirs, NEW attempted,
         NEW new, new = Settle(<<[chain |-> chain, dirs |-> dirs]>> \o frames, attempted)
  PROVE  /\ new \in Frames
         /\ Held(new) \subseteq dirs \cup Held(frames)
         /\ (dirs \cup Held(frames)) \ attempted \subseteq Held(new)
         /\ \A i \in DOMAIN new :
               \/ new[i].chain = chain /\ new[i].dirs \subseteq dirs
               \/ \E j \in DOMAIN frames : /\ new[i].chain = frames[j].chain
                                           /\ new[i].dirs \subseteq frames[j].dirs
         /\ 1 \in DOMAIN new => new[1].dirs \cap attempted = {}
<1> DEFINE top == [chain |-> chain, dirs |-> dirs]
           all == <<top>> \o frames
           Frame == [chain : Seq(Dirs), dirs : SUBSET Dirs]
<1>1. top \in Frame /\ <<top>> \in Seq(Frame) /\ Len(<<top>>) = 1 /\ <<top>>[1] = top
  OBVIOUS
<1>2. frames \in Seq(Frame) /\ Len(frames) \in Nat /\ DOMAIN frames = 1 .. Len(frames)
  <2>1. frames \in Seq(Frame)
    BY DEF Frames
  <2> QED
    BY <2>1, LenProperties
<1> DEFINE one == <<top>>
<1>3. /\ one \in Seq(Frame) /\ Len(one) = 1 /\ one[1] = top
      /\ top.chain = chain /\ top.dirs = dirs
  BY <1>1
<1> HIDE DEF top, Frame, one
<1>4. /\ one \o frames \in Seq(Frame) /\ Len(one \o frames) = 1 + Len(frames)
      /\ \A i \in 1 .. 1 + Len(frames) : (one \o frames)[i] = IF i <= 1 THEN one[i] ELSE frames[i - 1]
  <2>1. /\ one \o frames \in Seq(Frame) /\ Len(one \o frames) = Len(one) + Len(frames)
        /\ \A i \in 1 .. Len(one) + Len(frames) :
              (one \o frames)[i] = IF i <= Len(one) THEN one[i] ELSE frames[i - Len(one)]
    BY <1>2, <1>3, ConcatProperties
  <2> QED
    BY <1>3, <2>1
<1>5. all = one \o frames
  BY DEF one
<1>6. /\ all \in Seq(Frame) /\ DOMAIN all = 1 .. 1 + Len(frames)
      /\ all[1] = top /\ \A i \in 2 .. 1 + Len(frames) : i - 1 \in DOMAIN frames /\ all[i] = frames[i - 1]
  <2> HIDE DEF all
  <2>1. DOMAIN all = 1 .. Len(all)
    BY <1>4, <1>5, LenProperties
  <2> QED
    BY <1>2, <1>3, <1>4, <1>5, <2>1
<1> HIDE DEF all
<1>7. Held(all) = dirs \cup Held(frames)
  <2>1. ASSUME NEW d \in Held(all) PROVE d \in dirs \cup Held(frames)
    <3>1. PICK i \in DOMAIN all : d \in all[i].dirs
      BY <2>1 DEF Held
    <3>2. CASE i = 1
      BY <1>3, <1>6, <3>1, <3>2
    <3>3. CASE i # 1
      <4>1. i \in 2 .. 1 + Len(frames)
        BY <1>2, <1>6, <3>3
      <4>2. i - 1 \in DOMAIN frames /\ d \in frames[i - 1].dirs
        BY <1>6, <3>1, <4>1
      <4> QED
        BY <4>2 DEF Held
    <3> QED
      BY <3>2, <3>3
  <2>2. dirs \subseteq Held(all)
    BY <1>2, <1>3, <1>6 DEF Held
  <2>3. ASSUME NEW d \in Held(frames) PROVE d \in Held(all)
    <3>1. PICK i \in DOMAIN frames : d \in frames[i].dirs
      BY <2>3 DEF Held
    <3>2. i + 1 \in DOMAIN all /\ all[i + 1] = frames[i]
      BY <1>2, <1>6
    <3> QED
      BY <3>1, <3>2 DEF Held
  <2> QED
    BY <2>1, <2>2, <2>3
<1>8. all \in Frames
  BY <1>6 DEF Frames, Frame
<1>9. /\ new \in Frames /\ Held(new) \subseteq Held(all) /\ Held(all) \ attempted \subseteq Held(new)
      /\ \A i \in DOMAIN new : \E j \in DOMAIN all :
            new[i].chain = all[j].chain /\ new[i].dirs \subseteq all[j].dirs
      /\ 1 \in DOMAIN new => new[1].dirs \cap attempted = {}
  <2>1. new = Settle(all, attempted)
    BY DEF all, top
  <2>2. /\ Settle(all, attempted) \in Frames /\ Held(Settle(all, attempted)) \subseteq Held(all)
        /\ Held(all) \ attempted \subseteq Held(Settle(all, attempted))
        /\ \A i \in DOMAIN Settle(all, attempted) : \E j \in DOMAIN all :
              /\ Settle(all, attempted)[i].chain = all[j].chain
              /\ Settle(all, attempted)[i].dirs \subseteq all[j].dirs
        /\ 1 \in DOMAIN Settle(all, attempted) =>
              Settle(all, attempted)[1].dirs \cap attempted = {}
    BY <1>8, SettleKeeps
  <2> QED
    BY <2>1, <2>2
<1>10. ASSUME NEW i \in DOMAIN new
       PROVE  \/ new[i].chain = chain /\ new[i].dirs \subseteq dirs
              \/ \E j \in DOMAIN frames : /\ new[i].chain = frames[j].chain
                                          /\ new[i].dirs \subseteq frames[j].dirs
  <2>1. PICK j \in DOMAIN all : new[i].chain = all[j].chain /\ new[i].dirs \subseteq all[j].dirs
    BY <1>9, <1>10
  <2>2. CASE j = 1
    BY <1>3, <1>6, <2>1, <2>2
  <2>3. CASE j # 1
    <3>1. j \in 2 .. 1 + Len(frames)
      BY <1>2, <1>6, <2>3
    <3> QED
      BY <1>6, <2>1, <3>1
  <2> QED
    BY <2>2, <2>3
<1> QED
  BY <1>7, <1>9, <1>10
-----------------------------------------------------------------------------
(* What the steps of the walk do, without the sequences they do it with.   *)

\* The next directory comes from the top of the stack.
LEMMA ReadsTop ==
  ASSUME Types, NEW d \in Dirs, Reads(d)
  PROVE  /\ pc = "scan" /\ 1 \in DOMAIN stack /\ d \in stack[1].dirs /\ d \in Held(stack)
         /\ Chain = stack[1].chain /\ Chain \in Seq(Dirs)
         /\ Append(Chain, d) \in Seq(Dirs) \ {<<>>} /\ Last(Append(Chain, d)) = d
<1> DEFINE Frame == [chain : Seq(Dirs), dirs : SUBSET Dirs]
<1>1. stack \in Seq(Frame) /\ stack # <<>> /\ pc = "scan" /\ d \in Head(stack).dirs
  BY DEF Types, WalkTypes, Frames, Reads
<1>2. 1 \in DOMAIN stack /\ Head(stack) = stack[1] /\ stack[1] \in Frame
  <2> HIDE DEF Frame
  <2>1. Len(stack) \in Nat \ {0} /\ DOMAIN stack = 1 .. Len(stack)
    BY <1>1, EmptySeq, LenProperties
  <2> QED
    BY <1>1, <2>1, ElementOfSeq
<1>3. Chain = stack[1].chain /\ Chain \in Seq(Dirs)
  BY <1>2 DEF Chain
<1>4. Append(Chain, d) \in Seq(Dirs) \ {<<>>} /\ Last(Append(Chain, d)) = d
  BY <1>3, AppendProperties DEF Last
<1> QED
  BY <1>1, <1>2, <1>3, <1>4 DEF Held

\* A directory that could not be read leaves the stack as it leaves the walk.
LEMMA PassedOver ==
  ASSUME Types, NEW attempted, stack' = Settle(stack, attempted)
  PROVE  /\ stack' \in Frames
         /\ Held(stack') \subseteq Held(stack) /\ Held(stack) \ attempted \subseteq Held(stack')
         /\ \A i \in DOMAIN stack' : \E j \in DOMAIN stack :
               stack'[i].chain = stack[j].chain /\ stack'[i].dirs \subseteq stack[j].dirs
         /\ 1 \in DOMAIN stack' => stack'[1].dirs \cap attempted = {}
<1>1. stack \in Frames
  BY DEF Types, WalkTypes
<1> QED
  BY <1>1, SettleKeeps

\* The subdirectories a listing of d makes the walk enter.
Entered(d) == (Children(d) \cap Dirs) \ config.skip

\* A directory that is read: its frame, the stack, and the three sets it moves between.
LEMMA ListDirWalks ==
  ASSUME Types, NEW d \in Dirs, ListDir(d)
  PROVE  /\ walk' \in Walks
         /\ walk'.attempted = walk.attempted \cup {d}
         /\ walk'.pending = walk.pending /\ walk'.retrying = walk.retrying
         /\ snap' \in Snapshots
         /\ snap'.E = snap.E \cup {d} /\ snap'.F = snap.F \ {d}
         /\ snap'.X = (snap.X \ {d}) \cup ((Children(d) \cap config.skip) \ (snap.E \cup snap.F))
         /\ snap'.seen = snap.seen \cup (Children(d) \cap Files) /\ snap'.issues = snap.issues
         /\ stack' \in Frames
         /\ Held(stack') \subseteq Entered(d) \cup Held(stack)
         /\ (Entered(d) \cup Held(stack)) \ (walk.attempted \cup {d}) \subseteq Held(stack')
         /\ \A i \in DOMAIN stack' :
               \/ stack'[i].chain = Append(Chain, d) /\ stack'[i].dirs \subseteq Entered(d)
               \/ \E j \in DOMAIN stack : /\ stack'[i].chain = stack[j].chain
                                          /\ stack'[i].dirs \subseteq stack[j].dirs
         /\ 1 \in DOMAIN stack' => stack'[1].dirs \cap walk'.attempted = {}
<1>1. Append(Chain, d) \in Seq(Dirs) /\ stack \in Frames
  BY ReadsTop DEF ListDir, Types, WalkTypes
<1>2. Entered(d) \in SUBSET Dirs
      /\ (Children(d) \cap Dirs) \ (Children(d) \cap config.skip) = Entered(d)
  BY DEF Entered
<1>3. walk \in Walks
  BY DEF Types, WalkTypes
<1>4. /\ walk' \in Walks
      /\ walk'.attempted = walk.attempted \cup {d}
      /\ walk'.pending = walk.pending /\ walk'.retrying = walk.retrying
  BY <1>3 DEF ListDir, Visited, Walks
<1>5. stack' = Settle(<<[chain |-> Append(Chain, d), dirs |-> Entered(d)]>> \o stack,
                      walk.attempted \cup {d})
  BY <1>2, <1>4 DEF ListDir
<1>6. /\ snap' \in Snapshots
      /\ snap'.E = snap.E \cup {d} /\ snap'.F = snap.F \ {d}
      /\ snap'.X = (snap.X \ {d}) \cup ((Children(d) \cap config.skip) \ (snap.E \cup snap.F))
      /\ snap'.seen = snap.seen \cup (Children(d) \cap Files) /\ snap'.issues = snap.issues
  <2>1. config.skip \in SUBSET Dirs
    BY Constants DEF Types, DriveTypes
  <2>2. snap \in Snapshots
    BY DEF Types, WalkTypes
  <2> QED
    BY <2>1, <2>2 DEF ListDir, Snapshots
<1> HIDE DEF Types
<1>7. /\ stack' \in Frames
      /\ Held(stack') \subseteq Entered(d) \cup Held(stack)
      /\ (Entered(d) \cup Held(stack)) \ (walk.attempted \cup {d}) \subseteq Held(stack')
      /\ \A i \in DOMAIN stack' :
            \/ stack'[i].chain = Append(Chain, d) /\ stack'[i].dirs \subseteq Entered(d)
            \/ \E j \in DOMAIN stack : /\ stack'[i].chain = stack[j].chain
                                       /\ stack'[i].dirs \subseteq stack[j].dirs
      /\ 1 \in DOMAIN stack' => stack'[1].dirs \cap (walk.attempted \cup {d}) = {}
  <2> DEFINE c == Append(Chain, d)
             e == Entered(d)
             a == walk.attempted \cup {d}
             s == stack'
  <2>1. c \in Seq(Dirs) /\ e \in SUBSET Dirs /\ stack \in Frames
        /\ s = Settle(<<[chain |-> c, dirs |-> e]>> \o stack, a)
    BY <1>1, <1>2, <1>5
  <2> HIDE DEF c, e, a, s
  <2>2. /\ s \in Frames
        /\ Held(s) \subseteq e \cup Held(stack)
        /\ (e \cup Held(stack)) \ a \subseteq Held(s)
        /\ \A i \in DOMAIN s :
              \/ s[i].chain = c /\ s[i].dirs \subseteq e
              \/ \E j \in DOMAIN stack : s[i].chain = stack[j].chain /\ s[i].dirs \subseteq stack[j].dirs
        /\ 1 \in DOMAIN s => s[1].dirs \cap a = {}
    BY <2>1, PushSettles
  <2> QED
    BY <2>2 DEF c, e, a, s
<1> QED
  BY <1>4, <1>6, <1>7

\* The files found in d join the queue of files to reconcile.
LEMMA ListDirFinds ==
  ASSUME Types, NEW d \in Dirs, ListDir(d)
  PROVE  /\ found' \in Findings
         /\ \A i \in DOMAIN found' :
               \/ \E j \in DOMAIN found : found'[i] = found[j]
               \/ found'[i].file \in Children(d) \cap Files /\ found'[i].chain = Append(Chain, d)
         /\ \A j \in DOMAIN found : \E i \in DOMAIN found' : found'[i] = found[j]
         /\ \A f \in Children(d) \cap Files : \E i \in DOMAIN found' : found'[i].file = f
<1> DEFINE Finding == [file : Files, chain : Seq(Dirs) \ {<<>>}]
           S == {[file |-> f, chain |-> Append(Chain, d)] : f \in Children(d) \cap Files}
           more == SetToSeq(S)
<1>1. Append(Chain, d) \in Seq(Dirs) \ {<<>>}
  BY ReadsTop DEF ListDir
<1>2. S \subseteq Finding
  BY <1>1
<1>3. IsFiniteSet(S)
  <2>1. IsFiniteSet(Children(d) \cap Files)
    BY Constants, FS_Subset
  <2> DEFINE T == Children(d) \cap Files
             g == [f \in T |-> [file |-> f, chain |-> Append(Chain, d)]]
  <2>2. g \in Surjection(T, S)
    BY DEF Surjection
  <2> HIDE DEF g, S
  <2> QED
    BY <2>1, <2>2, FS_Surjection
<1>4. found' = found \o more /\ found \in Seq(Finding)
  BY DEF ListDir, Types, WalkTypes, Findings
<1>5. more \in Seq(S) /\ \A x \in S : \E i \in DOMAIN more : more[i] = x
  BY <1>3, SetToSeqLists
<1> HIDE DEF more
<1>6. \A i \in DOMAIN more : more[i] \in S
  <2> HIDE DEF S
  <2> QED
    BY <1>5, ElementOfSeq, LenProperties
<1>7. more \in Seq(Finding)
  <2> HIDE DEF S, Finding
  <2> QED
    BY <1>2, <1>5, SeqMonotonic
<1> HIDE DEF Finding
<1>8. /\ found' \in Seq(Finding) /\ Len(found') = Len(found) + Len(more)
      /\ \A i \in 1 .. Len(found) + Len(more) :
            found'[i] = IF i <= Len(found) THEN found[i] ELSE more[i - Len(found)]
  BY <1>4, <1>7, ConcatProperties
<1>9. /\ DOMAIN found' = 1 .. Len(found) + Len(more) /\ DOMAIN found = 1 .. Len(found)
      /\ DOMAIN more = 1 .. Len(more) /\ Len(found) \in Nat /\ Len(more) \in Nat
  BY <1>4, <1>7, <1>8, LenProperties
<1>10. \A i \in DOMAIN found' : \/ \E j \in DOMAIN found : found'[i] = found[j]
                                \/ \E j \in DOMAIN more : found'[i] = more[j]
  <2> TAKE i \in DOMAIN found'
  <2>1. CASE i <= Len(found)
    BY <1>8, <1>9, <2>1
  <2>2. CASE ~ (i <= Len(found))
    <3>1. i - Len(found) \in DOMAIN more
      BY <1>9, <2>2
    <3> QED
      BY <1>8, <1>9, <2>2, <3>1
  <2> QED
    BY <2>1, <2>2
<1>11. \A j \in DOMAIN found : \E i \in DOMAIN found' : found'[i] = found[j]
  BY <1>8, <1>9
<1>12. \A j \in DOMAIN more : \E i \in DOMAIN found' : found'[i] = more[j]
  <2> TAKE j \in DOMAIN more
  <2>1. Len(found) + j \in DOMAIN found' /\ ~ (Len(found) + j <= Len(found))
        /\ Len(found) + j - Len(found) = j
    BY <1>9
  <2> QED
    BY <1>8, <1>9, <2>1
<1>13. \A x \in S : x.file \in Children(d) \cap Files /\ x.chain = Append(Chain, d)
  OBVIOUS
<1>14. \A f \in Children(d) \cap Files : \E x \in S : x.file = f
  <2> TAKE f \in Children(d) \cap Files
  <2> WITNESS [file |-> f, chain |-> Append(Chain, d)] \in S
  <2> QED
    OBVIOUS
<1> HIDE DEF S
<1>15. \A f \in Children(d) \cap Files : \E i \in DOMAIN found' : found'[i].file = f
  BY <1>5, <1>12, <1>14
<1>16. \A i \in DOMAIN found' :
          \/ \E j \in DOMAIN found : found'[i] = found[j]
          \/ found'[i].file \in Children(d) \cap Files /\ found'[i].chain = Append(Chain, d)
  BY <1>6, <1>10, <1>13
<1> QED
  BY <1>8, <1>11, <1>15, <1>16 DEF Findings, Finding

\* A directory that could not be read: put off, or left for this scan.
LEMMA LostWalks ==
  ASSUME Types, NEW d \in Dirs, ListDeferred(d) \/ (ListFails(d) /\ d # config.start)
  PROVE  /\ Reads(d) /\ pc' = pc /\ found' = found
         /\ walk' \in Walks /\ walk'.attempted = walk.attempted \cup {d}
         /\ snap' \in Snapshots /\ snap'.F = snap.F \cup {d}
         /\ snap'.E = snap.E /\ snap'.X = snap.X /\ snap'.seen = snap.seen
         /\ stack' \in Frames
         /\ Held(stack') \subseteq Held(stack)
         /\ Held(stack) \ (walk.attempted \cup {d}) \subseteq Held(stack')
         /\ \A i \in DOMAIN stack' : \E j \in DOMAIN stack :
               stack'[i].chain = stack[j].chain /\ stack'[i].dirs \subseteq stack[j].dirs
         /\ 1 \in DOMAIN stack' => stack'[1].dirs \cap walk'.attempted = {}
         /\ \A i \in DOMAIN walk'.pending :
               \/ i \in DOMAIN walk.pending /\ walk'.pending[i] = walk.pending[i]
               \/ /\ i \notin DOMAIN walk.pending
                  /\ walk'.pending[i].dir = d /\ walk'.pending[i].chain = Chain
         /\ \A i, j \in DOMAIN walk'.pending :
               i \notin DOMAIN walk.pending /\ j \notin DOMAIN walk.pending => i = j
<1>1. Reads(d) /\ pc' = pc /\ found' = found /\ walk \in Walks /\ snap \in Snapshots
  BY DEF ListDeferred, ListFails, Types, WalkTypes
<1>2. /\ snap' \in Snapshots /\ snap'.F = snap.F \cup {d}
      /\ snap'.E = snap.E /\ snap'.X = snap.X /\ snap'.seen = snap.seen
  BY <1>1 DEF ListDeferred, ListFails, Snapshots
<1> DEFINE Late == [dir : Dirs, chain : Seq(Dirs)]
           p == [dir |-> d, chain |-> Chain]
<1>3. p \in Late /\ walk.pending \in Seq(Late)
  BY <1>1, ReadsTop DEF Walks, PutOff
<1>4. /\ walk'.attempted = walk.attempted \cup {d} /\ walk'.retrying = walk.retrying
      /\ walk'.pending \in {walk.pending, Append(walk.pending, p)}
      /\ walk' = [attempted |-> walk'.attempted, pending |-> walk'.pending, retrying |-> walk'.retrying]
  BY <1>1 DEF ListDeferred, ListFails, Visited, Walks
<1>5. /\ walk'.pending \in Seq(Late)
      /\ \A i \in DOMAIN walk'.pending :
            \/ i \in DOMAIN walk.pending /\ walk'.pending[i] = walk.pending[i]
            \/ i \notin DOMAIN walk.pending /\ walk'.pending[i] = p
      /\ \A i, j \in DOMAIN walk'.pending :
            i \notin DOMAIN walk.pending /\ j \notin DOMAIN walk.pending => i = j
  <2> HIDE DEF p, Late
  <2>1. CASE walk'.pending = walk.pending
    BY <1>3, <2>1
  <2>2. CASE walk'.pending = Append(walk.pending, p)
    BY <1>3, <2>2, AppendProperties, LenProperties
  <2> QED
    BY <1>4, <2>1, <2>2
<1>6. walk' \in Walks
  BY <1>1, <1>4, <1>5 DEF Walks, PutOff
<1>7. stack' = Settle(stack, walk.attempted \cup {d})
  BY <1>4 DEF ListDeferred, ListFails
<1>8. /\ stack' \in Frames
      /\ Held(stack') \subseteq Held(stack)
      /\ Held(stack) \ (walk.attempted \cup {d}) \subseteq Held(stack')
      /\ \A i \in DOMAIN stack' : \E j \in DOMAIN stack :
            stack'[i].chain = stack[j].chain /\ stack'[i].dirs \subseteq stack[j].dirs
      /\ 1 \in DOMAIN stack' => stack'[1].dirs \cap (walk.attempted \cup {d}) = {}
  BY <1>7, PassedOver
<1> QED
  BY <1>1, <1>2, <1>4, <1>5, <1>6, <1>8

\* The final pass puts one directory on the stack again.
LEMMA RetryWalks ==
  ASSUME Types, RetryNext
  PROVE  /\ pc = "scan" /\ stack = <<>> /\ Held(stack) = {}
         /\ 1 \in DOMAIN walk.pending
         /\ walk' \in Walks
         /\ walk'.attempted = walk.attempted \ {walk.pending[1].dir}
         /\ \A j \in DOMAIN walk'.pending :
               j + 1 \in DOMAIN walk.pending /\ j \in Nat \ {0}
               /\ walk'.pending[j] = walk.pending[j + 1]
         /\ stack' \in Frames /\ Held(stack') = {walk.pending[1].dir}
         /\ \A j \in DOMAIN stack' : /\ stack'[j].chain = walk.pending[1].chain
                                     /\ stack'[j].dirs = {walk.pending[1].dir}
<1> DEFINE Late == [dir : Dirs, chain : Seq(Dirs)]
           q == walk.pending
           p == Head(q)
<1>1. walk \in Walks /\ q \in Seq(Late) /\ q # <<>>
  BY DEF Types, WalkTypes, Walks, PutOff, RetryNext
<1>2. Len(q) \in Nat \ {0} /\ DOMAIN q = 1 .. Len(q) /\ Head(q) = q[1] /\ p \in Late
      /\ Tail(q) \in Seq(Late) /\ Len(Tail(q)) = Len(q) - 1 /\ DOMAIN Tail(q) = 1 .. Len(Tail(q))
      /\ \A i \in 1 .. Len(Tail(q)) : Tail(q)[i] = q[i + 1]
  <2> HIDE DEF q, Late
  <2> QED
    <3>1. Len(q) \in Nat \ {0} /\ DOMAIN q = 1 .. Len(q) /\ Head(q) = q[1] /\ p \in Late
      BY <1>1, HeadTailProperties, EmptySeq, LenProperties
    <3>2. Tail(q) \in Seq(Late) /\ Len(Tail(q)) = Len(q) - 1
          /\ \A i \in 1 .. Len(Tail(q)) : Tail(q)[i] = q[i + 1]
      BY <1>1, HeadTailProperties
    <3>3. DOMAIN Tail(q) = 1 .. Len(Tail(q))
      BY <3>2, LenProperties
    <3> QED
      BY <3>1, <3>2, <3>3
<1>3. /\ walk' = [attempted |-> walk.attempted \ {p.dir}, pending |-> Tail(q), retrying |-> TRUE]
      /\ stack' = <<[chain |-> p.chain, dirs |-> {p.dir}]>>
      /\ pc = "scan" /\ stack = <<>>
  BY DEF RetryNext
<1>4. walk' \in Walks /\ walk'.attempted = walk.attempted \ {p.dir} /\ walk'.pending = Tail(q)
  BY <1>1, <1>2, <1>3 DEF Walks, PutOff
<1>5. p.dir \in Dirs /\ p.chain \in Seq(Dirs)
  BY <1>2
<1>6. /\ stack' \in Frames /\ DOMAIN stack' = {1}
      /\ stack'[1].chain = p.chain /\ stack'[1].dirs = {p.dir}
  BY <1>3, <1>5 DEF Frames
<1>7. \A j \in DOMAIN walk'.pending :
         j + 1 \in DOMAIN q /\ j \in Nat \ {0} /\ walk'.pending[j] = q[j + 1]
  <2> TAKE j \in DOMAIN walk'.pending
  <2>1. j \in 1 .. Len(Tail(q)) /\ j + 1 \in DOMAIN q
    BY <1>2, <1>4
  <2> QED
    BY <1>2, <1>4, <2>1
<1>8. 1 \in DOMAIN q /\ q[1] = p
  BY <1>2
<1>9. Held(stack') = {p.dir} /\ Held(stack) = {}
  BY <1>3, <1>6 DEF Held
<1> HIDE DEF p
<1> QED
  BY <1>3, <1>4, <1>6, <1>7, <1>8, <1>9

\* A queue without its first entry.
LEMMA Served ==
  ASSUME NEW S, NEW q \in Seq(S), q # <<>>
  PROVE  /\ 1 \in DOMAIN q /\ Head(q) = q[1] /\ Head(q) \in S /\ Tail(q) \in Seq(S)
         /\ \A i \in DOMAIN Tail(q) : i + 1 \in DOMAIN q /\ Tail(q)[i] = q[i + 1]
         /\ \A i \in DOMAIN q : i = 1 \/ (i - 1 \in DOMAIN Tail(q) /\ Tail(q)[i - 1] = q[i])
<1>1. Len(q) \in Nat \ {0} /\ DOMAIN q = 1 .. Len(q) /\ Head(q) = q[1] /\ Head(q) \in S
  BY HeadTailProperties, EmptySeq, LenProperties
<1>2. Tail(q) \in Seq(S) /\ Len(Tail(q)) = Len(q) - 1
      /\ \A i \in 1 .. Len(Tail(q)) : Tail(q)[i] = q[i + 1]
  BY HeadTailProperties
<1>3. DOMAIN Tail(q) = 1 .. Len(Tail(q))
  BY <1>2, LenProperties
<1>4. \A i \in DOMAIN Tail(q) : i + 1 \in DOMAIN q /\ Tail(q)[i] = q[i + 1]
  BY <1>1, <1>2, <1>3
<1>5. ASSUME NEW i \in DOMAIN q, i # 1 PROVE i - 1 \in DOMAIN Tail(q) /\ Tail(q)[i - 1] = q[i]
  <2>1. i - 1 \in DOMAIN Tail(q) /\ (i - 1) + 1 = i
    BY <1>1, <1>2, <1>3, <1>5
  <2> QED
    BY <1>4, <2>1
<1> QED
  BY <1>1, <1>2, <1>4, <1>5

\* Deleted rows take their counters with them; the others stay as they are.
LEMMA Deleted ==
  ASSUME Types, NEW gone \in SUBSET Files, DeleteRows(gone)
  PROVE  /\ rows' \in [Files -> {Absent} \cup Rows] /\ misses' \in [Files -> 0 .. 2]
         /\ unseen' \in [Files -> 0 .. 2] /\ spared' = spared \ gone /\ unruled' = unruled
         /\ \A f \in gone : rows'[f] = Absent /\ misses'[f] = 0 /\ unseen'[f] = 0
         /\ \A f \in Files \ gone : rows'[f] = rows[f] /\ misses'[f] = misses[f] /\ unseen'[f] = unseen[f]
  BY DEF DeleteRows, Types, CatalogTypes, HistoryTypes

\* The file that is reconciled, and the row it may get.
LEMMA ReconcileServes ==
  ASSUME Types, Reconcile
  PROVE  /\ 1 \in DOMAIN found /\ Head(found) = found[1] /\ Head(found).file \in Files
         /\ Head(found).chain \in Seq(Dirs) \ {<<>>}
         /\ RowAt(Head(found).chain) \in Rows
         /\ RowAt(Head(found).chain).chain = Head(found).chain
         /\ RowAt(Head(found).chain).parent = Last(Head(found).chain)
         /\ found' \in Findings
         /\ \A i \in DOMAIN found' : i + 1 \in DOMAIN found /\ found'[i] = found[i + 1]
         /\ \A i \in DOMAIN found : i = 1 \/ (i - 1 \in DOMAIN found' /\ found'[i - 1] = found[i])
<1> DEFINE Finding == [file : Files, chain : Seq(Dirs) \ {<<>>}]
<1>1. found \in Seq(Finding) /\ found # <<>> /\ found' = Tail(found)
  BY DEF Types, WalkTypes, Findings, Reconcile
<1>2. /\ 1 \in DOMAIN found /\ Head(found) = found[1] /\ Head(found) \in Finding
      /\ found' \in Seq(Finding)
      /\ \A i \in DOMAIN found' : i + 1 \in DOMAIN found /\ found'[i] = found[i + 1]
      /\ \A i \in DOMAIN found : i = 1 \/ (i - 1 \in DOMAIN found' /\ found'[i - 1] = found[i])
  <2> HIDE DEF Finding
  <2> QED
    BY <1>1, Served
<1>3. Head(found).file \in Files /\ Head(found).chain \in Seq(Dirs) \ {<<>>}
  BY <1>2
<1>4. Last(Head(found).chain) \in Dirs
  <2> DEFINE c == Head(found).chain
  <2>1. c \in Seq(Dirs) /\ c # <<>>
    BY <1>3
  <2> HIDE DEF c
  <2>2. Len(c) \in 1 .. Len(c)
    BY <2>1, EmptySeq
  <2>3. c[Len(c)] \in Dirs
    BY <2>1, <2>2, ElementOfSeq
  <2> QED
    BY <2>3 DEF Last, c
<1> QED
  BY <1>2, <1>3, <1>4 DEF RowAt, Rows, Findings

-----------------------------------------------------------------------------
(* Every variable keeps its type.                                          *)

\* The first state has the types.
LEMMA InitTypes == Init => Types
<1> SUFFICES ASSUME Init PROVE Types
  OBVIOUS
<1>1. DriveTypes
  BY DriveScanAssumption DEF Init, DriveTypes, Places
<1>2. CatalogTypes
  <2>1. \A chain \in SeqOf(Dirs, Cardinality(Dirs)) \ {<<>>} : RowAt(chain) \in Rows
    <3> TAKE chain \in SeqOf(Dirs, Cardinality(Dirs)) \ {<<>>}
    <3>1. Cardinality(Dirs) \in Nat
      BY Constants, FS_CardinalityType
    <3>2. PICK n \in 0 .. Cardinality(Dirs) : chain \in [1 .. n -> Dirs]
      BY DEF SeqOf
    <3>3. chain \in Seq(Dirs) /\ Len(chain) = n /\ n \in Nat
      BY <3>1, <3>2
    <3>4. n \in 1 .. n
      BY <3>3, EmptySeq
    <3>5. Last(chain) \in Dirs
      BY <3>2, <3>3, <3>4 DEF Last
    <3> QED
      BY <3>3, <3>5 DEF RowAt, Rows
  <2>2. \A row \in [parent : Dirs, chain : {NoChain}] : row \in Rows
    BY EmptySeq DEF Rows, NoChain
  <2>3. rows \in [Files -> {Absent} \cup [parent : Dirs, chain : {NoChain}]
                    \cup {RowAt(chain) : chain \in SeqOf(Dirs, Cardinality(Dirs)) \ {<<>>}}]
    BY DEF Init
  <2>4. rows \in [Files -> {Absent} \cup Rows]
    <3>1. \A f \in Files : rows[f] \in {Absent} \cup Rows
      BY <2>1, <2>2, <2>3
    <3> QED
      BY <2>3, <3>1
  <2>5. misses \in [Files -> 0 .. 2]
    BY DEF Init
  <2>6. policy \in [applied : SUBSET Dirs, done : SUBSET Dirs]
    BY Constants DEF Init, NeverApplied
  <2> QED
    BY <2>4, <2>5, <2>6 DEF CatalogTypes
<1>3. WalkTypes
  <2>1. stack \in Frames /\ found \in Findings
    BY EmptySeq DEF Init, Frames, Findings
  <2>2. walk \in Walks /\ snap \in Snapshots
    BY EmptySeq DEF Init, EmptyWalk, EmptySnap, Walks, Snapshots, PutOff
  <2> QED
    BY <2>1, <2>2 DEF Init, WalkTypes
<1>4. CleanupTypes
  BY DEF Init, CleanupTypes, NoBackfill, Backfills
<1>5. HistoryTypes
  <2>1. unseen \in [Files -> 0 .. 2]
    BY DEF Init
  <2>2. left = {} /\ spared = {} /\ clean \in BOOLEAN /\ unruled \in BOOLEAN
    BY DEF Init
  <2> QED
    BY <2>1, <2>2 DEF HistoryTypes
<1> QED
  BY <1>1, <1>2, <1>3, <1>4, <1>5 DEF Types

\* The variables of the drive and the scan that a step of another part leaves.
LEMMA OwnerTypes == ASSUME Types, Owner PROVE Types'
<1>1. ASSUME NEW x \in (Dirs \cup Files) \ {Root}, NEW d \in Dirs \cup {Nowhere}, Move(x, d)
      PROVE  Types'
  <2>1. DriveTypes'
    BY <1>1 DEF Move, Types, DriveTypes, Places
  <2>2. CatalogTypes' /\ WalkTypes' /\ CleanupTypes'
    BY <1>1 DEF Move, Types, CatalogTypes, WalkTypes, CleanupTypes, catalogVars, walkVars, cleanVars
  <2>3. left' \in SUBSET Files /\ clean' \in BOOLEAN
    BY <1>1 DEF Move, Types, HistoryTypes
  <2>4. HistoryTypes'
    BY <1>1, <2>3 DEF Move, Types, HistoryTypes, history
  <2> QED
    BY <2>1, <2>2, <2>4 DEF Types
<1>2. ASSUME NEW f \in Files, Upload(f) PROVE Types'
  <2>1. PICK d \in Dirs : /\ under' = [under EXCEPT ![f] = d]
                          /\ rows' = [rows EXCEPT ![f] = [parent |-> d, chain |-> NoChain]]
    BY <1>2 DEF Upload
  <2>2. DriveTypes'
    BY <1>2, <2>1 DEF Upload, Types, DriveTypes, Places
  <2>3. [parent |-> d, chain |-> NoChain] \in Rows
    BY EmptySeq DEF Rows, NoChain
  <2>4. CatalogTypes'
    BY <1>2, <2>1, <2>3 DEF Upload, Types, CatalogTypes
  <2>5. WalkTypes' /\ CleanupTypes'
    BY <1>2 DEF Upload, Types, WalkTypes, CleanupTypes, walkVars, cleanVars
  <2>6. unseen' \in [Files -> 0 .. 2] /\ unruled' \in BOOLEAN
    BY <1>2 DEF Upload, Types, HistoryTypes
  <2>7. HistoryTypes'
    BY <1>2, <2>6 DEF Upload, Types, HistoryTypes
  <2> QED
    BY <2>2, <2>4, <2>5, <2>7 DEF Types
<1>3. ASSUME Configure PROVE Types'
  BY <1>3 DEF Configure, Types, DriveTypes, CatalogTypes, WalkTypes, CleanupTypes, HistoryTypes,
              catalogVars, walkVars, cleanVars, history
<1> QED
  BY <1>1, <1>2, <1>3 DEF Owner

\* A scan that ends, however it ends.
LEMMA EndTypes ==
  ASSUME Types, ScanEnds
  PROVE  WalkTypes' /\ CleanupTypes' /\ left' = {}
<1>1. stack' \in Frames /\ found' \in Findings
  BY EmptySeq DEF ScanEnds, Frames, Findings
<1>2. walk' \in Walks /\ snap' \in Snapshots
  BY EmptySeq DEF ScanEnds, EmptyWalk, EmptySnap, Walks, Snapshots, PutOff
<1>3. backfill' \in Backfills
  BY DEF ScanEnds, NoBackfill, Backfills
<1> QED
  BY <1>1, <1>2, <1>3 DEF ScanEnds, WalkTypes, CleanupTypes

\* Steps of the walk keep the types.
LEMMA WalkStepTypes ==
  ASSUME Types, StartScan \/ RetryNext \/ \E d \in Dirs : ListDir(d) \/ ListDeferred(d) \/ ListFails(d)
  PROVE  Types'
<1>1. ASSUME StartScan PROVE Types'
  <2>1. config.start \in Dirs
    BY Constants DEF Types, DriveTypes
  <2>2. <<[chain |-> <<>>, dirs |-> {config.start}]>> \in Frames
    BY <2>1, EmptySeq DEF Frames
  <2>3. WalkTypes'
    BY <1>1, <2>2 DEF StartScan, Types, WalkTypes
  <2>4. DriveTypes' /\ CatalogTypes' /\ CleanupTypes'
    BY <1>1 DEF StartScan, Types, DriveTypes, CatalogTypes, CleanupTypes,
                driveVars, catalogVars, cleanVars
  <2>5. HistoryTypes'
    BY <1>1 DEF StartScan, Types, HistoryTypes, history
  <2> QED
    BY <2>3, <2>4, <2>5 DEF Types
<1>2. ASSUME RetryNext PROVE Types'
  <2>1. walk' \in Walks /\ stack' \in Frames
    BY <1>2, RetryWalks
  <2>2. WalkTypes'
    BY <1>2, <2>1 DEF RetryNext, Types, WalkTypes
  <2>3. DriveTypes' /\ CatalogTypes' /\ CleanupTypes' /\ HistoryTypes'
    BY <1>2 DEF RetryNext, Types, DriveTypes, CatalogTypes, CleanupTypes, HistoryTypes,
                driveVars, catalogVars, cleanVars, history
  <2> QED
    BY <2>2, <2>3 DEF Types
<1>3. ASSUME NEW d \in Dirs, ListDir(d) PROVE Types'
  <2>1. walk' \in Walks /\ stack' \in Frames /\ snap' \in Snapshots
    BY <1>3, ListDirWalks
  <2>2. found' \in Findings
    BY <1>3, ListDirFinds
  <2>3. WalkTypes'
    BY <1>3, <2>1, <2>2 DEF ListDir, Types, WalkTypes
  <2>4. DriveTypes' /\ CatalogTypes' /\ CleanupTypes' /\ HistoryTypes'
    BY <1>3 DEF ListDir, Types, DriveTypes, CatalogTypes, CleanupTypes, HistoryTypes,
                driveVars, catalogVars, cleanVars, history
  <2> QED
    BY <2>3, <2>4 DEF Types
<1>4. ASSUME NEW d \in Dirs, ListDeferred(d) \/ (ListFails(d) /\ d # config.start) PROVE Types'
  <2>1. walk' \in Walks /\ stack' \in Frames /\ snap' \in Snapshots /\ pc' = pc /\ found' = found
    BY <1>4, LostWalks
  <2>2. WalkTypes'
    BY <2>1 DEF Types, WalkTypes
  <2>3. DriveTypes' /\ CatalogTypes' /\ CleanupTypes'
    BY <1>4 DEF ListDeferred, ListFails, Types, DriveTypes, CatalogTypes, CleanupTypes,
                driveVars, catalogVars, cleanVars
  <2>4. clean' \in BOOLEAN
    BY <1>4 DEF ListDeferred, ListFails, Fault
  <2>5. HistoryTypes'
    BY <1>4, <2>4 DEF ListDeferred, ListFails, Types, HistoryTypes, history
  <2> QED
    BY <2>2, <2>3, <2>5 DEF Types
<1>5. ASSUME NEW d \in Dirs, ListFails(d), d = config.start PROVE Types'
  <2>1. ScanEnds
    BY <1>5 DEF ListFails
  <2>2. clean' = FALSE
    BY <1>5 DEF ListFails, Fault
  <2>3. DriveTypes' /\ CatalogTypes'
    BY <1>5 DEF ListFails, Types, DriveTypes, CatalogTypes, driveVars, catalogVars
  <2>4. HistoryTypes'
    BY <1>5, <2>1, <2>2, EndTypes DEF ListFails, Types, HistoryTypes, history
  <2> QED
    BY <2>1, <2>3, <2>4, EndTypes DEF Types
<1> QED
  BY <1>1, <1>2, <1>3, <1>4, <1>5

\* Steps that write or delete rows keep the types.
LEMMA RowStepTypes ==
  ASSUME Types, Reconcile \/ RemoveExcluded \/ (\E d \in Dirs : Backfill(d))
                  \/ (\E f \in Files : DeleteStale(f))
  PROVE  Types'
<1>1. ASSUME Reconcile PROVE Types'
  <2> DEFINE f == Head(found).file
  <2>1. /\ f \in Files /\ RowAt(Head(found).chain) \in Rows /\ found' \in Findings
    BY <1>1, ReconcileServes
  <2>2. /\ rows' \in {rows, [rows EXCEPT ![f] = RowAt(Head(found).chain)]}
        /\ unseen' \in {unseen, [unseen EXCEPT ![f] = 0], [unseen EXCEPT ![f] = unseen[f]]}
        /\ spared' \in {spared, spared \ {f}, spared \cup {f}}
        /\ unruled' \in {unruled, unruled \/ policy.applied # config.skip}
        /\ clean' \in {clean, FALSE}
    BY <1>1 DEF Reconcile, NoFault, Fault, history
  <2>3. rows' \in [Files -> {Absent} \cup Rows]
    BY <2>1, <2>2 DEF Types, CatalogTypes
  <2>4. CatalogTypes'
    BY <1>1, <2>3 DEF Reconcile, Types, CatalogTypes
  <2>5. unseen' \in [Files -> 0 .. 2]
    BY <2>1, <2>2 DEF Types, HistoryTypes
  <2>6. spared' \in SUBSET Files /\ unruled' \in BOOLEAN /\ clean' \in BOOLEAN
    BY <2>1, <2>2 DEF Types, HistoryTypes
  <2>7. HistoryTypes'
    BY <1>1, <2>5, <2>6 DEF Reconcile, Types, HistoryTypes
  <2>8. DriveTypes' /\ WalkTypes' /\ CleanupTypes'
    BY <1>1, <2>1 DEF Reconcile, Types, DriveTypes, WalkTypes, CleanupTypes, driveVars, cleanVars
  <2> QED
    BY <2>4, <2>7, <2>8 DEF Types
<1> DEFINE Rest == /\ policy' \in [applied : SUBSET Dirs, done : SUBSET Dirs]
                   /\ pc' \in {"idle", "scan", "backfill", "evaluate", "delete"}
                   /\ CleanupTypes' /\ clean' \in BOOLEAN
                   /\ UNCHANGED <<driveVars, walkVars, left>>
<1>2. ASSUME NEW gone \in SUBSET Files, DeleteRows(gone), Rest PROVE Types'
  <2>1. /\ rows' \in [Files -> {Absent} \cup Rows] /\ misses' \in [Files -> 0 .. 2]
        /\ unseen' \in [Files -> 0 .. 2] /\ spared' = spared \ gone /\ unruled' = unruled
    BY <1>2, Deleted
  <2>2. CatalogTypes'
    BY <1>2, <2>1 DEF CatalogTypes
  <2>3. HistoryTypes'
    BY <1>2, <2>1 DEF Types, HistoryTypes
  <2>4. DriveTypes' /\ WalkTypes'
    BY <1>2 DEF Types, DriveTypes, WalkTypes, driveVars, walkVars
  <2> QED
    BY <1>2, <2>2, <2>3, <2>4 DEF Types
<1>3. config.skip \in SUBSET Dirs /\ ToBackfill \in SUBSET Dirs /\ Excluded \in SUBSET Files
  BY Constants DEF Types, DriveTypes, ToBackfill, Excluded
<1>4. ASSUME RemoveExcluded PROVE Types'
  <2>1. \E gone \in SUBSET Files : DeleteRows(gone)
    BY <1>3, <1>4 DEF RemoveExcluded
  <2>2. policy' \in [applied : SUBSET Dirs, done : SUBSET Dirs]
    BY <1>3, <1>4 DEF RemoveExcluded, Types, CatalogTypes
  <2>3. backfill' \in Backfills
    <3>1. CASE pc' = "backfill"
      <4> DEFINE legacy == \E f \in Files : rows'[f].chain = NoChain
      <4>1. backfill' = [todo     |-> IF legacy THEN ToBackfill ELSE {},
                         complete |-> TRUE,
                         protect  |-> legacy /\ ToBackfill # {}]
        BY <1>4, <3>1 DEF RemoveExcluded
      <4>2. (legacy /\ ToBackfill # {}) \in BOOLEAN
        OBVIOUS
      <4>3. (IF legacy THEN ToBackfill ELSE {}) \in SUBSET Dirs
        BY <1>3
      <4> HIDE DEF legacy
      <4> QED
        BY <4>1, <4>2, <4>3 DEF Backfills
    <3>2. CASE pc' = "evaluate"
      BY <1>4, <3>2 DEF RemoveExcluded, Backfills, NoBackfill
    <3> QED
      BY <1>4, <3>1, <3>2 DEF RemoveExcluded
  <2>4. clean' \in BOOLEAN
    BY <1>4 DEF RemoveExcluded, NoFault, Fault, Types, HistoryTypes
  <2>5. Rest
    BY <1>4, <2>2, <2>3, <2>4 DEF RemoveExcluded, Types, CleanupTypes
  <2> QED
    BY <1>2, <2>1, <2>5
<1>5. ASSUME NEW d \in Dirs, Backfill(d) PROVE Types'
  <2>1. \E gone \in SUBSET Files : DeleteRows(gone)
    BY <1>5 DEF Backfill
  <2>2. policy' \in [applied : SUBSET Dirs, done : SUBSET Dirs]
    <3>1. policy \in [applied : SUBSET Dirs, done : SUBSET Dirs]
      BY DEF Types, CatalogTypes
    <3>2. policy' = policy \/ policy' = [policy EXCEPT !.done = @ \cup {d}]
      BY <1>5 DEF Backfill
    <3> QED
      BY <3>1, <3>2
  <2>3. backfill' \in Backfills
    <3>1. backfill \in Backfills
      BY DEF Types, CleanupTypes
    <3>2. \/ backfill' = [backfill EXCEPT !.todo = @ \ {d}]
          \/ backfill' = [backfill EXCEPT !.todo = @ \ {d}, !.complete = FALSE]
          \/ backfill' = [backfill EXCEPT !.todo = {}]
      BY <1>5 DEF Backfill
    <3> QED
      BY <3>1, <3>2 DEF Backfills
  <2>4. clean' \in BOOLEAN
    BY <1>5 DEF Backfill, NoFault, Fault, Types, HistoryTypes
  <2>5. pc' \in {"backfill", "evaluate"}
    BY <1>5 DEF Backfill
  <2>6. Rest
    BY <1>5, <2>2, <2>3, <2>4, <2>5 DEF Backfill, Types, CleanupTypes
  <2> QED
    BY <1>2, <2>1, <2>6
<1>6. ASSUME NEW f \in Files, DeleteStale(f) PROVE Types'
  <2>1. DeleteRows({f}) /\ {f} \in SUBSET Files
    BY <1>6 DEF DeleteStale
  <2>2. Rest
    BY <1>6 DEF DeleteStale, Types, CatalogTypes, WalkTypes, CleanupTypes, HistoryTypes
  <2> QED
    BY <1>2, <2>1, <2>2
<1> QED
  BY <1>1, <1>4, <1>5, <1>6

\* Steps that go on to another phase keep the types.
LEMMA PhaseStepTypes ==
  ASSUME Types, PolicyDone \/ RecordPolicy \/ Evaluate \/ FinishScan \/ StopScan
  PROVE  Types'
<1>1. ASSUME PolicyDone PROVE Types'
  BY <1>1 DEF PolicyDone, Types, DriveTypes, CatalogTypes, WalkTypes, CleanupTypes, HistoryTypes,
              driveVars, catalogVars, walkVars, cleanVars, history
<1>2. ASSUME RecordPolicy PROVE Types'
  <2>1. config.skip \in SUBSET Dirs
    BY Constants DEF Types, DriveTypes
  <2>2. CatalogTypes'
    BY <1>2, <2>1 DEF RecordPolicy, Types, CatalogTypes
  <2>3. CleanupTypes'
    BY <1>2 DEF RecordPolicy, Types, CleanupTypes, Backfills
  <2>4. HistoryTypes'
    BY <1>2 DEF RecordPolicy, NoFault, Fault, Types, HistoryTypes
  <2>5. DriveTypes' /\ WalkTypes'
    BY <1>2 DEF RecordPolicy, Types, DriveTypes, WalkTypes, driveVars, walkVars
  <2> QED
    BY <2>2, <2>3, <2>4, <2>5 DEF Types
<1>3. ASSUME Evaluate PROVE Types'
  <2>1. \A n \in 0 .. 2 : AtMost2(n + 1) \in 0 .. 2
    BY DEF AtMost2
  <2>2. misses' \in [Files -> 0 .. 2]
    BY <1>3, <2>1 DEF Evaluate, Types, CatalogTypes
  <2>3. unseen' \in [Files -> 0 .. 2]
    BY <1>3, <2>1 DEF Evaluate, Types, HistoryTypes
  <2>4. doomed' \in SUBSET Files
    BY <1>3 DEF Evaluate, Missing
  <2>5. DriveTypes' /\ CatalogTypes' /\ WalkTypes'
    BY <1>3, <2>2 DEF Evaluate, Types, DriveTypes, CatalogTypes, WalkTypes, driveVars, walkVars
  <2>6. CleanupTypes' /\ HistoryTypes'
    BY <1>3, <2>3, <2>4 DEF Evaluate, Types, CleanupTypes, HistoryTypes
  <2> QED
    BY <2>5, <2>6 DEF Types
<1>4. ASSUME FinishScan \/ StopScan PROVE Types'
  <2>1. ScanEnds /\ clean' \in BOOLEAN
    BY <1>4 DEF FinishScan, StopScan, Fault, Types, HistoryTypes
  <2>2. DriveTypes' /\ CatalogTypes'
    BY <1>4 DEF FinishScan, StopScan, Types, DriveTypes, CatalogTypes, driveVars, catalogVars
  <2>3. HistoryTypes'
    BY <1>4, <2>1, EndTypes DEF FinishScan, StopScan, Types, HistoryTypes, history
  <2> QED
    BY <2>1, <2>2, <2>3, EndTypes DEF Types
<1> QED
  BY <1>1, <1>2, <1>3, <1>4

\* Every step keeps the types.
LEMMA StepTypes == ASSUME Types, [Next]_vars PROVE Types'
<1>1. CASE Next
  BY <1>1, OwnerTypes, WalkStepTypes, RowStepTypes, PhaseStepTypes DEF Next, Scan
<1>2. CASE UNCHANGED vars
  BY <1>2 DEF vars, Types, DriveTypes, CatalogTypes, WalkTypes, CleanupTypes, HistoryTypes,
              driveVars, catalogVars, walkVars, cleanVars, history
<1> QED
  BY <1>1, <1>2

-----------------------------------------------------------------------------
(* What the walk guarantees at any moment.                                 *)

\* The directories of the drive form a tree.
TreeInv == Tree(under)

\* Nothing is left of a scan that has ended; once the walk and the
\* reconciliation are over, their stack and queues are empty.
PhaseInv ==
    /\ pc = "idle" => /\ stack = <<>> /\ walk = EmptyWalk /\ snap = EmptySnap /\ found = <<>>
                      /\ backfill = NoBackfill /\ left = {}
    /\ pc \in {"backfill", "evaluate", "delete"} =>
          stack = <<>> /\ walk.pending = <<>> /\ found = <<>>
    /\ pc = "scan" => backfill = NoBackfill
    /\ pc # "delete" => doomed = {}

\* Directories tried were read or failed, and the other way round except for
\* those that wait on the stack for the final pass.
TriedInv ==
    /\ walk.attempted \subseteq snap.E \cup snap.F
    /\ snap.E \cup snap.F \subseteq walk.attempted \cup Held(stack)
    /\ snap.E \subseteq walk.attempted
    /\ 1 \in DOMAIN stack => stack[1].dirs \cap walk.attempted = {}

\* A directory that was put off has failed and waits once.
PutOffInv ==
    /\ \A i \in DOMAIN walk.pending :
          walk.pending[i].dir \in walk.attempted \cap snap.F
    /\ \A i, j \in DOMAIN walk.pending :
          walk.pending[i].dir = walk.pending[j].dir => i = j

\* The start comes first, and no other directory on the skip list is entered.
StartInv ==
    /\ pc # "idle" => config.start \in snap.E \cup snap.F \cup Held(stack)
    /\ config.start \notin snap.E \cup snap.F => Held(stack) \subseteq {config.start} /\ snap.X = {}
    /\ Held(stack) \cap config.skip \subseteq {config.start}
    /\ \A i \in DOMAIN walk.pending :
          walk.pending[i].dir \in config.skip => walk.pending[i].dir = config.start
    /\ snap.X \subseteq config.skip

\* A directory was read, has failed or is excluded, and only one of these.
Disjoint == snap.E \cap snap.F = {} /\ snap.X \cap (snap.E \cup snap.F) = {}

WalkInv == TriedInv /\ PutOffInv /\ StartInv /\ Disjoint

\* The drive stays a tree under every move.
LEMMA TreeStep == ASSUME Types, TreeInv, [Next]_vars PROVE TreeInv'
<1>1. Tree(under)
  BY DEF TreeInv
<1>2. ASSUME NEW x \in (Dirs \cup Files) \ {Root}, NEW d \in Dirs \cup {Nowhere}, Move(x, d)
      PROVE  Tree(under')
  <2>1. d \in Places /\ under \in [(Dirs \cup Files) \ {Root} -> Places]
    BY DEF Places, Types, DriveTypes
  <2>2. \A e \in (Dirs \cup Files) \ {Root} : under'[e] = IF e = x THEN d ELSE under[e]
    BY <1>2, <2>1 DEF Move
  <2>3. CASE x \in Dirs
    <3>1. x \notin AboveIn(under, d)
      BY <1>2, <2>3, AboveHere DEF Move
    <3>2. \A e \in Dirs \ {Root} : under'[e] = IF e = x THEN d ELSE under[e]
      BY <2>2
    <3> QED
      BY <1>1, <2>1, <2>3, <3>1, <3>2, TreeMove
  <2>4. CASE x \notin Dirs
    <3>1. \A e \in Dirs \ {Root} : under'[e] = under[e]
      BY <2>2, <2>4
    <3> QED
      BY <1>1, <3>1, TreeKept
  <2> QED
    BY <2>3, <2>4
<1>3. ASSUME NEW f \in Files, Upload(f) PROVE Tree(under')
  <2>1. PICK d \in Dirs : under' = [under EXCEPT ![f] = d]
    BY <1>3 DEF Upload
  <2>2. \A e \in Dirs \ {Root} : under'[e] = under[e]
    BY <2>1, Constants DEF Types, DriveTypes
  <2> QED
    BY <1>1, <2>2, TreeKept
<1>4. ASSUME Configure \/ Scan \/ StopScan \/ UNCHANGED vars PROVE under' = under
  BY <1>4 DEF Configure, Scan, StopScan, StartScan, ListDir, ListDeferred, ListFails, Backfill,
              RetryNext, Reconcile, PolicyDone, RemoveExcluded, RecordPolicy, DeleteStale,
              Evaluate, FinishScan, vars, driveVars
<1>5. Tree(under')
  BY <1>1, <1>2, <1>3, <1>4 DEF Next, Owner
<1> QED
  BY <1>5 DEF TreeInv

\* Every step keeps what belongs to the phase of the scan.
LEMMA PhaseStep == ASSUME Types, PhaseInv, [Next]_vars PROVE PhaseInv'
<1>1. ASSUME Owner PROVE PhaseInv'
  BY <1>1 DEF Owner, Move, Upload, Configure, PhaseInv, walkVars, cleanVars
<1>2. ASSUME StartScan PROVE PhaseInv'
  BY <1>2 DEF StartScan, PhaseInv, cleanVars
<1>3. ASSUME NEW d \in Dirs, ListDir(d) \/ ListDeferred(d) \/ (ListFails(d) /\ d # config.start)
      PROVE  PhaseInv'
  BY <1>3 DEF ListDir, ListDeferred, ListFails, Reads, PhaseInv, cleanVars
<1>4. ASSUME ScanEnds PROVE PhaseInv'
  BY <1>4 DEF ScanEnds, PhaseInv
<1>5. ASSUME NEW d \in Dirs, ListFails(d), d = config.start PROVE PhaseInv'
  BY <1>4, <1>5 DEF ListFails
<1>6. ASSUME RetryNext \/ Reconcile PROVE PhaseInv'
  BY <1>6 DEF RetryNext, Reconcile, Discovered, PhaseInv, cleanVars
<1>7. ASSUME PolicyDone \/ RemoveExcluded PROVE PhaseInv'
  BY <1>7 DEF PolicyDone, RemoveExcluded, Reconciled, Discovered, PhaseInv, walkVars, cleanVars
<1>8. ASSUME RecordPolicy \/ Evaluate \/ (\E d \in Dirs : Backfill(d)) \/ (\E f \in Files : DeleteStale(f))
      PROVE  PhaseInv'
  BY <1>8 DEF RecordPolicy, Evaluate, Backfill, DeleteStale, PhaseInv, walkVars, cleanVars
<1>9. ASSUME FinishScan \/ StopScan PROVE PhaseInv'
  BY <1>4, <1>9 DEF FinishScan, StopScan
<1>10. ASSUME UNCHANGED vars PROVE PhaseInv'
  BY <1>10 DEF vars, PhaseInv, walkVars, cleanVars
<1> QED
  BY <1>1, <1>2, <1>3, <1>5, <1>6, <1>7, <1>8, <1>9, <1>10 DEF Next, Scan

\* An empty stack holds no directory.
LEMMA HeldNone == Held(<<>>) = {}
  BY DEF Held

\* A directory that lies in d is not d itself.
LEMMA NotOwnChild == ASSUME Types, TreeInv, NEW d \in Dirs PROVE d \notin Children(d)
<1> SUFFICES ASSUME d \in Children(d) PROVE FALSE
  OBVIOUS
<1>1. d \in Dirs \ {Root} /\ under[d] = d
  BY DEF Children
<1>2. d \in AboveIn(under, d)
  BY Constants, AboveSelf
<1> QED
  BY <1>1, <1>2 DEF TreeInv, Tree

\* The invariant of the walk depends on the variables of the walk alone.
LEMMA WalkKept ==
  ASSUME WalkInv, UNCHANGED <<config, stack, walk, snap>>, pc' # "idle" => pc # "idle"
  PROVE  WalkInv'
  BY DEF WalkInv, TriedInv, PutOffInv, StartInv, Disjoint

\* An ended scan and one that is about to read the start.
LEMMA WalkFresh ==
  ASSUME walk' = EmptyWalk, snap' = EmptySnap, config'.start \in Dirs,
         \/ stack' = <<>> /\ pc' = "idle"
         \/ stack' = <<[chain |-> <<>>, dirs |-> {config'.start}]>>
  PROVE  WalkInv'
<1>1. /\ walk'.attempted = {} /\ walk'.pending = <<>> /\ DOMAIN walk'.pending = {}
      /\ snap'.E = {} /\ snap'.F = {} /\ snap'.X = {}
  BY DEF EmptyWalk, EmptySnap
<1>2. Held(stack') \subseteq {config'.start} /\ (pc' # "idle" => Held(stack') = {config'.start})
  BY DEF Held
<1>3. TriedInv' /\ PutOffInv'
  BY <1>1 DEF TriedInv, PutOffInv
<1>4. StartInv' /\ Disjoint'
  BY <1>1, <1>2 DEF StartInv, Disjoint
<1> QED
  BY <1>3, <1>4 DEF WalkInv

\* A directory on the stack was not tried before, and it is not in X.
LEMMA ReadsNew ==
  ASSUME Types, WalkInv, NEW d \in Dirs, Reads(d)
  PROVE  d \notin walk.attempted /\ d \notin snap.E /\ d \notin snap.X
<1>1. 1 \in DOMAIN stack /\ d \in stack[1].dirs /\ d \in Held(stack)
  BY ReadsTop
<1>2. d \notin walk.attempted /\ d \notin snap.E
  BY <1>1 DEF WalkInv, TriedInv
<1>3. d \notin snap.X
  BY <1>1 DEF WalkInv, StartInv, Disjoint
<1> QED
  BY <1>2, <1>3

\* Reading a directory keeps the invariant of the walk.
LEMMA WalkListDir ==
  ASSUME Types, TreeInv, WalkInv, NEW d \in Dirs, ListDir(d)
  PROVE  WalkInv'
<1>1. /\ d \notin walk.attempted /\ d \notin snap.E /\ d \notin snap.X
      /\ d \in Held(stack) /\ pc = "scan" /\ pc' = pc /\ config' = config /\ d \notin Children(d)
  BY ReadsNew, ReadsTop, NotOwnChild DEF ListDir, driveVars
<1>2. /\ walk'.attempted = walk.attempted \cup {d} /\ walk'.pending = walk.pending
      /\ snap'.E = snap.E \cup {d} /\ snap'.F = snap.F \ {d}
      /\ snap'.X = (snap.X \ {d}) \cup ((Children(d) \cap config.skip) \ (snap.E \cup snap.F))
      /\ Held(stack') \subseteq Entered(d) \cup Held(stack)
      /\ (Entered(d) \cup Held(stack)) \ (walk.attempted \cup {d}) \subseteq Held(stack')
      /\ 1 \in DOMAIN stack' => stack'[1].dirs \cap walk'.attempted = {}
  BY ListDirWalks
<1>3. TriedInv'
  BY <1>1, <1>2 DEF WalkInv, TriedInv
<1>4. PutOffInv'
  BY <1>1, <1>2 DEF WalkInv, PutOffInv
<1>5. Entered(d) \cap config.skip = {}
  BY DEF Entered
<1>6. StartInv'
  BY <1>1, <1>2, <1>5 DEF WalkInv, StartInv
<1>7. Disjoint'
  BY <1>1, <1>2 DEF WalkInv, Disjoint
<1> QED
  BY <1>3, <1>4, <1>6, <1>7 DEF WalkInv

\* A directory that could not be read keeps the invariant of the walk.
LEMMA WalkLost ==
  ASSUME Types, WalkInv, NEW d \in Dirs, ListDeferred(d) \/ (ListFails(d) /\ d # config.start)
  PROVE  WalkInv'
<1>1. /\ Reads(d) /\ pc' = pc /\ config' = config
      /\ walk'.attempted = walk.attempted \cup {d} /\ snap'.F = snap.F \cup {d}
      /\ snap'.E = snap.E /\ snap'.X = snap.X
      /\ Held(stack') \subseteq Held(stack)
      /\ Held(stack) \ (walk.attempted \cup {d}) \subseteq Held(stack')
      /\ 1 \in DOMAIN stack' => stack'[1].dirs \cap walk'.attempted = {}
  BY LostWalks DEF ListDeferred, ListFails, driveVars
<1>2. d \notin walk.attempted /\ d \notin snap.E /\ d \notin snap.X /\ d \in Held(stack)
  BY <1>1, ReadsNew, ReadsTop
<1>3. TriedInv'
  BY <1>1, <1>2 DEF WalkInv, TriedInv
<1>4. /\ \A i \in DOMAIN walk'.pending :
            \/ i \in DOMAIN walk.pending /\ walk'.pending[i] = walk.pending[i]
            \/ i \notin DOMAIN walk.pending /\ walk'.pending[i].dir = d
      /\ \A i, j \in DOMAIN walk'.pending :
            i \notin DOMAIN walk.pending /\ j \notin DOMAIN walk.pending => i = j
  BY LostWalks
<1>5. PutOffInv'
  <2>1. \A i \in DOMAIN walk.pending : walk.pending[i].dir \in walk.attempted \cap snap.F
    BY DEF WalkInv, PutOffInv
  <2>2. \A i \in DOMAIN walk'.pending : walk'.pending[i].dir \in walk'.attempted \cap snap'.F
    BY <1>1, <1>4, <2>1
  <2>3. ASSUME NEW i \in DOMAIN walk'.pending, NEW j \in DOMAIN walk'.pending,
               walk'.pending[i].dir = walk'.pending[j].dir
        PROVE  i = j
    <3>1. CASE walk'.pending[i].dir = d
      <4>1. i \notin DOMAIN walk.pending /\ j \notin DOMAIN walk.pending
        BY <1>2, <1>4, <2>1, <2>3, <3>1
      <4> QED
        BY <1>4, <4>1
    <3>2. CASE walk'.pending[i].dir # d
      BY <1>4, <2>3, <3>2 DEF WalkInv, PutOffInv
    <3> QED
      BY <3>1, <3>2
  <2> QED
    BY <2>2, <2>3 DEF PutOffInv
<1>6. StartInv'
  <2>1. \A i \in DOMAIN walk'.pending :
           walk'.pending[i].dir \in config.skip => walk'.pending[i].dir = config.start
    BY <1>2, <1>4 DEF WalkInv, StartInv
  <2> QED
    BY <1>1, <1>2, <2>1 DEF WalkInv, StartInv
<1>7. Disjoint'
  BY <1>1, <1>2 DEF WalkInv, Disjoint
<1> QED
  BY <1>3, <1>5, <1>6, <1>7 DEF WalkInv

\* The final pass keeps the invariant of the walk.
LEMMA WalkRetry == ASSUME Types, WalkInv, RetryNext PROVE WalkInv'
<1>1. /\ config' = config /\ snap' = snap /\ pc = "scan" /\ pc' = pc /\ Held(stack) = {}
  BY RetryWalks DEF RetryNext, driveVars
<1>2. /\ 1 \in DOMAIN walk.pending
      /\ walk'.attempted = walk.attempted \ {walk.pending[1].dir}
      /\ \A j \in DOMAIN walk'.pending :
            j + 1 \in DOMAIN walk.pending /\ j \in Nat \ {0} /\ walk'.pending[j] = walk.pending[j + 1]
      /\ Held(stack') = {walk.pending[1].dir}
      /\ \A j \in DOMAIN stack' : stack'[j].dirs = {walk.pending[1].dir}
  BY RetryWalks
<1> DEFINE p == walk.pending[1].dir
<1>3. p \in snap.F /\ p \in walk.attempted /\ p \notin snap.E
  BY <1>2 DEF WalkInv, PutOffInv, Disjoint
<1>4. TriedInv'
  BY <1>1, <1>2, <1>3 DEF WalkInv, TriedInv
<1>5. PutOffInv'
  <2>1. \A j \in DOMAIN walk'.pending : walk'.pending[j].dir # p
    BY <1>2 DEF WalkInv, PutOffInv
  <2>2. \A j \in DOMAIN walk'.pending : walk'.pending[j].dir \in walk'.attempted \cap snap'.F
    BY <1>1, <1>2, <2>1 DEF WalkInv, PutOffInv
  <2>3. ASSUME NEW i \in DOMAIN walk'.pending, NEW j \in DOMAIN walk'.pending,
               walk'.pending[i].dir = walk'.pending[j].dir
        PROVE  i = j
    <3>1. i + 1 = j + 1
      BY <1>2, <2>3 DEF WalkInv, PutOffInv
    <3> QED
      BY <1>2, <3>1
  <2> QED
    BY <2>2, <2>3 DEF PutOffInv
<1>6. StartInv'
  BY <1>1, <1>2, <1>3 DEF WalkInv, StartInv
<1>7. Disjoint'
  BY <1>1 DEF WalkInv, Disjoint
<1> QED
  BY <1>4, <1>5, <1>6, <1>7 DEF WalkInv

\* Every step keeps the invariant of the walk.
LEMMA WalkStep == ASSUME Types, TreeInv, PhaseInv, WalkInv, [Next]_vars PROVE WalkInv'
<1>1. config.start \in Dirs /\ config'.start \in Dirs
  <2>1. Types'
    BY StepTypes
  <2> QED
    BY <2>1, Constants DEF Types, DriveTypes
<1>2. ASSUME Configure PROVE WalkInv'
  <2>1. stack' = <<>> /\ walk' = EmptyWalk /\ snap' = EmptySnap /\ pc' = "idle"
    BY <1>2 DEF Configure, PhaseInv, walkVars
  <2> QED
    BY <1>1, <2>1, WalkFresh
<1>3. ASSUME StartScan PROVE WalkInv'
  <2>1. /\ stack' = <<[chain |-> <<>>, dirs |-> {config'.start}]>>
        /\ walk' = EmptyWalk /\ snap' = EmptySnap
    BY <1>3 DEF StartScan, PhaseInv, driveVars
  <2> QED
    BY <1>1, <2>1, WalkFresh
<1>4. ASSUME ScanEnds PROVE WalkInv'
  BY <1>1, <1>4, WalkFresh DEF ScanEnds
<1>5. ASSUME NEW d \in Dirs, ListFails(d), d = config.start PROVE WalkInv'
  BY <1>4, <1>5 DEF ListFails
<1>6. ASSUME FinishScan \/ StopScan PROVE WalkInv'
  BY <1>4, <1>6 DEF FinishScan, StopScan
<1>7. ASSUME \/ \E x \in (Dirs \cup Files) \ {Root}, d \in Dirs \cup {Nowhere} : Move(x, d)
             \/ \E f \in Files : Upload(f)
             \/ UNCHANGED vars
      PROVE  WalkInv'
  BY <1>7, WalkKept DEF Move, Upload, vars, driveVars, walkVars
<1>8. ASSUME \/ Reconcile \/ PolicyDone \/ RemoveExcluded \/ RecordPolicy \/ Evaluate
             \/ (\E d \in Dirs : Backfill(d)) \/ (\E f \in Files : DeleteStale(f))
      PROVE  WalkInv'
  <2>1. UNCHANGED <<config, stack, walk, snap>> /\ pc # "idle"
    BY <1>8 DEF Reconcile, PolicyDone, RemoveExcluded, RecordPolicy, Evaluate, Backfill, DeleteStale,
                Reconciled, Discovered, driveVars, walkVars
  <2> QED
    BY <2>1, WalkKept
<1> QED
  BY <1>2, <1>3, <1>5, <1>6, <1>7, <1>8, WalkListDir, WalkLost, WalkRetry DEF Next, Owner, Scan

\* The listings of a finished walk: every directory it tried is in E or in F.
LEMMA TypeHolds == ASSUME Types, WalkInv PROVE TypeOK
<1>1. \A f \in Files : HasRow(f) => rows[f].parent \in Dirs /\ rows[f].chain \in Seq(Dirs)
  BY DEF Types, CatalogTypes, HasRow, Rows
<1>2. Discovered => walk.attempted = snap.E \cup snap.F
  BY HeldNone DEF Discovered, WalkInv, TriedInv
<1> QED
  BY <1>1, <1>2 DEF TypeOK, Types, DriveTypes, CatalogTypes, WalkTypes, WalkInv, Disjoint, Places

-----------------------------------------------------------------------------
(* Deletions.                                                              *)

\* The counter of misses never runs ahead of the scans that missed the row.
CountInv ==
    \A f \in Files : misses[f] <= unseen[f] /\ (~HasRow(f) => misses[f] = 0)

\* What is known of a file whose row is about to be deleted.
DoomedInv ==
    \A f \in doomed :
       /\ f \notin snap.seen /\ HasRow(f) /\ Eligible(rows[f])
       /\ Authoritative \/ unseen[f] = 2

\* Every step keeps the counters behind the scans.
LEMMA CountStep == ASSUME Types, CountInv, [Next]_vars PROVE CountInv'
<1>0. /\ rows \in [Files -> {Absent} \cup Rows] /\ misses \in [Files -> 0 .. 2]
      /\ unseen \in [Files -> 0 .. 2]
  BY DEF Types, CatalogTypes, HistoryTypes
<1>1. ASSUME UNCHANGED <<rows, misses, unseen>> PROVE CountInv'
  BY <1>1 DEF CountInv, HasRow
<1>2. ASSUME NEW gone \in SUBSET Files, DeleteRows(gone) PROVE CountInv'
  <2>1. \A f \in Files : /\ rows'[f] = IF f \in gone THEN Absent ELSE rows[f]
                         /\ misses'[f] = IF f \in gone THEN 0 ELSE misses[f]
                         /\ unseen'[f] = IF f \in gone THEN 0 ELSE unseen[f]
    BY <1>2 DEF DeleteRows
  <2> QED
    BY <1>0, <2>1 DEF CountInv, HasRow
<1>3. ASSUME NEW f \in Files, Upload(f) PROVE CountInv'
  <2>1. /\ ~HasRow(f) /\ misses' = misses /\ unseen' = [unseen EXCEPT ![f] = 0]
        /\ \A g \in Files \ {f} : rows'[g] = rows[g]
    BY <1>0, <1>3 DEF Upload
  <2> QED
    BY <1>0, <2>1 DEF CountInv, HasRow
<1>4. ASSUME Reconcile PROVE CountInv'
  <2> DEFINE f == Head(found).file
             row == RowAt(Head(found).chain)
  <2>1. f \in Files /\ row \in Rows /\ misses' = misses
    BY <1>4, ReconcileServes DEF Reconcile
  <2>2. \/ UNCHANGED <<rows, unseen>>
        \/ /\ rows' = [rows EXCEPT ![f] = row]
           /\ unseen' = [unseen EXCEPT ![f] = IF HasRow(f) THEN @ ELSE 0]
    BY <1>4 DEF Reconcile, history
  <2> HIDE DEF f, row
  <2>3. CASE UNCHANGED <<rows, unseen>>
    BY <1>1, <2>1, <2>3
  <2>4. CASE /\ rows' = [rows EXCEPT ![f] = row]
             /\ unseen' = [unseen EXCEPT ![f] = IF HasRow(f) THEN @ ELSE 0]
    <3>1. \A g \in Files \ {f} : rows'[g] = rows[g] /\ unseen'[g] = unseen[g]
      BY <1>0, <2>4
    <3>2. rows'[f] = row /\ unseen'[f] = IF HasRow(f) THEN unseen[f] ELSE 0
      BY <1>0, <2>1, <2>4
    <3>3. row # Absent
      BY <2>1, AbsentIsNoRow
    <3> QED
      BY <1>0, <2>1, <3>1, <3>2, <3>3 DEF CountInv, HasRow
  <2> QED
    BY <2>2, <2>3, <2>4
<1>5. ASSUME Evaluate PROVE CountInv'
  <2> SUFFICES ASSUME NEW f \in Files PROVE misses'[f] <= unseen'[f] /\ (~HasRow(f) => misses'[f] = 0)
    BY <1>5 DEF CountInv, Evaluate, HasRow
  <2>1. misses[f] \in 0 .. 2 /\ unseen[f] \in 0 .. 2 /\ misses[f] <= unseen[f]
    BY <1>0 DEF CountInv
  <2>2. CASE f \in snap.seen \/ ~HasRow(f)
    <3>1. f \notin Missing
      BY <2>2 DEF Missing
    <3>2. misses'[f] = 0 /\ unseen'[f] = 0
      BY <1>5, <2>2, <3>1 DEF Evaluate
    <3> QED
      BY <3>2
  <2>3. CASE ~ (f \in snap.seen \/ ~HasRow(f)) /\ f \in Missing
    <3>1. /\ misses'[f] = IF Authoritative THEN 0 ELSE AtMost2(misses[f] + 1)
          /\ unseen'[f] = AtMost2(unseen[f] + 1)
      BY <1>5, <2>3 DEF Evaluate
    <3> QED
      BY <2>1, <2>3, <3>1 DEF AtMost2
  <2>4. CASE ~ (f \in snap.seen \/ ~HasRow(f)) /\ f \notin Missing
    BY <1>5, <2>1, <2>4 DEF Evaluate
  <2> QED
    BY <2>2, <2>3, <2>4
<1>6. ASSUME RemoveExcluded \/ (\E d \in Dirs : Backfill(d)) \/ (\E f \in Files : DeleteStale(f))
      PROVE  \E gone \in SUBSET Files : DeleteRows(gone)
  BY <1>6 DEF RemoveExcluded, Excluded, Backfill, DeleteStale
<1>7. ASSUME \/ \E x \in (Dirs \cup Files) \ {Root}, d \in Dirs \cup {Nowhere} : Move(x, d)
             \/ Configure \/ StartScan \/ RetryNext \/ PolicyDone \/ RecordPolicy
             \/ (\E d \in Dirs : ListDir(d) \/ ListDeferred(d) \/ ListFails(d))
             \/ FinishScan \/ StopScan \/ UNCHANGED vars
      PROVE  UNCHANGED <<rows, misses, unseen>>
  BY <1>7 DEF Move, Configure, StartScan, ListDir, ListDeferred, ListFails, RetryNext, PolicyDone,
              RecordPolicy, FinishScan, StopScan, vars, catalogVars, history
<1> QED
  BY <1>1, <1>2, <1>3, <1>4, <1>5, <1>6, <1>7 DEF Next, Owner, Scan

\* Every step keeps the doomed rows missed.
LEMMA DoomedStep ==
  ASSUME Types, PhaseInv, CountInv, DoomedInv, [Next]_vars
  PROVE  DoomedInv'
<1>0. /\ rows \in [Files -> {Absent} \cup Rows] /\ misses \in [Files -> 0 .. 2]
      /\ unseen \in [Files -> 0 .. 2] /\ doomed \in SUBSET Files
  BY DEF Types, CatalogTypes, HistoryTypes, CleanupTypes
<1>1. ASSUME doomed' = {} PROVE DoomedInv'
  BY <1>1 DEF DoomedInv
\* Apart from the rows and counters of the doomed files themselves, what is
\* said of them depends on the snapshot, the backfill and the start.
<1>2. ASSUME doomed' \subseteq doomed, UNCHANGED <<config, snap, backfill>>,
             \A f \in doomed' : rows'[f] = rows[f] /\ unseen'[f] = unseen[f]
      PROVE  DoomedInv'
  <2>1. Authoritative' = Authoritative
    BY <1>2 DEF Authoritative
  <2>2. \A row : Eligible(row)' = Eligible(row)
    BY <1>2, <2>1 DEF Eligible, UnlocatedEligible, Effective
  <2> QED
    BY <1>2, <2>1, <2>2 DEF DoomedInv, HasRow
<1>3. ASSUME NEW f \in Files, DeleteStale(f) PROVE DoomedInv'
  <2>1. /\ doomed' = doomed \ {f} /\ UNCHANGED <<config, snap, backfill>>
        /\ DeleteRows({f})
    BY <1>3 DEF DeleteStale, driveVars, walkVars
  <2>2. \A g \in Files \ {f} : rows'[g] = rows[g] /\ unseen'[g] = unseen[g]
    BY <1>0, <2>1 DEF DeleteRows
  <2> QED
    BY <1>0, <1>2, <2>1, <2>2
<1>4. ASSUME NEW f \in Files, Upload(f) PROVE DoomedInv'
  <2>1. /\ ~HasRow(f) /\ doomed' = doomed /\ UNCHANGED <<config, snap, backfill>>
    BY <1>4 DEF Upload, walkVars, cleanVars
  <2>2. f \notin doomed
    BY <2>1 DEF DoomedInv
  <2>3. \A g \in Files \ {f} : rows'[g] = rows[g] /\ unseen'[g] = unseen[g]
    BY <1>0, <1>4 DEF Upload
  <2> QED
    BY <1>0, <1>2, <2>1, <2>2, <2>3
<1>5. ASSUME Evaluate PROVE DoomedInv'
  <2>1. UNCHANGED <<config, rows, snap, backfill>>
    BY <1>5 DEF Evaluate, driveVars, walkVars
  <2>2. Authoritative' = Authoritative
    BY <2>1 DEF Authoritative
  <2>3. \A row : Eligible(row)' = Eligible(row)
    BY <2>1, <2>2 DEF Eligible, UnlocatedEligible, Effective
  <2>4. ASSUME NEW f \in doomed'
        PROVE  f \notin snap.seen /\ HasRow(f) /\ Eligible(rows[f]) /\ (Authoritative \/ unseen'[f] = 2)
    <3>1. f \in Missing /\ (Authoritative \/ misses'[f] >= 2)
      BY <1>5, <2>4 DEF Evaluate
    <3>2. f \in Files /\ f \notin snap.seen /\ HasRow(f) /\ Eligible(rows[f])
      BY <3>1 DEF Missing
    <3>3. ASSUME ~Authoritative PROVE unseen'[f] = 2
      <4>1. misses'[f] = AtMost2(misses[f] + 1) /\ unseen'[f] = AtMost2(unseen[f] + 1)
        BY <1>5, <3>1, <3>2, <3>3 DEF Evaluate
      <4>2. misses[f] \in 0 .. 2 /\ unseen[f] \in 0 .. 2 /\ misses[f] <= unseen[f] /\ misses'[f] >= 2
        BY <1>0, <3>1, <3>2, <3>3 DEF CountInv
      <4> QED
        BY <4>1, <4>2 DEF AtMost2
    <3> QED
      BY <3>2, <3>3
  <2> QED
    BY <2>1, <2>2, <2>3, <2>4 DEF DoomedInv, HasRow
<1>6. ASSUME \/ \E x \in (Dirs \cup Files) \ {Root}, d \in Dirs \cup {Nowhere} : Move(x, d)
             \/ UNCHANGED vars
      PROVE  DoomedInv'
  <2>1. UNCHANGED <<config, rows, snap, backfill, doomed, unseen>>
    BY <1>6 DEF Move, vars, driveVars, catalogVars, walkVars, cleanVars, history
  <2> QED
    BY <1>2, <2>1
<1>7. ASSUME ScanEnds PROVE DoomedInv'
  BY <1>1, <1>7 DEF ScanEnds
<1>8. ASSUME NEW d \in Dirs, ListFails(d) PROVE DoomedInv'
  <2>1. ScanEnds \/ (doomed' = doomed /\ pc = "scan")
    BY <1>8 DEF ListFails, Reads, cleanVars
  <2> QED
    BY <1>1, <1>7, <2>1 DEF PhaseInv
<1>9. ASSUME FinishScan \/ StopScan PROVE DoomedInv'
  BY <1>7, <1>9 DEF FinishScan, StopScan
<1>10. ASSUME \/ Configure \/ StartScan \/ RetryNext \/ Reconcile \/ PolicyDone \/ RemoveExcluded
              \/ RecordPolicy \/ (\E d \in Dirs : ListDir(d) \/ ListDeferred(d) \/ Backfill(d))
       PROVE  DoomedInv'
  <2>1. pc # "delete" /\ doomed' = doomed
    BY <1>10 DEF Configure, StartScan, RetryNext, Reconcile, PolicyDone, RemoveExcluded, RecordPolicy,
                 ListDir, ListDeferred, Backfill, Reads, Reconciled, Discovered, cleanVars
  <2> QED
    BY <1>1, <2>1 DEF PhaseInv
<1> QED
  BY <1>3, <1>4, <1>5, <1>6, <1>8, <1>9, <1>10 DEF Next, Owner, Scan

\* Rows disappear in the last phase only when their files are doomed.
LEMMA DeletesDoomed ==
  ASSUME Types, [Next]_vars, NEW f \in Files, pc = "delete", HasRow(f), rows'[f] = Absent
  PROVE  f \in doomed /\ under' = under
<1>0. rows \in [Files -> {Absent} \cup Rows]
  BY DEF Types, CatalogTypes
<1>1. rows' # rows
  BY DEF HasRow
<1>2. ASSUME NEW g \in Files, Upload(g) PROVE FALSE
  <2>1. PICK d \in Dirs : rows' = [rows EXCEPT ![g] = [parent |-> d, chain |-> NoChain]]
    BY <1>2 DEF Upload
  <2>2. [parent |-> d, chain |-> NoChain] # Absent
    BY Constants DEF Absent
  <2> QED
    BY <1>0, <2>1, <2>2 DEF HasRow
<1>3. ASSUME NEW g \in Files, DeleteStale(g) PROVE f \in doomed /\ under' = under
  <2>1. f = g
    BY <1>0, <1>3 DEF DeleteStale, DeleteRows, HasRow
  <2> QED
    BY <1>3, <2>1 DEF DeleteStale, driveVars
<1>4. ASSUME \/ \E x \in (Dirs \cup Files) \ {Root}, d \in Dirs \cup {Nowhere} : Move(x, d)
             \/ Configure \/ StartScan \/ RetryNext \/ Reconcile \/ PolicyDone \/ RemoveExcluded
             \/ RecordPolicy \/ Evaluate \/ FinishScan \/ StopScan \/ UNCHANGED vars
             \/ (\E d \in Dirs : ListDir(d) \/ ListDeferred(d) \/ ListFails(d) \/ Backfill(d))
      PROVE  FALSE
  BY <1>1, <1>4 DEF Move, Configure, StartScan, RetryNext, Reconcile, PolicyDone, RemoveExcluded,
          RecordPolicy, Evaluate, FinishScan, StopScan, vars, ListDir, ListDeferred, ListFails, Backfill,
          Reads, Reconciled, Discovered, catalogVars
<1> QED
  BY <1>2, <1>3, <1>4 DEF Next, Owner, Scan

-----------------------------------------------------------------------------
(* What a walk knows of files that have not changed place.                 *)

\* A file whose directory was read was seen, and below a directory that was
\* read every directory on the way to the file has been read, has failed, is
\* excluded, or waits on the stack.
KeptAt(f) ==
    /\ under[f] \in snap.E => f \in snap.seen
    /\ \A n \in AboveIn(under, under[f]) \ {Root, Nowhere} :
          under[n] \in snap.E => n \in snap.E \cup snap.F \cup snap.X \cup Held(stack)

\* An upload beside a scan may put a file where the scan has been; it counts
\* as a change of the drive.
KeptInv == pc # "idle" /\ (Uploads => clean) => \A f \in Files \ left : KeptAt(f)

\* A move that leaves a file at its place leaves the directories above it.
LEMMA MoveKeeps ==
  ASSUME Types, NEW x \in (Dirs \cup Files) \ {Root}, NEW d \in Dirs \cup {Nowhere}, Move(x, d),
         NEW f \in Files, f # x, x \notin Above(under[f])
  PROVE  /\ under'[f] = under[f]
         /\ AboveIn(under', under[f]) = AboveIn(under, under[f])
         /\ \A n \in AboveIn(under, under[f]) \ {Root, Nowhere} : under'[n] = under[n]
<1>1. under \in [(Dirs \cup Files) \ {Root} -> Places] /\ d \in Places
      /\ under' = [under EXCEPT ![x] = d]
  BY DEF Types, DriveTypes, Move, Places
<1>2. \A y \in ((Dirs \cup Files) \ {Root}) \ {x} : under'[y] = under[y]
  BY <1>1
<1>3. ParentsIn(under) /\ ParentsIn(under')
  BY <1>1 DEF ParentsIn
<1>4. under'[f] = under[f] /\ under[f] \in Places
  BY <1>1, <1>2, Constants
<1>5. \A n \in AboveIn(under, under[f]) \ {Root, Nowhere} : under'[n] = under[n]
  <2> TAKE n \in AboveIn(under, under[f]) \ {Root, Nowhere}
  <2>1. n \in Dirs \ {Root} /\ n # x
    BY AboveHere DEF AboveIn, Places
  <2> QED
    BY <1>2, <2>1
<1>6. AboveIn(under', under[f]) = AboveIn(under, under[f])
  BY <1>3, <1>4, <1>5, AboveKept
<1> QED
  BY <1>4, <1>5, <1>6

\* Reading a directory keeps what is known of files that stayed.
LEMMA KeptListDir ==
  ASSUME Types, WalkInv, NEW d \in Dirs, ListDir(d), NEW f \in Files, KeptAt(f)
  PROVE  KeptAt(f)'
<1>1. /\ under' = under
      /\ snap'.E = snap.E \cup {d} /\ snap'.F = snap.F \ {d}
      /\ snap'.X = (snap.X \ {d}) \cup ((Children(d) \cap config.skip) \ (snap.E \cup snap.F))
      /\ snap'.seen = snap.seen \cup (Children(d) \cap Files)
      /\ (Entered(d) \cup Held(stack)) \ (walk.attempted \cup {d}) \subseteq Held(stack')
  BY ListDirWalks DEF ListDir, driveVars
<1>2. walk.attempted \subseteq snap.E \cup snap.F
  BY DEF WalkInv, TriedInv
<1>3. under[f] = d => f \in Children(d) \cap Files
  BY Constants DEF Children
<1>4. under[f] \in snap'.E => f \in snap'.seen
  BY <1>1, <1>3 DEF KeptAt
<1>5. ASSUME NEW n \in AboveIn(under, under[f]) \ {Root, Nowhere}, under[n] \in snap'.E
      PROVE  n \in snap'.E \cup snap'.F \cup snap'.X \cup Held(stack')
  <2>1. CASE under[n] \in snap.E
    BY <1>1, <1>2, <1>5, <2>1 DEF KeptAt
  <2>2. CASE under[n] = d
    <3>1. n \in Dirs \ {Root}
      BY <1>5 DEF AboveIn, Places
    <3>2. n \in Children(d) \cap Dirs
      BY <2>2, <3>1 DEF Children
    <3>3. n \in Entered(d) \/ n \in Children(d) \cap config.skip
      BY <3>2 DEF Entered
    <3> QED
      BY <1>1, <1>2, <3>3
  <2> QED
    BY <1>1, <1>5, <2>1, <2>2
<1>6. KeptAt(f)' <=> /\ under'[f] \in snap'.E => f \in snap'.seen
                     /\ \A n \in AboveIn(under', under'[f]) \ {Root, Nowhere} :
                           under'[n] \in snap'.E => n \in snap'.E \cup snap'.F \cup snap'.X \cup Held(stack')
  BY DEF KeptAt
<1> QED
  BY <1>1, <1>4, <1>5, <1>6

\* Steps of the walk that read nothing new.
LEMMA KeptOther ==
  ASSUME NEW f \in Files, KeptAt(f), under' = under, snap'.E = snap.E, snap'.X = snap.X,
         snap.seen \subseteq snap'.seen, snap.F \subseteq snap'.F,
         Held(stack) \subseteq Held(stack') \cup snap'.E \cup snap'.F
  PROVE  KeptAt(f)'
<1>1. KeptAt(f)' <=> /\ under'[f] \in snap'.E => f \in snap'.seen
                     /\ \A n \in AboveIn(under', under'[f]) \ {Root, Nowhere} :
                           under'[n] \in snap'.E => n \in snap'.E \cup snap'.F \cup snap'.X \cup Held(stack')
  BY DEF KeptAt
<1> QED
  BY <1>1 DEF KeptAt

\* Every step keeps what is known of files that stayed.
LEMMA KeptStep ==
  ASSUME Types, PhaseInv, WalkInv, KeptInv, [Next]_vars
  PROVE  KeptInv'
<1> SUFFICES ASSUME pc' # "idle", Uploads => clean', NEW f \in Files \ left' PROVE KeptAt(f)'
  BY DEF KeptInv
<1>1. ASSUME pc # "idle", Uploads => clean, f \notin left PROVE KeptAt(f)
  BY <1>1 DEF KeptInv
<1>2. ASSUME NEW x \in (Dirs \cup Files) \ {Root}, NEW d \in Dirs \cup {Nowhere}, Move(x, d)
      PROVE  KeptAt(f)'
  <2>1. /\ pc # "idle" /\ ~Uploads /\ UNCHANGED <<snap, stack>>
        /\ left' = left \cup {g \in Files : g = x \/ x \in Above(under[g])}
    BY <1>2 DEF Move, walkVars
  <2>2. f \notin left /\ f # x /\ x \notin Above(under[f])
    BY <2>1
  <2>3. /\ under'[f] = under[f]
        /\ AboveIn(under', under[f]) = AboveIn(under, under[f])
        /\ \A n \in AboveIn(under, under[f]) \ {Root, Nowhere} : under'[n] = under[n]
    BY <1>2, <2>2, MoveKeeps
  <2>4. KeptAt(f)
    BY <1>1, <2>1, <2>2
  <2>5. KeptAt(f)' <=> /\ under'[f] \in snap'.E => f \in snap'.seen
                       /\ \A n \in AboveIn(under', under'[f]) \ {Root, Nowhere} :
                             under'[n] \in snap'.E => n \in snap'.E \cup snap'.F \cup snap'.X \cup Held(stack')
    BY DEF KeptAt
  <2> QED
    BY <2>1, <2>3, <2>4, <2>5 DEF KeptAt, Held
<1>3. ASSUME NEW g \in Files, Upload(g) PROVE FALSE
  BY <1>3 DEF Upload
<1>4. ASSUME StartScan PROVE KeptAt(f)'
  <2>1. snap'.E = {}
    BY <1>4 DEF StartScan, PhaseInv, EmptySnap
  <2> QED
    BY <2>1 DEF KeptAt
<1>5. ASSUME NEW d \in Dirs, ListDir(d) PROVE KeptAt(f)'
  <2>1. pc # "idle" /\ clean' = clean /\ left' = left
    BY <1>5 DEF ListDir, Reads
  <2> QED
    BY <1>1, <1>5, <2>1, KeptListDir
<1>6. ASSUME NEW d \in Dirs, ListDeferred(d) \/ (ListFails(d) /\ d # config.start) PROVE KeptAt(f)'
  <2>1. /\ pc # "idle" /\ clean' = FALSE /\ left' = left /\ under' = under
    BY <1>6 DEF ListDeferred, ListFails, Reads, Fault, driveVars
  <2>2. /\ walk'.attempted = walk.attempted \cup {d} /\ snap'.F = snap.F \cup {d}
        /\ snap'.E = snap.E /\ snap'.X = snap.X /\ snap'.seen = snap.seen
        /\ Held(stack) \ (walk.attempted \cup {d}) \subseteq Held(stack')
    BY <1>6, LostWalks
  <2>3. walk.attempted \subseteq snap.E \cup snap.F
    BY DEF WalkInv, TriedInv
  <2>4. Held(stack) \subseteq Held(stack') \cup snap'.E \cup snap'.F
    BY <2>2, <2>3
  <2> QED
    BY <1>1, <2>1, <2>2, <2>4, KeptOther
<1>7. ASSUME RetryNext PROVE KeptAt(f)'
  <2>1. /\ pc # "idle" /\ clean' = clean /\ left' = left /\ under' = under /\ snap' = snap
        /\ Held(stack) = {}
    BY <1>7, RetryWalks DEF RetryNext, driveVars
  <2> QED
    BY <1>1, <2>1, KeptOther
<1>8. ASSUME \/ Reconcile \/ PolicyDone \/ RemoveExcluded \/ RecordPolicy \/ Evaluate
             \/ (\E d \in Dirs : Backfill(d)) \/ (\E g \in Files : DeleteStale(g))
      PROVE  KeptAt(f)'
  <2>1. /\ pc # "idle" /\ left' = left /\ under' = under /\ snap' = snap /\ stack' = stack
        /\ clean' = clean \/ clean' = FALSE
    BY <1>8 DEF Reconcile, PolicyDone, RemoveExcluded, RecordPolicy, Evaluate, Backfill, DeleteStale,
                Reconciled, Discovered, Fault, NoFault, driveVars, walkVars
  <2> QED
    BY <1>1, <2>1, KeptOther
<1>9. ASSUME UNCHANGED vars PROVE KeptAt(f)'
  <2>1. /\ pc # "idle" /\ left' = left /\ under' = under /\ snap' = snap /\ stack' = stack
        /\ clean' = clean
    BY <1>9 DEF vars, driveVars, walkVars
  <2> QED
    BY <1>1, <2>1, KeptOther
<1>10. ASSUME \/ Configure \/ FinishScan \/ StopScan \/ (\E d \in Dirs : ListFails(d) /\ d = config.start)
       PROVE  FALSE
  BY <1>10 DEF Configure, FinishScan, StopScan, ListFails, ScanEnds
<1> QED
  BY <1>2, <1>3, <1>4, <1>5, <1>6, <1>7, <1>8, <1>9, <1>10 DEF Next, Owner, Scan

\* A chain that locates a file consists of directories above it.
LEMMA ChainAbove ==
  ASSUME Types, NEW f \in Files, NEW chain \in Seq(Dirs), Locates(chain, f)
  PROVE  \A i \in DOMAIN chain : chain[i] \in AboveIn(under, under[f])
<1> DEFINE A == AboveIn(under, under[f])
           n == Len(chain)
           T == {k \in Nat : k < n /\ chain[n - k] \notin A}
<1>1. /\ n \in Nat /\ DOMAIN chain = 1 .. n /\ chain[n] = under[f]
      /\ \A i \in 2 .. n : chain[i] \in Children(chain[i - 1])
      /\ \A i \in 1 .. n : chain[i] \in Dirs
  BY LenProperties, ElementOfSeq DEF Locates, Last
<1>2. under[f] \in Places /\ under[f] \in A /\ ParentsIn(under)
  BY Constants, AboveSelf DEF Types, DriveTypes, ParentsIn
<1> HIDE DEF n
<1>3. T = {}
  <2> SUFFICES ASSUME T # {} PROVE FALSE
    OBVIOUS
  <2>1. PICK k \in T : \A j \in T : k <= j
    <3>1. T \in SUBSET Nat
      OBVIOUS
    <3> HIDE DEF T
    <3> QED
      BY <3>1, LeastNat
  <2>2. k \in Nat /\ k < n /\ chain[n - k] \notin A
    BY <2>1
  <2>3. k # 0
    BY <1>1, <1>2, <2>2
  <2>4. k - 1 \in Nat /\ k - 1 < n /\ k - 1 \notin T
    <3>1. k - 1 \in Nat /\ k - 1 < n /\ ~ (k <= k - 1)
      BY <1>1, <2>2, <2>3
    <3> HIDE DEF T
    <3> QED
      BY <2>1, <3>1
  <2>5. n - (k - 1) = n - k + 1 /\ n - k + 1 \in 2 .. n /\ (n - k + 1) - 1 = n - k
    BY <1>1, <2>2, <2>3
  <2>6. chain[n - k + 1] \in A
    BY <2>4, <2>5
  <2>7. chain[n - k + 1] \in Children(chain[n - k])
    BY <1>1, <2>5
  <2>8. under[chain[n - k + 1]] = chain[n - k] /\ chain[n - k + 1] \notin {Root, Nowhere}
    BY <1>1, <2>5, <2>7, Constants DEF Children
  <2>9. chain[n - k] \in A
    BY <1>2, <2>6, <2>8, AboveUp
  <2> QED
    BY <2>2, <2>9
<1>4. ASSUME NEW i \in DOMAIN chain PROVE chain[i] \in A
  <2>1. n - i \in Nat /\ n - i < n /\ n - (n - i) = i
    BY <1>1
  <2> QED
    BY <1>3, <2>1
<1> QED
  BY <1>4

\* A scan that read everything it entered has come to every directory of the
\* configured part that is still where it was.
LEMMA FullyRead ==
  ASSUME Types, WalkInv, NEW f \in Files, KeptAt(f), stack = <<>>, Authoritative, InScope(f)
  PROVE  under[f] \in snap.E /\ f \in snap.seen
<1> DEFINE A == AboveIn(under, under[f])
           start == config.start
           S == {x \in A : start \in AboveIn(under, x) => x \notin snap.E}
<1>1. /\ under[f] \in Places /\ under[f] \in A /\ ParentsIn(under) /\ start \in Dirs
      /\ A \in SUBSET Places
  BY Constants, AboveSelf DEF Types, DriveTypes, ParentsIn
<1>2. /\ start \in A
      /\ \A e \in A \ {start} : start \in AboveIn(under, e) => e \notin config.skip
  BY AboveHere DEF InScope, Covered, Inside
<1>3. snap.F = {} /\ start \in snap.E /\ Held(stack) = {} /\ snap.X \subseteq config.skip
  BY HeldNone DEF Authoritative, WalkInv, StartInv
<1>4. under[f] \in snap.E
  <2> SUFFICES ASSUME under[f] \notin snap.E PROVE FALSE
    OBVIOUS
  <2>1. under[f] \in S /\ S \in SUBSET Places
    BY <1>1
  <2>2. \A e \in S \ {Root, Nowhere} : under[e] \in S
    <3> SUFFICES ASSUME NEW e \in A \ {Root, Nowhere}, start \in AboveIn(under, e) => e \notin snap.E,
                        start \in AboveIn(under, under[e]), under[e] \in snap.E
                 PROVE  FALSE
      BY <1>1, AboveUp
    <3>1. e \in Dirs \ {Root}
      BY DEF AboveIn, Places
    <3>2. start \in AboveIn(under, e)
      BY <1>1, <3>1, AboveStep
    <3>3. e # start /\ e \notin config.skip
      BY <1>2, <1>3, <3>2
    <3>4. e \in snap.E
      BY <1>3, <3>3 DEF KeptAt
    <3> QED
      BY <3>2, <3>4
  <2>3. A \subseteq S
    <3> HIDE DEF S
    <3> QED
      BY <2>1, <2>2, AboveLeast
  <2>4. start \in AboveIn(under, start)
    BY <1>1, Constants, AboveSelf
  <2> QED
    BY <1>2, <1>3, <2>3, <2>4
<1> QED
  BY <1>4 DEF KeptAt

\* After a scan that did not, a missing file is not where its row says.
LEMMA PartlyRead ==
  ASSUME Types, NEW f \in Files, KeptAt(f), stack = <<>>, f \notin snap.seen,
         NEW row \in Rows, Eligible(row), ~Authoritative
  PROVE  ~Locates(Effective(row), f) /\ Effective(row) # <<under[f]>>
<1> DEFINE chain == Effective(row)
           unread == {i \in DOMAIN chain : chain[i] \notin snap.E}
           first == CHOOSE i \in unread : \A j \in unread : i <= j
<1>1. chain \in Seq(Dirs) /\ Len(chain) \in Nat /\ DOMAIN chain = 1 .. Len(chain)
  <2>1. chain \in Seq(Dirs)
    BY DEF Effective, Rows
  <2> HIDE DEF chain
  <2> QED
    BY <2>1, LenProperties
<1>2. under[f] \notin snap.E
  BY DEF KeptAt
<1>3. \/ unread = {}
      \/ /\ unread # {} /\ chain[first] \notin snap.F \cup snap.X
         /\ first = 1 => UnlocatedEligible
  BY DEF Eligible
<1> HIDE DEF chain
<1>4. chain # <<>> /\ Last(chain) = under[f] => unread # {}
  <2> SUFFICES ASSUME chain # <<>>, Last(chain) = under[f] PROVE unread # {}
    OBVIOUS
  <2>1. Len(chain) \in DOMAIN chain
    BY <1>1, EmptySeq
  <2> QED
    BY <1>2, <2>1 DEF Last
<1>5. ASSUME unread # {}
      PROVE  first \in 2 .. Len(chain) /\ chain[first] \notin snap.E /\ chain[first - 1] \in snap.E
  <2>1. unread \in SUBSET Nat
    BY <1>1
  <2>2. first \in unread /\ \A j \in unread : first <= j
    <3> HIDE DEF unread
    <3>1. \E i \in unread : \A j \in unread : i <= j
      BY <1>5, <2>1, LeastNat
    <3> QED
      BY <3>1
  <2>3. first # 1
    BY <1>3, <1>5 DEF UnlocatedEligible
  <2> HIDE DEF first
  <2>4. first \in 2 .. Len(chain) /\ chain[first] \notin snap.E
    BY <1>1, <2>2, <2>3
  <2>5. first - 1 \in DOMAIN chain /\ ~ (first <= first - 1)
    BY <1>1, <2>4
  <2> QED
    BY <2>2, <2>4, <2>5
<1>6. ASSUME Locates(chain, f) PROVE FALSE
  <2>1. /\ chain # <<>> /\ Last(chain) = under[f]
        /\ \A i \in 2 .. Len(chain) : chain[i] \in Children(chain[i - 1])
        /\ \A i \in DOMAIN chain : chain[i] \in AboveIn(under, under[f])
    BY <1>1, <1>6, ChainAbove DEF Locates
  <2>2. first \in 2 .. Len(chain) /\ chain[first] \notin snap.E /\ chain[first - 1] \in snap.E
    BY <1>4, <1>5, <2>1
  <2> HIDE DEF first
  <2>3. chain[first] \in Children(chain[first - 1]) /\ chain[first] \in AboveIn(under, under[f])
    BY <1>1, <2>1, <2>2
  <2>4. chain[first] \in Dirs
    <3>1. first \in 1 .. Len(chain)
      BY <1>1, <2>2
    <3> QED
      BY <1>1, <3>1, ElementOfSeq
  <2>5. under[chain[first]] \in snap.E /\ chain[first] \notin {Root, Nowhere}
    BY <2>2, <2>3, <2>4, Constants DEF Children
  <2>6. chain[first] \in snap.E \cup snap.F \cup snap.X \cup Held(stack)
    BY <2>3, <2>5 DEF KeptAt
  <2> QED
    BY <1>3, <1>4, <2>1, <2>2, <2>6, HeldNone DEF first
<1>7. ASSUME chain = <<under[f]>> PROVE FALSE
  <2>1. Len(chain) = 1 /\ chain # <<>> /\ Last(chain) = under[f]
    BY <1>7 DEF Last
  <2>2. first \in 2 .. Len(chain)
    BY <1>4, <1>5, <2>1
  <2> QED
    BY <2>1, <2>2
<1> QED
  BY <1>6, <1>7 DEF chain

-----------------------------------------------------------------------------
(* The theorems.                                                           *)

\* The inductive invariant of the scan.
ScanInv == Types /\ TreeInv /\ PhaseInv /\ WalkInv /\ CountInv /\ DoomedInv /\ KeptInv

\* The directories of the drive are connected to its root: no cycles.
LEMMA InitTree == ASSUME Types, \A d \in Dirs : OnDrive(d) PROVE TreeInv
<1>1. ParentsIn(under)
  BY Constants DEF Types, DriveTypes, ParentsIn
<1> SUFFICES ASSUME NEW x \in Dirs \ {Root}, x \in AboveIn(under, under[x]) PROVE FALSE
  BY <1>1 DEF TreeInv, Tree
<1> DEFINE S == {y \in AboveIn(under, x) : x \in AboveIn(under, y)}
<1>2. x \in S /\ S \in SUBSET Places
  BY Constants, AboveSelf
<1>3. \A y \in S \ {Root, Nowhere} : under[y] \in S
  <2> SUFFICES ASSUME NEW y \in S \ {Root, Nowhere} PROVE under[y] \in S
    OBVIOUS
  <2>1. y \in Dirs \ {Root} /\ under[y] \in AboveIn(under, x)
    BY <1>1, AboveUp DEF AboveIn, Places
  <2>2. AboveIn(under, y) = {y} \cup AboveIn(under, under[y])
    BY <1>1, <2>1, AboveStep
  <2> QED
    BY <2>1, <2>2
<1>4. AboveIn(under, x) \subseteq S
  <2> HIDE DEF S
  <2> QED
    BY <1>2, <1>3, AboveLeast
<1>5. Root \in AboveIn(under, x)
  BY AboveHere DEF OnDrive
<1>6. AboveIn(under, Root) = {Root}
  BY AboveStop
<1> QED
  BY <1>4, <1>5, <1>6

\* The invariant of the scan holds in the first state.
LEMMA InitScanInv == Init => ScanInv
<1> SUFFICES ASSUME Init PROVE ScanInv
  OBVIOUS
<1>1. Types
  BY InitTypes
<1>2. TreeInv
  BY <1>1, InitTree DEF Init
<1>3. PhaseInv
  BY DEF Init, PhaseInv
<1>4. WalkInv
  <2>1. walk.attempted = {} /\ walk.pending = <<>> /\ snap.E = {} /\ snap.F = {} /\ snap.X = {}
    BY DEF Init, EmptyWalk, EmptySnap
  <2>2. stack = <<>> /\ pc = "idle" /\ Held(stack) = {}
    BY HeldNone DEF Init
  <2> QED
    BY <2>1, <2>2 DEF WalkInv, TriedInv, PutOffInv, StartInv, Disjoint
<1>5. CountInv
  BY DEF Init, CountInv
<1>6. DoomedInv /\ KeptInv
  BY DEF Init, DoomedInv, KeptInv
<1> QED
  BY <1>1, <1>2, <1>3, <1>4, <1>5, <1>6 DEF ScanInv

\* The invariant of the scan is inductive.
LEMMA StepScanInv == ScanInv /\ [Next]_vars => ScanInv'
  BY StepTypes, TreeStep, PhaseStep, WalkStep, CountStep, DoomedStep, KeptStep DEF ScanInv

\* The types of the state; E, F and X never overlap, and a finished walk has
\* put every directory it tried into E or F.
\* (types.go Snapshot, discovery.go discoverDir)
THEOREM TypeCorrect == Spec => []TypeOK
<1>1. Init => ScanInv
  BY InitScanInv
<1>2. ScanInv /\ [Next]_vars => ScanInv'
  BY StepScanInv
<1>3. ScanInv => TypeOK
  BY TypeHolds DEF ScanInv
<1> QED
  BY <1>1, <1>2, <1>3, PTL DEF Spec

\* The fact about a single file behind ConfirmedTwice, as a step formula.
LEMMA ConfirmedStep ==
  ASSUME ScanInv, [Next]_vars, NEW f \in Files,
         pc = "delete", HasRow(f), rows'[f] = Absent, ~Authoritative
  PROVE  unseen[f] = 2
<1>1. f \in doomed
  BY DeletesDoomed DEF ScanInv
<1> QED
  BY <1>1 DEF ScanInv, DoomedInv

\* After a scan that could not read everything a row goes only when two such
\* scans in a row have missed the file, counted since the row was written.
\* (scan_presence.go misses, catalog.go deleteDriveScanMissForVideoTx)
THEOREM DeletionsConfirmed == Spec => ConfirmedTwice
<1> DEFINE Twice == \A f \in Files :
              pc = "delete" /\ HasRow(f) /\ rows'[f] = Absent /\ ~Authoritative => unseen[f] = 2
<1>1. Init => ScanInv
  BY InitScanInv
<1>2. ScanInv /\ [Next]_vars => ScanInv'
  BY StepScanInv
<1>3. ScanInv /\ [Next]_vars => [Twice]_vars
  BY ConfirmedStep
<1>4. Spec => [][Twice]_vars
  <2> HIDE DEF Twice
  <2> QED
    BY <1>1, <1>2, <1>3, PTL DEF Spec
<1> QED
  BY <1>4 DEF ConfirmedTwice

\* The fact about a single file behind StillKept, as a step formula.
LEMMA GoneStep ==
  ASSUME ScanInv, ~Uploads, [Next]_vars, NEW f \in Files,
         pc = "delete", HasRow(f), rows'[f] = Absent, f \notin left
  PROVE  IF Authoritative THEN ~InScope(f)
         ELSE ~Locates(Effective(rows[f]), f) /\ Effective(rows[f]) # <<under[f]>>
<1>1. Types /\ WalkInv /\ KeptAt(f) /\ stack = <<>>
  BY DEF ScanInv, KeptInv, PhaseInv
<1>2. f \in doomed
  BY DeletesDoomed DEF ScanInv
<1>3. f \notin snap.seen /\ Eligible(rows[f])
  BY <1>2 DEF ScanInv, DoomedInv
<1>4. rows[f] \in Rows
  BY DEF ScanInv, Types, CatalogTypes, HasRow
<1>5. CASE Authoritative
  BY <1>1, <1>3, <1>5, FullyRead
<1>6. CASE ~Authoritative
  BY <1>1, <1>3, <1>4, <1>6, PartlyRead
<1> QED
  BY <1>5, <1>6

\* Where no upload ends beside a scan: a row that the cleanup of missing files
\* deletes belongs to a file that has changed place since the scan began, or
\* that was not where the row says to begin with.
\* (scan_presence.go EvaluateMissingDriveFiles, discovery.go discoverDir)
THEOREM DeletedRowsGone == ASSUME ~Uploads PROVE Spec => StillKept
<1> DEFINE Gone == \A f \in Files :
              pc = "delete" /\ HasRow(f) /\ rows'[f] = Absent /\ f \notin left =>
                 IF Authoritative THEN ~InScope(f)
                 ELSE ~Locates(Effective(rows[f]), f) /\ Effective(rows[f]) # <<under[f]>>
<1>1. Init => ScanInv
  BY InitScanInv
<1>2. ScanInv /\ [Next]_vars => ScanInv'
  BY StepScanInv
<1>3. ScanInv /\ [Next]_vars => [Gone]_vars
  BY GoneStep
<1>4. Spec => [][Gone]_vars
  <2> HIDE DEF Gone
  <2> QED
    BY <1>1, <1>2, <1>3, PTL DEF Spec
<1> QED
  BY <1>4 DEF StillKept

-----------------------------------------------------------------------------
(* A scan in which nothing moved and nothing failed.                       *)

\* The chain leads down from the configured start.
Chained(c) == c[1] = config.start /\ \A i \in 2 .. Len(c) : c[i] \in Children(c[i - 1])

\* The file waits to be reconciled.
Queued(f) == \E i \in DOMAIN found : found[i].file = f

\* The row of the file says where the file is.
Placed(f) == HasRow(f) /\ Locates(rows[f].chain, f) /\ rows[f].parent = under[f]

\* The walk stays in the configured part of the drive, and what it noted is
\* still so.
Spotless    == snap.F = {} /\ ~snap.issues /\ walk.pending = <<>> /\ left = {}
FramesLead  == \A i \in DOMAIN stack : \A d \in stack[i].dirs :
                  Chained(Append(stack[i].chain, d)) /\ Inside(config.start, d)
SeenInside  == \A f \in snap.seen : InScope(f)
FoundPlaced == \A i \in DOMAIN found : Locates(found[i].chain, found[i].file)
CleanWalk   == pc # "idle" /\ clean => Spotless /\ FramesLead /\ SeenInside /\ FoundPlaced

\* A file that was seen waits to be reconciled, has its row, or is kept out by
\* a copy that was seen too.
CleanRows ==
    pc # "idle" /\ clean =>
       \A f \in snap.seen :
          \/ Queued(f)
          \/ Placed(f)
          \/ ~HasRow(f) /\ \E g \in snap.seen : {f, g} \in Twins /\ HasRow(g)

\* The steps of a scan that goes on without a fault.
LEMMA CleanSteps ==
  ASSUME [Next]_vars, clean', pc' # "idle"
  PROVE  \/ StartScan \/ RetryNext \/ Reconcile \/ PolicyDone \/ RemoveExcluded \/ RecordPolicy
         \/ Evaluate \/ (\E d \in Dirs : ListDir(d) \/ Backfill(d)) \/ (\E f \in Files : DeleteStale(f))
         \/ UNCHANGED vars
<1>1. ASSUME Owner PROVE FALSE
  BY <1>1 DEF Owner, Move, Upload, Configure
<1>2. ASSUME \/ FinishScan \/ StopScan \/ (\E d \in Dirs : ListDeferred(d) \/ ListFails(d)) PROVE FALSE
  BY <1>2 DEF FinishScan, StopScan, ListDeferred, ListFails, Fault, ScanEnds
<1> QED
  BY <1>1, <1>2 DEF Next, Scan

\* What is said of places depends on the drive and on the start alone.
LEMMA DriveStill ==
  ASSUME UNCHANGED <<under, config>>
  PROVE  /\ \A d : Inside(config.start, d)' <=> Inside(config.start, d)
         /\ \A f : InScope(f)' <=> InScope(f)
         /\ \A c, f : Locates(c, f)' <=> Locates(c, f)
         /\ \A c : Chained(c)' <=> Chained(c)
<1>1. \A d : Above(d)' = Above(d)
  BY DEF Above
<1>2. \A d : Children(d)' = Children(d)
  BY DEF Children
<1>3. \A d : Inside(config.start, d)' <=> Inside(config.start, d)
  BY <1>1 DEF Inside
<1>4. \A f : InScope(f)' <=> InScope(f)
  BY <1>1, <1>3 DEF InScope, Covered, OnDrive
<1>5. \A c, f : Locates(c, f)' <=> Locates(c, f)
  BY <1>2 DEF Locates
<1>6. \A c : Chained(c)' <=> Chained(c)
  BY <1>2 DEF Chained
<1> QED
  BY <1>3, <1>4, <1>5, <1>6

\* A chain is extended by a directory that lies in its last one.
LEMMA ChainExtends ==
  ASSUME NEW c \in Seq(Dirs) \ {<<>>}, Chained(c), NEW e \in Dirs, e \in Children(Last(c))
  PROVE  Chained(Append(c, e))
<1>1. /\ Len(c) \in Nat \ {0} /\ Len(Append(c, e)) = Len(c) + 1
      /\ \A i \in 1 .. Len(c) : Append(c, e)[i] = c[i]
      /\ Append(c, e)[Len(c) + 1] = e
  BY EmptySeq, AppendProperties
<1>2. ASSUME NEW i \in 2 .. Len(c) + 1
      PROVE  Append(c, e)[i] \in Children(Append(c, e)[i - 1])
  <2>1. CASE i \in 2 .. Len(c)
    <3>1. i \in 1 .. Len(c) /\ i - 1 \in 1 .. Len(c)
      BY <1>1, <2>1
    <3> QED
      BY <1>1, <2>1, <3>1 DEF Chained
  <2>2. CASE i = Len(c) + 1
    <3>1. i - 1 = Len(c) /\ Len(c) \in 1 .. Len(c)
      BY <1>1, <2>2
    <3> QED
      BY <1>1, <2>2, <3>1 DEF Last
  <2> QED
    BY <1>1, <1>2, <2>1, <2>2
<1>3. Append(c, e)[1] = config.start
  BY <1>1 DEF Chained
<1> QED
  BY <1>1, <1>2, <1>3 DEF Chained

\* A subdirectory that is not excluded lies in the configured part too.
LEMMA InsideEntered ==
  ASSUME Types, NEW d \in Dirs, Inside(config.start, d), NEW e \in Entered(d)
  PROVE  Inside(config.start, e)
<1>1. e \in Dirs \ {Root} /\ under[e] = d /\ e \notin config.skip
  BY DEF Entered, Children
<1>2. AboveIn(under, e) = {e} \cup AboveIn(under, d)
  BY <1>1, AboveStep DEF Types, DriveTypes, ParentsIn
<1>3. Above(e) = {e} \cup Above(d)
  BY <1>2, AboveHere
<1> QED
  BY <1>1, <1>3 DEF Inside

\* A clean walk that reads a directory remains one.
LEMMA CleanListDir ==
  ASSUME Types, NEW d \in Dirs, ListDir(d), Spotless, FramesLead, SeenInside, FoundPlaced
  PROVE  (Spotless /\ FramesLead /\ SeenInside /\ FoundPlaced)'
<1>1. UNCHANGED <<under, config, left>> /\ Readable(d) /\ Reads(d)
  BY DEF ListDir, driveVars
<1>2. /\ walk'.pending = walk.pending /\ snap'.F = snap.F \ {d} /\ snap'.issues = snap.issues
      /\ snap'.seen = snap.seen \cup (Children(d) \cap Files)
      /\ stack' \in Frames
      /\ \A i \in DOMAIN stack' :
            \/ stack'[i].chain = Append(Chain, d) /\ stack'[i].dirs \subseteq Entered(d)
            \/ \E j \in DOMAIN stack : /\ stack'[i].chain = stack[j].chain
                                       /\ stack'[i].dirs \subseteq stack[j].dirs
  BY ListDirWalks
<1>3. /\ 1 \in DOMAIN stack /\ d \in stack[1].dirs /\ Chain = stack[1].chain
      /\ Append(Chain, d) \in Seq(Dirs) \ {<<>>} /\ Last(Append(Chain, d)) = d
  BY <1>1, ReadsTop
<1>4. Chained(Append(Chain, d)) /\ Inside(config.start, d)
  BY <1>3 DEF FramesLead
<1>5. Spotless'
  BY <1>1, <1>2 DEF Spotless
<1>6. ASSUME NEW i \in DOMAIN stack', NEW e \in stack'[i].dirs
      PROVE  Chained(Append(stack'[i].chain, e)) /\ Inside(config.start, e)
  <2>1. CASE stack'[i].chain = Append(Chain, d) /\ stack'[i].dirs \subseteq Entered(d)
    <3>1. e \in Entered(d) /\ e \in Dirs /\ e \in Children(d)
      BY <1>6, <2>1 DEF Entered
    <3>2. Chained(Append(Append(Chain, d), e))
      BY <1>3, <1>4, <3>1, ChainExtends
    <3> QED
      BY <1>4, <2>1, <3>1, <3>2, InsideEntered
  <2>2. CASE \E j \in DOMAIN stack : /\ stack'[i].chain = stack[j].chain
                                     /\ stack'[i].dirs \subseteq stack[j].dirs
    BY <1>6, <2>2 DEF FramesLead
  <2> QED
    BY <1>2, <2>1, <2>2
<1>7. FramesLead'
  BY <1>1, <1>6, DriveStill DEF FramesLead
<1>8. \A f \in Children(d) \cap Files : InScope(f) /\ Locates(Append(Chain, d), f)
  <2> TAKE f \in Children(d) \cap Files
  <2>1. under[f] = d
    BY DEF Children
  <2> QED
    BY <1>1, <1>3, <1>4, <2>1 DEF InScope, Covered, Readable, Locates, Chained
<1>9. SeenInside'
  BY <1>1, <1>2, <1>8, DriveStill DEF SeenInside
<1>10. \A i \in DOMAIN found' :
          \/ \E j \in DOMAIN found : found'[i] = found[j]
          \/ found'[i].file \in Children(d) \cap Files /\ found'[i].chain = Append(Chain, d)
  BY ListDirFinds
<1>11. \A i \in DOMAIN found' : Locates(found'[i].chain, found'[i].file)
  BY <1>8, <1>10 DEF FoundPlaced
<1>12. FoundPlaced'
  BY <1>1, <1>11, DriveStill DEF FoundPlaced
<1> QED
  BY <1>5, <1>7, <1>9, <1>12

\* Every step keeps a clean walk clean.
LEMMA CleanWalkStep ==
  ASSUME Types, TreeInv, PhaseInv, CleanWalk, [Next]_vars
  PROVE  CleanWalk'
<1> SUFFICES ASSUME clean', pc' # "idle" PROVE (Spotless /\ FramesLead /\ SeenInside /\ FoundPlaced)'
  BY DEF CleanWalk
<1>1. ASSUME StartScan PROVE (Spotless /\ FramesLead /\ SeenInside /\ FoundPlaced)'
  <2>1. /\ walk' = EmptyWalk /\ snap' = EmptySnap /\ found' = <<>> /\ left' = {}
        /\ stack' = <<[chain |-> <<>>, dirs |-> {config.start}]>> /\ UNCHANGED <<under, config>>
    BY <1>1 DEF StartScan, PhaseInv, driveVars
  <2>2. config.start \in Dirs
    BY Constants DEF Types, DriveTypes
  <2>3. Spotless' /\ SeenInside' /\ FoundPlaced'
    BY <2>1 DEF EmptyWalk, EmptySnap, Spotless, SeenInside, FoundPlaced
  <2>4. /\ Append(<<>>, config.start) = <<config.start>> /\ Len(<<config.start>>) = 1
        /\ <<config.start>>[1] = config.start
    OBVIOUS
  <2>5. Chained(Append(<<>>, config.start))
    BY <2>4 DEF Chained
  <2>6. Inside(config.start, config.start)
    <3>1. config.start \in Above(config.start)
      BY <2>2, Constants, AboveSelf, AboveHere
    <3>2. \A e \in Above(config.start) \ {config.start} : config.start \notin Above(e)
      BY <2>2, Constants, AboveAntisymmetric, AboveHere DEF TreeInv
    <3> QED
      BY <3>1, <3>2 DEF Inside
  <2>7. FramesLead'
    <3>1. \A i \in DOMAIN stack' : stack'[i].chain = <<>> /\ stack'[i].dirs = {config.start}
      BY <2>1
    <3>2. \A i \in DOMAIN stack' : \A d \in stack'[i].dirs :
             Chained(Append(stack'[i].chain, d)) /\ Inside(config.start, d)
      BY <2>5, <2>6, <3>1
    <3> QED
      BY <2>1, <3>2, DriveStill DEF FramesLead
  <2> QED
    BY <2>3, <2>7
<1>2. ASSUME pc # "idle", clean, UNCHANGED <<under, config, stack, walk, snap, left>>,
             \A i \in DOMAIN found' : \E j \in DOMAIN found : found'[i] = found[j]
      PROVE  (Spotless /\ FramesLead /\ SeenInside /\ FoundPlaced)'
  <2>1. Spotless /\ FramesLead /\ SeenInside /\ FoundPlaced
    BY <1>2 DEF CleanWalk
  <2>2. Spotless' /\ FramesLead' /\ SeenInside'
    BY <1>2, <2>1, DriveStill DEF Spotless, FramesLead, SeenInside
  <2>3. \A i \in DOMAIN found' : Locates(found'[i].chain, found'[i].file)
    BY <1>2, <2>1 DEF FoundPlaced
  <2>4. FoundPlaced'
    BY <1>2, <2>3, DriveStill DEF FoundPlaced
  <2> QED
    BY <2>2, <2>4
<1>3. ASSUME NEW d \in Dirs, ListDir(d) PROVE (Spotless /\ FramesLead /\ SeenInside /\ FoundPlaced)'
  <2>1. pc # "idle" /\ clean
    BY <1>3 DEF ListDir, Reads
  <2> QED
    BY <1>3, <2>1, CleanListDir DEF CleanWalk
<1>4. ASSUME RetryNext PROVE FALSE
  BY <1>4 DEF RetryNext, CleanWalk, Spotless
<1>5. ASSUME Reconcile PROVE (Spotless /\ FramesLead /\ SeenInside /\ FoundPlaced)'
  <2>1. pc # "idle" /\ clean /\ UNCHANGED <<under, config, stack, walk, snap, left>>
    BY <1>5 DEF Reconcile, Discovered, NoFault, Fault, driveVars
  <2>2. \A i \in DOMAIN found' : i + 1 \in DOMAIN found /\ found'[i] = found[i + 1]
    BY <1>5, ReconcileServes
  <2> QED
    BY <1>2, <2>1, <2>2
<1>6. ASSUME \/ PolicyDone \/ RemoveExcluded \/ RecordPolicy \/ Evaluate
             \/ (\E d \in Dirs : Backfill(d)) \/ (\E f \in Files : DeleteStale(f)) \/ UNCHANGED vars
      PROVE  (Spotless /\ FramesLead /\ SeenInside /\ FoundPlaced)'
  <2>1. pc # "idle" /\ clean /\ UNCHANGED <<under, config, stack, walk, snap, found, left>>
    BY <1>6 DEF PolicyDone, RemoveExcluded, RecordPolicy, Evaluate, Backfill, DeleteStale, vars,
                Reconciled, Discovered, NoFault, Fault, driveVars, walkVars
  <2> QED
    BY <1>2, <2>1
<1> QED
  BY <1>1, <1>3, <1>4, <1>5, <1>6, CleanSteps

\* Rows of files that were not seen may go; all others stay as they are.
LEMMA CleanRowsDelete ==
  ASSUME Types, NEW gone \in SUBSET (Files \ snap.seen), DeleteRows(gone),
         UNCHANGED <<under, config, found, snap>>, pc # "idle", clean, CleanRows
  PROVE  CleanRows'
<1>1. \A f \in snap.seen : f \in Files /\ rows'[f] = rows[f]
  BY DEF Types, WalkTypes, Snapshots, DeleteRows
<1>2. \A f \in snap.seen : HasRow(f)' <=> HasRow(f)
  BY <1>1 DEF HasRow
<1>3. \A f \in snap.seen : Placed(f)' <=> Placed(f)
  BY <1>1, <1>2, DriveStill DEF Placed
<1>4. \A f : Queued(f)' <=> Queued(f)
  BY DEF Queued
<1> QED
  BY <1>2, <1>3, <1>4 DEF CleanRows

\* The files of a listing wait in the queue for their rows.
LEMMA CleanRowsListDir ==
  ASSUME Types, NEW d \in Dirs, ListDir(d), clean, CleanRows
  PROVE  CleanRows'
<1>1. pc # "idle" /\ UNCHANGED <<under, config, rows>>
  BY DEF ListDir, Reads, driveVars, catalogVars
<1>2. snap'.seen = snap.seen \cup (Children(d) \cap Files)
  BY ListDirWalks
<1>3. /\ \A j \in DOMAIN found : \E i \in DOMAIN found' : found'[i] = found[j]
      /\ \A f \in Children(d) \cap Files : \E i \in DOMAIN found' : found'[i].file = f
  BY ListDirFinds
<1>4. \A f : Queued(f) => Queued(f)'
  BY <1>3 DEF Queued
<1>5. \A f \in Children(d) \cap Files : Queued(f)'
  BY <1>3 DEF Queued
<1>6. \A f : (HasRow(f)' <=> HasRow(f)) /\ (Placed(f)' <=> Placed(f))
  BY <1>1, DriveStill DEF HasRow, Placed
<1> QED
  BY <1>1, <1>2, <1>4, <1>5, <1>6 DEF CleanRows

\* The file that leaves the queue has its row, or a copy that has one.
LEMMA CleanRowsReconcile ==
  ASSUME Types, CleanWalk, CleanRows, Reconcile, clean'
  PROVE  CleanRows'
<1>0. rows \in [Files -> {Absent} \cup Rows] /\ snap.seen \in SUBSET Files
  BY DEF Types, CatalogTypes, WalkTypes, Snapshots
<1>1. PICK f \in Files, row \in Rows : f = Head(found).file /\ row = RowAt(Head(found).chain)
  BY ReconcileServes
<1>2. /\ pc # "idle" /\ clean /\ UNCHANGED <<under, config, snap>>
      /\ \/ rows' = [rows EXCEPT ![f] = row]
         \/ ~HasRow(f) /\ Duplicate(f) /\ rows' = rows
  BY <1>1 DEF Reconcile, Discovered, NoFault, Fault, driveVars
<1>3. /\ 1 \in DOMAIN found /\ Head(found) = found[1] /\ found[1].file = f
      /\ row.chain = found[1].chain /\ row.parent = Last(found[1].chain)
      /\ \A i \in DOMAIN found : i = 1 \/ (i - 1 \in DOMAIN found' /\ found'[i - 1] = found[i])
  BY <1>1, ReconcileServes
<1>4. Locates(row.chain, f) /\ row.parent = under[f] /\ row # Absent
  <2>1. Locates(found[1].chain, found[1].file)
    BY <1>2, <1>3 DEF CleanWalk, FoundPlaced
  <2> QED
    BY <1>1, <1>3, <2>1, AbsentIsNoRow DEF Locates
<1>5. \A g \in Files : HasRow(g) => HasRow(g)'
  BY <1>0, <1>2, <1>4 DEF HasRow
<1>6. \A g : Queued(g) => g = f \/ Queued(g)'
  BY <1>3 DEF Queued
<1>7. \A g \in Files \ {f} : /\ HasRow(g)' <=> HasRow(g)
                             /\ Placed(g)' <=> Placed(g)
  <2>1. \A g \in Files \ {f} : rows'[g] = rows[g]
    BY <1>0, <1>2
  <2> QED
    BY <1>2, <2>1, DriveStill DEF HasRow, Placed
<1>8. \/ Placed(f)'
      \/ ~HasRow(f)' /\ \E g \in snap.seen : {f, g} \in Twins /\ HasRow(g)'
  <2>1. CASE rows' = [rows EXCEPT ![f] = row]
    <3>1. rows'[f] = row
      BY <1>0, <2>1
    <3> QED
      BY <1>2, <1>4, <3>1, DriveStill DEF Placed, HasRow
  <2>2. CASE ~HasRow(f) /\ Duplicate(f) /\ rows' = rows
    BY <2>2 DEF Duplicate, HasRow
  <2> QED
    BY <1>2, <2>1, <2>2
<1>9. ASSUME NEW g \in snap.seen
      PROVE  \/ Queued(g)' \/ Placed(g)'
             \/ ~HasRow(g)' /\ \E h \in snap.seen : {g, h} \in Twins /\ HasRow(h)'
  <2>1. CASE g = f
    BY <1>8, <2>1
  <2>2. CASE g # f
    BY <1>0, <1>2, <1>5, <1>6, <1>7, <2>2 DEF CleanRows
  <2> QED
    BY <2>1, <2>2
<1> QED
  BY <1>2, <1>9 DEF CleanRows

\* Every step keeps the rows of a clean scan.
LEMMA CleanRowsStep ==
  ASSUME Types, PhaseInv, DoomedInv, CleanWalk, CleanRows, [Next]_vars
  PROVE  CleanRows'
<1>1. CASE pc' = "idle" \/ ~clean'
  BY <1>1 DEF CleanRows
<1> SUFFICES ASSUME clean', pc' # "idle" PROVE CleanRows'
  BY <1>1
<1>2. ASSUME StartScan PROVE CleanRows'
  <2>1. snap'.seen = {}
    BY <1>2 DEF StartScan, PhaseInv, EmptySnap
  <2> QED
    BY <2>1 DEF CleanRows
<1>3. ASSUME NEW d \in Dirs, ListDir(d) PROVE CleanRows'
  BY <1>3, CleanRowsListDir DEF ListDir
<1>4. ASSUME RetryNext PROVE CleanRows'
  BY <1>4 DEF RetryNext, CleanWalk, Spotless
<1>5. ASSUME Reconcile PROVE CleanRows'
  BY <1>5, CleanRowsReconcile
<1>6. ASSUME RemoveExcluded \/ (\E d \in Dirs : Backfill(d)) \/ (\E f \in Files : DeleteStale(f))
      PROVE  CleanRows'
  <2>1. pc # "idle" /\ clean /\ UNCHANGED <<under, config, found, snap>>
    BY <1>6 DEF RemoveExcluded, Backfill, DeleteStale, Reconciled, Discovered, NoFault, Fault,
                driveVars, walkVars
  <2>2. \E gone \in SUBSET (Files \ snap.seen) : DeleteRows(gone)
    <3>1. ASSUME RemoveExcluded PROVE \E gone \in SUBSET (Files \ snap.seen) : DeleteRows(gone)
      BY <3>1 DEF RemoveExcluded, Excluded
    <3>2. ASSUME NEW d \in Dirs, Backfill(d) PROVE \E gone \in SUBSET (Files \ snap.seen) : DeleteRows(gone)
      BY <3>2 DEF Backfill
    <3>3. ASSUME NEW f \in Files, DeleteStale(f) PROVE \E gone \in SUBSET (Files \ snap.seen) : DeleteRows(gone)
      BY <3>3 DEF DeleteStale, DoomedInv
    <3> QED
      BY <1>6, <3>1, <3>2, <3>3
  <2> QED
    BY <2>1, <2>2, CleanRowsDelete
<1>7. ASSUME PolicyDone \/ RecordPolicy \/ Evaluate \/ UNCHANGED vars PROVE CleanRows'
  <2>1. pc # "idle" /\ clean /\ UNCHANGED <<under, config, rows, found, snap>>
    BY <1>7 DEF PolicyDone, RecordPolicy, Evaluate, vars, Reconciled, Discovered, NoFault, Fault,
                driveVars, catalogVars, walkVars
  <2>2. \A f : /\ HasRow(f)' <=> HasRow(f)
               /\ Placed(f)' <=> Placed(f)
               /\ Queued(f)' <=> Queued(f)
    BY <2>1, DriveStill DEF HasRow, Placed, Queued
  <2> QED
    BY <2>1, <2>2 DEF CleanRows
<1> QED
  BY <1>2, <1>3, <1>4, <1>5, <1>6, <1>7, CleanSteps

-----------------------------------------------------------------------------
(* The skip list.                                                          *)

\* No configuration starts the scan in a directory that a skip list excludes.
StartsClear == \A s \in SkipLists : s \cap Starts = {}

\* Nothing the row records is on the skip list.
Clear(row) == Range(Effective(row)) \cap config.skip = {}

\* The walk enters no excluded directory and notes no chain through one.
FramesClear == \A i \in DOMAIN stack :
                  Range(stack[i].chain) \cap config.skip = {} /\ stack[i].dirs \cap config.skip = {}
PutOffClear == \A i \in DOMAIN walk.pending :
                  /\ Range(walk.pending[i].chain) \cap config.skip = {}
                  /\ walk.pending[i].dir \notin config.skip
FoundClear  == \A i \in DOMAIN found : Range(found[i].chain) \cap config.skip = {}
WalkClear   == FramesClear /\ PutOffClear /\ FoundClear

\* Rows that a scan has written or confirmed are clear of its skip list, rows
\* of a settled catalog of the one applied last, and once the policy cleanup
\* has taken rows out, those that are left.
SeenClear == \A f \in snap.seen \ spared : HasRow(f) /\ ~Queued(f) => Clear(rows[f])
RuledClear ==
    ~unruled /\ policy.applied # NeverApplied =>
       \A f \in Files \ spared : HasRow(f) => Range(Effective(rows[f])) \cap policy.applied = {}
BackfillClear == pc = "backfill" => \A f \in Files \ snap.seen : HasRow(f) => Clear(rows[f])

\* The members of a sequence with one more at its end.
LEMMA RangeAppend ==
  ASSUME NEW c \in Seq(Dirs), NEW d \in Dirs
  PROVE  Range(Append(c, d)) = Range(c) \cup {d}
<1>1. /\ Len(c) \in Nat /\ DOMAIN c = 1 .. Len(c) /\ DOMAIN Append(c, d) = 1 .. Len(c) + 1
      /\ \A i \in 1 .. Len(c) : Append(c, d)[i] = c[i]
      /\ Append(c, d)[Len(c) + 1] = d
  BY AppendProperties, LenProperties
<1>2. ASSUME NEW x \in Range(Append(c, d)) PROVE x \in Range(c) \cup {d}
  <2>1. PICK i \in 1 .. Len(c) + 1 : x = Append(c, d)[i]
    BY <1>1, <1>2 DEF Range
  <2>2. i \in 1 .. Len(c) \/ i = Len(c) + 1
    BY <1>1
  <2> QED
    BY <1>1, <2>1, <2>2 DEF Range
<1>3. ASSUME NEW x \in Range(c) PROVE x \in Range(Append(c, d))
  <2>1. PICK i \in 1 .. Len(c) : x = c[i]
    BY <1>1, <1>3 DEF Range
  <2>2. i \in 1 .. Len(c) + 1
    BY <1>1
  <2> QED
    BY <1>1, <2>1, <2>2 DEF Range
<1>4. d \in Range(Append(c, d))
  <2>1. Len(c) + 1 \in 1 .. Len(c) + 1
    BY <1>1
  <2> QED
    BY <1>1, <2>1 DEF Range
<1> QED
  BY <1>2, <1>3, <1>4

\* The walk does not enter an excluded directory.
LEMMA WalkClearListDir ==
  ASSUME Types, WalkClear, NEW d \in Dirs, ListDir(d)
  PROVE  WalkClear'
<1>1. /\ config' = config /\ Reads(d) /\ walk'.pending = walk.pending
      /\ \A i \in DOMAIN stack' :
            \/ stack'[i].chain = Append(Chain, d) /\ stack'[i].dirs \subseteq Entered(d)
            \/ \E j \in DOMAIN stack : /\ stack'[i].chain = stack[j].chain
                                       /\ stack'[i].dirs \subseteq stack[j].dirs
  BY ListDirWalks DEF ListDir, driveVars
<1>2. /\ 1 \in DOMAIN stack /\ d \in stack[1].dirs /\ Chain = stack[1].chain /\ Chain \in Seq(Dirs)
  BY <1>1, ReadsTop
<1>3. Range(Append(Chain, d)) \cap config.skip = {}
  <2>1. Range(Chain) \cap config.skip = {} /\ d \notin config.skip
    BY <1>2 DEF WalkClear, FramesClear
  <2> QED
    BY <1>2, <2>1, RangeAppend
<1>4. Entered(d) \cap config.skip = {}
  BY DEF Entered
<1>5. FramesClear'
  BY <1>1, <1>3, <1>4 DEF WalkClear, FramesClear
<1>6. PutOffClear'
  BY <1>1 DEF WalkClear, PutOffClear
<1>7. \A i \in DOMAIN found' :
         \/ \E j \in DOMAIN found : found'[i] = found[j]
         \/ found'[i].chain = Append(Chain, d)
  BY ListDirFinds
<1>8. FoundClear'
  BY <1>1, <1>3, <1>7 DEF WalkClear, FoundClear
<1> QED
  BY <1>5, <1>6, <1>8 DEF WalkClear

\* A directory that is put off is not excluded.
LEMMA WalkClearLost ==
  ASSUME Types, WalkClear, NEW d \in Dirs, ListDeferred(d) \/ (ListFails(d) /\ d # config.start)
  PROVE  WalkClear'
<1>1. /\ config' = config /\ Reads(d) /\ found' = found
      /\ \A i \in DOMAIN stack' : \E j \in DOMAIN stack :
            stack'[i].chain = stack[j].chain /\ stack'[i].dirs \subseteq stack[j].dirs
      /\ \A i \in DOMAIN walk'.pending :
            \/ i \in DOMAIN walk.pending /\ walk'.pending[i] = walk.pending[i]
            \/ walk'.pending[i].dir = d /\ walk'.pending[i].chain = Chain
  BY LostWalks DEF ListDeferred, ListFails, driveVars
<1>2. 1 \in DOMAIN stack /\ d \in stack[1].dirs /\ Chain = stack[1].chain
  BY <1>1, ReadsTop
<1>3. Range(Chain) \cap config.skip = {} /\ d \notin config.skip
  BY <1>2 DEF WalkClear, FramesClear
<1>4. FramesClear' /\ FoundClear'
  BY <1>1 DEF WalkClear, FramesClear, FoundClear
<1>5. PutOffClear'
  BY <1>1, <1>3 DEF WalkClear, PutOffClear
<1> QED
  BY <1>4, <1>5 DEF WalkClear

\* Every step keeps excluded directories out of the walk.
LEMMA WalkClearStep ==
  ASSUME StartsClear, Types, PhaseInv, WalkClear, [Next]_vars
  PROVE  WalkClear'
<1>1. ASSUME walk' = EmptyWalk, found' = <<>>, stack' = <<>> PROVE WalkClear'
  BY <1>1 DEF EmptyWalk, WalkClear, FramesClear, PutOffClear, FoundClear
<1>2. ASSUME UNCHANGED <<config, stack, walk>>,
             \A i \in DOMAIN found' : \E j \in DOMAIN found : found'[i] = found[j]
      PROVE  WalkClear'
  BY <1>2 DEF WalkClear, FramesClear, PutOffClear, FoundClear
<1>3. ASSUME StartScan PROVE WalkClear'
  <2>1. /\ stack' = <<[chain |-> <<>>, dirs |-> {config.start}]>> /\ config' = config
        /\ walk' = EmptyWalk /\ found' = <<>>
    BY <1>3 DEF StartScan, PhaseInv, driveVars
  <2>2. Range(<<>>) = {}
    BY DEF Range
  <2>3. config.start \notin config.skip
    BY DEF StartsClear, Types, DriveTypes
  <2>4. \A i \in DOMAIN stack' : stack'[i].chain = <<>> /\ stack'[i].dirs = {config.start}
    BY <2>1
  <2> QED
    BY <2>1, <2>2, <2>3, <2>4 DEF EmptyWalk, WalkClear, FramesClear, PutOffClear, FoundClear
<1>4. ASSUME RetryNext PROVE WalkClear'
  <2>1. /\ config' = config /\ found' = found /\ 1 \in DOMAIN walk.pending
        /\ \A j \in DOMAIN walk'.pending :
              j + 1 \in DOMAIN walk.pending /\ walk'.pending[j] = walk.pending[j + 1]
        /\ \A j \in DOMAIN stack' : /\ stack'[j].chain = walk.pending[1].chain
                                    /\ stack'[j].dirs = {walk.pending[1].dir}
    BY <1>4, RetryWalks DEF RetryNext, driveVars
  <2>2. FramesClear'
    BY <2>1 DEF WalkClear, FramesClear, PutOffClear
  <2>3. PutOffClear' /\ FoundClear'
    BY <2>1 DEF WalkClear, PutOffClear, FoundClear
  <2> QED
    BY <2>2, <2>3 DEF WalkClear
<1>5. ASSUME Reconcile PROVE WalkClear'
  <2>1. \A i \in DOMAIN found' : i + 1 \in DOMAIN found /\ found'[i] = found[i + 1]
    BY <1>5, ReconcileServes
  <2> QED
    BY <1>2, <1>5, <2>1 DEF Reconcile, driveVars
<1>6. ASSUME Configure PROVE WalkClear'
  BY <1>1, <1>6 DEF Configure, PhaseInv, walkVars
<1>7. ASSUME ScanEnds PROVE WalkClear'
  BY <1>1, <1>7 DEF ScanEnds
<1>8. ASSUME FinishScan \/ StopScan \/ (\E d \in Dirs : ListFails(d) /\ d = config.start) PROVE WalkClear'
  BY <1>7, <1>8 DEF FinishScan, StopScan, ListFails
<1>9. ASSUME \/ \E x \in (Dirs \cup Files) \ {Root}, d \in Dirs \cup {Nowhere} : Move(x, d)
             \/ (\E f \in Files : Upload(f) \/ DeleteStale(f)) \/ (\E d \in Dirs : Backfill(d))
             \/ PolicyDone \/ RemoveExcluded \/ RecordPolicy \/ Evaluate \/ UNCHANGED vars
      PROVE  WalkClear'
  <2>1. UNCHANGED <<config, stack, walk, found>>
    BY <1>9 DEF Move, Upload, DeleteStale, Backfill, PolicyDone, RemoveExcluded, RecordPolicy, Evaluate,
                vars, driveVars, walkVars
  <2> QED
    BY <1>2, <2>1
<1> QED
  BY <1>3, <1>4, <1>5, <1>6, <1>8, <1>9, WalkClearListDir, WalkClearLost DEF Next, Owner, Scan

\* An upload goes to a directory that no skip list excludes.
LEMMA UploadClear ==
  ASSUME StartsClear, Types, NEW d \in Dirs, Covered(d)
  PROVE  Clear([parent |-> d, chain |-> NoChain])
<1>1. d \notin config.skip
  <2>1. CASE d = config.start
    BY <2>1 DEF StartsClear, Types, DriveTypes
  <2>2. CASE d # config.start
    <3>1. d \in Above(d)
      BY Constants, AboveSelf, AboveHere
    <3> QED
      BY <2>2, <3>1 DEF Covered, Inside
  <2> QED
    BY <2>1, <2>2
<1>2. Effective([parent |-> d, chain |-> NoChain]) = <<d>>
  BY DEF Effective
<1>3. Range(<<d>>) = {d}
  BY DEF Range
<1> QED
  BY <1>1, <1>2, <1>3 DEF Clear

\* The row a scan writes is clear of the skip list it follows.
LEMMA FoundRowClear ==
  ASSUME WalkClear, NEW i \in DOMAIN found, found[i].chain # <<>>
  PROVE  Clear(RowAt(found[i].chain))
  BY DEF WalkClear, FoundClear, Clear, Effective, RowAt, NoChain

\* A row is as it was, or was just written under the present skip list.
LEMMA RowChange ==
  ASSUME StartsClear, Types, WalkClear, [Next]_vars, NEW f \in Files, rows'[f] # Absent
  PROVE  \/ /\ HasRow(f) /\ rows'[f] = rows[f]
            /\ f \in spared => f \in spared'
         \/ /\ Clear(rows'[f]) /\ UNCHANGED <<config, policy>>
            /\ ~unruled' => policy.applied = config.skip
<1>0. rows \in [Files -> {Absent} \cup Rows]
  BY DEF Types, CatalogTypes
<1>1. ASSUME UNCHANGED <<rows, spared>>
      PROVE  HasRow(f) /\ rows'[f] = rows[f] /\ (f \in spared => f \in spared')
  BY <1>1 DEF HasRow
<1>2. ASSUME NEW gone \in SUBSET Files, DeleteRows(gone)
      PROVE  HasRow(f) /\ rows'[f] = rows[f] /\ (f \in spared => f \in spared')
  BY <1>2 DEF DeleteRows, HasRow
<1>3. ASSUME NEW g \in Files, Upload(g)
      PROVE  \/ HasRow(f) /\ rows'[f] = rows[f] /\ (f \in spared => f \in spared')
             \/ /\ Clear(rows'[f]) /\ UNCHANGED <<config, policy>>
                /\ ~unruled' => policy.applied = config.skip
  <2>1. PICK d \in Dirs : /\ Covered(d)
                          /\ rows' = [rows EXCEPT ![g] = [parent |-> d, chain |-> NoChain]]
    BY <1>3 DEF Upload
  <2>2. CASE f = g
    <3>1. rows'[f] = [parent |-> d, chain |-> NoChain]
      BY <1>0, <2>1, <2>2
    <3>2. Clear(rows'[f])
      BY <2>1, <3>1, UploadClear
    <3> QED
      BY <1>3, <3>2 DEF Upload
  <2>3. CASE f # g
    <3>1. rows'[f] = rows[f] /\ spared' = spared
      BY <1>0, <1>3, <2>1, <2>3 DEF Upload
    <3> QED
      BY <3>1 DEF HasRow
  <2> QED
    BY <2>2, <2>3
<1>4. ASSUME Reconcile
      PROVE  \/ HasRow(f) /\ rows'[f] = rows[f] /\ (f \in spared => f \in spared')
             \/ /\ Clear(rows'[f]) /\ UNCHANGED <<config, policy>>
                /\ ~unruled' => policy.applied = config.skip
  <2>1. PICK g \in Files : g = Head(found).file
    BY <1>4, ReconcileServes
  <2>2. Clear(RowAt(Head(found).chain))
    BY <1>4, ReconcileServes, FoundRowClear
  <2>3. \/ /\ rows' = [rows EXCEPT ![g] = RowAt(Head(found).chain)]
           /\ spared' = spared \ {g} /\ unruled' = (unruled \/ policy.applied # config.skip)
        \/ rows' = rows /\ (spared' = spared \/ spared' = spared \cup {g})
    BY <1>4, <2>1 DEF Reconcile, history
  <2>4. UNCHANGED <<config, policy>>
    BY <1>4 DEF Reconcile, driveVars
  <2>5. CASE rows' = rows /\ (spared' = spared \/ spared' = spared \cup {g})
    BY <2>3, <2>5 DEF HasRow
  <2>6. CASE /\ rows' = [rows EXCEPT ![g] = RowAt(Head(found).chain)]
             /\ spared' = spared \ {g} /\ unruled' = (unruled \/ policy.applied # config.skip)
    <3>1. CASE f = g
      <4>1. rows'[f] = RowAt(Head(found).chain)
        BY <1>0, <2>6, <3>1
      <4> QED
        BY <2>2, <2>4, <2>6, <4>1
    <3>2. CASE f # g
      <4>1. rows'[f] = rows[f]
        BY <1>0, <2>6, <3>2
      <4> QED
        BY <2>6, <3>2, <4>1 DEF HasRow
    <3> QED
      BY <3>1, <3>2
  <2> QED
    BY <2>3, <2>5, <2>6
<1>5. ASSUME RemoveExcluded \/ (\E d \in Dirs : Backfill(d)) \/ (\E g \in Files : DeleteStale(g))
      PROVE  \E gone \in SUBSET Files : DeleteRows(gone)
  BY <1>5 DEF RemoveExcluded, Excluded, Backfill, DeleteStale
<1>6. ASSUME \/ \E x \in (Dirs \cup Files) \ {Root}, d \in Dirs \cup {Nowhere} : Move(x, d)
             \/ Configure \/ StartScan \/ RetryNext \/ PolicyDone \/ RecordPolicy \/ Evaluate
             \/ (\E d \in Dirs : ListDir(d) \/ ListDeferred(d) \/ ListFails(d))
             \/ FinishScan \/ StopScan \/ UNCHANGED vars
      PROVE  UNCHANGED <<rows, spared>>
  BY <1>6 DEF Move, Configure, StartScan, ListDir, ListDeferred, ListFails, RetryNext, PolicyDone,
              RecordPolicy, Evaluate, FinishScan, StopScan, vars, catalogVars, history
<1> QED
  BY <1>1, <1>2, <1>3, <1>4, <1>5, <1>6 DEF Next, Owner, Scan

\* The phases outside a scan, where nothing has been seen.
LEMMA NothingSeen ==
  ASSUME PhaseInv, NEW d \in Dirs,
         Configure \/ StartScan \/ FinishScan \/ StopScan \/ (ListFails(d) /\ d = config.start)
  PROVE  snap'.seen = {} /\ pc' # "backfill"
  BY DEF PhaseInv, Configure, StartScan, FinishScan, StopScan, ListFails, ScanEnds, walkVars, EmptySnap

\* Every step keeps the rows of seen files clear of the skip list.
LEMMA SeenClearStep ==
  ASSUME StartsClear, Types, PhaseInv, WalkClear, SeenClear, [Next]_vars
  PROVE  SeenClear'
<1> SUFFICES ASSUME NEW f \in snap'.seen \ spared', rows'[f] # Absent, ~Queued(f)' PROVE Clear(rows[f])'
  BY DEF SeenClear, HasRow
<1>0. f \in Files
  BY StepTypes DEF Types, WalkTypes, Snapshots
<1>1. config' = config => (Clear(rows[f])' <=> Clear(rows'[f]))
  BY DEF Clear, Effective
<1>2. \/ HasRow(f) /\ rows'[f] = rows[f] /\ (f \in spared => f \in spared')
      \/ Clear(rows'[f]) /\ config' = config
  BY <1>0, RowChange
<1>3. ASSUME config' = config, f \in snap.seen, ~Queued(f) PROVE Clear(rows[f])'
  BY <1>1, <1>2, <1>3 DEF SeenClear
<1>4. ASSUME NEW d \in Dirs, ListDir(d) PROVE Clear(rows[f])'
  <2>1. /\ snap'.seen = snap.seen \cup (Children(d) \cap Files)
        /\ \A j \in DOMAIN found : \E i \in DOMAIN found' : found'[i] = found[j]
        /\ \A g \in Children(d) \cap Files : \E i \in DOMAIN found' : found'[i].file = g
    BY <1>4, ListDirWalks, ListDirFinds
  <2>2. f \in snap.seen /\ ~Queued(f)
    BY <2>1 DEF Queued
  <2> QED
    BY <1>3, <1>4, <2>2 DEF ListDir, driveVars
<1>5. ASSUME Reconcile PROVE Clear(rows[f])'
  <2>1. /\ UNCHANGED <<config, snap>> /\ f \in snap.seen
    BY <1>5 DEF Reconcile, driveVars
  <2>2. /\ Head(found) = found[1]
        /\ \A i \in DOMAIN found : i = 1 \/ (i - 1 \in DOMAIN found' /\ found'[i - 1] = found[i])
    BY <1>5, ReconcileServes
  <2>3. Queued(f) => f = Head(found).file
    BY <2>2 DEF Queued
  <2>4. CASE f = Head(found).file
    <3>1. \/ rows' = [rows EXCEPT ![f] = RowAt(Head(found).chain)]
          \/ ~HasRow(f) /\ rows' = rows
          \/ f \in spared'
      BY <1>5, <2>4 DEF Reconcile
    <3>2. rows' = [rows EXCEPT ![f] = RowAt(Head(found).chain)]
      BY <3>1 DEF HasRow
    <3>3. rows'[f] = RowAt(Head(found).chain)
      BY <1>0, <3>2 DEF Types, CatalogTypes
    <3> QED
      BY <1>1, <1>5, <2>1, <3>3, ReconcileServes, FoundRowClear
  <2> QED
    BY <1>3, <2>1, <2>3, <2>4
<1>6. ASSUME \/ \E x \in (Dirs \cup Files) \ {Root}, d \in Dirs \cup {Nowhere} : Move(x, d)
             \/ (\E g \in Files : Upload(g) \/ DeleteStale(g))
             \/ RetryNext \/ PolicyDone \/ RemoveExcluded \/ RecordPolicy \/ Evaluate
             \/ (\E d \in Dirs : Backfill(d)) \/ UNCHANGED vars
      PROVE  Clear(rows[f])'
  <2>1. UNCHANGED <<config, snap, found>>
    BY <1>6 DEF Move, Upload, DeleteStale, RetryNext, Backfill, PolicyDone, RemoveExcluded, RecordPolicy,
                Evaluate, vars, driveVars, walkVars
  <2> QED
    BY <1>3, <2>1 DEF Queued
<1>7. ASSUME NEW d \in Dirs, ListDeferred(d) \/ (ListFails(d) /\ d # config.start)
      PROVE  Clear(rows[f])'
  <2>1. config' = config /\ found' = found /\ snap'.seen = snap.seen
    BY <1>7, LostWalks DEF ListDeferred, ListFails, driveVars
  <2> QED
    BY <1>3, <2>1 DEF Queued
<1>8. ASSUME \/ Configure \/ StartScan \/ FinishScan \/ StopScan
             \/ (\E d \in Dirs : ListFails(d) /\ d = config.start)
      PROVE  FALSE
  BY <1>8, NothingSeen, Constants
<1> QED
  BY <1>4, <1>5, <1>6, <1>7, <1>8 DEF Next, Owner, Scan

\* While the backfill goes on, rows that were not seen are clear.
LEMMA BackfillClearStep ==
  ASSUME StartsClear, Types, PhaseInv, WalkClear, BackfillClear, [Next]_vars
  PROVE  BackfillClear'
<1> SUFFICES ASSUME pc' = "backfill", NEW f \in Files \ snap'.seen, rows'[f] # Absent
             PROVE  Clear(rows[f])'
  BY DEF BackfillClear, HasRow
<1>1. config' = config => (Clear(rows[f])' <=> Clear(rows'[f]))
  BY DEF Clear, Effective
<1>2. \/ HasRow(f) /\ rows'[f] = rows[f]
      \/ Clear(rows'[f]) /\ config' = config
  BY RowChange
<1>3. ASSUME RemoveExcluded PROVE Clear(rows[f])'
  <2>1. DeleteRows(Excluded) /\ UNCHANGED <<config, snap>>
    BY <1>3 DEF RemoveExcluded, driveVars, walkVars
  <2>2. f \notin Excluded /\ rows'[f] = rows[f]
    BY <2>1 DEF DeleteRows
  <2>3. Clear(rows[f])
    BY <2>1, <2>2 DEF Excluded, Clear, HasRow
  <2> QED
    BY <1>1, <2>1, <2>2, <2>3
<1>4. ASSUME pc = "backfill", UNCHANGED <<config, snap>> PROVE Clear(rows[f])'
  BY <1>1, <1>2, <1>4 DEF BackfillClear
<1>5. ASSUME \/ \E x \in (Dirs \cup Files) \ {Root}, d \in Dirs \cup {Nowhere} : Move(x, d)
             \/ (\E g \in Files : Upload(g)) \/ (\E d \in Dirs : Backfill(d)) \/ UNCHANGED vars
      PROVE  Clear(rows[f])'
  <2>1. pc = "backfill" /\ UNCHANGED <<config, snap>>
    BY <1>5 DEF Move, Upload, Backfill, vars, driveVars, walkVars
  <2> QED
    BY <1>4, <2>1
<1>6. ASSUME \/ Configure \/ StartScan \/ RetryNext \/ Reconcile \/ PolicyDone \/ RecordPolicy \/ Evaluate
             \/ FinishScan \/ StopScan \/ (\E g \in Files : DeleteStale(g))
             \/ (\E d \in Dirs : ListDir(d) \/ ListDeferred(d) \/ ListFails(d))
      PROVE  FALSE
  BY <1>6 DEF Configure, StartScan, RetryNext, Reconcile, PolicyDone, RecordPolicy, Evaluate, FinishScan,
              StopScan, DeleteStale, ListDir, ListDeferred, ListFails, Reads, Discovered, ScanEnds
<1> QED
  BY <1>3, <1>5, <1>6 DEF Next, Owner, Scan

\* Rows stay clear of the skip list that was applied last.
LEMMA RuledClearStep ==
  ASSUME StartsClear, Types, PhaseInv, WalkClear, SeenClear, BackfillClear, RuledClear, [Next]_vars
  PROVE  RuledClear'
<1> SUFFICES ASSUME ~unruled', policy'.applied # NeverApplied, NEW f \in Files \ spared', rows'[f] # Absent
             PROVE  Range(Effective(rows'[f])) \cap policy'.applied = {}
  BY DEF RuledClear, HasRow, NeverApplied, Effective
<1>1. \/ HasRow(f) /\ rows'[f] = rows[f] /\ (f \in spared => f \in spared')
      \/ /\ Clear(rows'[f]) /\ UNCHANGED <<config, policy>>
         /\ ~unruled' => policy.applied = config.skip
  BY RowChange
<1>2. ASSUME policy'.applied = policy.applied, ~unruled
      PROVE  Range(Effective(rows'[f])) \cap policy'.applied = {}
  BY <1>1, <1>2 DEF RuledClear, Clear
<1>3. ASSUME RecordPolicy, policy' = [policy EXCEPT !.applied = config.skip]
      PROVE  Range(Effective(rows'[f])) \cap policy'.applied = {}
  <2>1. /\ pc = "backfill" /\ rows' = rows /\ spared' = spared /\ found = <<>>
        /\ policy'.applied = config.skip
    BY <1>3 DEF RecordPolicy, PhaseInv, Types, CatalogTypes
  <2>2. HasRow(f) /\ ~Queued(f)
    BY <2>1 DEF HasRow, Queued
  <2>3. Clear(rows[f])
    BY <2>1, <2>2 DEF SeenClear, BackfillClear
  <2> QED
    BY <2>1, <2>3 DEF Clear
<1>4. ASSUME RecordPolicy, UNCHANGED <<policy, unruled>>
      PROVE  Range(Effective(rows'[f])) \cap policy'.applied = {}
  BY <1>2, <1>4
<1>5. ASSUME \/ Reconcile \/ (\E g \in Files : Upload(g))
      PROVE  policy'.applied = policy.applied /\ ~unruled
  <2>1. policy' = policy
    BY <1>5 DEF Reconcile, Upload
  <2>2. unruled' = unruled \/ unruled' = (unruled \/ policy.applied # config.skip)
    BY <1>5 DEF Reconcile, Upload, history
  <2>3. ~unruled
    BY <2>2
  <2> QED
    BY <2>1, <2>3
<1>6. ASSUME RemoveExcluded \/ (\E d \in Dirs : Backfill(d)) \/ (\E g \in Files : DeleteStale(g))
      PROVE  policy'.applied = policy.applied /\ ~unruled
  <2>1. policy \in [applied : SUBSET Dirs, done : SUBSET Dirs]
    BY DEF Types, CatalogTypes
  <2>2. unruled' = unruled
    BY <1>6 DEF RemoveExcluded, Backfill, DeleteStale, DeleteRows
  <2>3. policy' = policy \/ \E s : policy' = [policy EXCEPT !.done = s]
    BY <1>6 DEF RemoveExcluded, Backfill, DeleteStale
  <2> QED
    BY <2>1, <2>2, <2>3
<1>7. ASSUME \/ \E x \in (Dirs \cup Files) \ {Root}, d \in Dirs \cup {Nowhere} : Move(x, d)
             \/ Configure \/ StartScan \/ RetryNext \/ PolicyDone \/ Evaluate
             \/ (\E d \in Dirs : ListDir(d) \/ ListDeferred(d) \/ ListFails(d))
             \/ FinishScan \/ StopScan \/ UNCHANGED vars
      PROVE  policy'.applied = policy.applied /\ ~unruled
  <2>1. policy' = policy /\ unruled' = unruled
    BY <1>7 DEF Move, Configure, StartScan, RetryNext, PolicyDone, Evaluate, ListDir, ListDeferred,
              ListFails, FinishScan, StopScan, vars, catalogVars, history
  <2> QED
    BY <2>1
<1>8. ASSUME RecordPolicy PROVE Range(Effective(rows'[f])) \cap policy'.applied = {}
  BY <1>3, <1>4, <1>8 DEF RecordPolicy
<1> QED
  BY <1>2, <1>5, <1>6, <1>7, <1>8 DEF Next, Owner, Scan

-----------------------------------------------------------------------------
(* What a scan without faults deletes.                                     *)

\* Rows that the scan has not confirmed: clear of the skip list when the
\* cleanup of missing files begins, doomed after it.
Unseen == Files \ (snap.seen \cup spared)
CleanupInv ==
    /\ clean /\ pc = "backfill" => backfill.complete
    /\ clean /\ pc \in {"evaluate", "delete"} => ~backfill.protect
    /\ clean /\ ~unruled /\ pc = "evaluate" => \A f \in Unseen : HasRow(f) => Clear(rows[f])
    /\ clean /\ ~unruled /\ pc = "delete" => \A f \in Unseen : HasRow(f) => f \in doomed

\* A scan that read all of its part of the drive.
LEMMA CleanAuthoritative ==
  ASSUME WalkInv, CleanWalk, pc # "idle", clean, stack = <<>>
  PROVE  Authoritative
<1>1. snap.F = {} /\ ~snap.issues
  BY DEF CleanWalk, Spotless
<1>2. config.start \in snap.E
  BY <1>1, HeldNone DEF WalkInv, StartInv
<1> QED
  BY <1>1, <1>2 DEF Authoritative

\* After such a scan no row that is clear of the skip list is protected.
LEMMA ClearEligible ==
  ASSUME WalkInv, Authoritative, ~backfill.protect,
         NEW row \in Rows, Clear(row)
  PROVE  Eligible(row)
<1> DEFINE chain == Effective(row)
           unread == {i \in DOMAIN chain : chain[i] \notin snap.E}
           first == CHOOSE i \in unread : \A j \in unread : i <= j
<1>1. snap.F = {} /\ snap.X \subseteq config.skip /\ UnlocatedEligible
  BY DEF Authoritative, UnlocatedEligible, WalkInv, StartInv
<1>2. ASSUME unread # {} PROVE chain[first] \notin snap.F \cup snap.X
  <2>1. chain \in Seq(Dirs)
    BY DEF Effective, Rows
  <2> HIDE DEF chain
  <2>2. unread \in SUBSET Nat
    BY <2>1, LenProperties
  <2>3. first \in unread
    <3> HIDE DEF unread
    <3>1. \E i \in unread : \A j \in unread : i <= j
      BY <1>2, <2>2, LeastNat
    <3> QED
      BY <3>1
  <2>4. chain[first] \in Range(chain)
    BY <2>3 DEF Range
  <2> HIDE DEF first
  <2> QED
    BY <1>1, <2>4 DEF Clear, chain
<1>3. Eligible(row) <=> \/ unread = {}
                        \/ /\ unread # {}
                           /\ chain[first] \notin snap.F \cup snap.X
                           /\ first = 1 => UnlocatedEligible
  BY DEF Eligible
<1> HIDE DEF unread, first, chain
<1> QED
  BY <1>1, <1>2, <1>3

\* Every step keeps the rows that a clean scan will delete unprotected.
LEMMA CleanupStep ==
  ASSUME Types, PhaseInv, WalkInv, CleanWalk, SeenClear, RuledClear, BackfillClear, CleanupInv, [Next]_vars
  PROVE  CleanupInv'
<1> SUFFICES ASSUME clean', pc' \in {"backfill", "evaluate", "delete"} PROVE CleanupInv'
  BY DEF CleanupInv
<1>0. config' = config => \A f : Clear(rows[f])' <=> Clear(rows'[f])
  BY DEF Clear, Effective
<1>1. ASSUME PolicyDone PROVE CleanupInv'
  <2>1. /\ pc = "scan" /\ found = <<>> /\ pc' = "evaluate" /\ policy.applied = config.skip
        /\ UNCHANGED <<config, rows, snap, backfill, clean, spared, unruled>>
    BY <1>1 DEF PolicyDone, Reconciled, Discovered, driveVars, catalogVars, walkVars, cleanVars, history
  <2>2. ~backfill'.protect
    BY <2>1 DEF PhaseInv, NoBackfill
  <2>3. config.skip # NeverApplied
    BY Constants DEF NeverApplied, Types, DriveTypes
  <2>4. ~unruled => \A f \in Unseen : HasRow(f) => Clear(rows[f])
    BY <2>1, <2>3 DEF RuledClear, Unseen, Clear
  <2> QED
    BY <1>0, <2>1, <2>2, <2>4 DEF CleanupInv, Unseen, HasRow
<1>2. ASSUME RemoveExcluded PROVE CleanupInv'
  <2>1. pc' = "backfill" /\ backfill'.complete
    BY <1>2 DEF RemoveExcluded, Fault
  <2> QED
    BY <2>1 DEF CleanupInv
<1>3. ASSUME NEW d \in Dirs, Backfill(d) PROVE CleanupInv'
  <2>1. pc = "backfill" /\ pc' = pc /\ clean /\ backfill' = [backfill EXCEPT !.todo = @ \ {d}]
    BY <1>3 DEF Backfill, Fault, NoFault
  <2>2. backfill.complete /\ backfill \in Backfills
    BY <2>1 DEF CleanupInv, Types, CleanupTypes
  <2>3. backfill'.complete
    BY <2>1, <2>2 DEF Backfills
  <2> QED
    BY <2>1, <2>3 DEF CleanupInv
<1>4. ASSUME RecordPolicy PROVE CleanupInv'
  <2>1. /\ pc = "backfill" /\ pc' = "evaluate" /\ clean /\ found = <<>>
        /\ backfill' = [backfill EXCEPT !.protect = @ /\ ~backfill.complete]
        /\ UNCHANGED <<config, rows, snap, spared>>
    BY <1>4 DEF RecordPolicy, NoFault, Fault, PhaseInv, driveVars, walkVars
  <2>2. ~backfill'.protect
    <3>1. backfill.complete /\ backfill \in Backfills
      BY <2>1 DEF CleanupInv, Types, CleanupTypes
    <3>2. (backfill.protect /\ ~backfill.complete) = FALSE
      BY <3>1
    <3> QED
      BY <2>1, <3>1, <3>2 DEF Backfills
  <2>3. \A f \in Unseen : HasRow(f) => Clear(rows[f])
    BY <2>1 DEF BackfillClear, Unseen
  <2> QED
    BY <1>0, <2>1, <2>2, <2>3 DEF CleanupInv, Unseen, HasRow
<1>5. ASSUME Evaluate PROVE CleanupInv'
  <2>1. /\ pc = "evaluate" /\ pc' = "delete" /\ clean /\ stack = <<>>
        /\ UNCHANGED <<config, rows, snap, backfill, spared, unruled>>
        /\ doomed' = {f \in Missing : Authoritative \/ misses'[f] >= 2}
    BY <1>5 DEF Evaluate, PhaseInv, driveVars, walkVars
  <2>2. Authoritative /\ ~backfill.protect
    BY <2>1, CleanAuthoritative DEF CleanupInv
  <2>3. doomed' = Missing
    BY <2>1, <2>2
  <2>4. ~unruled => \A f \in Unseen : HasRow(f) => f \in Missing
    <3> SUFFICES ASSUME ~unruled, NEW f \in Unseen, HasRow(f) PROVE f \in Missing
      OBVIOUS
    <3>1. Clear(rows[f]) /\ f \in Files \ snap.seen
      BY <2>1 DEF CleanupInv, Unseen
    <3>2. rows[f] \in Rows
      BY <3>1 DEF Types, CatalogTypes, HasRow
    <3>3. Eligible(rows[f])
      BY <2>2, <3>1, <3>2, ClearEligible
    <3> QED
      BY <3>1, <3>3 DEF Missing
  <2> QED
    BY <2>1, <2>2, <2>3, <2>4 DEF CleanupInv, Unseen, HasRow
<1>6. ASSUME NEW g \in Files, DeleteStale(g) PROVE CleanupInv'
  <2>1. /\ pc = "delete" /\ pc' = pc /\ clean /\ UNCHANGED <<snap, backfill>> /\ doomed' = doomed \ {g}
        /\ DeleteRows({g})
    BY <1>6 DEF DeleteStale, walkVars
  <2>2. \A f \in Files : /\ rows'[f] # Absent => HasRow(f) /\ f # g
                         /\ f \in spared \/ f = g \/ f \notin spared'
                         /\ f \in spared => f = g \/ f \in spared'
    BY <2>1 DEF DeleteRows, HasRow
  <2>3. unruled' = unruled /\ ~backfill'.protect
    BY <2>1 DEF DeleteRows, CleanupInv
  <2>4. ~unruled => \A f \in Unseen : HasRow(f) => f \in doomed
    BY <2>1 DEF CleanupInv
  <2>5. ~unruled' => \A f \in Unseen' : rows'[f] # Absent => f \in doomed'
    BY <2>1, <2>2, <2>3, <2>4 DEF Unseen
  <2> QED
    BY <2>1, <2>3, <2>5 DEF CleanupInv, HasRow
<1>7. ASSUME UNCHANGED vars PROVE CleanupInv'
  BY <1>7 DEF vars, driveVars, catalogVars, walkVars, cleanVars, history, CleanupInv, Unseen, HasRow,
              Clear, Effective
<1>8. ASSUME StartScan \/ RetryNext \/ Reconcile \/ (\E d \in Dirs : ListDir(d)) PROVE FALSE
  BY <1>8 DEF StartScan, RetryNext, Reconcile, ListDir, Reads, Discovered
<1> QED
  BY <1>1, <1>2, <1>3, <1>4, <1>5, <1>6, <1>7, <1>8, CleanSteps

-----------------------------------------------------------------------------
\* The inductive invariant of clean scans, beside ScanInv.
CleanInv == /\ CleanWalk /\ CleanRows
            /\ WalkClear /\ SeenClear /\ RuledClear /\ BackfillClear /\ CleanupInv

\* The invariant of clean scans holds in the first state.
LEMMA InitCleanInv == Init => CleanInv
<1> SUFFICES ASSUME Init PROVE CleanInv
  OBVIOUS
<1>1. CleanWalk /\ CleanRows /\ CleanupInv /\ BackfillClear
  BY DEF Init, CleanWalk, CleanRows, CleanupInv, BackfillClear
<1>2. WalkClear
  BY DEF Init, EmptyWalk, WalkClear, FramesClear, PutOffClear, FoundClear
<1>3. SeenClear /\ RuledClear
  BY DEF Init, EmptySnap, SeenClear, RuledClear
<1> QED
  BY <1>1, <1>2, <1>3 DEF CleanInv

\* The invariant of clean scans is inductive.
LEMMA StepCleanInv == ASSUME StartsClear PROVE ScanInv /\ CleanInv /\ [Next]_vars => CleanInv'
  BY CleanWalkStep, CleanRowsStep, WalkClearStep, SeenClearStep, RuledClearStep, BackfillClearStep,
     CleanupStep DEF ScanInv, CleanInv

\* The catalog when a scan without faults has deleted what it had to.
LEMMA FinishMirrors ==
  ASSUME ScanInv, CleanInv, FinishScan, clean, ~unruled
  PROVE  Mirrors
<1>1. /\ pc = "delete" /\ doomed = {} /\ stack = <<>> /\ found = <<>> /\ Types /\ WalkInv
  BY DEF FinishScan, ScanInv, PhaseInv
<1>2. Authoritative /\ left = {} /\ SeenInside
  BY <1>1, CleanAuthoritative DEF CleanInv, CleanWalk, Spotless
<1>3. \A f \in snap.seen : Placed(f) \/ (~HasRow(f) /\ \E g \in snap.seen : {f, g} \in Twins /\ HasRow(g))
  <2>1. \A f : ~Queued(f)
    BY <1>1 DEF Queued
  <2> QED
    BY <1>1, <2>1 DEF CleanInv, CleanRows
<1>4. \A f \in Unseen : ~HasRow(f)
  BY <1>1 DEF CleanInv, CleanupInv
<1>5. snap.seen \subseteq Files
  BY <1>1 DEF Types, WalkTypes, Snapshots
<1> SUFFICES ASSUME NEW f \in Files
             PROVE  /\ HasRow(f) /\ f \notin spared => InScope(f) /\ Locates(rows[f].chain, f)
                                                       /\ rows[f].parent = under[f]
                    /\ InScope(f) => HasRow(f) \/ \E g \in Files : {f, g} \in Twins /\ HasRow(g)
  BY DEF Mirrors
<1>6. ASSUME HasRow(f), f \notin spared
      PROVE  InScope(f) /\ Locates(rows[f].chain, f) /\ rows[f].parent = under[f]
  <2>1. f \in snap.seen
    BY <1>4, <1>6 DEF Unseen
  <2> QED
    BY <1>2, <1>3, <1>6, <2>1 DEF SeenInside, Placed
<1>7. ASSUME InScope(f) PROVE HasRow(f) \/ \E g \in Files : {f, g} \in Twins /\ HasRow(g)
  <2>1. KeptAt(f)
    BY <1>1, <1>2 DEF ScanInv, KeptInv
  <2>2. f \in snap.seen
    BY <1>1, <1>2, <1>7, <2>1, FullyRead
  <2> QED
    BY <1>3, <1>5, <2>2 DEF Placed
<1> QED
  BY <1>6, <1>7

\* A step to the end of a clean scan leaves the catalog as the drive is.
LEMMA MirrorsStep ==
  ASSUME ScanInv, CleanInv, ScanMirrors, [Next]_vars
  PROVE  ScanMirrors'
<1> SUFFICES ASSUME pc' = "idle", clean', ~unruled' PROVE Mirrors'
  BY DEF ScanMirrors
<1>1. ASSUME UNCHANGED <<under, config, rows, spared>>, Mirrors PROVE Mirrors'
  <2>1. \A f : /\ HasRow(f)' <=> HasRow(f)
               /\ InScope(f)' <=> InScope(f)
               /\ Locates(rows[f].chain, f)' <=> Locates(rows[f].chain, f)
    BY <1>1, DriveStill DEF HasRow
  <2> QED
    BY <1>1, <2>1 DEF Mirrors
<1>2. ASSUME FinishScan PROVE Mirrors'
  <2>1. clean /\ ~unruled /\ UNCHANGED <<under, config, rows, spared>>
    BY <1>2 DEF FinishScan, driveVars, catalogVars, history
  <2> QED
    BY <1>1, <1>2, <2>1, FinishMirrors
<1>3. ASSUME UNCHANGED vars PROVE Mirrors'
  <2>1. pc = "idle" /\ clean /\ ~unruled /\ UNCHANGED <<under, config, rows, spared>>
    BY <1>3 DEF vars, driveVars, catalogVars, history
  <2> QED
    BY <1>1, <2>1 DEF ScanMirrors
<1>4. ASSUME Owner PROVE FALSE
  BY <1>4 DEF Owner, Move, Upload, Configure
<1>5. ASSUME StopScan \/ (\E d \in Dirs : ListDeferred(d) \/ ListFails(d)) PROVE FALSE
  BY <1>5 DEF StopScan, ListDeferred, ListFails, Fault
<1>6. ASSUME \/ StartScan \/ RetryNext \/ Reconcile \/ PolicyDone \/ RemoveExcluded \/ RecordPolicy
             \/ Evaluate \/ (\E d \in Dirs : ListDir(d) \/ Backfill(d)) \/ (\E f \in Files : DeleteStale(f))
      PROVE  FALSE
  BY <1>6 DEF StartScan, RetryNext, Reconcile, PolicyDone, RemoveExcluded, RecordPolicy, Evaluate,
              ListDir, Backfill, DeleteStale, Reads, Reconciled, Discovered
<1> QED
  BY <1>2, <1>3, <1>4, <1>5, <1>6 DEF Next, Scan

\* Where no start directory is on a skip list: a scan in which nothing moved and
\* nothing failed leaves a row for every video of the configured part or for a
\* copy of it, under its present chain, and none for anything else.
\* (scan.go runScanWithTaskContext, scan_duplicates.go InsertScannedVideo)
THEOREM CleanScanMirrors == ASSUME StartsClear PROVE Spec => []ScanMirrors
<1>1. Init => ScanInv /\ CleanInv /\ ScanMirrors
  BY InitScanInv, InitCleanInv DEF Init, ScanMirrors
<1>2. ScanInv /\ CleanInv /\ ScanMirrors /\ [Next]_vars => (ScanInv /\ CleanInv /\ ScanMirrors)'
  BY StepScanInv, StepCleanInv, MirrorsStep
<1> QED
  BY <1>1, <1>2, PTL DEF Spec
=============================================================================
