-------------------------- MODULE VideoLibraryProofs --------------------------
(***************************************************************************)
(* Proofs about VideoLibrary, for any finite number of videos, files and   *)
(* file IDs and for any number of faults and deletions.                    *)
(*                                                                         *)
(* The migration acts on what it has read earlier: the listing of the      *)
(* target, the file it will bind the row to, the row it has just changed.  *)
(* The inductive invariant says what of that is still true when the        *)
(* migration comes to use it, although all the other actors have gone on.  *)
(***************************************************************************)
EXTENDS VideoLibrary, TLAPS

MigrationPoints == {"idle", "pick", "match", "find", "upload", "complete", "clean", "sweep"}
Looking == {"match", "find", "upload"}
Tombs == [file : IDs \cup {Nothing}, reason : {"none", "user", "duplicate"},
          keeper : IDs \cup {Nothing}, asked : BOOLEAN]
Runs == [pc : MigrationPoints, todo : SUBSET Crawled, cur : Crawled \cup {Nothing},
         file : IDs \cup {Nothing}, seen : {Unread} \cup SUBSET Copies, again : BOOLEAN]
Deletions == [pc : {"idle", "source", "row"}, id : IDs \cup {Nothing},
              file : IDs \cup {Nothing}]
Jobs == [pc : {"idle", "listed", "purge"}, id : IDs \cup {Nothing}, listed : Tombs]
Restores == [pc : {"idle", "listed", "row"}, id : Crawled \cup {Nothing},
             file : Crawled \cup {Nothing}]

Shapes ==
    /\ at \in [IDs -> IDs \cup {Nothing}]
    /\ tomb \in [IDs -> Tombs]
    /\ present \subseteq IDs
    /\ named \in [Copies -> Crawled \cup {Nothing}]
    /\ mig \in Runs
    /\ del \in Deletions /\ (del = NoDel \/ del.id \in IDs)
    /\ merged \subseteq IDs /\ revived \subseteq Crawled
    /\ job \in Jobs
    /\ rest \in Restores /\ (rest = NoRest \/ (rest.id = rest.file /\ rest.id \in Crawled))

\* Rows and tombstones: a video is live or buried or half restored, a row or
\* tombstone that names a local file names that of its own video, exactly the
\* merged videos have a keeper, and only videos of a crawler that a user has
\* deleted are asked back.
RowInv ==
    /\ \A id \in IDs : at[id] \in Crawled => at[id] = id
    /\ \A id \in IDs : Live(id) /\ tomb[id] # NoTomb => id \in halfway
    /\ \A id \in IDs : tomb[id].file \in Crawled => tomb[id].file = id
    /\ \A id \in IDs : tomb[id] # NoTomb => tomb[id].file \in IDs
    /\ \A id \in IDs : tomb[id].reason = "duplicate" <=> tomb[id].keeper # Nothing
    /\ \A id \in IDs : tomb[id].asked => tomb[id].reason = "user" /\ tomb[id].file = id

\* The candidate at hand: the file its row will name has existed and went only
\* by a deletion; and once its row has changed nothing leads to its local file,
\* unless a restore stopped halfway.
NotNeeded(v) ==
    /\ at[v] # v \/ v \in revived
    /\ tomb[v].file # v \/ v \in halfway \cup revived

RunInv ==
    /\ mig.cur = Nothing <=> mig.pc \in {"idle", "pick", "sweep"}
    /\ mig.cur \notin mig.todo
    /\ mig.pc \in {"complete", "clean"} => mig.file \in OnTarget
    /\ mig.pc = "complete" => mig.file \in present \cup wiped
    /\ mig.pc = "clean" => NotNeeded(mig.cur)

\* The listing read earlier: a copy it does not show was uploaded since, for a
\* video that this run will not look at again.
ListingInv ==
    mig.seen # Unread =>
       /\ mig.seen \subseteq present \cup wiped
       /\ \A c \in (present \cap Copies) \ mig.seen :
             /\ named[c] \notin mig.todo
             /\ mig.pc \in Looking => named[c] # mig.cur

\* The copies: an upload begins only when the drive has no copy of the video.
CopyInv ==
    /\ \A c \in present \cap Copies : named[c] # Nothing
    /\ mig.pc = "upload" =>
          mig.seen # Unread /\ \A c \in present \cap Copies : named[c] # mig.cur
    /\ OneCopyPerName

\* A restore: what it has listed is still asked for, without a row and with its
\* file, unless an earlier restore of the video stopped halfway.
RestInv ==
    /\ rest.pc = "listed" => \/ rest.id \in halfway \cup revived
                            \/ /\ ~Live(rest.id) /\ tomb[rest.id].asked
                               /\ rest.id \in present \cup wiped
    /\ rest.pc = "row" => rest.id \in halfway

\* The lock of the blacklist job: nobody asks a video back before its purge.
LockInv ==
    /\ job.pc # "idle" => job.id \in IDs
    /\ job.pc = "purge" => ~tomb[job.id].asked

\* The inductive invariant.
IInv == /\ Shapes /\ RowInv /\ RunInv /\ ListingInv /\ CopyInv /\ RestInv /\ LockInv
        /\ CopyKept /\ AliasResolves

-----------------------------------------------------------------------------
(***************************************************************************)
(* What the assumption gives: no file is Nothing, and the three kinds of   *)
(* files are apart.                                                        *)
(***************************************************************************)
LEMMA KindsApart ==
    /\ Nothing \notin IDs /\ Nothing \notin Crawled /\ Nothing \notin Copies
    /\ Crawled \cap OnTarget = {} /\ Copies \subseteq OnTarget
    /\ Crawled \subseteq IDs /\ OnTarget \subseteq IDs /\ Copies \subseteq IDs
    /\ Unread \notin SUBSET Copies
BY VideoLibraryAssumption DEF IDs, OnTarget, Unread

(***************************************************************************)
(* The tombstones the actions write are tombstones.                        *)
(***************************************************************************)
LEMMA NoTombProperties ==
    /\ NoTomb \in Tombs /\ NoTomb.file = Nothing /\ NoTomb.reason = "none"
    /\ NoTomb.keeper = Nothing /\ ~NoTomb.asked
BY DEF NoTomb, Tombs

\* The tombstone of a deleted row.
LEMMA BuriedProperties ==
  ASSUME NEW id, NEW reason \in {"user", "duplicate"}, NEW keeper \in IDs \cup {Nothing},
         at[id] \in IDs
  PROVE  LET b == Buried(id, reason, keeper) IN
         /\ b \in Tombs /\ b.file = at[id] /\ b.reason = reason
         /\ b.keeper = keeper /\ ~b.asked
BY DEF Buried, Tombs

\* A tombstone that now names another keeper.
LEMMA KeeperChanged ==
  ASSUME NEW t \in Tombs, NEW k \in IDs, NEW u, u = [t EXCEPT !.keeper = k]
  PROVE  /\ u \in Tombs /\ u.file = t.file /\ u.reason = t.reason
         /\ u.keeper = k /\ u.asked = t.asked
BY DEF Tombs

\* A tombstone whose restore has been asked for.
LEMMA Marked ==
  ASSUME NEW t \in Tombs, NEW u, u = [t EXCEPT !.asked = TRUE]
  PROVE  u \in Tombs /\ u.file = t.file /\ u.reason = t.reason /\ u.keeper = t.keeper
BY DEF Tombs

\* The invariant holds at first.
LEMMA InitInv == Init => IInv
<1> SUFFICES ASSUME Init PROVE IInv
  OBVIOUS
<1> USE KindsApart DEF Init
<1>1. Shapes
  BY DEF Shapes, Tombs, Runs, Deletions, Restores, Jobs, NoTomb, Idle, NoDel, NoRest,
         NoJob, MigrationPoints, IDs, OnTarget
<1>2. RowInv /\ AliasResolves
  BY DEF RowInv, AliasResolves, NoTomb
<1>3. RunInv /\ ListingInv
  BY DEF RunInv, ListingInv, Idle
<1>4. CopyInv
  BY VideoLibraryAssumption DEF CopyInv, OneCopyPerName, Idle
<1>5. CopyKept
  BY DEF CopyKept, Live, IDs, OnTarget
<1>6. RestInv /\ LockInv
  BY DEF RestInv, LockInv, NoRest, NoJob
<1> QED
  BY <1>1, <1>2, <1>3, <1>4, <1>5, <1>6 DEF IInv

(***************************************************************************)
(* A step of the migration that only moves it on.                          *)
(***************************************************************************)
LEMMA RunOnly ==
  ASSUME IInv, UNCHANGED <<catalogVars, fileVars, del, job, rest, history>>,
         mig' \in Runs, RunInv', ListingInv',
         mig'.pc = "upload" =>
            mig'.seen # Unread /\ \A c \in present \cap Copies : named[c] # mig'.cur
  PROVE  IInv'
<1> USE DEF IInv, catalogVars, fileVars, history, restores
<1>1. Shapes' /\ RowInv' /\ CopyKept' /\ AliasResolves'
  BY DEF Shapes, RowInv, CopyKept, AliasResolves, Live
<1>2. CopyInv' /\ RestInv' /\ LockInv'
  BY DEF CopyInv, OneCopyPerName, RestInv, LockInv, Live
<1> QED
  BY <1>1, <1>2

(***************************************************************************)
(* A step of anybody else: files only go, and only as wiped.  What is left *)
(* to show is about the catalog.                                           *)
(***************************************************************************)
LEMMA OthersOnly ==
  ASSUME IInv, UNCHANGED <<mig, named>>, present' \subseteq present,
         present \cup wiped \subseteq present' \cup wiped'
  PROVE  /\ ListingInv' /\ CopyInv'
         /\ (mig.pc = "clean" => NotNeeded(mig.cur)') => RunInv'
<1> USE DEF IInv
<1>1. ListingInv'
  BY DEF ListingInv
<1>2. CopyInv'
  BY DEF CopyInv, OneCopyPerName
<1>3. ASSUME mig.pc = "clean" => NotNeeded(mig.cur)'
      PROVE  RunInv'
  BY <1>3 DEF RunInv, NotNeeded
<1> QED
  BY <1>1, <1>2, <1>3

-----------------------------------------------------------------------------
(* The migration.                                                          *)

\* The steps of a run that read nothing new and change no row.
LEMMA MovesOn ==
  ASSUME IInv, StartRun \/ Block \/ NoMatch \/ StartSweep \/ RunEnds \/ RunStops
  PROVE  IInv'
<1> USE KindsApart DEF IInv, MigrationOnly, catalogVars, fileVars, history, restores, Shapes
<1>1. CASE StartRun
  <2>1. mig' \in Runs
    BY <1>1 DEF StartRun, Runs, Idle, MigrationPoints
  <2>2. RunInv' /\ ListingInv' /\ mig'.pc # "upload"
    BY <1>1 DEF StartRun, RunInv, ListingInv, Idle
  <2> QED
    BY <1>1, <2>1, <2>2, RunOnly DEF StartRun
<1>2. CASE Block
  <2>1. mig' \in Runs
    BY <1>2 DEF Block, NextCandidate, Runs, MigrationPoints
  <2>2. RunInv' /\ ListingInv' /\ mig'.pc # "upload"
    BY <1>2 DEF Block, NextCandidate, RunInv, ListingInv, Runs, Looking
  <2> QED
    BY <1>2, <2>1, <2>2, RunOnly DEF Block
<1>3. CASE NoMatch
  <2>1. mig' \in Runs
    BY <1>3 DEF NoMatch, Step, Runs, MigrationPoints
  <2>2. RunInv' /\ ListingInv' /\ mig'.pc # "upload"
    BY <1>3 DEF NoMatch, Step, RunInv, ListingInv, Runs, Looking
  <2> QED
    BY <1>3, <2>1, <2>2, RunOnly DEF NoMatch
<1>4. CASE StartSweep
  <2>1. mig' \in Runs
    BY <1>4 DEF StartSweep, Runs, Idle, MigrationPoints
  <2>2. RunInv' /\ ListingInv' /\ mig'.pc # "upload"
    BY <1>4 DEF StartSweep, RunInv, ListingInv, Idle
  <2> QED
    BY <1>4, <2>1, <2>2, RunOnly DEF StartSweep
<1>5. CASE RunEnds \/ RunStops
  <2>1. mig' = Idle /\ UNCHANGED <<catalogVars, fileVars, del, job, rest, history>>
    BY <1>5 DEF RunEnds, RunStops
  <2>2. mig' \in Runs
    BY <2>1 DEF Runs, Idle, MigrationPoints
  <2>3. RunInv' /\ ListingInv' /\ mig'.pc # "upload"
    BY <2>1 DEF RunInv, ListingInv, Idle
  <2> QED
    BY <2>1, <2>2, <2>3, RunOnly
<1> QED
  BY <1>1, <1>2, <1>3, <1>4, <1>5

\* The run picks a video and looks at the target.
LEMMA PickInv == ASSUME IInv, NEW v \in Crawled, Pick(v) PROVE IInv'
<1> USE KindsApart DEF IInv, MigrationOnly, catalogVars, fileVars, history, restores, Shapes, Pick
<1>1. mig' \in Runs
  BY DEF Runs, MigrationPoints
<1>2. RunInv' /\ mig'.pc # "upload"
  BY DEF RunInv, Runs
<1>3. ListingInv'
  BY DEF ListingInv, Runs, Looking
<1> QED
  BY <1>1, <1>2, <1>3, RunOnly

\* The run finds a row of the target with the same file name.
LEMMA MatchInv == ASSUME IInv, NEW id \in IDs, Match(id) PROVE IInv'
<1> USE KindsApart DEF IInv, MigrationOnly, catalogVars, fileVars, history, restores, Shapes, Match
<1>1. mig' \in Runs
  BY DEF Runs, MigrationPoints
<1>2. at[id] \in present \cup wiped
  BY DEF CopyKept, Live
<1>3. RunInv' /\ mig'.pc # "upload"
  BY <1>2 DEF RunInv, Runs
<1>4. ListingInv'
  BY DEF ListingInv, Runs, Looking
<1> QED
  BY <1>1, <1>3, <1>4, RunOnly

\* The run finds a copy that was uploaded earlier.
LEMMA FindInv == ASSUME IInv, FindExisting PROVE IInv'
<1> USE KindsApart DEF IInv, MigrationOnly, catalogVars, fileVars, history, restores, Shapes
<1> DEFINE list == IF mig.seen = Unread THEN present \cap Copies ELSE mig.seen
           same == {c \in list : named[c] = mig.cur}
<1>1. list \subseteq Copies /\ list # Unread /\ list \subseteq present \cup wiped
  BY DEF Runs, ListingInv
<1>2. \A c \in (present \cap Copies) \ list :
         named[c] \notin mig.todo /\ named[c] # mig.cur
  BY DEF FindExisting, ListingInv, Looking
<1> HIDE DEF list
<1>3. CASE mig.cur \notin present /\ NextCandidate
  <2>1. mig' \in Runs
    BY <1>3 DEF NextCandidate, Runs, MigrationPoints
  <2>2. RunInv' /\ ListingInv' /\ mig'.pc # "upload"
    BY <1>3 DEF FindExisting, NextCandidate, RunInv, ListingInv, Runs, Looking
  <2> QED
    BY <1>3, <2>1, <2>2, RunOnly DEF FindExisting
<1>4. CASE same = {} /\ mig' = [mig EXCEPT !.pc = "upload", !.seen = list]
  <2>1. mig' \in Runs
    BY <1>1, <1>4 DEF Runs, MigrationPoints
  <2>2. RunInv'
    BY <1>4 DEF FindExisting, RunInv, Runs
  <2>3. ListingInv'
    BY <1>1, <1>2, <1>4 DEF FindExisting, ListingInv, Runs
  <2>4. mig'.seen # Unread /\ \A c \in present \cap Copies : named[c] # mig'.cur
    BY <1>1, <1>2, <1>4 DEF Runs
  <2> QED
    BY <2>1, <2>2, <2>3, <2>4, RunOnly DEF FindExisting
<1>5. ASSUME NEW c \in same,
             mig' = [mig EXCEPT !.pc = "complete", !.file = c, !.seen = list]
      PROVE  IInv'
  <2>1. mig' \in Runs
    BY <1>1, <1>5 DEF Runs, MigrationPoints
  <2>2. RunInv' /\ mig'.pc # "upload"
    BY <1>1, <1>5 DEF FindExisting, RunInv, Runs
  <2>3. ListingInv'
    BY <1>1, <1>2, <1>5 DEF FindExisting, ListingInv, Runs, Looking
  <2> QED
    BY <2>1, <2>2, <2>3, RunOnly DEF FindExisting
<1> QED
  BY <1>3, <1>4, <1>5 DEF FindExisting, list

(***************************************************************************)
(* The candidate ends, or is looked up anew after an error of the upload.  *)
(***************************************************************************)
LEMMA GivenUp ==
  ASSUME IInv, mig.pc = "upload", Retry \/ NextCandidate
  PROVE  /\ mig' \in Runs /\ mig'.pc \in {"pick", "find"}
         /\ mig'.cur = Nothing <=> mig'.pc = "pick"
         /\ mig'.todo = mig.todo /\ mig'.cur \notin mig.todo
         /\ mig'.seen \in {mig.seen, Unread}
         /\ mig'.pc = "find" => mig'.seen = Unread
<1> USE KindsApart DEF IInv, Shapes, RunInv, Runs, MigrationPoints
<1>1. CASE NextCandidate
  BY <1>1 DEF NextCandidate
<1>2. CASE mig' = [mig EXCEPT !.pc = "find", !.again = TRUE, !.seen = Unread]
  BY <1>2
<1> QED
  BY <1>1, <1>2 DEF Retry

\* An upload fails without effect.
LEMMA UploadFailsInv == ASSUME IInv, UploadFails PROVE IInv'
<1> USE DEF IInv, UploadFails, MigrationOnly
<1>1. RunInv' /\ mig' \in Runs /\ mig'.pc # "upload"
  BY GivenUp DEF RunInv
<1>2. ListingInv'
  BY GivenUp DEF ListingInv, fileVars, history, Looking
<1> QED
  BY <1>1, <1>2, RunOnly

(***************************************************************************)
(* An upload begins when no copy bears the name, so one does afterwards.   *)
(***************************************************************************)
LEMMA Stored ==
  ASSUME IInv, NEW c \in Copies, Store(c)
  PROVE  /\ present' = present \cup {c} /\ present' \subseteq IDs
         /\ named' \in [Copies -> Crawled \cup {Nothing}]
         /\ mig.cur \in Crawled /\ named'[c] = mig.cur /\ c \notin present
         /\ \A d \in Copies \ {c} : named'[d] = named[d]
         /\ \A d \in present' \cap Copies : named'[d] # Nothing
         /\ OneCopyPerName'
<1> USE KindsApart DEF IInv, Store
<1>1. /\ present' = present \cup {c} /\ present' \subseteq IDs
      /\ mig.cur \in Crawled /\ c \notin present
  BY DEF Shapes, Runs, RunInv, CopyInv
<1>2. /\ named' \in [Copies -> Crawled \cup {Nothing}] /\ named'[c] = mig.cur
      /\ \A d \in Copies \ {c} : named'[d] = named[d]
  BY <1>1 DEF Shapes
<1>3. \A d \in present' \cap Copies : named'[d] # Nothing
  BY <1>1, <1>2 DEF CopyInv
<1>4. \A d \in (present' \cap Copies) \ {c} : named'[d] # named'[c]
  BY <1>1, <1>2 DEF CopyInv
<1>5. OneCopyPerName'
  BY <1>1, <1>2, <1>4 DEF CopyInv, OneCopyPerName
<1> QED
  BY <1>1, <1>2, <1>3, <1>5

(***************************************************************************)
(* After the upload, whatever the migration heard of it: the catalog is as *)
(* it was, and the run must not look for this video with the old listing.  *)
(***************************************************************************)
LEMMA AfterStore ==
  ASSUME IInv, NEW c \in Copies, Store(c), MigrationOnly, UNCHANGED catalogVars,
         mig' \in Runs, RunInv', mig'.pc # "upload", mig'.todo = mig.todo,
         mig'.seen # Unread => mig'.seen = mig.seen /\ mig'.pc \notin Looking
  PROVE  IInv'
<1> USE KindsApart, Stored DEF IInv, MigrationOnly, catalogVars, history, restores
<1>1. Shapes'
  BY DEF Shapes
<1>2. RowInv' /\ AliasResolves'
  BY DEF RowInv, AliasResolves, Live
<1>3. CopyKept'
  BY DEF CopyKept, Live
<1>4. CopyInv' /\ RestInv' /\ LockInv'
  BY DEF CopyInv, RestInv, LockInv, Live
<1>5. ListingInv'
  <2>1. mig.cur \notin mig.todo
    BY DEF RunInv
  <2> QED
    BY <2>1 DEF ListingInv
<1> QED
  BY <1>1, <1>2, <1>3, <1>4, <1>5

\* An upload takes effect, whether its answer arrives or not.
LEMMA UploadInv ==
  ASSUME IInv, NEW c \in Copies, Upload(c) \/ AnswerLost(c)
  PROVE  IInv'
<1> USE KindsApart
<1>1. CASE Upload(c)
  <2>1. /\ Store(c) /\ MigrationOnly /\ UNCHANGED catalogVars
        /\ mig' = [mig EXCEPT !.pc = "complete", !.file = c]
    BY <1>1 DEF Upload
  <2>2. mig' \in Runs
    BY <2>1 DEF IInv, Shapes, Runs, MigrationPoints
  <2>3. RunInv'
    BY <2>1, Stored DEF IInv, Shapes, Runs, RunInv
  <2> QED
    BY <2>1, <2>2, <2>3, AfterStore DEF IInv, Shapes, Runs, Looking
<1>2. CASE AnswerLost(c)
  <2>1. /\ Store(c) /\ MigrationOnly /\ UNCHANGED catalogVars
        /\ mig.pc = "upload" /\ (Retry \/ NextCandidate)
    BY <1>2 DEF AnswerLost, Store
  <2>2. RunInv'
    BY <2>1, GivenUp DEF RunInv
  <2> QED
    BY <2>1, <2>2, GivenUp, AfterStore DEF Looking
<1> QED
  BY <1>1, <1>2

(***************************************************************************)
(* The row changes to the file at hand only while it names the local one.  *)
(***************************************************************************)
LEMMA CompleteInv == ASSUME IInv, Complete PROVE IInv'
<1> USE KindsApart DEF IInv, MigrationOnly, fileVars, history, restores
<1>1. CASE at[mig.cur] # mig.cur
  <2>1. NextCandidate /\ UNCHANGED <<catalogVars, fileVars, del, job, rest, history>>
    BY <1>1 DEF Complete, catalogVars
  <2>2. mig' \in Runs
    BY <2>1 DEF NextCandidate, Shapes, Runs, MigrationPoints
  <2>3. RunInv' /\ mig'.pc # "upload"
    BY <2>1 DEF NextCandidate, Shapes, Runs, RunInv, Complete
  <2>4. ListingInv'
    BY <2>1 DEF NextCandidate, Shapes, Runs, ListingInv, Looking
  <2> QED
    BY <2>1, <2>2, <2>3, <2>4, RunOnly
<1>2. CASE at[mig.cur] = mig.cur
  <2>1. /\ at' = [at EXCEPT ![mig.cur] = mig.file] /\ mig' = [mig EXCEPT !.pc = "clean"]
        /\ UNCHANGED <<tomb, fileVars, del, job, rest, history>>
    BY <1>2 DEF Complete, Step
  <2>2. /\ mig.cur \in Crawled /\ mig.file \in OnTarget /\ mig.file \in present \cup wiped
        /\ mig.pc = "complete"
    BY DEF Complete, Shapes, Runs, RunInv
  <2>3. Live(mig.cur) /\ (tomb[mig.cur] = NoTomb \/ mig.cur \in halfway)
    BY <1>2, <2>2 DEF Live, RowInv
  <2>4. /\ at' \in [IDs -> IDs \cup {Nothing}]
        /\ at'[mig.cur] = mig.file
        /\ \A id \in IDs \ {mig.cur} : at'[id] = at[id]
    BY <2>1, <2>2 DEF Shapes
  <2>5. Shapes'
    BY <2>1, <2>4 DEF Shapes, Runs, MigrationPoints
  <2>6. RowInv'
    BY <2>1, <2>2, <2>3, <2>4 DEF RowInv, Live
  <2>7. RunInv'
    BY <2>1, <2>2, <2>3, <2>4 DEF RunInv, NotNeeded, Shapes, Runs, NoTomb
  <2>8. ListingInv' /\ CopyInv'
    BY <2>1, <2>2 DEF ListingInv, CopyInv, OneCopyPerName, Shapes, Runs, Looking
  <2>9. CopyKept' /\ AliasResolves'
    BY <2>1, <2>2, <2>3, <2>4 DEF CopyKept, AliasResolves, Live, Shapes, Tombs, RowInv
  <2>10. RestInv' /\ LockInv'
    BY <2>1, <2>3, <2>4 DEF RestInv, LockInv, Live, Shapes, Restores
  <2> QED
    BY <2>5, <2>6, <2>7, <2>8, <2>9, <2>10
<1> QED
  BY <1>1, <1>2

(***************************************************************************)
(* Local files the migration removes are named by no row: neither the one  *)
(* of the candidate nor the ones the sweep finds migrated.  Nor does a     *)
(* restore wait for one, unless an earlier one stopped halfway.            *)
(***************************************************************************)
LEMMA LocalGone ==
  ASSUME IInv, NEW v \in Crawled, present' \in {present, present \ {v}},
         at[v] # v \/ v \in revived,
         Live(v) \/ ~tomb[v].asked \/ v \in halfway \cup revived,
         UNCHANGED <<catalogVars, named, del, job, rest, history>>,
         mig' \in Runs, mig'.pc \in {"pick", "sweep"}, mig'.cur = Nothing,
         mig'.todo \subseteq mig.todo, mig'.seen = mig.seen
  PROVE  IInv'
<1> USE KindsApart DEF IInv, catalogVars, history, restores
<1>1. Shapes' /\ RowInv' /\ AliasResolves'
  BY DEF Shapes, RowInv, AliasResolves, Live
<1>2. RunInv'
  BY DEF RunInv, Runs
<1>3. ListingInv'
  BY DEF ListingInv, Looking, Shapes, Runs
<1>4. CopyInv'
  BY DEF CopyInv, OneCopyPerName
<1>5. CopyKept'
  BY DEF CopyKept, Live, RowInv
<1>6. RestInv' /\ LockInv'
  BY DEF RestInv, LockInv, Live
<1> QED
  BY <1>1, <1>2, <1>3, <1>4, <1>5, <1>6

\* The local file of a migrated row is removed.
LEMMA CleanupInv == ASSUME IInv, CleanupLocal PROVE IInv'
<1> USE KindsApart DEF IInv
<1>1. /\ mig.cur \in Crawled /\ NotNeeded(mig.cur)
      /\ present' \in {present, present \ {mig.cur}}
      /\ UNCHANGED <<catalogVars, named, del, job, rest, history>> /\ NextCandidate
  BY DEF CleanupLocal, MigrationOnly, RunInv, Shapes, Runs
<1>2. /\ mig' \in Runs /\ mig'.pc = "pick" /\ mig'.cur = Nothing
      /\ mig'.todo = mig.todo /\ mig'.seen = mig.seen
  BY <1>1 DEF NextCandidate, Shapes, Runs, MigrationPoints
<1>3. ~tomb[mig.cur].asked \/ mig.cur \in halfway \cup revived
  BY <1>1 DEF NotNeeded, RowInv
<1> QED
  BY <1>1, <1>2, <1>3, LocalGone DEF NotNeeded

\* The sweep removes a local file that no row needs.
LEMMA SweepInv == ASSUME IInv, NEW v \in Crawled, Sweep(v) PROVE IInv'
<1> USE KindsApart DEF IInv
<1>1. /\ mig' \in Runs /\ mig'.pc = "sweep" /\ mig'.cur = Nothing
      /\ mig'.todo \subseteq mig.todo /\ mig'.seen = mig.seen
  BY DEF Sweep, Shapes, Runs, RunInv
<1>2. UNCHANGED <<catalogVars, named, del, job, rest, history>>
  BY DEF Sweep, MigrationOnly
<1>3. CASE Migrated(v)
  <2>1. at[v] # v /\ Live(v) /\ present' \in {present, present \ {v}}
    BY <1>3 DEF Migrated, Sweep, Live
  <2> QED
    BY <1>1, <1>2, <2>1, LocalGone
<1>4. CASE ~Migrated(v)
  <2>1. UNCHANGED <<catalogVars, fileVars, del, job, rest, history>>
    BY <1>2, <1>4 DEF Sweep, fileVars
  <2>2. RunInv' /\ ListingInv'
    BY <1>1, <2>1 DEF RunInv, ListingInv, Runs, Looking, fileVars, history, Sweep, Shapes
  <2> QED
    BY <1>1, <2>1, <2>2, RunOnly
<1> QED
  BY <1>3, <1>4

\* Any step of the migration.
LEMMA MigrationInv == ASSUME IInv, Migration PROVE IInv'
BY MovesOn, PickInv, MatchInv, FindInv, UploadFailsInv, UploadInv, CompleteInv,
   CleanupInv, SweepInv
   DEF Migration

-----------------------------------------------------------------------------
(* Users, the blacklist, merges and scans.                                 *)

\* The types of the catalog.
CatalogShape == at \in [IDs -> IDs \cup {Nothing}] /\ tomb \in [IDs -> Tombs]

(***************************************************************************)
(* One row goes, with a tombstone or without, and nothing else changes in  *)
(* the catalog: the addresses that led to it are given up.                 *)
(***************************************************************************)
LEMMA RowGone ==
  ASSUME IInv, NEW id \in IDs,
         at' = [at EXCEPT ![id] = Nothing],
         tomb' = tomb \/ (Live(id) /\ tomb' = [tomb EXCEPT ![id] = Buried(id, "user", Nothing)]),
         merged' = IF Live(id) THEN merged \ LedTo(id) ELSE merged,
         UNCHANGED <<mig, rest, job, purged, restores>>,
         present \cup wiped \subseteq present' \cup wiped'
  PROVE  /\ CatalogShape' /\ RowInv' /\ AliasResolves' /\ RestInv' /\ LockInv'
         /\ mig.pc = "clean" => NotNeeded(mig.cur)'
         /\ \A i \in IDs : at'[i] # Nothing => at'[i] = at[i]
<1> USE KindsApart DEF IInv, restores
<1>1. /\ \A i \in IDs \ {id} : at'[i] = at[i] /\ tomb'[i] = tomb[i]
      /\ at'[id] = Nothing /\ Live(id) => at[id] \in IDs
      /\ at' \in [IDs -> IDs \cup {Nothing}]
  BY DEF Shapes, Live
<1>2. tomb'[id] = tomb[id] \/ (Live(id) /\ tomb'[id] = Buried(id, "user", Nothing))
  BY DEF Shapes
<1>3. tomb' \in [IDs -> Tombs]
  BY <1>1, BuriedProperties DEF Shapes
<1>4. \/ tomb'[id] = tomb[id]
      \/ /\ Live(id) /\ tomb'[id].file = at[id] /\ at[id] \in IDs /\ ~tomb'[id].asked
         /\ tomb'[id].reason = "user" /\ tomb'[id].keeper = Nothing
  BY <1>1, <1>2, BuriedProperties
<1>5. RowInv'
  <2> SUFFICES ASSUME NEW i \in IDs
               PROVE  /\ at'[i] \in Crawled => at'[i] = i
                      /\ at'[i] # Nothing /\ tomb'[i] # NoTomb => i \in halfway
                      /\ tomb'[i].file \in Crawled => tomb'[i].file = i
                      /\ tomb'[i] # NoTomb => tomb'[i].file \in IDs
                      /\ tomb'[i].reason = "duplicate" <=> tomb'[i].keeper # Nothing
                      /\ tomb'[i].asked => tomb'[i].reason = "user" /\ tomb'[i].file = i
    BY DEF RowInv, Live
  <2> QED
    BY <1>1, <1>4 DEF RowInv, Live
<1>6. AliasResolves'
  <2> SUFFICES ASSUME NEW i \in merged', at'[i] = Nothing, i \notin purged
               PROVE  tomb'[i].reason = "duplicate" /\ at'[tomb'[i].keeper] # Nothing
    BY DEF AliasResolves, Live
  <2>1. i \in IDs /\ i \in merged /\ (Live(id) => i # id /\ tomb[i].keeper # id)
    BY DEF LedTo, Shapes
  <2>2. ~Live(i) /\ tomb'[i] = tomb[i]
    BY <1>1, <1>2, <2>1 DEF Live
  <2>3. tomb[i].reason = "duplicate" /\ Live(tomb[i].keeper) /\ tomb[i].keeper \in IDs
    BY <2>1, <2>2 DEF AliasResolves, RowInv, Shapes, Tombs
  <2> QED
    BY <1>1, <2>1, <2>2, <2>3 DEF Live
<1>7. mig.pc = "clean" => NotNeeded(mig.cur)'
  <2> HAVE mig.pc = "clean"
  <2>1. mig.cur \in Crawled /\ NotNeeded(mig.cur)
    BY DEF RunInv, Shapes, Runs
  <2> QED
    BY <1>1, <1>4, <2>1 DEF NotNeeded
<1>8. RestInv'
  BY <1>1, <1>2 DEF RestInv, Live, Shapes, Restores, NoRest
<1>9. LockInv'
  BY <1>1, <1>4 DEF LockInv
<1> QED
  BY <1>1, <1>3, <1>5, <1>6, <1>7, <1>8, <1>9 DEF CatalogShape

\* A user deletes a video.
LEMMA DeletionInv == ASSUME IInv, Deletion PROVE IInv'
<1> USE KindsApart DEF IInv
<1>1. ASSUME NEW id \in IDs, Delete(id) PROVE IInv'
  <2>1. /\ CatalogShape' /\ RowInv' /\ RunInv' /\ ListingInv' /\ CopyInv' /\ AliasResolves'
        /\ RestInv' /\ LockInv' /\ \A i \in IDs : at'[i] # Nothing => at'[i] = at[i]
    BY <1>1, RowGone, OthersOnly DEF Delete, fileVars, workVars, restores
  <2>2. Shapes'
    BY <1>1, <2>1 DEF Delete, fileVars, workVars, restores, Shapes, CatalogShape, LedTo
  <2>3. CopyKept'
    BY <1>1, <2>1 DEF Delete, fileVars, restores, CopyKept, Live
  <2> QED
    BY <2>1, <2>2, <2>3
<1>2. ASSUME NEW id \in IDs, ReadRow(id) PROVE IInv'
  <2>1. UNCHANGED <<at, tomb, present, named, mig, job, rest, wiped, merged, purged, restores>>
    BY <1>2 DEF ReadRow, DeleteOnly
  <2>2. Shapes'
    BY <1>2, <2>1 DEF ReadRow, Shapes, Deletions, restores
  <2>3. RunInv' /\ ListingInv' /\ CopyInv'
    BY <2>1, OthersOnly DEF restores, RunInv, NotNeeded
  <2>4. RowInv' /\ CopyKept' /\ AliasResolves' /\ RestInv' /\ LockInv'
    BY <2>1 DEF RowInv, CopyKept, AliasResolves, RestInv, LockInv, Live, restores
  <2> QED
    BY <2>2, <2>3, <2>4
<1>3. ASSUME DeleteSource PROVE IInv'
  <2>1. /\ UNCHANGED <<at, tomb, named, mig, job, rest, merged, purged, restores>>
        /\ present' \subseteq present
        /\ present \cup wiped \subseteq present' \cup wiped'
    BY <1>3 DEF DeleteSource, DeleteOnly
  <2>2. Shapes'
    BY <1>3, <2>1 DEF DeleteSource, Shapes, Deletions, NoDel, restores
  <2>3. RunInv' /\ ListingInv' /\ CopyInv'
    BY <2>1, OthersOnly DEF RunInv, NotNeeded, restores
  <2>4. RowInv' /\ CopyKept' /\ AliasResolves' /\ RestInv' /\ LockInv'
    BY <2>1 DEF RowInv, CopyKept, AliasResolves, RestInv, LockInv, Live, restores
  <2> QED
    BY <2>2, <2>3, <2>4
<1>4. ASSUME DeleteRow PROVE IInv'
  <2>1. /\ del.id \in IDs /\ del' = NoDel
        /\ UNCHANGED <<tomb, named, mig, job, rest, present, wiped, purged, restores>>
        /\ merged' = IF Live(del.id) THEN merged \ LedTo(del.id) ELSE merged
        /\ at' = [at EXCEPT ![del.id] = Nothing]
    BY <1>4 DEF DeleteRow, DeleteOnly, Shapes, NoDel
  <2>2. /\ CatalogShape' /\ RowInv' /\ RunInv' /\ ListingInv' /\ CopyInv' /\ AliasResolves'
        /\ RestInv' /\ LockInv' /\ \A i \in IDs : at'[i] # Nothing => at'[i] = at[i]
    BY <2>1, RowGone, OthersOnly
  <2>3. Shapes'
    BY <2>1, <2>2 DEF Shapes, CatalogShape, Deletions, NoDel, restores
  <2>4. CopyKept'
    BY <2>1, <2>2 DEF CopyKept, Live, restores
  <2> QED
    BY <2>2, <2>3, <2>4
<1> QED
  BY <1>1, <1>2, <1>3, <1>4 DEF Deletion

\* The blacklist job removes a file from its drive.
LEMMA JobInv ==
  ASSUME IInv, (\E id \in IDs : StartJob(id)) \/ JobRemove \/ JobPurge
  PROVE  IInv'
<1> USE KindsApart DEF IInv, JobOnly
<1>1. ASSUME NEW id \in IDs, StartJob(id) PROVE IInv'
  <2>1. /\ UNCHANGED <<at, tomb, present, named, mig, del, rest, history>>
        /\ job'.id = id /\ job'.pc = "listed"
    BY <1>1 DEF StartJob, history
  <2>2. RunInv' /\ ListingInv' /\ CopyInv'
    BY <2>1, OthersOnly DEF history, restores, RunInv, NotNeeded
  <2>3. RowInv' /\ CopyKept' /\ AliasResolves' /\ RestInv' /\ LockInv'
    BY <2>1 DEF RowInv, CopyKept, AliasResolves, RestInv, LockInv, Live, history, restores
  <2>4. Shapes'
    BY <1>1, <2>1 DEF StartJob, Shapes, Jobs, history, restores
  <2> QED
    BY <2>2, <2>3, <2>4
<1>2. ASSUME JobRemove PROVE IInv'
  <2>1. /\ UNCHANGED <<at, tomb, named, mig, del, rest, merged, purged, restores>>
        /\ present' \subseteq present
        /\ present \cup wiped \subseteq present' \cup wiped'
    BY <1>2 DEF JobRemove, StillListed
  <2>2. RunInv' /\ ListingInv' /\ CopyInv'
    BY <2>1, OthersOnly DEF RunInv, NotNeeded, restores
  <2>3. RowInv' /\ CopyKept' /\ AliasResolves' /\ RestInv'
    BY <2>1 DEF RowInv, CopyKept, AliasResolves, RestInv, Live, restores
  <2>4. LockInv'
    BY <1>2, <2>1 DEF JobRemove, StillListed, Pending, LockInv, NoJob, Shapes, Jobs
  <2>5. Shapes'
    BY <1>2, <2>1, NoTombProperties DEF JobRemove, NoJob, Shapes, Jobs, restores
  <2> QED
    BY <2>2, <2>3, <2>4, <2>5
<1>3. ASSUME JobPurge PROVE IInv'
  <2>1. /\ UNCHANGED <<at, present, named, mig, del, rest, wiped, merged, restores>>
        /\ job.id \in IDs /\ ~tomb[job.id].asked /\ job' = NoJob
        /\ \/ /\ tomb' = [tomb EXCEPT ![job.id] = NoTomb]
              /\ purged' = purged \cup ({job.id} \cap merged)
           \/ UNCHANGED <<tomb, purged>>
    BY <1>3 DEF JobPurge, LockInv
  <2>2. /\ tomb' \in [IDs -> Tombs]
        /\ \A i \in IDs : \/ tomb'[i] = tomb[i]
                          \/ i = job.id /\ tomb'[i] = NoTomb /\ (i \in merged => i \in purged')
        /\ purged \subseteq purged'
    BY <2>1, NoTombProperties DEF Shapes
  <2>3. mig.pc = "clean" => NotNeeded(mig.cur)'
    BY <2>1, <2>2 DEF RunInv, NotNeeded, Shapes, Runs, NoTomb, restores
  <2>4. RunInv' /\ ListingInv' /\ CopyInv'
    BY <2>1, <2>3, OthersOnly
  <2>5. Shapes' /\ CopyKept'
    BY <2>1, <2>2, NoTombProperties DEF Shapes, CopyKept, Live, restores, Jobs, NoJob
  <2>6. RowInv'
    BY <2>1, <2>2, NoTombProperties DEF RowInv, Live, restores
  <2>7. AliasResolves'
    BY <2>1, <2>2 DEF AliasResolves, Live, Shapes
  <2>8. RestInv' /\ LockInv'
    BY <2>1, <2>2 DEF RestInv, LockInv, Live, Shapes, Restores, NoRest, NoJob, restores
  <2> QED
    BY <2>4, <2>5, <2>6, <2>7, <2>8
<1> QED
  BY <1>1, <1>2, <1>3

\* A deleted video is asked back.
LEMMA AskedInv == ASSUME IInv, NEW id \in IDs, Restore(id) PROVE IInv'
<1> USE KindsApart DEF IInv
<1>1. UNCHANGED <<at, present, named, mig, del, job, rest, history>>
  BY DEF Restore, fileVars, workVars
<1> DEFINE marked == [tomb[id] EXCEPT !.asked = TRUE]
<1>2. /\ tomb[id] # NoTomb /\ tomb[id].reason = "user" /\ tomb[id].keeper = Nothing
      /\ ~tomb[id].asked
      /\ marked \in Tombs /\ marked.file = tomb[id].file
      /\ marked.reason = "user" /\ marked.keeper = Nothing
  <2>1. tomb[id] \in Tombs /\ tomb[id] # NoTomb /\ tomb[id].reason = "user" /\ ~tomb[id].asked
    BY DEF Restore, Pending, Shapes
  <2> QED
    BY <2>1, Marked DEF RowInv
<1>3. /\ tomb' \in [IDs -> Tombs]
      /\ \A i \in IDs \ {id} : tomb'[i] = tomb[i]
      /\ tomb'[id] = NoTomb \/ (tomb'[id] = marked /\ tomb[id].file = id)
  <2>1. \/ tomb' = [tomb EXCEPT ![id] = NoTomb]
        \/ tomb' = [tomb EXCEPT ![id] = marked] /\ tomb[id].file = id
    BY DEF Restore, RowInv
  <2> HIDE DEF marked
  <2> QED
    BY <1>2, <2>1, NoTombProperties DEF Shapes
<1> HIDE DEF marked
<1>4. mig.pc = "clean" => NotNeeded(mig.cur)'
  <2> HAVE mig.pc = "clean"
  <2>1. mig.cur \in IDs /\ mig.cur # Nothing /\ NotNeeded(mig.cur)
    BY DEF RunInv, Shapes, Runs
  <2> QED
    BY <1>1, <1>2, <1>3, <2>1, NoTombProperties DEF NotNeeded, history, restores
<1>5. RunInv' /\ ListingInv' /\ CopyInv'
  BY <1>1, <1>4, OthersOnly DEF history
<1>6. Shapes' /\ CopyKept'
  BY <1>1, <1>3 DEF Shapes, CopyKept, Live, history, restores
<1>7. RowInv'
  BY <1>1, <1>2, <1>3, NoTombProperties DEF RowInv, Live, history, restores
<1>8. AliasResolves'
  BY <1>1, <1>2, <1>3, NoTombProperties DEF AliasResolves, Live, history, Shapes
<1>9. RestInv' /\ LockInv'
  <2>1. RestInv'
    BY <1>1, <1>2, <1>3 DEF RestInv, Live, history, restores, Shapes, Restores, NoRest
  <2>2. LockInv'
    BY <1>1, <1>3 DEF LockInv, Restore
  <2> QED
    BY <2>1, <2>2
<1> QED
  BY <1>5, <1>6, <1>7, <1>8, <1>9

-----------------------------------------------------------------------------
(***************************************************************************)
(* The restore of a crawler's video: what it listed may be long over when  *)
(* it writes the row, but only if an earlier restore stopped halfway.      *)
(***************************************************************************)

\* A restore lists a request and its file, or is given up.
LEMMA ListInv ==
  ASSUME IInv, (\E v \in Crawled : ListRequests(v)) \/ RestoreFails
  PROVE  IInv'
<1> USE KindsApart DEF IInv
<1>1. UNCHANGED <<at, tomb, present, named, mig, del, job, history>>
  BY DEF ListRequests, RestoreFails, RestoreOnly, catalogVars, fileVars, history
<1>2. RunInv' /\ ListingInv' /\ CopyInv'
  BY <1>1, OthersOnly DEF history, restores, RunInv, NotNeeded
<1>3. RowInv' /\ CopyKept' /\ AliasResolves' /\ LockInv'
  BY <1>1 DEF RowInv, CopyKept, AliasResolves, LockInv, Live, history, restores
<1>4. Shapes' /\ RestInv'
  <2>1. CASE RestoreFails
    BY <1>1, <2>1 DEF RestoreFails, NoRest, Restores, Shapes, RestInv, history, restores
  <2>2. ASSUME NEW v \in Crawled, ListRequests(v) PROVE Shapes' /\ RestInv'
    <3>1. /\ tomb[v].asked /\ tomb[v].file = v /\ v \in present /\ v \in IDs
          /\ rest' = [pc |-> "listed", id |-> v, file |-> v]
      BY <2>2 DEF ListRequests, RowInv
    <3>2. Shapes'
      BY <1>1, <3>1 DEF Shapes, Restores, history, restores
    <3>3. tomb[v] # NoTomb
      BY <3>1, NoTombProperties
    <3>4. RestInv'
      BY <1>1, <3>1, <3>3 DEF RestInv, RowInv, Live, history, restores
    <3> QED
      BY <3>2, <3>4
  <2> QED
    BY <2>1, <2>2
<1> QED
  BY <1>2, <1>3, <1>4

\* The row is written, where there is none.
LEMMA RestoreRowInv == ASSUME IInv, RestoreRow PROVE IInv'
<1> USE KindsApart DEF IInv
<1>1. /\ UNCHANGED <<tomb, present, named, mig, del, job, wiped, merged, purged>>
      /\ rest.pc = "listed" /\ rest.id \in Crawled /\ rest.file = rest.id
      /\ rest' = [rest EXCEPT !.pc = "row"] /\ halfway' = halfway \cup {rest.id}
      /\ revived \subseteq revived'
  BY DEF RestoreRow, RestoreOnly, fileVars, Shapes, NoRest
<1>2. /\ at' \in [IDs -> IDs \cup {Nothing}]
      /\ \A i \in IDs \ {rest.id} : at'[i] = at[i]
      /\ \/ Live(rest.id) /\ at'[rest.id] = at[rest.id]
         \/ ~Live(rest.id) /\ at'[rest.id] = rest.id
  BY <1>1 DEF RestoreRow, Shapes
<1>3. ~Live(rest.id) => \/ rest.id \in revived'
                        \/ tomb[rest.id].file = rest.id /\ rest.id \in present \cup wiped
  BY <1>1 DEF RestoreRow, RestInv, RowInv
<1>4. mig.pc = "clean" => NotNeeded(mig.cur)'
  <2> HAVE mig.pc = "clean"
  <2>1. mig.cur \in IDs /\ NotNeeded(mig.cur)
    BY DEF RunInv, Shapes, Runs
  <2>2. CASE mig.cur = rest.id /\ ~Live(rest.id)
    <3>1. rest.id \in revived'
      BY <1>1, <1>3, <2>1, <2>2 DEF NotNeeded, RestoreRow
    <3> QED
      BY <1>1, <2>2, <3>1 DEF NotNeeded
  <2>3. CASE mig.cur # rest.id \/ Live(rest.id)
    BY <1>1, <1>2, <2>1, <2>3 DEF NotNeeded
  <2> QED
    BY <2>2, <2>3
<1>5. RunInv' /\ ListingInv' /\ CopyInv'
  BY <1>1, <1>4, OthersOnly
<1>6. Shapes'
  BY <1>1, <1>2 DEF RestoreRow, Shapes, Restores, NoRest
<1>7. RowInv'
  BY <1>1, <1>2 DEF RowInv, Live
<1>8. CopyKept'
  BY <1>1, <1>2, <1>3 DEF CopyKept, Live
<1>9. AliasResolves'
  <2>1. \A i \in IDs : Live(i) => at'[i] # Nothing
    BY <1>1, <1>2 DEF Live
  <2>2. \A i \in merged : tomb[i].reason = "duplicate" => tomb[i].keeper \in IDs
    BY DEF Shapes, Tombs, RowInv
  <2> QED
    BY <1>1, <2>1, <2>2 DEF AliasResolves, Live, Shapes
<1>10. RestInv' /\ LockInv'
  BY <1>1 DEF RestInv, LockInv, Shapes, Restores
<1> QED
  BY <1>5, <1>6, <1>7, <1>8, <1>9, <1>10

\* The tombstone is removed if its restore is still asked for.
LEMMA CompleteRestoreInv == ASSUME IInv, CompleteRestore PROVE IInv'
<1> USE KindsApart DEF IInv
<1>1. /\ UNCHANGED <<at, present, named, mig, del, job, wiped, merged, purged, revived>>
      /\ rest' = NoRest /\ rest.id \in Crawled
  BY DEF CompleteRestore, RestoreOnly, fileVars, Shapes, NoRest
<1>2. CASE ~tomb[rest.id].asked
  <2>1. UNCHANGED <<tomb, halfway>>
    BY <1>2 DEF CompleteRestore
  <2>2. RunInv' /\ ListingInv' /\ CopyInv'
    BY <1>1, <2>1, OthersOnly DEF RunInv, NotNeeded
  <2>3. Shapes' /\ RowInv' /\ CopyKept' /\ AliasResolves' /\ RestInv' /\ LockInv'
    BY <1>1, <2>1 DEF Shapes, RowInv, CopyKept, AliasResolves, RestInv, LockInv, Live,
                      NoRest, Restores
  <2> QED
    BY <2>2, <2>3
<1>3. CASE tomb[rest.id].asked
  <2>1. /\ tomb' \in [IDs -> Tombs] /\ tomb'[rest.id] = NoTomb
        /\ \A i \in IDs \ {rest.id} : tomb'[i] = tomb[i]
        /\ halfway' = halfway \ {rest.id}
    BY <1>1, <1>3, NoTombProperties DEF CompleteRestore, Shapes
  <2>2. mig.pc = "clean" => NotNeeded(mig.cur)'
    <3> HAVE mig.pc = "clean"
    <3>1. mig.cur \in IDs /\ mig.cur # Nothing /\ NotNeeded(mig.cur)
      BY DEF RunInv, Shapes, Runs
    <3> QED
      BY <1>1, <2>1, <3>1, NoTombProperties DEF NotNeeded
  <2>3. RunInv' /\ ListingInv' /\ CopyInv'
    BY <1>1, <2>2, OthersOnly
  <2>4. Shapes' /\ CopyKept'
    BY <1>1, <2>1 DEF Shapes, CopyKept, Live, NoRest, Restores
  <2>5. RowInv'
    BY <1>1, <2>1, NoTombProperties DEF RowInv, Live
  <2>6. AliasResolves'
    BY <1>1, <1>3, <2>1 DEF AliasResolves, Live, RowInv, Shapes
  <2>7. RestInv' /\ LockInv'
    BY <1>1, <2>1, NoTombProperties DEF RestInv, LockInv, NoRest
  <2> QED
    BY <2>3, <2>4, <2>5, <2>6, <2>7
<1> QED
  BY <1>2, <1>3

\* Any step of the blacklist: its job, and restores.
LEMMA BlacklistInv == ASSUME IInv, Blacklist PROVE IInv'
BY JobInv, AskedInv, ListInv, RestoreRowInv, CompleteRestoreInv DEF Blacklist

(***************************************************************************)
(* A merge: the aliases of the merged rows and the aliases that led to     *)
(* them lead to the keeper, which is live and not merged.                  *)
(***************************************************************************)
LEMMA MergeInv ==
  ASSUME IInv, NEW keeper \in Rows, NEW dups \in SUBSET (Rows \ {keeper}),
         Merge(dups, keeper)
  PROVE  IInv'
<1> USE KindsApart DEF IInv
<1>1. /\ UNCHANGED <<present, named, mig, del, job, rest, wiped, restores>>
      /\ merged' = merged \cup dups /\ purged' = purged \ dups
      /\ keeper \in IDs /\ dups \subseteq IDs /\ keeper \notin dups
      /\ Live(keeper) /\ \A i \in dups : Live(i)
  BY DEF Merge, fileVars, workVars, Rows
<1>2. /\ at' \in [IDs -> IDs \cup {Nothing}]
      /\ \A i \in dups : at'[i] = Nothing
      /\ \A i \in IDs \ dups : at'[i] = at[i]
  BY <1>1 DEF Merge, Shapes
<1>3. /\ \A i \in dups : tomb'[i] = Buried(i, "duplicate", keeper)
      /\ \A i \in IDs \ dups : tomb'[i] = Redirected(tomb[i], dups, keeper)
  BY <1>1 DEF Merge
<1>4. \A i \in IDs \ dups :
         /\ tomb'[i] \in Tombs
         /\ tomb'[i].file = tomb[i].file /\ tomb'[i].reason = tomb[i].reason
         /\ tomb'[i].asked = tomb[i].asked
         /\ tomb'[i].keeper = IF tomb[i].reason = "duplicate" /\ tomb[i].keeper \in dups
                              THEN keeper ELSE tomb[i].keeper
         /\ tomb[i] = NoTomb => tomb'[i] = NoTomb
         /\ tomb'[i] # NoTomb => tomb[i] # NoTomb
  <2> SUFFICES ASSUME NEW i \in IDs \ dups
               PROVE  /\ tomb'[i] \in Tombs
                      /\ tomb'[i].file = tomb[i].file /\ tomb'[i].reason = tomb[i].reason
                      /\ tomb'[i].asked = tomb[i].asked
                      /\ tomb'[i].keeper =
                            IF tomb[i].reason = "duplicate" /\ tomb[i].keeper \in dups
                            THEN keeper ELSE tomb[i].keeper
                      /\ tomb[i] = NoTomb => tomb'[i] = NoTomb
                      /\ tomb'[i] # NoTomb => tomb[i] # NoTomb
    OBVIOUS
  <2>1. tomb[i] \in Tombs
    BY DEF Shapes
  <2>2. CASE tomb[i].reason = "duplicate" /\ tomb[i].keeper \in dups
    <3>1. tomb'[i] = [tomb[i] EXCEPT !.keeper = keeper]
      BY <1>3, <2>2 DEF Redirected
    <3>2. /\ tomb'[i] \in Tombs /\ tomb'[i].keeper = keeper
          /\ tomb'[i].file = tomb[i].file /\ tomb'[i].reason = tomb[i].reason
          /\ tomb'[i].asked = tomb[i].asked
      BY <1>1, <2>1, <3>1, KeeperChanged
    <3>3. tomb[i] # NoTomb
      BY <2>2, NoTombProperties
    <3> QED
      BY <2>2, <3>2, <3>3
  <2>3. CASE ~(tomb[i].reason = "duplicate" /\ tomb[i].keeper \in dups)
    BY <1>3, <2>1, <2>3 DEF Redirected
  <2> QED
    BY <2>2, <2>3
<1>5. \A i \in dups :
         /\ tomb'[i] \in Tombs
         /\ tomb'[i].file = at[i] /\ tomb'[i].reason = "duplicate"
         /\ tomb'[i].keeper = keeper /\ ~tomb'[i].asked
  BY <1>1, <1>3, BuriedProperties DEF Shapes, Live
<1>6. Shapes'
  BY <1>1, <1>2, <1>4, <1>5 DEF Merge, Shapes, restores
<1>7. RowInv'
  <2>1. \A i \in IDs : at'[i] \in Crawled => at'[i] = i
    BY <1>2 DEF RowInv
  <2>2. \A i \in IDs : at'[i] # Nothing /\ tomb'[i] # NoTomb => i \in halfway
    BY <1>2, <1>4 DEF RowInv, Live
  <2>3. \A i \in IDs : tomb'[i].file \in Crawled => tomb'[i].file = i
    BY <1>4, <1>5 DEF RowInv
  <2>4. \A i \in IDs : tomb'[i] # NoTomb => tomb'[i].file \in IDs
    BY <1>1, <1>4, <1>5 DEF RowInv, Live, Shapes
  <2>5. \A i \in IDs : tomb'[i].reason = "duplicate" <=> tomb'[i].keeper # Nothing
    BY <1>1, <1>4, <1>5 DEF RowInv
  <2>6. \A i \in IDs : tomb'[i].asked => tomb'[i].reason = "user" /\ tomb'[i].file = i
    BY <1>4, <1>5 DEF RowInv
  <2> QED
    BY <1>1, <2>1, <2>2, <2>3, <2>4, <2>5, <2>6 DEF RowInv, Live, restores
<1>8. AliasResolves'
  <2> SUFFICES ASSUME NEW i \in merged', at'[i] = Nothing, i \notin purged'
               PROVE  tomb'[i].reason = "duplicate" /\ at'[tomb'[i].keeper] # Nothing
    BY DEF AliasResolves, Live
  <2>1. CASE i \in dups
    BY <1>1, <1>2, <1>5, <2>1 DEF Live
  <2>2. CASE i \notin dups
    <3>1. i \in IDs /\ tomb[i].reason = "duplicate" /\ Live(tomb[i].keeper)
      BY <1>1, <1>2, <2>2 DEF AliasResolves, Live, Shapes
    <3>2. tomb[i].keeper \in IDs
      BY <3>1 DEF RowInv, Shapes, Tombs
    <3> QED
      BY <1>1, <1>2, <1>4, <2>2, <3>1, <3>2 DEF Live
  <2> QED
    BY <2>1, <2>2
<1>9. CopyKept'
  BY <1>1, <1>2 DEF CopyKept, Live, restores
<1>10. mig.pc = "clean" => NotNeeded(mig.cur)'
  <2> HAVE mig.pc = "clean"
  <2>1. mig.cur \in Crawled /\ NotNeeded(mig.cur)
    BY DEF RunInv, Shapes, Runs
  <2> QED
    BY <1>1, <1>2, <1>4, <1>5, <2>1 DEF NotNeeded, restores
<1>11. RunInv' /\ ListingInv' /\ CopyInv'
  BY <1>1, <1>10, OthersOnly
<1>12. RestInv'
  BY <1>1, <1>2, <1>4 DEF RestInv, Live, Shapes, Restores, NoRest, restores
<1>13. LockInv'
  BY <1>1, <1>4, <1>5 DEF LockInv
<1> QED
  BY <1>6, <1>7, <1>8, <1>9, <1>11, <1>12, <1>13

\* A scan adds a row for a file of the target or drops the row of a missing
\* one.
LEMMA ScanInv ==
  ASSUME IInv, (\E f \in OnTarget : ScanAdds(f)) \/ (\E id \in IDs : ScanDrops(id))
  PROVE  IInv'
<1> USE KindsApart DEF IInv
<1>1. ASSUME NEW f \in OnTarget, ScanAdds(f) PROVE IInv'
  <2>1. /\ UNCHANGED <<tomb, present, named, mig, del, job, rest, history>>
        /\ f \in IDs /\ f \in present /\ tomb[f] = NoTomb
        /\ at' = [at EXCEPT ![f] = f]
    BY <1>1 DEF ScanAdds, fileVars, workVars, Blocked
  <2>2. /\ at' \in [IDs -> IDs \cup {Nothing}] /\ at'[f] = f
        /\ \A i \in IDs \ {f} : at'[i] = at[i]
    BY <2>1 DEF Shapes
  <2>3. mig.pc = "clean" => NotNeeded(mig.cur)'
    BY <1>1, <2>1, <2>2 DEF RunInv, NotNeeded, Shapes, Runs, history, restores
  <2>4. RunInv' /\ ListingInv' /\ CopyInv'
    BY <2>1, <2>3, OthersOnly DEF history
  <2>5. Shapes'
    BY <2>1, <2>2 DEF Shapes, history, restores
  <2>6. RowInv' /\ CopyKept'
    BY <2>1, <2>2 DEF RowInv, CopyKept, Live, history, restores
  <2>7. AliasResolves'
    <3>1. \A i \in IDs : Live(i) => at'[i] # Nothing
      BY <2>1, <2>2 DEF Live
    <3>2. \A i \in merged : tomb[i].reason = "duplicate" => tomb[i].keeper \in IDs
      BY DEF Shapes, Tombs, RowInv
    <3> QED
      BY <2>1, <3>1, <3>2 DEF AliasResolves, Live, Shapes, history
  <2>8. RestInv' /\ LockInv'
    BY <1>1, <2>1, <2>2 DEF RestInv, LockInv, Live, Shapes, Restores, history, restores
  <2> QED
    BY <2>4, <2>5, <2>6, <2>7, <2>8
<1>2. ASSUME NEW id \in IDs, ScanDrops(id) PROVE IInv'
  <2>1. /\ UNCHANGED <<tomb, present, named, mig, del, job, rest, wiped, purged, restores>>
        /\ Live(id) /\ at' = [at EXCEPT ![id] = Nothing] /\ merged' = merged \ LedTo(id)
    BY <1>2 DEF ScanDrops, fileVars, workVars, Live, restores
  <2>2. /\ CatalogShape' /\ RowInv' /\ RunInv' /\ ListingInv' /\ CopyInv' /\ AliasResolves'
        /\ RestInv' /\ LockInv' /\ \A i \in IDs : at'[i] # Nothing => at'[i] = at[i]
    BY <2>1, RowGone, OthersOnly
  <2>3. Shapes'
    BY <2>1, <2>2 DEF Shapes, CatalogShape, restores
  <2>4. CopyKept'
    BY <2>1, <2>2 DEF CopyKept, Live, restores
  <2> QED
    BY <2>2, <2>3, <2>4
<1> QED
  BY <1>1, <1>2

\* The process dies: the run forgets all it has read.
LEMMA CrashInv == ASSUME IInv, Crash PROVE IInv'
<1> USE KindsApart DEF IInv, Crash, catalogVars, fileVars, history, restores
<1>1. Shapes'
  BY NoTombProperties DEF Shapes, Runs, Deletions, Restores, Jobs, Idle, NoDel, NoRest,
                          NoJob, MigrationPoints
<1>2. RowInv' /\ CopyKept' /\ AliasResolves'
  BY DEF RowInv, CopyKept, AliasResolves, Live
<1>3. RunInv' /\ ListingInv'
  BY DEF RunInv, ListingInv, Idle
<1>4. CopyInv'
  BY DEF CopyInv, OneCopyPerName, Idle
<1>5. RestInv' /\ LockInv'
  BY DEF RestInv, LockInv, NoRest, NoJob
<1> QED
  BY <1>1, <1>2, <1>3, <1>4, <1>5

\* A stuttering step.
LEMMA StutterInv == ASSUME IInv, UNCHANGED vars PROVE IInv'
<1> USE DEF IInv, vars, catalogVars, fileVars, workVars, history, restores
<1>1. Shapes' /\ RowInv' /\ CopyKept' /\ AliasResolves' /\ RestInv' /\ LockInv'
  BY DEF Shapes, RowInv, CopyKept, AliasResolves, RestInv, LockInv, Live
<1>2. RunInv' /\ ListingInv' /\ CopyInv'
  BY DEF RunInv, NotNeeded, ListingInv, CopyInv, OneCopyPerName
<1> QED
  BY <1>1, <1>2

\* Every step keeps the invariant.
LEMMA NextInv == IInv /\ [Next]_vars => IInv'
<1> SUFFICES ASSUME IInv, [Next]_vars PROVE IInv'
  OBVIOUS
<1>1. CASE Maintenance
  BY <1>1, MergeInv, ScanInv DEF Maintenance
<1> QED
  BY <1>1, MigrationInv, DeletionInv, BlacklistInv, CrashInv, StutterInv DEF Next

-----------------------------------------------------------------------------
(* The theorems.                                                           *)

\* The inductive invariant: what the migration has read earlier is still good
\* for the use it makes of it, whatever all the others do meanwhile.
THEOREM LibraryInvariant == Spec => []IInv
BY InitInv, NextInv, PTL DEF Spec

\* The types of rows, tombstones and files, for any number of them; and a video
\* is live and buried only while, or after, a restore stands between the row it
\* writes and the tombstone it removes (importer.go RestoreRequestedVideos).
THEOREM LibraryTypeCorrect == Spec => []TypeOK
<1>1. IInv => TypeOK
  BY KindsApart DEF IInv, TypeOK, Shapes, Tombs, Runs, RowInv, RunInv, CopyInv
<1> QED
  BY <1>1, LibraryInvariant, PTL

\* Neither a crash, a lost answer, a merge, a restore nor the cleanup of the
\* migration takes the file of a row away, but of a row that a restore which
\* had stopped halfway inserts a second time (migrator.go completeMigration,
\* cleanupOldLocalVideos; blacklist.go deleteBlacklistedVideoSource).
THEOREM FilesOfRowsAreKept == Spec => []CopyKept
<1>1. IInv => CopyKept
  BY DEF IInv
<1> QED
  BY <1>1, LibraryInvariant, PTL

\* However often a migration is repeated, a video is uploaded at most once
\* (migrator.go migrateOne, execution.go uploadWithReconciliation).
THEOREM UploadedOnce == Spec => []OneCopyPerName
<1>1. IInv => OneCopyPerName
  BY DEF IInv, CopyInv
<1> QED
  BY <1>1, LibraryInvariant, PTL

\* The old address of a merged video leads to a live row until somebody deletes
\* that row or the source deletion purges the tombstone that is the address
\* (dedupe.go redirectDuplicateVideoReferencesTx, catalog.go PurgeDeletedVideo).
THEOREM AliasesResolve == Spec => []AliasResolves
<1>1. IInv => AliasResolves
  BY DEF IInv
<1> QED
  BY <1>1, LibraryInvariant, PTL

=============================================================================
