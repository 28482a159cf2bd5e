---------------------------- MODULE FilesProofs ----------------------------
(* Proofs about Files, for any files and contents and any number of saves and resets at once. *)
EXTENDS Files, TLAPS

Records == [pc : {"idle", "moved", "checked", "called", "read"}, at : 0..Len(commits),
            tree : Tree, since : SUBSET FilePaths]
SaveRecords == [files : SomeFiles, commit : BOOLEAN, given : BOOLEAN]

-----------------------------------------------------------------------------
(* What the helpers return *)

LEMMA SomeFilesIntro ==
    ASSUME NEW S \in SUBSET FilePaths, NEW g \in [S -> Contents]
    PROVE  g \in SomeFiles
BY DEF SomeFiles

LEMMA SomeFilesElim ==
    ASSUME NEW g \in SomeFiles
    PROVE  /\ DOMAIN g \in SUBSET FilePaths
           /\ g \in [DOMAIN g -> Contents]
BY DEF SomeFiles

LEMMA NoSaveType == NoSave \in SaveRecords /\ DOMAIN NoSave.files = {}
<1>1. [f \in {} |-> Blank] \in [{} -> Contents]
  OBVIOUS
<1>2. [f \in {} |-> Blank] \in SomeFiles
  BY <1>1, SomeFilesIntro
<1>. QED
  BY <1>2 DEF NoSave, SaveRecords

LEMMA WithoutType ==
    ASSUME NEW g \in SomeFiles, NEW f
    PROVE  /\ Without(g, f) \in SomeFiles
           /\ DOMAIN Without(g, f) = DOMAIN g \ {f}
           /\ \A h \in DOMAIN g \ {f} : Without(g, f)[h] = g[h]
<1>1. Without(g, f) \in [DOMAIN g \ {f} -> Contents]
  BY SomeFilesElim DEF Without
<1>. QED
  BY <1>1, SomeFilesElim, SomeFilesIntro DEF Without

LEMMA PresentType ==
    ASSUME NEW t \in Tree
    PROVE  /\ Present(t) \in SomeFiles
           /\ DOMAIN Present(t) = {f \in FilePaths : t[f] # Absent}
           /\ \A f \in DOMAIN Present(t) : Present(t)[f] = t[f]
<1>1. Present(t) \in [{f \in FilePaths : t[f] # Absent} -> Contents]
  BY DEF Present, Tree
<1>. QED
  BY <1>1, SomeFilesIntro DEF Present

LEMMA MergedType ==
    ASSUME NEW t \in Tree, NEW g \in SomeFiles
    PROVE  Merged(t, g) \in Tree
BY SomeFilesElim DEF Merged, Tree

LEMMA ReadableType ==
    ASSUME NEW t \in Tree
    PROVE  Readable(t) \in Tree
BY DEF Readable, Tree

\* A save under way has the files it was given; one that has none left and does not commit is over.
LEMMA SavingType ==
    ASSUME NEW g \in SomeFiles, NEW c \in BOOLEAN
    PROVE  /\ Saving(g, c) \in SaveRecords
           /\ Saving(g, c).files = g
BY NoSaveType DEF Saving, SaveRecords, NoSave

LEMMA TreeOfType ==
    ASSUME FilesTypeOK
    PROVE  /\ \A oid \in 0..Len(commits) : TreeOf(oid) \in Tree
           /\ HeadOid \in 0..Len(commits)
BY DEF TreeOf, NoFiles, FilesTypeOK, Tree, HeadOid

LEMMA TouchedType ==
    ASSUME FilesTypeOK, NEW paths \in SUBSET FilePaths
    PROVE  /\ Touched(paths) \in [Resetters -> Records]
           /\ \A r \in Resetters : /\ Touched(paths)[r].pc = resets[r].pc
                                   /\ Touched(paths)[r].tree = resets[r].tree
                                   /\ resets[r].pc = "read" =>
                                        Touched(paths)[r].since = resets[r].since \cup paths
BY DEF Touched, FilesTypeOK, Records

LEMMA NoResetType == FilesTypeOK => NoReset \in Records /\ NoReset.pc = "idle"
BY DEF FilesTypeOK, NoReset, Records, NoFiles, Tree

-----------------------------------------------------------------------------
(* Type correctness *)

LEMMA FilesInitType == FilesInit => FilesTypeOK
<1>. SUFFICES ASSUME FilesInit PROVE FilesTypeOK
  OBVIOUS
<1>1. NoFiles \in Tree
  BY DEF NoFiles, Tree
<1>2. resets \in [Resetters -> Records]
  BY <1>1 DEF FilesInit, NoReset, Records
<1>3. saves \in [Savers -> SaveRecords]
  BY NoSaveType DEF FilesInit
<1>. QED
  BY <1>1, <1>2, <1>3 DEF FilesInit, FilesTypeOK, Records, SaveRecords

LEMMA FilesTypeStep ==
    ASSUME FilesTypeOK, FilesNext
    PROVE  FilesTypeOK'
<1>. USE FilesAssumption
<1>0. /\ resets \in [Resetters -> Records] /\ saves \in [Savers -> SaveRecords]
      /\ \A p \in Savers : saves[p].files \in SomeFiles /\ DOMAIN saves[p].files \subseteq FilePaths
      /\ StagedByAny \subseteq FilePaths
      /\ \A p \in Savers : StagedLater(p) \subseteq FilePaths
  BY SomeFilesElim DEF FilesTypeOK, Records, SaveRecords, StagedByAny, StagedLater
<1> DEFINE Rest == UNCHANGED repoVars
<1>1. ASSUME NEW f \in FilePaths, NEW c \in Contents, RecordFileChanges(f, c)
      PROVE  FilesTypeOK'
  <2>1. generatedFilesMap' \in Tree
    BY <1>1 DEF RecordFileChanges, FilesTypeOK, Tree
  <2>2. resets' \in [Resetters -> Records]
    BY <1>1, TouchedType DEF RecordFileChanges
  <2>. QED
    BY <1>1, <2>1, <2>2 DEF RecordFileChanges, FilesTypeOK, repoVars, Records, SaveRecords
<1>2. ASSUME NEW p \in Savers, NEW files \in SomeFiles, NEW commit \in BOOLEAN,
             SaveBegins(p, files, commit)
      PROVE  FilesTypeOK'
  <2>1. generatedFilesMap' \in Tree /\ resets' \in [Resetters -> Records]
    BY <1>2, TouchedType, MergedType, SomeFilesElim DEF SaveBegins, FilesTypeOK
  <2>2. saves' \in [Savers -> SaveRecords] /\ excused' \subseteq FilePaths
    <3>1. [files |-> files, commit |-> commit, given |-> DOMAIN files # {}] \in SaveRecords
      BY DEF SaveRecords
    <3>2. saves' \in [Savers -> SaveRecords]
      BY <1>0, <1>2, <3>1 DEF SaveBegins
    <3>3. excused' \subseteq FilePaths
      BY <1>0, <1>2, SomeFilesElim DEF SaveBegins, FilesTypeOK
    <3>. QED
      BY <3>2, <3>3
  <2>. QED
    BY <1>2, <2>1, <2>2 DEF SaveBegins, FilesTypeOK, repoVars, Records, SaveRecords
<1>3. ASSUME NEW p \in Savers, CommitAllBegins(p) PROVE FilesTypeOK'
  <2>1. Present(generatedFilesMap) \in SomeFiles /\ DOMAIN Present(generatedFilesMap) \subseteq FilePaths
    BY PresentType DEF FilesTypeOK
  <2>2. saves' \in [Savers -> SaveRecords] /\ excused' \subseteq FilePaths
    BY <1>0, <1>3, <2>1 DEF CommitAllBegins, FilesTypeOK, SaveRecords
  <2>. QED
    BY <1>3, <2>2 DEF CommitAllBegins, FilesTypeOK, repoVars, Records, SaveRecords
<1>4. ASSUME NEW p \in Savers, ToolCommitBegins(p) PROVE FilesTypeOK'
  BY <1>0, <1>4, NoSaveType DEF ToolCommitBegins, FilesTypeOK, repoVars, Records, SaveRecords
<1>5. ASSUME NEW f \in FilePaths, DeleteFiles({f}) PROVE FilesTypeOK'
  <2>1. generatedFilesMap' \in Tree
    BY <1>5 DEF DeleteFiles, FilesTypeOK, Tree
  <2>2. resets' \in [Resetters -> Records]
    BY <1>5, TouchedType DEF DeleteFiles
  <2>. QED
    BY <1>5, <2>1, <2>2 DEF DeleteFiles, FilesTypeOK, repoVars, Records, SaveRecords
<1>6. ASSUME NEW p \in Savers, NEW f \in FilePaths, Stage(p, f) PROVE FilesTypeOK'
  <2>1. saves[p].files[f] \in Contents
    BY <1>0, <1>6, SomeFilesElim DEF Stage
  <2>2. index' \in Tree
    BY <1>6, <2>1 DEF Stage, FilesTypeOK, Tree
  <2>3. saves' \in [Savers -> SaveRecords]
    <3>1. saves[p].commit \in BOOLEAN /\ saves[p].files \in SomeFiles
      BY <1>0 DEF SaveRecords
    <3>2. Without(saves[p].files, f) \in SomeFiles
      BY <3>1, WithoutType
    <3>3. Saving(Without(saves[p].files, f), saves[p].commit) \in SaveRecords
      BY <3>1, <3>2, SavingType
    <3>. QED
      BY <1>0, <1>6, <3>3 DEF Stage
  <2>4. resets' \in [Resetters -> Records]
    BY <1>6, TouchedType DEF Stage
  <2>. QED
    BY <1>6, <2>2, <2>3, <2>4 DEF Stage, FilesTypeOK, Records, SaveRecords
<1>7. ASSUME NEW p \in Savers, Commit(p) PROVE FilesTypeOK'
  <2>1. saves' \in [Savers -> SaveRecords]
    BY <1>0, <1>7, NoSaveType DEF Commit
  <2>2. CASE UNCHANGED <<commits, main, head>>
    BY <1>7, <2>1, <2>2 DEF Commit, FilesTypeOK, SaveRecords
  <2>3. CASE ~ UNCHANGED <<commits, main, head>>
    <3>1. commits' = Append(commits, index) /\ resets' = resets
      BY <1>7, <2>3 DEF Commit
    <3>2. commits' \in Seq(Tree) /\ Len(commits') = Len(commits) + 1 /\ Len(commits) \in Nat
      BY <3>1 DEF FilesTypeOK
    <3>3. main' \in 0..Len(commits') /\ head' \in 0..Len(commits')
      BY <1>7, <2>3, <3>2 DEF Commit, FilesTypeOK
    <3>4. resets' \in [Resetters -> Records']
      BY <1>0, <3>1, <3>2 DEF Records
    <3>. QED
      BY <1>7, <2>1, <3>2, <3>3, <3>4 DEF Commit, FilesTypeOK, Records, SaveRecords
  <2>. QED
    BY <2>2, <2>3
<1>8. ASSUME NEW p \in Savers, SaveFails(p) PROVE FilesTypeOK'
  BY <1>0, <1>8, NoSaveType DEF SaveFails, FilesTypeOK, repoVars, Records, SaveRecords
<1>9. ASSUME NEW r \in Resetters, NEW oid \in 1..Len(commits), ResetMoves(r, oid) PROVE FilesTypeOK'
  <2>2. Len(commits) \in Nat
    BY DEF FilesTypeOK
  <2>3. [NoReset EXCEPT !.pc = "moved", !.at = oid] \in Records
    <3>1. oid \in 0..Len(commits)
      BY <2>2
    <3>. QED
      BY <3>1, NoResetType DEF Records
  <2>1. resets' \in [Resetters -> Records]
    BY <1>0, <1>9, <2>3 DEF ResetMoves
  <2>. QED
    BY <1>9, <2>1, <2>2 DEF ResetMoves, FilesTypeOK, Records, SaveRecords
<1>10. ASSUME NEW r \in Resetters, ResetChecksOut(r) PROVE FilesTypeOK'
  <2>1. resets' \in [Resetters -> Records]
    <3>1. Touched(FilePaths) \in [Resetters -> Records]
      BY TouchedType
    <3>2. [resets[r] EXCEPT !.pc = "checked"] \in Records
      BY <1>0 DEF Records
    <3>. QED
      BY <1>10, <3>1, <3>2 DEF ResetChecksOut
  <2>2. head' \in 0..Len(commits) /\ index' \in Tree
    BY <1>0, <1>10, TreeOfType DEF ResetChecksOut, Records
  <2>. QED
    BY <1>10, <2>1, <2>2 DEF ResetChecksOut, FilesTypeOK, Records, SaveRecords
<1>11. ASSUME NEW r \in Resetters, ListingFails(r) PROVE FilesTypeOK'
  <2>1. resets' \in [Resetters -> Records]
    BY <1>0, <1>11, NoResetType DEF ListingFails
  <2>. QED
    BY <1>11, <2>1 DEF ListingFails, FilesTypeOK, repoVars, Records, SaveRecords
<1>15. ASSUME NEW r \in Resetters, ResetLists(r) PROVE FilesTypeOK'
  <2>1. resets' \in [Resetters -> Records]
    <3>1. [resets[r] EXCEPT !.pc = "called"] \in Records
      BY <1>0 DEF Records
    <3>2. resets' = [resets EXCEPT ![r] = [resets[r] EXCEPT !.pc = "called"]]
      BY <1>15 DEF ResetLists
    <3>. QED
      BY <1>0, <3>1, <3>2
  <2>. QED
    BY <1>15, <2>1 DEF ResetLists, FilesTypeOK, repoVars, Records, SaveRecords
<1>16. ASSUME NEW r \in Resetters, NEW paths \in SUBSET FilePaths, CheckoutFails(r, paths)
       PROVE  FilesTypeOK'
  <2>1. resets' \in [Resetters -> Records]
    BY <1>16, TouchedType, NoResetType DEF CheckoutFails
  <2>2. TreeOf(resets[r].at) \in Tree
    BY <1>0, TreeOfType DEF Records
  <2>3. index' \in Tree /\ excused' \subseteq FilePaths
    BY <1>16, <2>2 DEF CheckoutFails, FilesTypeOK, Tree
  <2>. QED
    BY <1>16, <2>1, <2>3 DEF CheckoutFails, FilesTypeOK, Records, SaveRecords
<1>12. ASSUME NEW r \in Resetters, SyncReads(r) \/ SyncReadFails(r) PROVE FilesTypeOK'
  <2>1. Readable(TreeOf(HeadOid)) \in Tree /\ NoFiles \in Tree
    BY TreeOfType, ReadableType DEF NoFiles, Tree
  <2>2. resets' \in [Resetters -> Records]
    <3>1. ASSUME NEW tree \in Tree, NEW since \in SUBSET FilePaths,
                 resets' = [resets EXCEPT ![r].pc = "read", ![r].tree = tree, ![r].since = since]
          PROVE  resets' \in [Resetters -> Records]
      <4> DEFINE once == [resets[r] EXCEPT !.pc = "read", !.tree = tree, !.since = since]
      <4>1. once \in Records
        BY <1>0, <3>1 DEF Records
      <4>2. resets' = [resets EXCEPT ![r] = once]
        BY <1>0, <3>1 DEF Records
      <4>. HIDE DEF once
      <4>. QED
        BY <1>0, <4>1, <4>2
    <3>2. CASE SyncReads(r)
      <4> DEFINE tree == Readable(TreeOf(HeadOid))
                 since == {f \in FilePaths : index[f] # TreeOf(HeadOid)[f]}
      <4>1. tree \in Tree /\ since \in SUBSET FilePaths
        BY <2>1
      <4>2. resets' = [resets EXCEPT ![r].pc = "read", ![r].tree = tree, ![r].since = since]
        BY <3>2 DEF SyncReads
      <4>. HIDE DEF tree, since
      <4>. QED
        BY <3>1, <4>1, <4>2
    <3>3. CASE SyncReadFails(r)
      <4> DEFINE tree == NoFiles
      <4>1. resets' = [resets EXCEPT ![r].pc = "read", ![r].tree = tree, ![r].since = FilePaths]
        BY <3>3 DEF SyncReadFails
      <4>2. tree \in Tree /\ FilePaths \in SUBSET FilePaths
        BY <2>1
      <4>. HIDE DEF tree
      <4>. QED
        BY <3>1, <4>1, <4>2
    <3>. QED
      BY <1>12, <3>2, <3>3
  <2>. QED
    BY <1>12, <2>2 DEF SyncReads, SyncReadFails, FilesTypeOK, repoVars, Records, SaveRecords
<1>13. ASSUME NEW r \in Resetters, SyncWrites(r) PROVE FilesTypeOK'
  <2>1. resets' \in [Resetters -> Records]
    BY <1>0, <1>13, TouchedType, NoResetType DEF SyncWrites
  <2>2. generatedFilesMap' \in Tree /\ excused' \subseteq FilePaths
    BY <1>0, <1>13 DEF SyncWrites, Records
  <2>. QED
    BY <1>13, <2>1, <2>2 DEF SyncWrites, FilesTypeOK, repoVars, Records, SaveRecords
<1>14. ASSUME NEW p \in Savers, Restart(p) PROVE FilesTypeOK'
  <2>1. Present(generatedFilesMap) \in SomeFiles
    BY PresentType DEF FilesTypeOK
  <2>2. saves' \in [Savers -> SaveRecords]
    BY <1>14, <2>1, SavingType, NoSaveType DEF Restart
  <2>3. resets' \in [Resetters -> Records] /\ excused' \subseteq FilePaths
    BY <1>0, <1>14, NoResetType DEF Restart, FilesTypeOK
  <2>. QED
    BY <1>14, <2>2, <2>3 DEF Restart, FilesTypeOK, repoVars, Records, SaveRecords
<1>. QED
  BY <1>1, <1>2, <1>3, <1>4, <1>5, <1>6, <1>7, <1>8, <1>9, <1>10, <1>11, <1>12, <1>13, <1>14,
     <1>15, <1>16
     DEF FilesNext, FileManagerStep, GitStep

\* A reset under way names a commit that exists, and every other part has its shape.
THEOREM FilesTypeCorrect == FilesSpec => []FilesTypeOK
<1>1. FilesTypeOK /\ [FilesNext]_filesVars => FilesTypeOK'
  BY FilesTypeStep DEF FilesTypeOK, filesVars, repoVars, Records, SaveRecords
<1>. QED
  BY <1>1, FilesInitType, PTL DEF FilesSpec

-----------------------------------------------------------------------------
(* The state follows the index *)

Same(f) == generatedFilesMap[f] = index[f] \/ (generatedFilesMap[f] = Absent /\ index[f] = Blank)

\* While no reset has checked out a tree it has still to sync, only excused paths and paths that are
\* still to be staged differ ...
ApartIsExcused ==
    (\A r \in Resetters : resets[r].pc \in {"idle", "moved"}) =>
        \A f \in FilePaths : Same(f) \/ f \in excused \cup StagedByAny

\* ... what a save has still to stage is what the map holds ...
StagesTheMap ==
    \A p \in Savers : \A f \in DOMAIN saves[p].files :
        f \in excused \/ saves[p].files[f] = generatedFilesMap[f]

\* ... and what a sync has read is what the index holds, but for what has changed since.
ReadsTheIndex ==
    \A r \in Resetters : resets[r].pc = "read" =>
        \A f \in FilePaths \ resets[r].since :
            resets[r].tree[f] = index[f] \/ (resets[r].tree[f] = Absent /\ index[f] = Blank)

FilesInv == ApartIsExcused /\ StagesTheMap /\ ReadsTheIndex

LEMMA StagedByAnyIs ==
    \A f : f \in StagedByAny <=> \E p \in Savers : f \in DOMAIN saves[p].files
BY DEF StagedByAny

LEMMA StagedLaterIs ==
    ASSUME NEW p \in Savers
    PROVE  \A f : f \in StagedLater(p) <=> \E q \in Savers \ {p} : f \in DOMAIN saves[q].files
BY DEF StagedLater

\* Touching paths leaves the stages of the resets, and what a sync has read, as they are.
LEMMA TouchedKeeps ==
    ASSUME FilesTypeOK, FilesInv, NEW paths \in SUBSET FilePaths, resets' = Touched(paths),
           \A f \in FilePaths \ paths : index'[f] = index[f]
    PROVE  /\ ReadsTheIndex'
           /\ \A r \in Resetters : resets'[r].pc = resets[r].pc
BY TouchedType DEF FilesInv, ReadsTheIndex

LEMMA FilesInvStep ==
    ASSUME FilesTypeOK, FilesTypeOK', FilesInv, FilesNext
    PROVE  FilesInv'
<1>0. /\ saves \in [Savers -> SaveRecords] /\ resets \in [Resetters -> Records]
      /\ \A p \in Savers : saves[p].files \in SomeFiles /\ DOMAIN saves[p].files \subseteq FilePaths
      /\ generatedFilesMap \in Tree /\ index \in Tree
      /\ NoSave.files \in SomeFiles /\ DOMAIN NoSave.files = {}
  BY SomeFilesElim, NoSaveType DEF FilesTypeOK, SaveRecords, Records
<1>1. ASSUME NEW g \in FilePaths, NEW c \in Contents, RecordFileChanges(g, c) PROVE FilesInv'
  <2>0. /\ UNCHANGED <<index, saves>> /\ excused' = excused \cup {g} /\ StagedByAny' = StagedByAny
        /\ \A f \in FilePaths \ {g} : generatedFilesMap'[f] = generatedFilesMap[f]
    BY <1>0, <1>1 DEF RecordFileChanges, repoVars, StagedByAny
  <2>1. ReadsTheIndex' /\ \A r \in Resetters : resets'[r].pc = resets[r].pc
    BY <1>1, <2>0, TouchedKeeps DEF RecordFileChanges
  <2>2. ApartIsExcused'
    BY <2>0, <2>1 DEF FilesInv, ApartIsExcused, Same
  <2>3. StagesTheMap'
    BY <1>0, <2>0 DEF FilesInv, StagesTheMap
  <2>. QED
    BY <2>1, <2>2, <2>3 DEF FilesInv
<1>2. ASSUME NEW p \in Savers, NEW files \in SomeFiles, NEW commit \in BOOLEAN,
             SaveBegins(p, files, commit)
      PROVE  FilesInv'
  <2>0. /\ UNCHANGED index /\ saves[p] = NoSave /\ DOMAIN files \subseteq FilePaths
        /\ \A f \in FilePaths \ DOMAIN files : generatedFilesMap'[f] = generatedFilesMap[f]
        /\ \A f \in DOMAIN files : generatedFilesMap'[f] = files[f]
    BY <1>0, <1>2, SomeFilesElim DEF SaveBegins, repoVars, Merged
  <2>1. ReadsTheIndex' /\ \A r \in Resetters : resets'[r].pc = resets[r].pc
    BY <1>2, <2>0, TouchedKeeps DEF SaveBegins
  <2>2. CASE commit \/ \E f \in DOMAIN files : files[f] # Base(f)
    <3>1. /\ saves'[p].files = files /\ \A q \in Savers \ {p} : saves'[q] = saves[q]
          /\ excused' = (excused \ DOMAIN files) \cup (DOMAIN files \cap StagedLater(p))
      BY <1>0, <1>2, <2>2 DEF SaveBegins, SaveRecords
    <3>2. \A f : f \in StagedByAny \/ f \in DOMAIN files => f \in StagedByAny'
      BY <1>0, <2>0, <3>1, StagedByAnyIs DEF StagedByAny
    <3>3. ApartIsExcused'
      BY <2>0, <2>1, <3>1, <3>2 DEF FilesInv, ApartIsExcused, Same
    <3>4. StagesTheMap'
      <4>1. ASSUME NEW q \in Savers, NEW f \in DOMAIN saves'[q].files
            PROVE  f \in excused' \/ saves'[q].files[f] = generatedFilesMap'[f]
        <5>1. CASE q = p
          BY <2>0, <3>1, <4>1, <5>1
        <5>2. CASE q # p /\ f \in DOMAIN files
          BY <3>1, <4>1, <5>2, StagedLaterIs
        <5>3. CASE q # p /\ f \notin DOMAIN files
          BY <1>0, <2>0, <3>1, <4>1, <5>3 DEF FilesInv, StagesTheMap
        <5>. QED
          BY <5>1, <5>2, <5>3
      <4>. QED
        BY <4>1 DEF StagesTheMap
    <3>. QED
      BY <2>1, <3>3, <3>4 DEF FilesInv
  <2>3. CASE ~(commit \/ \E f \in DOMAIN files : files[f] # Base(f))
    <3>1. /\ saves' = saves /\ StagedByAny' = StagedByAny
          /\ excused' = excused \cup {f \in DOMAIN files : generatedFilesMap[f] = Absent}
      BY <1>2, <2>3 DEF SaveBegins, StagedByAny
    <3>2. \A f \in FilePaths \ excused' : generatedFilesMap'[f] = generatedFilesMap[f]
      <4>1. ASSUME NEW f \in DOMAIN files, generatedFilesMap[f] # Absent
            PROVE  generatedFilesMap'[f] = generatedFilesMap[f]
        BY <2>0, <2>3, <4>1 DEF Base
      <4>. QED
        BY <2>0, <3>1, <4>1
    <3>3. ApartIsExcused'
      BY <2>0, <2>1, <3>1, <3>2 DEF FilesInv, ApartIsExcused, Same
    <3>4. StagesTheMap'
      BY <1>0, <3>1, <3>2 DEF FilesInv, StagesTheMap
    <3>. QED
      BY <2>1, <3>3, <3>4 DEF FilesInv
  <2>. QED
    BY <2>2, <2>3
<1>3. ASSUME NEW p \in Savers, CommitAllBegins(p) PROVE FilesInv'
  <2> DEFINE files == Present(generatedFilesMap)
  <2>0. /\ UNCHANGED <<generatedFilesMap, index, resets>> /\ saves[p] = NoSave
        /\ saves'[p].files = files /\ \A q \in Savers \ {p} : saves'[q] = saves[q]
        /\ excused' = (excused \ DOMAIN files) \cup (DOMAIN files \cap StagedLater(p))
    BY <1>0, <1>3 DEF CommitAllBegins, repoVars
  <2>1. \A f \in DOMAIN files : files[f] = generatedFilesMap[f]
    BY <1>0, PresentType
  <2>. HIDE DEF files
  <2>2. \A f : f \in StagedByAny \/ f \in DOMAIN files => f \in StagedByAny'
    BY <1>0, <2>0, StagedByAnyIs DEF StagedByAny
  <2>3. ApartIsExcused'
    BY <2>0, <2>2 DEF FilesInv, ApartIsExcused, Same
  <2>4. StagesTheMap'
    BY <2>0, <2>1, StagedLaterIs DEF FilesInv, StagesTheMap
  <2>5. ReadsTheIndex'
    BY <2>0 DEF FilesInv, ReadsTheIndex
  <2>. QED
    BY <2>3, <2>4, <2>5 DEF FilesInv
<1>4. ASSUME NEW p \in Savers, ToolCommitBegins(p) PROVE FilesInv'
  <2>0. /\ UNCHANGED <<generatedFilesMap, index, resets, excused>>
        /\ \A q \in Savers : saves'[q].files = saves[q].files
    BY <1>0, <1>4 DEF ToolCommitBegins, repoVars, SaveRecords, NoSave
  <2>1. StagedByAny' = StagedByAny
    BY <2>0 DEF StagedByAny
  <2>. QED
    BY <2>0, <2>1 DEF FilesInv, ApartIsExcused, Same, StagesTheMap, ReadsTheIndex
<1>5. ASSUME NEW g \in FilePaths, DeleteFiles({g}) PROVE FilesInv'
  <2>0. /\ UNCHANGED <<index, saves>> /\ excused' = excused \cup {g} /\ StagedByAny' = StagedByAny
        /\ \A f \in FilePaths \ {g} : generatedFilesMap'[f] = generatedFilesMap[f]
    BY <1>0, <1>5 DEF DeleteFiles, repoVars, StagedByAny
  <2>1. ReadsTheIndex' /\ \A r \in Resetters : resets'[r].pc = resets[r].pc
    BY <1>5, <2>0, TouchedKeeps DEF DeleteFiles
  <2>2. ApartIsExcused'
    BY <2>0, <2>1 DEF FilesInv, ApartIsExcused, Same
  <2>3. StagesTheMap'
    BY <1>0, <2>0 DEF FilesInv, StagesTheMap
  <2>. QED
    BY <2>1, <2>2, <2>3 DEF FilesInv
<1>6. ASSUME NEW p \in Savers, NEW g \in FilePaths, Stage(p, g) PROVE FilesInv'
  <2>0. /\ UNCHANGED <<generatedFilesMap, excused>>
        /\ g \in DOMAIN saves[p].files /\ index'[g] = saves[p].files[g]
        /\ \A f \in FilePaths \ {g} : index'[f] = index[f]
        /\ \A q \in Savers \ {p} : saves'[q] = saves[q]
    BY <1>0, <1>6 DEF Stage, Tree
  <2>1. /\ DOMAIN saves'[p].files = DOMAIN saves[p].files \ {g}
        /\ \A f \in DOMAIN saves'[p].files : saves'[p].files[f] = saves[p].files[f]
    <3>1. saves[p].commit \in BOOLEAN
      BY <1>0 DEF SaveRecords
    <3>2. saves'[p].files = Without(saves[p].files, g)
      BY <1>0, <1>6, <3>1, WithoutType, SavingType DEF Stage
    <3>3. saves[p].files \in SomeFiles
      BY <1>0
    <3> DEFINE w == Without(saves[p].files, g)
    <3>4. DOMAIN w = DOMAIN saves[p].files \ {g} /\ \A f \in DOMAIN w : w[f] = saves[p].files[f]
      BY <3>3, WithoutType
    <3>. HIDE DEF w
    <3>5. saves'[p].files = w
      BY <3>2 DEF w
    <3>. QED
      BY <3>4, <3>5
  <2>2. ReadsTheIndex' /\ \A r \in Resetters : resets'[r].pc = resets[r].pc
    BY <1>6, <2>0, TouchedKeeps DEF Stage
  <2>3. StagesTheMap'
    BY <2>0, <2>1 DEF FilesInv, StagesTheMap
  <2>4. \A f \in StagedByAny : f = g \/ f \in StagedByAny'
    <3>. SUFFICES ASSUME NEW f \in StagedByAny, f # g PROVE f \in StagedByAny'
      OBVIOUS
    <3>1. PICK q \in Savers : f \in DOMAIN saves[q].files
      BY StagedByAnyIs
    <3>2. f \in DOMAIN saves'[q].files
      BY <2>0, <2>1, <3>1
    <3>. QED
      BY <3>2 DEF StagedByAny
  <2>5. g \in excused \/ generatedFilesMap[g] = index'[g]
    BY <2>0 DEF FilesInv, StagesTheMap
  <2>6. ApartIsExcused'
    BY <2>0, <2>2, <2>4, <2>5 DEF FilesInv, ApartIsExcused, Same
  <2>. QED
    BY <2>2, <2>3, <2>6 DEF FilesInv
<1>7. ASSUME NEW p \in Savers, Commit(p) PROVE FilesInv'
  <2>0. /\ UNCHANGED <<generatedFilesMap, index, resets, excused>>
        /\ \A q \in Savers : DOMAIN saves'[q].files = DOMAIN saves[q].files
        /\ \A q \in Savers \ {p} : saves'[q] = saves[q]
        /\ DOMAIN saves'[p].files = {}
    BY <1>0, <1>7 DEF Commit
  <2>1. StagedByAny' = StagedByAny
    BY <2>0 DEF StagedByAny
  <2>2. StagesTheMap'
    BY <2>0 DEF FilesInv, StagesTheMap
  <2>. QED
    BY <2>0, <2>1, <2>2 DEF FilesInv, ApartIsExcused, Same, ReadsTheIndex
<1>8. ASSUME NEW p \in Savers, SaveFails(p) PROVE FilesInv'
  <2>0. /\ UNCHANGED <<generatedFilesMap, index, resets>>
        /\ excused' = excused \cup DOMAIN saves[p].files
        /\ \A q \in Savers \ {p} : saves'[q] = saves[q]
        /\ DOMAIN saves'[p].files = {}
    BY <1>0, <1>8 DEF SaveFails, repoVars
  <2>1. \A f \in StagedByAny : f \in excused' \/ f \in StagedByAny'
    <3>. SUFFICES ASSUME NEW f \in StagedByAny, f \notin excused' PROVE f \in StagedByAny'
      OBVIOUS
    <3>1. PICK q \in Savers : f \in DOMAIN saves[q].files
      BY StagedByAnyIs
    <3>2. f \in DOMAIN saves'[q].files
      BY <2>0, <3>1
    <3>. QED
      BY <3>2 DEF StagedByAny
  <2>2. ApartIsExcused'
    BY <2>0, <2>1 DEF FilesInv, ApartIsExcused, Same
  <2>3. StagesTheMap' /\ ReadsTheIndex'
    BY <2>0 DEF FilesInv, StagesTheMap, ReadsTheIndex
  <2>. QED
    BY <2>2, <2>3 DEF FilesInv
<1>9. ASSUME NEW r \in Resetters, NEW oid \in 1..Len(commits), ResetMoves(r, oid) PROVE FilesInv'
  <2>0. /\ UNCHANGED <<generatedFilesMap, index, saves, excused>> /\ StagedByAny' = StagedByAny
        /\ resets[r].pc = "idle" /\ resets'[r].pc = "moved"
        /\ \A s \in Resetters \ {r} : resets'[s] = resets[s]
    BY <1>0, <1>9 DEF ResetMoves, NoReset, StagedByAny
  <2>. QED
    BY <2>0 DEF FilesInv, ApartIsExcused, Same, StagesTheMap, ReadsTheIndex
<1>10. ASSUME NEW r \in Resetters, ResetChecksOut(r) PROVE FilesInv'
  <2>0. /\ UNCHANGED <<generatedFilesMap, saves, excused>>
        /\ resets'[r].pc = "checked"
        /\ \A s \in Resetters \ {r} : resets'[s] = Touched(FilePaths)[s]
    BY <1>0, <1>10, TouchedType DEF ResetChecksOut, Records
  <2>1. ~ \A s \in Resetters : resets'[s].pc \in {"idle", "moved"}
    BY <2>0
  <2>2. ReadsTheIndex'
    <3>1. ASSUME NEW s \in Resetters, resets'[s].pc = "read" PROVE FilePaths \ resets'[s].since = {}
      BY <2>0, <3>1, TouchedType
    <3>. QED
      BY <3>1 DEF ReadsTheIndex
  <2>3. StagesTheMap'
    BY <2>0 DEF FilesInv, StagesTheMap
  <2>. QED
    BY <2>1, <2>2, <2>3 DEF FilesInv, ApartIsExcused
<1>11. ASSUME NEW r \in Resetters, ListingFails(r) PROVE FilesInv'
  <2>0. /\ UNCHANGED <<generatedFilesMap, index, saves>> /\ excused' = FilePaths
        /\ resets'[r].pc = "idle"
        /\ \A s \in Resetters \ {r} : resets'[s] = resets[s]
    BY <1>0, <1>11 DEF ListingFails, NoReset, repoVars
  <2>. QED
    BY <1>0, <2>0 DEF FilesInv, ApartIsExcused, StagesTheMap, ReadsTheIndex
<1>15. ASSUME NEW r \in Resetters, ResetLists(r) PROVE FilesInv'
  <2>0. /\ UNCHANGED <<generatedFilesMap, index, saves, excused>>
        /\ resets'[r].pc = "called"
        /\ \A s \in Resetters \ {r} : resets'[s] = resets[s]
    BY <1>0, <1>15 DEF ResetLists, repoVars, Records
  <2>. QED
    BY <2>0 DEF FilesInv, ApartIsExcused, StagesTheMap, ReadsTheIndex
<1>16. ASSUME NEW r \in Resetters, NEW paths \in SUBSET FilePaths, CheckoutFails(r, paths)
       PROVE  FilesInv'
  <2>0. /\ UNCHANGED <<generatedFilesMap, saves>> /\ excused' = excused \cup paths
        /\ StagedByAny' = StagedByAny
        /\ \A f \in FilePaths \ paths : index'[f] = index[f]
        /\ resets[r].pc = "moved" /\ resets'[r] = NoReset
        /\ \A s \in Resetters \ {r} : resets'[s] = Touched(paths)[s]
    BY <1>0, <1>16, TouchedType DEF CheckoutFails, StagedByAny
  <2>1. ApartIsExcused'
    <3>1. \A s \in Resetters : resets'[s].pc \in {"idle", "moved"} => resets[s].pc \in {"idle", "moved"}
      BY <2>0, TouchedType
    <3>. QED
      BY <2>0, <3>1 DEF FilesInv, ApartIsExcused, Same
  <2>2. ReadsTheIndex'
    <3>1. ASSUME NEW s \in Resetters, resets'[s].pc = "read"
          PROVE  /\ resets[s].pc = "read" /\ resets'[s].tree = resets[s].tree
                 /\ resets'[s].since = resets[s].since \cup paths
      BY <2>0, <3>1, TouchedType, NoResetType
    <3>. QED
      BY <2>0, <3>1 DEF FilesInv, ReadsTheIndex
  <2>3. StagesTheMap'
    BY <2>0 DEF FilesInv, StagesTheMap
  <2>. QED
    BY <2>1, <2>2, <2>3 DEF FilesInv
<1>12. ASSUME NEW r \in Resetters, SyncReads(r) \/ SyncReadFails(r) PROVE FilesInv'
  <2>0. /\ UNCHANGED <<generatedFilesMap, index, saves, excused>>
        /\ resets'[r].pc = "read"
        /\ \A s \in Resetters \ {r} : resets'[s] = resets[s]
    BY <1>0, <1>12 DEF SyncReads, SyncReadFails, repoVars, Records
  <2>1. \A f \in FilePaths \ resets'[r].since :
            resets'[r].tree[f] = index[f] \/ (resets'[r].tree[f] = Absent /\ index[f] = Blank)
    <3>1. CASE SyncReads(r)
      <4>1. /\ resets'[r].tree = Readable(TreeOf(HeadOid))
            /\ resets'[r].since = {f \in FilePaths : index[f] # TreeOf(HeadOid)[f]}
        BY <1>0, <3>1 DEF SyncReads, Records
      <4>. QED
        BY <4>1 DEF Readable
    <3>2. CASE SyncReadFails(r)
      BY <1>0, <3>2 DEF SyncReadFails, Records
    <3>. QED
      BY <1>12, <3>1, <3>2
  <2>2. ReadsTheIndex'
    BY <2>0, <2>1 DEF FilesInv, ReadsTheIndex
  <2>. QED
    BY <2>0, <2>2 DEF FilesInv, ApartIsExcused, StagesTheMap
<1>13. ASSUME NEW r \in Resetters, SyncWrites(r) PROVE FilesInv'
  <2>0. /\ UNCHANGED <<index, saves>> /\ resets[r].pc = "read" /\ StagedByAny' = StagedByAny
        /\ generatedFilesMap' = resets[r].tree /\ excused' = resets[r].since \cup StagedByAny
        /\ resets'[r] = NoReset
        /\ \A s \in Resetters \ {r} : resets'[s] = Touched(FilePaths)[s]
    BY <1>0, <1>13, TouchedType DEF SyncWrites, repoVars, StagedByAny
  <2>1. ReadsTheIndex'
    <3>1. ASSUME NEW s \in Resetters, resets'[s].pc = "read" PROVE FilePaths \ resets'[s].since = {}
      BY <2>0, <3>1, TouchedType, NoResetType
    <3>. QED
      BY <3>1 DEF ReadsTheIndex
  <2>2. ApartIsExcused'
    BY <2>0 DEF FilesInv, ReadsTheIndex, ApartIsExcused, Same
  <2>3. StagesTheMap'
    BY <2>0 DEF StagesTheMap, StagedByAny
  <2>. QED
    BY <2>1, <2>2, <2>3 DEF FilesInv
<1>14. ASSUME NEW p \in Savers, Restart(p) PROVE FilesInv'
  <2>0. /\ UNCHANGED <<generatedFilesMap, index>>
        /\ \A r \in Resetters : resets'[r].pc = "idle"
        /\ \/ excused' = FilePaths
           \/ /\ excused' = excused \cup StagedByAny
              /\ \A r \in Resetters : resets[r].pc \in {"idle", "moved"}
    BY <1>0, <1>14, NoResetType DEF Restart, repoVars, Records
  <2>1. ApartIsExcused'
    BY <2>0 DEF FilesInv, ApartIsExcused, Same
  <2>2. ReadsTheIndex'
    BY <2>0 DEF ReadsTheIndex
  <2>3. \A q \in Savers : \/ saves'[q].files = NoSave.files
                         \/ saves'[q].files = Present(generatedFilesMap)
    BY <1>0, <1>14, PresentType, SavingType DEF Restart
  <2>4. StagesTheMap'
    <3>1. \A f \in DOMAIN Present(generatedFilesMap) :
              Present(generatedFilesMap)[f] = generatedFilesMap[f]
      BY <1>0, PresentType
    <3> DEFINE all == Present(generatedFilesMap)
    <3>. HIDE DEF all
    <3>2. \A q \in Savers : saves'[q].files = NoSave.files \/ saves'[q].files = all
      BY <2>3 DEF all
    <3>3. \A f \in DOMAIN all : all[f] = generatedFilesMap[f]
      BY <3>1 DEF all
    <3>4. \A q \in Savers : \A f \in DOMAIN saves'[q].files :
              saves'[q].files[f] = generatedFilesMap'[f]
      BY <1>0, <2>0, <3>2, <3>3
    <3>. QED
      BY <3>4 DEF StagesTheMap
  <2>. QED
    BY <2>1, <2>2, <2>4 DEF FilesInv
<1>. QED
  BY <1>1, <1>2, <1>3, <1>4, <1>5, <1>6, <1>7, <1>8, <1>9, <1>10, <1>11, <1>12, <1>13, <1>14,
     <1>15, <1>16
     DEF FilesNext, FileManagerStep, GitStep

LEMMA FilesInvInit == FilesInit => FilesInv
<1>. SUFFICES ASSUME FilesInit PROVE FilesInv
  OBVIOUS
<1>1. \A p \in Savers : DOMAIN saves[p].files = {}
  BY NoSaveType DEF FilesInit
<1>2. \A r \in Resetters : resets[r].pc = "idle"
  BY DEF FilesInit, NoReset
<1>. QED
  BY <1>1, <1>2 DEF FilesInit, FilesInv, ApartIsExcused, Same, StagesTheMap, ReadsTheIndex, NoFiles

LEMMA FilesInvStagesState == ASSUME FilesTypeOK, FilesInv PROVE StateIsStaged
<1>1. CASE \A r \in Resetters : resets[r].pc \in {"idle", "moved"}
  BY <1>1 DEF FilesInv, ApartIsExcused, Same, StateIsStaged
<1>2. CASE \E r \in Resetters : resets[r].pc \notin {"idle", "moved"}
  BY <1>2, NoResetType DEF StateIsStaged
<1>. QED
  BY <1>1, <1>2

\* However many saves and resets overlap, the agent's files and the staged files differ only where one
\* of the named causes drove them apart.
THEOREM FilesStateIsStaged == FilesSpec => []StateIsStaged
<1>1. FilesTypeOK /\ FilesTypeOK' /\ FilesInv /\ [FilesNext]_filesVars => FilesInv'
  BY FilesInvStep
     DEF filesVars, repoVars, FilesInv, ApartIsExcused, Same, StagesTheMap, ReadsTheIndex, StagedByAny
<1>. QED
  BY <1>1, FilesInvInit, FilesTypeCorrect, FilesInvStagesState, PTL DEF FilesSpec
=============================================================================
