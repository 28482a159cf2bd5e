------------------------------- MODULE Files -------------------------------
(***************************************************************************)
(* FileManager and GitVersionControl: the files of an app, kept twice --   *)
(* as generatedFilesMap in the state of the agent and in a git repository  *)
(* -- and how saves, commits, deletions and resets move them.  A save puts *)
(* its files in the map at once and stages them one await after the other; *)
(* a reset moves HEAD, checks out, lists the files, and fires a sync it    *)
(* does not wait for, which reads HEAD and then replaces the map.  Other   *)
(* saves run meanwhile.                                                    *)
(* The git library is modelled by what it documents: add and commit each   *)
(* hold the lock of the index, and a HEAD that holds an oid moves alone.   *)
(***************************************************************************)
EXTENDS Naturals, Sequences

CONSTANTS
    FilePaths,  \* the paths of the app's files
    Contents,   \* what a file may hold
    Blank,      \* the empty content
    Absent,     \* there is no such file
    Template,   \* what the app's template has at each path
    Savers,     \* the calls of saveGeneratedFiles and git.commit that overlap
    Resetters,  \* the calls of reset that overlap, each with its sync
    MaxCommits  \* bound: the commits that are made

ASSUME FilesAssumption ==
    /\ Blank \in Contents /\ Absent \notin Contents
    /\ Template \in [FilePaths -> Contents \cup {Absent}]
    /\ MaxCommits \in Nat

VARIABLES
    generatedFilesMap, \* state.generatedFilesMap, by path
    index,             \* the index, which the working tree follows
    commits,           \* the trees of the commits; an oid is a position
    main,              \* refs/heads/main, 0 before the first commit
    head,              \* HEAD: 0 when it names main, else the oid it holds
    saves,             \* for each saver: what it has still to stage, and whether it commits
    resets,            \* for each resetter: how far it is
    excused            \* history: paths whose map and index a known cause drove apart

filesVars == <<generatedFilesMap, index, commits, main, head, saves, resets, excused>>
repoVars == <<index, commits, main, head>>

Tree == [FilePaths -> Contents \cup {Absent}]
NoFiles == [f \in FilePaths |-> Absent]
SomeFiles == UNION {[S -> Contents] : S \in SUBSET FilePaths}
NoSave == [files |-> [f \in {} |-> Blank], commit |-> FALSE, given |-> FALSE]
NoReset == [pc |-> "idle", at |-> 0, tree |-> NoFiles, since |-> {}]

\* The shape of the state; a reset under way names a commit that exists.
FilesTypeOK ==
    /\ generatedFilesMap \in Tree
    /\ index \in Tree
    /\ commits \in Seq(Tree)
    /\ main \in 0..Len(commits)
    /\ head \in 0..Len(commits)
    /\ saves \in [Savers -> [files : SomeFiles, commit : BOOLEAN, given : BOOLEAN]]
    /\ resets \in [Resetters -> [pc : {"idle", "moved", "checked", "called", "read"},
                                 at : 0..Len(commits), tree : Tree, since : SUBSET FilePaths]]
    /\ excused \subseteq FilePaths

FilesInit ==
    /\ generatedFilesMap = NoFiles
    /\ index = NoFiles
    /\ commits = <<>>
    /\ main = 0
    /\ head = 0
    /\ saves = [p \in Savers |-> NoSave]
    /\ resets = [r \in Resetters |-> NoReset]
    /\ excused = {}

-----------------------------------------------------------------------------
HeadOid == IF head = 0 THEN main ELSE head
TreeOf(oid) == IF oid = 0 THEN NoFiles ELSE commits[oid]

\* walkTree leaves out what tryReadTextBlob finds empty.
Readable(tree) == [f \in FilePaths |-> IF tree[f] = Blank THEN Absent ELSE tree[f]]

\* The paths that some other save has still to stage.
StagedLater(p) == UNION {DOMAIN saves[q].files : q \in Savers \ {p}}
StagedByAny == UNION {DOMAIN saves[q].files : q \in Savers}

Merged(tree, files) == [f \in FilePaths |-> IF f \in DOMAIN files THEN files[f] ELSE tree[f]]
Present(tree) == [f \in {g \in FilePaths : tree[g] # Absent} |-> tree[f]]
Without(files, f) == [g \in DOMAIN files \ {f} |-> files[g]]

\* The save ends when it has staged everything and was not asked to commit.
Saving(files, commit) ==
    IF files = NoSave.files /\ ~commit THEN NoSave
    ELSE [files |-> files, commit |-> commit, given |-> TRUE]

\* Paths that change while a sync is between its read and its write.
Touched(paths) ==
    [r \in Resetters |-> IF resets[r].pc = "read"
                         THEN [resets[r] EXCEPT !.since = @ \cup paths] ELSE resets[r]]

-----------------------------------------------------------------------------
(* FileManager *)

\* recordFileChanges, on its own when a file closes: the map only.
RecordFileChanges(f, content) ==
    /\ generatedFilesMap' = [generatedFilesMap EXCEPT ![f] = content]
    /\ excused' = excused \cup {f}
    /\ resets' = Touched({f})
    /\ UNCHANGED <<repoVars, saves>>

\* What recordFileChanges compares a path's new content with: the map's, else the template's, else
\* the empty content.
Base(f) ==
    CASE generatedFilesMap[f] # Absent -> generatedFilesMap[f]
      [] generatedFilesMap[f] = Absent /\ Template[f] # Absent -> Template[f]
      [] OTHER -> Blank

\* saveGeneratedFiles with files, those that are left when the protected ones are skipped: recorded
\* at once; staged when it commits or when some content is not its base's.  What another save has
\* still to stage of them, it may stage after this one; a path that comes into the map with the
\* content of its base is not staged.
SaveBegins(p, files, commit) ==
    LET goesOn == commit \/ \E f \in DOMAIN files : files[f] # Base(f)
    IN  /\ saves[p] = NoSave
        /\ generatedFilesMap' = Merged(generatedFilesMap, files)
        /\ saves' = IF goesOn
                    THEN [saves EXCEPT ![p] =
                             [files |-> files, commit |-> commit, given |-> DOMAIN files # {}]]
                    ELSE saves
        /\ excused' = IF goesOn
                      THEN (excused \ DOMAIN files) \cup (DOMAIN files \cap StagedLater(p))
                      ELSE excused \cup {f \in DOMAIN files : generatedFilesMap[f] = Absent}
        /\ resets' = Touched(DOMAIN files)
        /\ UNCHANGED repoVars

\* saveGeneratedFiles([], message): the whole map is staged and committed.
CommitAllBegins(p) ==
    LET files == Present(generatedFilesMap)
    IN  /\ saves[p] = NoSave
        /\ saves' = [saves EXCEPT ![p] =
                        [files |-> files, commit |-> TRUE, given |-> DOMAIN files # {}]]
        /\ excused' = (excused \ DOMAIN files) \cup (DOMAIN files \cap StagedLater(p))
        /\ UNCHANGED <<generatedFilesMap, repoVars, resets>>

\* git.commit([]) of the git tool.
ToolCommitBegins(p) ==
    /\ saves[p] = NoSave
    /\ saves' = [saves EXCEPT ![p] = [NoSave EXCEPT !.commit = TRUE]]
    /\ UNCHANGED <<generatedFilesMap, repoVars, resets, excused>>

\* deleteFiles: neither the index nor the history hears of it.
DeleteFiles(paths) ==
    /\ generatedFilesMap' =
           [f \in FilePaths |-> IF f \in paths THEN Absent ELSE generatedFilesMap[f]]
    /\ excused' = excused \cup paths
    /\ resets' = Touched(paths)
    /\ UNCHANGED <<repoVars, saves>>

-----------------------------------------------------------------------------
(* GitVersionControl *)

\* stage: writeFile and add of one file.
Stage(p, f) ==
    /\ f \in DOMAIN saves[p].files
    /\ index' = [index EXCEPT ![f] = saves[p].files[f]]
    /\ saves' = [saves EXCEPT ![p] = Saving(Without(saves[p].files, f), saves[p].commit)]
    /\ resets' = Touched({f})
    /\ UNCHANGED <<generatedFilesMap, commits, main, head, excused>>

\* commit: of no files only when HEAD and the working tree differ; on the branch HEAD names, or on
\* HEAD alone.
Commit(p) ==
    /\ saves[p].commit /\ DOMAIN saves[p].files = {}
    /\ saves' = [saves EXCEPT ![p] = NoSave]
    /\ IF ~saves[p].given /\ index = TreeOf(HeadOid)
       THEN UNCHANGED <<commits, main, head>>
       ELSE /\ Len(commits) < MaxCommits
            /\ commits' = Append(commits, index)
            /\ main' = IF head = 0 THEN Len(commits) + 1 ELSE main
            /\ head' = IF head = 0 THEN 0 ELSE Len(commits) + 1
    /\ UNCHANGED <<generatedFilesMap, index, resets, excused>>

\* The file system fails: saveGeneratedFiles logs the error and returns as if all was well.
SaveFails(p) ==
    /\ saves[p] # NoSave
    /\ saves' = [saves EXCEPT ![p] = NoSave]
    /\ excused' = excused \cup DOMAIN saves[p].files
    /\ UNCHANGED <<generatedFilesMap, repoVars, resets>>

\* reset: writeRef puts the oid in HEAD itself ...
ResetMoves(r, oid) ==
    /\ resets[r] = NoReset
    /\ head' = oid
    /\ resets' = [resets EXCEPT ![r] = [NoReset EXCEPT !.pc = "moved", !.at = oid]]
    /\ UNCHANGED <<generatedFilesMap, index, commits, main, saves, excused>>

\* ... checkout makes the index the commit's ...
ResetChecksOut(r) ==
    /\ resets[r].pc = "moved"
    /\ head' = resets[r].at
    /\ index' = TreeOf(resets[r].at)
    /\ resets' = [Touched(FilePaths) EXCEPT ![r] = [resets[r] EXCEPT !.pc = "checked"]]
    /\ UNCHANGED <<generatedFilesMap, commits, main, saves, excused>>

\* ... or throws when it has checked some paths out, with HEAD moved and no sync ...
CheckoutFails(r, paths) ==
    /\ resets[r].pc = "moved"
    /\ index' = [f \in FilePaths |-> IF f \in paths THEN TreeOf(resets[r].at)[f] ELSE index[f]]
    /\ excused' = excused \cup paths
    /\ resets' = [Touched(paths) EXCEPT ![r] = NoReset]
    /\ UNCHANGED <<generatedFilesMap, commits, main, head, saves>>

\* ... the files of the commit are listed, and the callback starts a sync nobody awaits ...
ResetLists(r) ==
    /\ resets[r].pc = "checked"
    /\ resets' = [resets EXCEPT ![r].pc = "called"]
    /\ UNCHANGED <<generatedFilesMap, repoVars, saves, excused>>

\* ... or the listing throws, and there is no sync of what is checked out.
ListingFails(r) ==
    /\ resets[r].pc = "checked"
    /\ resets' = [resets EXCEPT ![r] = NoReset]
    /\ excused' = FilePaths
    /\ UNCHANGED <<generatedFilesMap, repoVars, saves>>

\* Mutant: the sync reads the branch instead of HEAD.
SyncReadsMain(r) ==
    /\ resets[r].pc = "called"
    /\ resets' = [resets EXCEPT ![r].pc = "read", ![r].tree = Readable(TreeOf(main)),
                                ![r].since = {f \in FilePaths : index[f] # TreeOf(HeadOid)[f]}]
    /\ UNCHANGED <<generatedFilesMap, repoVars, saves, excused>>

\* syncGeneratedFilesMapFromGit reads the tree of HEAD.  Paths that are staged and not committed it
\* will drop from the map.
SyncReads(r) ==
    /\ resets[r].pc = "called"
    /\ resets' = [resets EXCEPT ![r].pc = "read", ![r].tree = Readable(TreeOf(HeadOid)),
                                ![r].since = {f \in FilePaths : index[f] # TreeOf(HeadOid)[f]}]
    /\ UNCHANGED <<generatedFilesMap, repoVars, saves, excused>>

\* getAllFilesFromHead answers an error with no files, and the sync empties the map.
SyncReadFails(r) ==
    /\ resets[r].pc = "called"
    /\ resets' = [resets EXCEPT ![r].pc = "read", ![r].tree = NoFiles, ![r].since = FilePaths]
    /\ UNCHANGED <<generatedFilesMap, repoVars, saves, excused>>

\* The sync replaces the map by what it read.
SyncWrites(r) ==
    /\ resets[r].pc = "read"
    /\ generatedFilesMap' = resets[r].tree
    /\ excused' = resets[r].since \cup StagedByAny
    /\ resets' = [Touched(FilePaths) EXCEPT ![r] = NoReset]
    /\ UNCHANGED <<repoVars, saves>>

\* The object restarts: the state and the repository are kept, what was under way is lost; gitInit
\* makes the first commit when there is none.
Restart(p) ==
    LET files == Present(generatedFilesMap)
        first == IF HeadOid = 0 /\ DOMAIN files # {} THEN Saving(files, TRUE) ELSE NoSave
    IN  /\ saves' = [q \in Savers |-> IF q = p THEN first ELSE NoSave]
        /\ resets' = [r \in Resetters |-> NoReset]
        /\ excused' = IF \E r \in Resetters : resets[r].pc \in {"checked", "called", "read"}
                      THEN FilePaths ELSE excused \cup StagedByAny
        /\ UNCHANGED <<generatedFilesMap, repoVars>>

-----------------------------------------------------------------------------
FileManagerStep ==
    \/ \E f \in FilePaths, c \in Contents : RecordFileChanges(f, c)
    \/ \E p \in Savers, files \in SomeFiles, commit \in BOOLEAN : SaveBegins(p, files, commit)
    \/ \E p \in Savers : CommitAllBegins(p) \/ ToolCommitBegins(p)
    \/ \E f \in FilePaths : DeleteFiles({f})

GitStep ==
    \/ \E p \in Savers : Commit(p) \/ SaveFails(p) \/ \E f \in FilePaths : Stage(p, f)
    \/ \E r \in Resetters : \/ \E oid \in 1..Len(commits) : ResetMoves(r, oid)
                            \/ ResetChecksOut(r) \/ ResetLists(r) \/ ListingFails(r)
                            \/ \E paths \in SUBSET FilePaths : CheckoutFails(r, paths)
                            \/ SyncReads(r) \/ SyncReadFails(r) \/ SyncWrites(r)

FilesNext ==
    \/ FileManagerStep
    \/ GitStep
    \/ \E p \in Savers : Restart(p)

FilesSpec == FilesInit /\ [][FilesNext]_filesVars

-----------------------------------------------------------------------------
(* Properties *)

\* The files the agent works with are the files it has staged: map and index of a path differ only
\* while a save that has it to stage, or a reset, is under way, or after one of: a record with no
\* save, a save of a path new to the map whose content is the template's, or empty where the
\* template has none, a deletion, a swallowed error, two saves of the path at once, a reset that
\* throws in its checkout or after it, a change during a sync, a sync that could not read, a restart
\* in the middle.  (An empty file the sync leaves out.)
StateIsStaged ==
    \A f \in FilePaths :
        generatedFilesMap[f] # index[f] =>
            \/ f \in excused \cup StagedByAny
            \/ \E r \in Resetters : resets[r] # NoReset
            \/ generatedFilesMap[f] = Absent /\ index[f] = Blank

\* "deletes all commits after it" (of a reset): what log() lists, the history of main, has no
\* commit that HEAD has left behind.
ResetDeletesLaterCommits == main <= HeadOid
=============================================================================
