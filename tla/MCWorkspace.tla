---------------------------- MODULE MCWorkspace ----------------------------
(* Four parts of an app's workspace that share no variable: the monitor of its container and the log
   it writes, the files with their repository, and the tool calls that work on them.  A behaviour is
   one of one of them. *)
EXTENDS ProcessMonitor, MonitorLog, Files, ToolPlan, FiniteSets
VARIABLE part

\* One declaration of each kind that toolkit/ has, and what two of them add up to.
Nothing == [mode |-> "none", paths |-> {}, sandbox |-> "none", blueprint |-> FALSE, gitCommit |-> FALSE]
ToolKinds ==
    {NoResources,
     [Nothing EXCEPT !.mode = "write", !.paths = {"a"}, !.sandbox = "deploy"],
     [Nothing EXCEPT !.mode = "write", !.paths = {"a", "b"}],
     [Nothing EXCEPT !.mode = "write"],
     [Nothing EXCEPT !.mode = "read", !.paths = {"b"}],
     [Nothing EXCEPT !.mode = "read", !.sandbox = "analysis"],
     [Nothing EXCEPT !.sandbox = "read"],
     [Nothing EXCEPT !.blueprint = TRUE],
     [Nothing EXCEPT !.gitCommit = TRUE]}
ShortBatches == UNION {[1..n -> ToolKinds] : n \in 1..3}

\* The template has every file, with the one content that is not empty.
TextFiles == [f \in FilePaths |-> CHOOSE c \in Contents : c # Blank]

\* One child, reader or line is as good as another: of those that have not begun, the first begins.
ChildrenInTurn ==
    \A p \in Procs :
        procs[p] = "unborn" /\ procs'[p] # "unborn" => p = CHOOSE q \in Procs : procs[q] = "unborn"
ReadersInTurn ==
    \A r \in LogReaders :
        readers[r] = "idle" /\ readers'[r] # "idle" => r = CHOOSE q \in LogReaders : readers[q] = "idle"
LinesInTurn ==
    \A l \in Lines :
        appends[l] = "new" /\ appends'[l] # "new" => l = CHOOSE k \in Lines : appends[k] = "new"

\* Bound: three calls of saves and resets are under way at once.
ThreeAtOnce ==
    Cardinality({p \in Savers : saves[p] # NoSave}) + Cardinality({r \in Resetters : resets[r] # NoReset}) <= 3

WorkspaceInit ==
    /\ MonitorInit /\ LogInit /\ FilesInit /\ PlanInit
    /\ part \in {"monitor", "log", "files", "tools"}
WorkspaceNext ==
    \/ /\ part = "monitor" /\ MonitorNext /\ ChildrenInTurn
       /\ UNCHANGED <<logVars, filesVars, planVars, part>>
    \/ /\ part = "log" /\ LogNext /\ ReadersInTurn /\ LinesInTurn
       /\ UNCHANGED <<monitorVars, filesVars, planVars, part>>
    \/ /\ part = "files" /\ FilesNext /\ ThreeAtOnce'
       /\ UNCHANGED <<monitorVars, logVars, planVars, part>>
    \/ part = "tools" /\ PlanNext /\ UNCHANGED <<monitorVars, logVars, filesVars, part>>
WorkspaceSpec ==
    /\ WorkspaceInit /\ [][WorkspaceNext]_<<monitorVars, logVars, filesVars, planVars, part>>
    /\ MonitorFairness
\* The four type invariants together.
WorkspaceTypeOK == MonitorTypeOK /\ LogTypeOK /\ FilesTypeOK /\ PlanTypeOK
=============================================================================
