------------------------------ MODULE ToolPlan ------------------------------
(***************************************************************************)
(* The tool calls of one answer of the model: buildExecutionPlan sorts     *)
(* them into groups by the resources they declare, and                     *)
(* executeToolCallsWithDependencies runs the calls of a group side by side *)
(* and the groups one after the other.  An abort, or a call of a tool that *)
(* does not exist, rejects the whole batch at once.                        *)
(***************************************************************************)
EXTENDS Naturals, Sequences

CONSTANTS
    Paths,       \* the files of the app
    Batches,     \* the batches of calls the model may answer with
    NoResources  \* the call's tool is not defined

Resources == [mode : {"none", "read", "write"}, paths : SUBSET Paths,
              sandbox : {"none", "read", "exec", "analysis", "deploy"},
              blueprint : BOOLEAN, gitCommit : BOOLEAN]

ASSUME PlanAssumption ==
    /\ Paths # {}
    /\ NoResources \notin Resources
    /\ Batches \subseteq Seq(Resources \cup {NoResources}) \ {<<>>}

VARIABLES
    batch, \* the calls, by position: what each declares
    calls  \* for each call: how far it is

planVars == <<batch, calls>>

\* Types of the state.
PlanTypeOK ==
    /\ batch \in Seq(Resources \cup {NoResources})
    /\ calls \in [1..Len(batch) -> {"new", "running", "done", "thrown"}]

PlanInit ==
    /\ batch = <<>>
    /\ calls = <<>>

-----------------------------------------------------------------------------
(* resources.ts *)

\* Mutant: no path means none.
PathsOverlapExact(s, t) == s \cap t # {}

\* pathsOverlap; no path at all means all files.
PathsOverlap(s, t) == s = {} \/ t = {} \/ s \cap t # {}

FileConflict(a, b) ==
    /\ a.mode # "none" /\ b.mode # "none"
    /\ a.mode = "write" \/ b.mode = "write"
    /\ PathsOverlap(a.paths, b.paths)

Exclusive == {"exec", "analysis", "deploy"}

\* hasResourceConflict.
HasResourceConflict(a, b) ==
    \/ FileConflict(a, b)
    \/ /\ a.sandbox # "none" /\ b.sandbox # "none"
       /\ a.sandbox \in Exclusive \/ b.sandbox \in Exclusive
    \/ a.blueprint /\ b.blueprint
    \/ a.gitCommit /\ b.mode = "write"
    \/ b.gitCommit /\ a.mode = "write"

-----------------------------------------------------------------------------
(* toolExecution.ts *)

\* Mutant: a conflict makes both calls wait for each other.
DependsOnBoth(b, i) ==
    {j \in 1..Len(b) \ {i} : /\ b[i] # NoResources /\ b[j] # NoResources
                             /\ HasResourceConflict(b[i], b[j])}

\* The dependency graph: on earlier calls with a conflict; a call of no tool has no edge.
DependsOn(b, i) ==
    {j \in 1..(i - 1) : /\ b[i] # NoResources /\ b[j] # NoResources
                        /\ HasResourceConflict(b[i], b[j])}

\* A group of the topological sort: the calls left whose dependencies are all in groups before it.
\* The groups run in turn, so when it starts these are the calls that are done.
NextGroup ==
    {i \in 1..Len(batch) :
        /\ calls[i] = "new"
        /\ \A j \in DependsOn(batch, i) : calls[j] = "done"}

\* An answer with calls arrives.
PlanBatch(b) ==
    /\ batch = <<>>
    /\ batch' = b
    /\ calls' = [i \in 1..Len(b) |-> "new"]

\* Every call of the group before has returned, and Promise.all starts all of the next; a call of no
\* tool throws.
GroupStarts ==
    /\ \A i \in 1..Len(batch) : calls[i] \in {"new", "done"}
    /\ NextGroup # {}
    /\ calls' = [i \in 1..Len(batch) |->
                    IF i \notin NextGroup THEN calls[i]
                    ELSE IF batch[i] = NoResources THEN "thrown" ELSE "running"]
    /\ UNCHANGED batch

\* A call ends: with its result, or with its error as a result; or it throws, when it was aborted.
CallEnds(i, how) ==
    /\ calls[i] = "running"
    /\ calls' = [calls EXCEPT ![i] = how]
    /\ UNCHANGED batch

\* The results go back to the model.
BatchEnds ==
    /\ batch # <<>>
    /\ \A i \in 1..Len(batch) : calls[i] = "done"
    /\ batch' = <<>> /\ calls' = <<>>

\* Promise.all rejects: the groups after it never start; what runs of its group runs on, beside what
\* comes next, and is no longer of this batch.
BatchRejected ==
    /\ \E i \in 1..Len(batch) : calls[i] = "thrown"
    /\ batch' = <<>> /\ calls' = <<>>

PlanNext ==
    \/ \E b \in Batches : PlanBatch(b)
    \/ GroupStarts
    \/ \E i \in 1..Len(batch) : CallEnds(i, "done") \/ CallEnds(i, "thrown")
    \/ BatchEnds
    \/ BatchRejected

PlanSpec == PlanInit /\ [][PlanNext]_planVars

-----------------------------------------------------------------------------
(* Properties *)

\* What the declarations mean, as locks: a git commit reads every file, exclusive operations write
\* the sandbox.
PathsOf(a) == IF a.mode = "none" THEN {} ELSE IF a.paths = {} THEN Paths ELSE a.paths
Writes(a) ==
    (IF a.mode = "write" THEN {<<"file", f>> : f \in PathsOf(a)} ELSE {})
        \cup (IF a.sandbox \in Exclusive THEN {<<"sandbox">>} ELSE {})
        \cup (IF a.blueprint THEN {<<"blueprint">>} ELSE {})
Uses(a) ==
    {<<"file", f>> : f \in IF a.gitCommit THEN Paths ELSE PathsOf(a)}
        \cup (IF a.sandbox # "none" THEN {<<"sandbox">>} ELSE {})
        \cup (IF a.blueprint THEN {<<"blueprint">>} ELSE {})

Clash(a, b) == Writes(a) \cap Uses(b) # {} \/ Writes(b) \cap Uses(a) # {}

\* Calls of a batch of which one writes what the other uses never run together, and run in the order
\* the model gave them, whatever runs beside them and however long the groups wait.
ConflictsInOrder ==
    \A i, j \in 1..Len(batch) :
        (i < j /\ NoResources \notin {batch[i], batch[j]} /\ Clash(batch[i], batch[j])) =>
            (calls[j] # "new" => calls[i] = "done")

\* The loop that builds the groups always finds one: its fallback for circular dependencies is never
\* needed, and no batch is left half done.
NeverCircular ==
    (batch # <<>> /\ \A i \in 1..Len(batch) : calls[i] \in {"new", "done"}) =>
        (NextGroup # {} \/ \A i \in 1..Len(batch) : calls[i] = "done")
=============================================================================
