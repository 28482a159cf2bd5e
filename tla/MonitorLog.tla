----------------------------- MODULE MonitorLog -----------------------------
(***************************************************************************)
(* The log file of one monitored process: the monitor appends lines and    *)
(* trims the file (SimpleLogManager, container/process-monitor.ts) while   *)
(* invocations of "monitor-cli logs get --reset" take it away              *)
(* (container/cli-tools.ts), each under a time limit of ten seconds.  Only *)
(* the invocations take the lock file; appends and the trim do not.        *)
(***************************************************************************)
EXTENDS Integers, FiniteSets

CONSTANTS
    Lines,      \* the lines the process writes
    LogReaders, \* the invocations of logs get --reset
    Path,       \* the place a file has under its own name
    Void        \* the place of a file that has lost its name but is still open

ASSUME LogAssumption == /\ Path \notin LogReaders /\ Void \notin LogReaders /\ Path # Void
                        /\ "dead" \notin LogReaders /\ "free" \notin LogReaders
                        /\ {"new", "done"} \cap (LogReaders \cup {Path, Void}) = {}

VARIABLES
    exists,    \* the log file is there under its name
    store,     \* the lines in the file of each place: the log, and what each reader renamed away
    appends,   \* where each line's append has the file open, or how far it is
    trim,      \* the trim: what it is to keep once it has read the file
    lock,      \* who made the lock file: a reader, "dead" once it is killed, or "free"
    readers,   \* how far each reader is
    got,       \* what each reader has read
    returned,  \* how often each line was printed
    mixed      \* history: a trim put back a file that a reset had taken meanwhile

logVars == <<exists, store, appends, trim, lock, readers, got, returned, mixed>>

Places == LogReaders \cup {Path}
NoTrim == [at |-> "idle", keep |-> {}]

\* The shape of the log's state; a line was printed or not at all often enough to count.
LogTypeOK ==
    /\ exists \in BOOLEAN
    /\ store \in [Places -> SUBSET Lines]
    /\ appends \in [Lines -> Places \cup {Void, "new", "done"}]
    /\ trim \in [at : {"idle", "read"}, keep : SUBSET Lines]
    /\ lock \in LogReaders \cup {"free", "dead"}
    /\ readers \in [LogReaders -> {"idle", "stale", "locked", "renamed", "created", "read", "unlinked",
                                   "done", "killed"}]
    /\ got \in [LogReaders -> SUBSET Lines]
    /\ returned \in [Lines -> Nat]
    /\ mixed \in BOOLEAN
    /\ ~exists => store[Path] = {}

LogInit ==
    /\ exists = FALSE
    /\ store = [q \in Places |-> {}]
    /\ appends = [l \in Lines |-> "new"]
    /\ trim = NoTrim
    /\ lock = "free"
    /\ readers = [r \in LogReaders |-> "idle"]
    /\ got = [r \in LogReaders |-> {}]
    /\ returned = [l \in Lines |-> 0]
    /\ mixed = FALSE

\* The appends that have the file of place q open follow it to place to.
Moved(q, to) == [l \in Lines |-> IF appends[l] = q THEN to ELSE appends[l]]

-----------------------------------------------------------------------------
(* The monitor: appendLog is not awaited by its caller, so several lines are under way. *)

AppendOpens(l) ==
    /\ appends[l] = "new"
    /\ appends' = [appends EXCEPT ![l] = Path]
    /\ exists' = TRUE
    /\ UNCHANGED <<store, trim, lock, readers, got, returned, mixed>>

AppendWrites(l) ==
    /\ appends[l] \in Places \cup {Void}
    /\ appends' = [appends EXCEPT ![l] = "done"]
    /\ store' = [q \in Places |-> IF q = appends[l] THEN store[q] \cup {l} ELSE store[q]]
    /\ UNCHANGED <<exists, trim, lock, readers, got, returned, mixed>>

\* trimLogFile reads the file to keep its last lines, which may be all of them ...
TrimReads(keep) ==
    /\ trim.at = "idle"
    /\ exists
    /\ keep \subseteq store[Path] /\ (keep = {} => store[Path] = {})
    /\ trim' = [at |-> "read", keep |-> keep]
    /\ UNCHANGED <<exists, store, appends, lock, readers, got, returned, mixed>>

\* ... and renames a file of them over it, whatever has happened to it meanwhile.
TrimRenames ==
    /\ trim.at = "read"
    /\ trim' = NoTrim
    /\ exists' = TRUE
    /\ store' = [store EXCEPT ![Path] = trim.keep]
    /\ appends' = Moved(Path, Void)
    /\ mixed' = (mixed \/ ~(trim.keep \subseteq store[Path]))
    /\ UNCHANGED <<lock, readers, got, returned>>

-----------------------------------------------------------------------------
(* monitor-cli logs get --reset *)

ReaderLocks(r) ==
    /\ readers[r] = "idle"
    /\ lock = "free"
    /\ lock' = r
    /\ readers' = [readers EXCEPT ![r] = "locked"]
    /\ UNCHANGED <<exists, store, appends, trim, got, returned, mixed>>

\* A lock file older than thirty seconds can only be that of a killed reader ...
ReaderFindsStale(r) ==
    /\ readers[r] = "idle"
    /\ lock = "dead"
    /\ readers' = [readers EXCEPT ![r] = "stale"]
    /\ UNCHANGED <<exists, store, appends, trim, lock, got, returned, mixed>>

\* ... but by the time it is unlinked, it may be another's.
ReaderUnlinksStale(r) ==
    /\ readers[r] = "stale"
    /\ lock' = "free"
    /\ readers' = [readers EXCEPT ![r] = "idle"]
    /\ UNCHANGED <<exists, store, appends, trim, got, returned, mixed>>

\* Ten attempts failed.
ReaderGivesUp(r) ==
    /\ readers[r] = "idle"
    /\ lock # "free"
    /\ readers' = [readers EXCEPT ![r] = "done"]
    /\ UNCHANGED <<exists, store, appends, trim, lock, got, returned, mixed>>

\* Mutant: the log is copied and emptied later instead of renamed.
ReaderRenamesCopying(r) ==
    /\ readers[r] = "locked"
    /\ IF exists
       THEN /\ store' = [store EXCEPT ![r] = store[Path]]
            /\ readers' = [readers EXCEPT ![r] = "renamed"]
       ELSE /\ readers' = [readers EXCEPT ![r] = "unlinked"]
            /\ UNCHANGED store
    /\ UNCHANGED <<exists, appends, trim, lock, got, returned, mixed>>

\* Without a log file there is nothing to print.
ReaderRenames(r) ==
    /\ readers[r] = "locked"
    /\ IF exists
       THEN /\ store' = [store EXCEPT ![r] = store[Path], ![Path] = {}]
            /\ appends' = Moved(Path, r)
            /\ readers' = [readers EXCEPT ![r] = "renamed"]
            /\ exists' = FALSE
       ELSE /\ readers' = [readers EXCEPT ![r] = "unlinked"]
            /\ UNCHANGED <<exists, store, appends>>
    /\ UNCHANGED <<trim, lock, got, returned, mixed>>

\* writeFile without the wx flag: what was appended since the rename is truncated.
ReaderCreates(r) ==
    /\ readers[r] = "renamed"
    /\ exists' = TRUE
    /\ store' = [store EXCEPT ![Path] = {}]
    /\ readers' = [readers EXCEPT ![r] = "created"]
    /\ UNCHANGED <<appends, trim, lock, got, returned, mixed>>

ReaderReads(r) ==
    /\ readers[r] = "created"
    /\ got' = [got EXCEPT ![r] = store[r]]
    /\ readers' = [readers EXCEPT ![r] = "read"]
    /\ UNCHANGED <<exists, store, appends, trim, lock, returned, mixed>>

ReaderUnlinks(r) ==
    /\ readers[r] = "read"
    /\ store' = [store EXCEPT ![r] = {}]
    /\ appends' = Moved(r, Void)
    /\ readers' = [readers EXCEPT ![r] = "unlinked"]
    /\ UNCHANGED <<exists, trim, lock, got, returned, mixed>>

\* The lock file is unlinked, be it still the reader's own or not; then the lines are printed.
ReaderUnlocks(r) ==
    /\ readers[r] = "unlinked"
    /\ lock' = "free"
    /\ readers' = [readers EXCEPT ![r] = "done"]
    /\ returned' = [l \in Lines |-> IF l \in got[r] THEN returned[l] + 1 ELSE returned[l]]
    /\ UNCHANGED <<exists, store, appends, trim, got, mixed>>

\* The time limit of the invocation: its lock file and what it renamed away stay behind.
ReaderKilled(r) ==
    /\ readers[r] \notin {"done", "killed"}
    /\ readers' = [readers EXCEPT ![r] = "killed"]
    /\ lock' = IF lock = r THEN "dead" ELSE lock
    /\ UNCHANGED <<exists, store, appends, trim, got, returned, mixed>>

-----------------------------------------------------------------------------
ReaderStep(r) ==
    \/ ReaderLocks(r)
    \/ ReaderFindsStale(r)
    \/ ReaderUnlinksStale(r)
    \/ ReaderGivesUp(r)
    \/ ReaderRenames(r)
    \/ ReaderCreates(r)
    \/ ReaderReads(r)
    \/ ReaderUnlinks(r)
    \/ ReaderUnlocks(r)
    \/ ReaderKilled(r)

LogNext ==
    \/ \E l \in Lines : AppendOpens(l) \/ AppendWrites(l)
    \/ \E keep \in SUBSET Lines : TrimReads(keep)
    \/ TrimRenames
    \/ \E r \in LogReaders : ReaderStep(r)

LogSpec == LogInit /\ [][LogNext]_logVars

-----------------------------------------------------------------------------
(* Properties *)

\* The lines a reader has taken from the log and not printed yet.
Held(r) ==
    IF readers[r] \in {"renamed", "created"} THEN store[r]
    ELSE IF readers[r] \in {"read", "unlinked"} THEN got[r] ELSE {}

\* A line is in one place only: in the log, with one reader that has taken it, or printed, once
\* - even when a stale lock let two readers in together, because the rename is atomic; and
\* unless a trim put back what a reset had taken.
LinesReadOnce ==
    ~mixed =>
        \A l \in Lines :
            /\ returned[l] <= 1
            /\ l \in store[Path] => returned[l] = 0
            /\ \A r \in LogReaders :
                   l \in Held(r) =>
                       /\ returned[l] = 0
                       /\ l \notin store[Path]
                       /\ \A q \in LogReaders \ {r} : l \notin Held(q)
=============================================================================
