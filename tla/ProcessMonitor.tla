--------------------------- MODULE ProcessMonitor ---------------------------
(***************************************************************************)
(* The monitor that keeps a dev server alive inside a sandbox container    *)
(* (container/process-monitor.ts) under the runner of the command line     *)
(* tool that owns it (container/cli-tools.ts): start, crash, delayed       *)
(* restart, health check, stop and the shutdown on a signal.  Every await  *)
(* of the code is a point where the other callbacks may run.               *)
(***************************************************************************)
EXTENDS Integers, FiniteSets

CONSTANTS
    Procs,          \* the child processes that may be spawned, one after the other
    NoProc,         \* no child process
    MaxRestarts,    \* options.maxRestarts
    PortThreshold   \* PORT_FAILURE_THRESHOLD

ASSUME MonitorAssumption ==
    /\ NoProc \notin Procs
    /\ MaxRestarts \in Nat
    /\ PortThreshold \in Nat \ {0}

VARIABLES
    state,        \* ProcessMonitor.state
    procs,        \* the children as the system sees them
    child,        \* childProcess
    timer,        \* restartTimer is set
    due,          \* restart callbacks past their check, at the await before start()
    starts,       \* calls of start() between 'starting' and the spawn
    restartCount, \* restartCount
    stable,       \* the run that ended last was longer than STABILITY_THRESHOLD_MS
    stop,         \* the call of stop() that is under way
    ticking,      \* healthCheckTimer is set
    health,       \* the health check that is under way
    port,         \* portBindConfirmed, portFailureCount, healthRestartInProgress
    healthKill,   \* the child a health check asked to end and waits for
    runner,       \* how far ProcessRunner and its shutdown are
    raced         \* history: a stop passed a restart that was already under way

monitorVars == <<state, procs, child, timer, due, starts, restartCount, stable, stop, ticking,
                 health, port, healthKill, runner, raced>>

childVars == <<procs, child>>
pendingVars == <<timer, due, starts>>
countVars == <<restartCount, stable>>
healthVars == <<ticking, health, port, healthKill>>
ownerVars == <<runner, raced>>

\* A killed child has been sent SIGKILL; a gone one has reported its exit.
InSystem == {"alive", "killed"}
NoStop == [at |-> "none", of |-> NoProc]

\* The monitor's state has the shape its fields allow.
MonitorTypeOK ==
    /\ state \in {"stopped", "starting", "running", "stopping", "crashed"}
    /\ procs \in [Procs -> {"unborn", "alive", "killed", "gone"}]
    /\ child \in Procs \cup {NoProc}
    /\ timer \in BOOLEAN
    /\ due \in Nat
    /\ starts \in Nat
    /\ restartCount \in 0..MaxRestarts
    /\ stable \in BOOLEAN
    /\ stop \in [at : {"none", "asked", "cancelling", "killing", "reporting", "returned"},
                 of : Procs \cup {NoProc}]
    /\ ticking \in BOOLEAN
    /\ health \in {"idle", "probing", "probingLate", "logging"}
    /\ port \in [confirmed : BOOLEAN, failures : 0..PortThreshold, restarting : BOOLEAN]
    /\ healthKill \in Procs \cup {NoProc}
    /\ runner \in {"new", "launching", "launched", "active", "stopping", "cleaning", "leaving",
                  "exited", "signalled"}
    /\ raced \in BOOLEAN

NoPort == [confirmed |-> FALSE, failures |-> 0, restarting |-> FALSE]

MonitorInit ==
    /\ state = "stopped"
    /\ procs = [p \in Procs |-> "unborn"]
    /\ child = NoProc
    /\ timer = FALSE
    /\ due = 0
    /\ starts = 0
    /\ restartCount = 0
    /\ stable = FALSE
    /\ stop = NoStop
    /\ ticking = FALSE
    /\ health = "idle"
    /\ port = NoPort
    /\ healthKill = NoProc
    /\ runner = "new"
    /\ raced = FALSE

Monitoring == runner \notin {"exited", "signalled"}
IsLive(p) == p # NoProc /\ procs[p] \in InSystem

-----------------------------------------------------------------------------
(* start(): from a stopped or crashed state only; it writes a log entry before it spawns. *)

\* The guard of start() and its first, synchronous, part.
CallStart ==
    IF state \in {"stopped", "crashed"}
    THEN state' = "starting" /\ starts' = starts + 1
    ELSE UNCHANGED <<state, starts>>

Launch ==
    /\ runner = "new"
    /\ runner' = "launching"
    /\ CallStart
    /\ UNCHANGED <<childVars, timer, due, countVars, stop, healthVars, raced>>

StartSpawns(p) ==
    /\ Monitoring
    /\ starts > 0
    /\ procs[p] = "unborn"
    /\ starts' = starts - 1
    /\ procs' = [procs EXCEPT ![p] = "alive"]
    /\ child' = p
    /\ restartCount' = IF stable THEN 0 ELSE restartCount
    /\ stable' = FALSE
    /\ state' = "running"
    /\ ticking' = TRUE
    /\ port' = NoPort
    /\ runner' = IF runner = "launching" THEN "launched" ELSE runner
    /\ UNCHANGED <<timer, due, stop, health, healthKill, raced>>

\* No pid, or spawn throws.  The first start's failure ends the tool; a restart's is reported by the
\* catch of start(), but the 'error' event of a child without a pid finds no listener yet, and an
\* error nobody listens to ends the tool too.
StartFails(unheard) ==
    /\ Monitoring
    /\ starts > 0
    /\ starts' = starts - 1
    /\ state' = "stopped"
    /\ restartCount' = IF stable THEN 0 ELSE restartCount
    /\ port' = NoPort
    /\ IF runner = "launching" \/ unheard
       THEN runner' = "exited" /\ stop' = NoStop
       ELSE UNCHANGED <<runner, stop>>
    /\ UNCHANGED <<childVars, timer, due, stable, ticking, health, healthKill, raced>>

\* start() has returned, and the tool installs its handlers of SIGTERM, SIGINT and SIGHUP.
InstallsHandlers ==
    /\ runner = "launched"
    /\ runner' = "active"
    /\ UNCHANGED <<state, childVars, pendingVars, countVars, stop, healthVars, raced>>

\* A signal before that ends the tool at once; the child runs in a process group of its own.
SignalledEarly ==
    /\ runner \in {"launching", "launched"}
    /\ runner' = "signalled"
    /\ UNCHANGED <<state, childVars, pendingVars, countVars, stop, healthVars, raced>>

-----------------------------------------------------------------------------
(* The exit handler and the delayed restart. *)

\* "clean": code 0 soon after output; "silent": code 0 after 30 s without; "failed": another code or a signal.
Exits == {"clean", "silent", "failed"}

\* Mutant: one restart more than maxRestarts.
ShouldRestartOnceMore(how) == how # "clean" /\ restartCount <= MaxRestarts

\* shouldRestartAfterExit, for a monitor that was running
ShouldRestart(how) == how # "clean" /\ restartCount < MaxRestarts

\* The handler acts on the monitor's state, whichever child it was registered on.
ExitHandler(how) ==
    IF state = "running" /\ (how = "failed" \/ ShouldRestart(how))
    THEN /\ state' = "crashed"
         /\ timer' = IF ShouldRestart(how) THEN TRUE ELSE timer
         /\ restartCount' = IF ShouldRestart(how) THEN restartCount + 1 ELSE restartCount
    ELSE state' = "stopped" /\ UNCHANGED <<timer, restartCount>>

Exit(p, how, long) ==
    /\ procs[p] \in InSystem
    /\ procs[p] = "killed" => how = "failed"
    /\ procs' = [procs EXCEPT ![p] = "gone"]
    /\ IF Monitoring
       THEN /\ ExitHandler(how)
            /\ stable' = long
            /\ healthKill' = IF healthKill = p THEN NoProc ELSE healthKill
       ELSE UNCHANGED <<state, timer, countVars, healthKill>>
    /\ UNCHANGED <<child, due, starts, stop, ticking, health, port, ownerVars>>

\* The 'error' handler: a child that cannot be signalled, say.  No restart is timed for it.
ChildErrors(p) ==
    /\ Monitoring
    /\ procs[p] \in InSystem
    /\ state' = IF state \in {"running", "starting"} THEN "crashed" ELSE state
    /\ UNCHANGED <<childVars, pendingVars, countVars, stop, healthVars, ownerVars>>

\* The callback of the restart timer checks for a stop, then awaits a log entry before start().
TimerFires ==
    /\ Monitoring
    /\ timer
    /\ timer' = FALSE
    /\ due' = IF state \in {"stopped", "stopping"} THEN due ELSE due + 1
    /\ UNCHANGED <<state, childVars, starts, countVars, stop, healthVars, ownerVars>>

RestartGoes ==
    /\ Monitoring
    /\ due > 0
    /\ due' = due - 1
    /\ CallStart
    /\ UNCHANGED <<childVars, timer, countVars, stop, healthVars, ownerVars>>

-----------------------------------------------------------------------------
(* stop() *)

RestartUnderWay == due + starts > 0

\* A stopped monitor has nothing to do and a starting one refuses; either way the caller goes on.
CallStop ==
    stop' = [at |-> IF state \in {"stopped", "starting"} THEN "returned" ELSE "asked", of |-> NoProc]

\* killProcess(false): the child is asked to end and awaited; one that has exited needs nothing.
KillOrFinish(st) ==
    IF IsLive(child)
    THEN state' = st /\ stop' = [at |-> "killing", of |-> child]
    ELSE IF st = "stopping"
    THEN state' = "stopped" /\ stop' = [at |-> "reporting", of |-> NoProc]
    ELSE state' = st /\ stop' = [at |-> "returned", of |-> NoProc]

\* After the first log entry: 'stopping', and a pending restart is cancelled.
StopMarks ==
    /\ Monitoring
    /\ stop.at = "asked"
    /\ raced' = (raced \/ RestartUnderWay)
    /\ IF timer
       THEN /\ timer' = FALSE
            /\ state' = "stopping"
            /\ stop' = [at |-> "cancelling", of |-> NoProc]
            /\ UNCHANGED ticking
       ELSE /\ KillOrFinish("stopping")
            /\ ticking' = FALSE
            /\ UNCHANGED timer
    /\ UNCHANGED <<childVars, due, starts, countVars, health, port, healthKill, runner>>

StopGoesOn ==
    /\ Monitoring
    /\ stop.at = "cancelling"
    /\ KillOrFinish(state)
    /\ ticking' = FALSE
    /\ UNCHANGED <<childVars, pendingVars, countVars, health, port, healthKill, ownerVars>>

\* What follows the await of killProcess in stop().
AfterKill ==
    IF state = "stopping"
    THEN state' = "stopped" /\ stop' = [at |-> "reporting", of |-> NoProc]
    ELSE UNCHANGED state /\ stop' = [at |-> "returned", of |-> NoProc]

StopSeesExit ==
    /\ Monitoring
    /\ stop.at = "killing"
    /\ procs[stop.of] = "gone"
    /\ AfterKill
    /\ UNCHANGED <<childVars, pendingVars, countVars, healthVars, ownerVars>>

\* Mutant: the timeout gives up without SIGKILL.
NotKilled == procs

\* killTimeout: the present child is sent SIGKILL, and the wait is over whether it has exited or not.
ForceKilled == [p \in Procs |-> IF p = child /\ procs[p] = "alive" THEN "killed" ELSE procs[p]]

\* Mutant: the timeout sends SIGKILL and goes on waiting for the exit.
StopTimesOutKeepsWaiting ==
    /\ Monitoring
    /\ stop.at = "killing"
    /\ procs[stop.of] = "alive"
    /\ procs' = ForceKilled
    /\ UNCHANGED <<state, stop, child, pendingVars, countVars, healthVars, ownerVars>>

StopTimesOut ==
    /\ Monitoring
    /\ stop.at = "killing"
    /\ procs[stop.of] \in InSystem
    /\ procs' = ForceKilled
    /\ AfterKill
    /\ UNCHANGED <<child, pendingVars, countVars, healthVars, ownerVars>>

StopReports ==
    /\ Monitoring
    /\ stop.at = "reporting"
    /\ stop' = [stop EXCEPT !.at = "returned"]
    /\ UNCHANGED <<state, childVars, pendingVars, countVars, healthVars, ownerVars>>

-----------------------------------------------------------------------------
(* The shutdown of the tool: ProcessRunner.stop() calls stop(), then cleanup(), and the tool exits. *)

\* SIGTERM, SIGINT or SIGHUP
Shutdown ==
    /\ runner = "active"
    /\ runner' = "stopping"
    /\ raced' = (raced \/ RestartUnderWay)
    /\ CallStop
    /\ UNCHANGED <<state, childVars, pendingVars, countVars, healthVars>>

\* cleanup(): both timers are cleared and stop() is called again, whatever the first one answered.
Cleanup ==
    /\ runner = "stopping"
    /\ stop.at = "returned"
    /\ runner' = "cleaning"
    /\ timer' = FALSE
    /\ ticking' = FALSE
    /\ raced' = (raced \/ RestartUnderWay)
    /\ CallStop
    /\ UNCHANGED <<state, childVars, due, starts, countVars, health, port, healthKill>>

RemoveLogs ==
    /\ runner = "cleaning"
    /\ stop.at = "returned"
    /\ runner' = "leaving"
    /\ stop' = NoStop
    /\ UNCHANGED <<state, childVars, pendingVars, countVars, healthVars, raced>>

\* process.exit(0), which does not take the child along.
Leave ==
    /\ runner = "leaving"
    /\ runner' = "exited"
    /\ UNCHANGED <<state, childVars, pendingVars, countVars, stop, healthVars, raced>>

-----------------------------------------------------------------------------
(* The health check: a probe of the port, and a kill when it fails too often. *)

\* Every healthCheckInterval; whether the grace of the start is over is read before the probe.
HealthTick(late) ==
    /\ Monitoring
    /\ ticking
    /\ health = "idle"
    /\ state = "running"
    /\ health' = IF late THEN "probingLate" ELSE "probing"
    /\ UNCHANGED <<state, childVars, pendingVars, countVars, stop, ticking, port, healthKill, ownerVars>>

Probing == health \in {"probing", "probingLate"}

ProbeAnswered ==
    /\ Monitoring
    /\ Probing
    /\ health' = "idle"
    /\ port' = [confirmed |-> TRUE, failures |-> 0, restarting |-> FALSE]
    /\ UNCHANGED <<state, childVars, pendingVars, countVars, stop, ticking, healthKill, ownerVars>>

ProbeFailed ==
    /\ Monitoring
    /\ Probing
    /\ LET counts == port.confirmed \/ health = "probingLate"
           failed == IF counts /\ port.failures < PortThreshold THEN port.failures + 1 ELSE port.failures
       IN  /\ port' = [port EXCEPT !.failures = failed]
           /\ health' = IF /\ counts
                           /\ failed = PortThreshold
                           /\ ~port.restarting
                           /\ state = "running"
                        THEN "logging" ELSE "idle"
    /\ UNCHANGED <<state, childVars, pendingVars, countVars, stop, ticking, healthKill, ownerVars>>

\* Mutant: the check restarts the child itself, besides the exit handler.
HealthKillsAndRestarts ==
    /\ Monitoring
    /\ health = "logging"
    /\ health' = "idle"
    /\ port' = [port EXCEPT !.restarting = TRUE]
    /\ healthKill' = IF IsLive(child) THEN child ELSE healthKill
    /\ timer' = TRUE
    /\ UNCHANGED <<state, childVars, due, starts, countVars, stop, ticking, ownerVars>>

\* After the log entry, killProcess ends whatever the child is by now.
HealthKills ==
    /\ Monitoring
    /\ health = "logging"
    /\ health' = "idle"
    /\ port' = [port EXCEPT !.restarting = TRUE]
    /\ healthKill' = IF IsLive(child) THEN child ELSE healthKill
    /\ UNCHANGED <<state, childVars, pendingVars, countVars, stop, ticking, ownerVars>>

HealthKillTimesOut ==
    /\ Monitoring
    /\ healthKill # NoProc
    /\ procs' = ForceKilled
    /\ healthKill' = NoProc
    /\ UNCHANGED <<state, child, pendingVars, countVars, stop, ticking, health, port, ownerVars>>

-----------------------------------------------------------------------------
StopStep == StopMarks \/ StopGoesOn \/ StopSeesExit \/ StopTimesOut \/ StopReports \/ Cleanup
            \/ RemoveLogs \/ Leave

MonitorNext ==
    \/ Launch
    \/ \E p \in Procs : StartSpawns(p)
    \/ \E unheard \in BOOLEAN : StartFails(unheard)
    \/ InstallsHandlers
    \/ SignalledEarly
    \/ \E p \in Procs, how \in Exits, long \in BOOLEAN : Exit(p, how, long)
    \/ \E p \in Procs : ChildErrors(p)
    \/ TimerFires
    \/ RestartGoes
    \/ Shutdown
    \/ StopStep
    \/ \E late \in BOOLEAN : HealthTick(late)
    \/ ProbeAnswered
    \/ ProbeFailed
    \/ HealthKills
    \/ HealthKillTimesOut

MonitorSpec == MonitorInit /\ [][MonitorNext]_monitorVars

\* The continuations of stop() and the restart callbacks are run by the event loop; nothing is
\* promised about the children, not even that they end when told to.
MonitorFairness ==
    /\ WF_monitorVars(StopStep)
    /\ WF_monitorVars(TimerFires)
    /\ WF_monitorVars(RestartGoes)
    /\ WF_monitorVars((\E unheard \in BOOLEAN : StartFails(unheard)) \/ \E p \in Procs : StartSpawns(p))

-----------------------------------------------------------------------------
(* Properties *)

\* At most one child is in the system, it is the one the monitor knows, and none is while a
\* restart is timed, due or starting: the restart path never doubles the server.
OneChildInSystem ==
    /\ \A p \in Procs : procs[p] \in InSystem => p = child
    /\ Monitoring /\ (timer \/ RestartUnderWay) => ~IsLive(child)

\* When the tool is gone, a child that was never sent SIGKILL is left behind only if a restart was
\* past its check for a stop while the shutdown was in stop() or cleanup(), or if the signal came
\* before the handlers were installed.
OrphansOnlyByRace ==
    ~Monitoring /\ (\E p \in Procs : procs[p] = "alive") => raced \/ runner = "signalled"

\* A shutdown ends, however the children behave: stop() waits for nobody without a timeout.
ShutdownEnds == (runner = "stopping") ~> (runner = "exited")

\* process-monitor.ts says of the stability threshold that "5 minutes of stable run resets
\* counter": a server that fails after a stable run is restarted, however often it failed before.
StableRunsResetCounter ==
    runner = "active" /\ state = "crashed" /\ stable => timer \/ RestartUnderWay
=============================================================================
