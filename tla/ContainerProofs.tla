-------------------------- MODULE ContainerProofs --------------------------
(* Proofs about ProcessMonitor and MonitorLog, for any number of children, of restarts, of lines
   and of readers, and about MCWorkspace, which puts them together with Files and ToolPlan. *)
EXTENDS MCWorkspace, FilesProofs, ToolPlanProofs, TLAPS

-----------------------------------------------------------------------------
(* Type correctness *)

StopStates == [at : {"none", "asked", "cancelling", "killing", "reporting", "returned"},
               of : Procs \cup {NoProc}]

LEMMA MonitorTypeStep ==
    ASSUME MonitorTypeOK, MonitorNext
    PROVE  MonitorTypeOK'
<1>. USE MonitorAssumption DEF MonitorTypeOK, childVars, pendingVars, countVars, healthVars, ownerVars
<1>1. ForceKilled \in [Procs -> {"unborn", "alive", "killed", "gone"}]
  BY DEF ForceKilled
<1>17. /\ NoPort \in [confirmed : BOOLEAN, failures : 0..PortThreshold, restarting : BOOLEAN]
       /\ 0 \in 0..MaxRestarts
  BY DEF NoPort
<1>2. CASE Launch
  BY <1>2 DEF Launch, CallStart
<1>3. ASSUME NEW p \in Procs, StartSpawns(p) PROVE MonitorTypeOK'
  <2>1. /\ child' \in Procs \cup {NoProc} /\ starts' \in Nat /\ restartCount' \in 0..MaxRestarts
        /\ procs' \in [Procs -> {"unborn", "alive", "killed", "gone"}]
    BY <1>3, <1>17 DEF StartSpawns
  <2>2. stable' \in BOOLEAN /\ ticking' \in BOOLEAN /\ runner' \in {runner, "launched"}
    BY <1>3 DEF StartSpawns
  <2>. QED
    BY <1>3, <1>17, <2>1, <2>2 DEF StartSpawns
<1>4. ASSUME NEW unheard \in BOOLEAN, StartFails(unheard) PROVE MonitorTypeOK'
  <2>1. /\ starts' \in Nat /\ restartCount' \in 0..MaxRestarts /\ runner' \in {runner, "exited"}
        /\ stop' \in {stop, NoStop}
    BY <1>4, <1>17 DEF StartFails
  <2>2. stop' \in StopStates
    BY <2>1 DEF NoStop, StopStates
  <2>. QED
    BY <1>4, <1>17, <2>1, <2>2 DEF StartFails, StopStates
<1>18. CASE InstallsHandlers \/ SignalledEarly \/ \E p \in Procs : ChildErrors(p)
  <2>1. state' \in {state, "crashed"} /\ runner' \in {runner, "active", "signalled"}
    BY <1>18 DEF InstallsHandlers, SignalledEarly, ChildErrors
  <2>. QED
    BY <1>18, <2>1 DEF InstallsHandlers, SignalledEarly, ChildErrors
<1>5. ASSUME NEW p \in Procs, NEW how \in Exits, NEW long \in BOOLEAN, Exit(p, how, long)
      PROVE  MonitorTypeOK'
  <2>1. CASE Monitoring
    <3>4. ExitHandler(how)
      BY <1>5, <2>1 DEF Exit
    <3>5. \/ restartCount' = restartCount
          \/ restartCount' = restartCount + 1 /\ restartCount < MaxRestarts
      BY <3>4 DEF ExitHandler, ShouldRestart
    <3>6. restartCount' \in 0..MaxRestarts
      BY <3>5
    <3>1. state' \in {"stopped", "crashed"} /\ restartCount' \in 0..MaxRestarts
      BY <3>4, <3>6 DEF ExitHandler
    <3>2. timer' = TRUE \/ timer' = timer
      BY <1>5, <2>1 DEF Exit, ExitHandler
    <3>3. timer' \in BOOLEAN
      BY <3>2
    <3>. QED
      BY <1>5, <2>1, <3>1, <3>3 DEF Exit
  <2>2. CASE ~Monitoring
    BY <1>5, <2>2 DEF Exit
  <2>. QED
    BY <2>1, <2>2
<1>6. CASE TimerFires \/ RestartGoes
  <2>1. due' \in Nat /\ starts' \in Nat /\ state' \in {state, "starting"}
    BY <1>6 DEF TimerFires, RestartGoes, CallStart
  <2>2. timer' = FALSE \/ timer' = timer
    BY <1>6 DEF TimerFires, RestartGoes
  <2>3. timer' \in BOOLEAN
    BY <2>2
  <2>. QED
    BY <1>6, <2>1, <2>3 DEF TimerFires, RestartGoes
<1>7. CASE StopMarks
  <2>1. state' \in {"stopping", "stopped"}
    BY <1>7 DEF StopMarks, KillOrFinish
  <2>3. /\ timer' = FALSE \/ timer' = timer
        /\ ticking' = FALSE \/ ticking' = ticking
        /\ raced' = (raced \/ RestartUnderWay)
    BY <1>7 DEF StopMarks
  <2>4. timer' \in BOOLEAN /\ ticking' \in BOOLEAN /\ raced' \in BOOLEAN
    BY <2>3
  <2>2. stop' \in StopStates
    BY <1>7 DEF StopMarks, KillOrFinish, StopStates
  <2>. QED
    BY <1>7, <2>1, <2>2, <2>4 DEF StopMarks, StopStates
<1>8. CASE StopGoesOn
  <2>1. state' \in {state, "stopped"}
    BY <1>8 DEF StopGoesOn, KillOrFinish
  <2>2. stop' \in StopStates
    BY <1>8 DEF StopGoesOn, KillOrFinish, StopStates
  <2>3. ticking' \in BOOLEAN
    BY <1>8 DEF StopGoesOn
  <2>. QED
    BY <1>8, <2>1, <2>2, <2>3 DEF StopGoesOn, StopStates
<1>9. CASE StopSeesExit \/ StopTimesOut
  <2>1. state' \in {state, "stopped"} /\ procs' \in {procs, ForceKilled}
    BY <1>9 DEF StopSeesExit, StopTimesOut, AfterKill
  <2>2. stop' \in StopStates
    BY <1>9 DEF StopSeesExit, StopTimesOut, AfterKill, StopStates
  <2>. QED
    BY <1>1, <1>9, <2>1, <2>2 DEF StopSeesExit, StopTimesOut, StopStates
<1>14. CASE StopReports
  <2>1. stop' \in StopStates
    BY <1>14 DEF StopReports, StopStates
  <2>. QED
    BY <1>14, <2>1 DEF StopReports, StopStates
<1>15. CASE Shutdown \/ Cleanup
  <2>1. /\ runner' \in {"stopping", "cleaning"}
        /\ timer' = FALSE \/ timer' = timer
        /\ ticking' = FALSE \/ ticking' = ticking
        /\ raced' = (raced \/ RestartUnderWay)
    BY <1>15 DEF Shutdown, Cleanup
  <2>3. timer' \in BOOLEAN /\ ticking' \in BOOLEAN /\ raced' \in BOOLEAN
    BY <2>1
  <2>2. stop' \in StopStates
    BY <1>15 DEF Shutdown, Cleanup, CallStop, StopStates
  <2>. QED
    BY <1>15, <2>1, <2>2, <2>3 DEF Shutdown, Cleanup, StopStates
<1>16. CASE RemoveLogs \/ Leave
  <2>1. runner' \in {"leaving", "exited"}
    BY <1>16 DEF RemoveLogs, Leave
  <2>2. stop' \in StopStates
    BY <1>16 DEF RemoveLogs, Leave, NoStop, StopStates
  <2>. QED
    BY <1>16, <2>1, <2>2 DEF RemoveLogs, Leave, StopStates
<1>10. ASSUME NEW late \in BOOLEAN, HealthTick(late) PROVE MonitorTypeOK'
  BY <1>10 DEF HealthTick
<1>11. CASE ProbeAnswered \/ HealthKills
  <2>1. port' = [confirmed |-> TRUE, failures |-> 0, restarting |-> FALSE]
           \/ port' = [port EXCEPT !.restarting = TRUE]
    BY <1>11 DEF ProbeAnswered, HealthKills
  <2>3. port' \in [confirmed : BOOLEAN, failures : 0..PortThreshold, restarting : BOOLEAN]
    <3>1. CASE port' = [confirmed |-> TRUE, failures |-> 0, restarting |-> FALSE]
      BY <3>1
    <3>2. CASE port' = [port EXCEPT !.restarting = TRUE]
      BY <3>2
    <3>. QED
      BY <2>1, <3>1, <3>2
  <2>2. health' = "idle" /\ healthKill' \in Procs \cup {NoProc}
    BY <1>11 DEF ProbeAnswered, HealthKills, IsLive
  <2>. QED
    BY <1>11, <2>2, <2>3 DEF ProbeAnswered, HealthKills
<1>12. CASE ProbeFailed
  <2>1. port' \in [confirmed : BOOLEAN, failures : 0..PortThreshold, restarting : BOOLEAN]
    BY <1>12 DEF ProbeFailed
  <2>2. health' \in {"idle", "logging"}
    BY <1>12 DEF ProbeFailed
  <2>. QED
    BY <1>12, <2>1, <2>2 DEF ProbeFailed
<1>13. CASE HealthKillTimesOut
  BY <1>1, <1>13 DEF HealthKillTimesOut
<1>. QED
  BY <1>2, <1>3, <1>4, <1>5, <1>6, <1>7, <1>8, <1>9, <1>10, <1>11, <1>12, <1>13,
     <1>14, <1>15, <1>16, <1>18 DEF MonitorNext, StopStep

\* The counters of the monitor keep their limits and its state its shape.
THEOREM MonitorTypeCorrect == MonitorSpec => []MonitorTypeOK
<1>1. ASSUME MonitorInit PROVE MonitorTypeOK
  <2>1. procs \in [Procs -> {"unborn", "alive", "killed", "gone"}]
    BY <1>1 DEF MonitorInit
  <2>3. 0 \in 0..MaxRestarts
    BY MonitorAssumption
  <2>2. /\ stop \in [at : {"none", "asked", "cancelling", "killing", "reporting", "returned"},
                      of : Procs \cup {NoProc}]
        /\ port \in [confirmed : BOOLEAN, failures : 0..PortThreshold, restarting : BOOLEAN]
    BY <1>1, MonitorAssumption DEF MonitorInit, NoStop, NoPort
  <2>. QED
    BY <1>1, <2>1, <2>2, <2>3 DEF MonitorInit, MonitorTypeOK
<1>2. MonitorTypeOK /\ [MonitorNext]_monitorVars => MonitorTypeOK'
  BY MonitorTypeStep DEF MonitorTypeOK, monitorVars
<1>. QED
  BY <1>1, <1>2, PTL DEF MonitorSpec

-----------------------------------------------------------------------------
(* One child *)

\* Restarts that are timed, due or starting.
Pending == (IF timer THEN 1 ELSE 0) + due + starts
NoneInSystem == \A p \in Procs : procs[p] \notin InSystem

\* Inductive: the one path of restarts has at most one restart on it, and no child beside it.
OnePath ==
    /\ \A p \in Procs : procs[p] \in InSystem => p = child
    /\ Pending <= 1
    /\ Pending > 0 => NoneInSystem
    /\ runner = "new" => Pending = 0 /\ NoneInSystem

\* Sending SIGKILL takes nobody out of the system and brings nobody in.
LEMMA ForceKilledKeeps ==
    ASSUME MonitorTypeOK
    PROVE  /\ \A p \in Procs : ForceKilled[p] \in InSystem <=> procs[p] \in InSystem
           /\ \A p \in Procs : ForceKilled[p] = "alive" => procs[p] = "alive" /\ p # child
BY DEF ForceKilled, InSystem, MonitorTypeOK

\* Steps that leave the children in the system and the restarts alone, or cancel a restart.
LEMMA QuietStep ==
    ASSUME MonitorTypeOK, MonitorTypeOK', OnePath,
           child' = child, \A p \in Procs : procs'[p] \in InSystem <=> procs[p] \in InSystem,
           due' = due, starts' = starts, timer' => timer,
           runner' = "new" => runner = "new"
    PROVE  OnePath'
<1>1. Pending' <= Pending /\ Pending' \in Nat /\ Pending \in Nat
  BY DEF Pending, MonitorTypeOK
<1>2. NoneInSystem' <=> NoneInSystem
  BY DEF NoneInSystem
<1>3. /\ Pending' <= 1
      /\ Pending' > 0 => NoneInSystem'
      /\ runner' = "new" => Pending' = 0 /\ NoneInSystem'
  BY <1>1, <1>2 DEF OnePath
<1>4. \A p \in Procs : procs'[p] \in InSystem => p = child'
  BY DEF OnePath
<1>. QED
  BY <1>3, <1>4 DEF OnePath

LEMMA OnePathStep ==
    ASSUME MonitorTypeOK, MonitorTypeOK', OnePath, MonitorNext
    PROVE  OnePath'
<1>0. /\ due \in Nat /\ starts \in Nat /\ timer \in BOOLEAN
      /\ procs \in [Procs -> {"unborn", "alive", "killed", "gone"}]
  BY DEF MonitorTypeOK
<1>1. CASE Launch
  BY <1>0, <1>1 DEF Launch, CallStart, OnePath, Pending, NoneInSystem, childVars
<1>2. ASSUME NEW p \in Procs, StartSpawns(p) PROVE OnePath'
  <2>1. Pending = 1 /\ starts = 1 /\ due = 0 /\ timer = FALSE /\ NoneInSystem
    BY <1>0, <1>2 DEF StartSpawns, OnePath, Pending
  <2>2. Pending' = 0
    BY <1>2, <2>1 DEF StartSpawns, Pending
  <2>3. \A q \in Procs : procs'[q] \in InSystem => q = child'
    BY <1>0, <1>2, <2>1 DEF StartSpawns, NoneInSystem
  <2>4. runner' # "new"
    BY <1>2, <2>1 DEF StartSpawns, OnePath
  <2>. QED
    BY <2>2, <2>3, <2>4 DEF OnePath
<1>3. ASSUME NEW unheard \in BOOLEAN, StartFails(unheard) PROVE OnePath'
  <2>1. Pending = 1 /\ starts = 1 /\ due = 0 /\ timer = FALSE /\ NoneInSystem /\ runner # "new"
    BY <1>0, <1>3 DEF StartFails, OnePath, Pending
  <2>2. Pending' = 0 /\ NoneInSystem' /\ runner' # "new"
    BY <1>3, <2>1 DEF StartFails, Pending, NoneInSystem, childVars
  <2>. QED
    BY <2>2 DEF OnePath, NoneInSystem
<1>4. ASSUME NEW p \in Procs, NEW how \in Exits, NEW long \in BOOLEAN, Exit(p, how, long)
      PROVE  OnePath'
  <2>1. Pending = 0 /\ due = 0 /\ starts = 0 /\ timer = FALSE /\ runner # "new"
    BY <1>0, <1>4 DEF Exit, OnePath, Pending, NoneInSystem
  <2>2. NoneInSystem'
    BY <1>0, <1>4 DEF Exit, OnePath, NoneInSystem, InSystem
  <2>3. Pending' <= 1
    BY <1>4, <2>1 DEF Exit, Pending, MonitorTypeOK
  <2>4. runner' # "new"
    BY <1>4, <2>1 DEF Exit, ownerVars
  <2>. QED
    BY <2>2, <2>3, <2>4 DEF OnePath, NoneInSystem
<1>5. CASE TimerFires \/ RestartGoes
  <2>1. Pending > 0 /\ NoneInSystem /\ runner # "new"
    BY <1>0, <1>5 DEF TimerFires, RestartGoes, OnePath, Pending
  <2>2. Pending' <= 1
    BY <1>0, <1>5 DEF TimerFires, RestartGoes, CallStart, OnePath, Pending, pendingVars
  <2>3. NoneInSystem' /\ runner' # "new"
    BY <1>5, <2>1 DEF TimerFires, RestartGoes, NoneInSystem, childVars, ownerVars
  <2>. QED
    BY <2>2, <2>3 DEF OnePath, NoneInSystem
<1>6. CASE StopStep \/ Shutdown \/ HealthKillTimesOut
  <2>. USE <1>6 DEF childVars, pendingVars, countVars, healthVars, ownerVars, Monitoring
  <2>1. child' = child /\ \A p \in Procs : procs'[p] \in InSystem <=> procs[p] \in InSystem
    BY ForceKilledKeeps
       DEF StopStep, StopMarks, StopGoesOn, StopSeesExit, StopTimesOut, StopReports, Cleanup,
           RemoveLogs, Leave, Shutdown, HealthKillTimesOut
  <2>2. due' = due /\ starts' = starts /\ (timer' => timer) /\ (runner' = "new" => runner = "new")
    BY DEF StopStep, StopMarks, StopGoesOn, StopSeesExit, StopTimesOut, StopReports, Cleanup,
           RemoveLogs, Leave, Shutdown, HealthKillTimesOut
  <2>. QED
    BY <2>1, <2>2, QuietStep
<1>7. ASSUME NEW late \in BOOLEAN, HealthTick(late) PROVE OnePath'
  BY <1>7 DEF HealthTick, OnePath, Pending, NoneInSystem, childVars, pendingVars, ownerVars
<1>8. CASE ProbeAnswered \/ ProbeFailed \/ HealthKills
  BY <1>8 DEF ProbeAnswered, ProbeFailed, HealthKills, OnePath, Pending, NoneInSystem, childVars,
              pendingVars, ownerVars
<1>9. CASE InstallsHandlers \/ SignalledEarly \/ \E p \in Procs : ChildErrors(p)
  BY <1>9 DEF InstallsHandlers, SignalledEarly, ChildErrors, OnePath, Pending, NoneInSystem,
              childVars, pendingVars, ownerVars
<1>. QED
  BY <1>1, <1>2, <1>3, <1>4, <1>5, <1>6, <1>7, <1>8, <1>9 DEF MonitorNext

LEMMA OnePathInit == MonitorInit => OnePath
BY DEF MonitorInit, OnePath, Pending, NoneInSystem, InSystem

THEOREM OnePathHolds == MonitorSpec => []OnePath
<1>1. MonitorTypeOK /\ MonitorTypeOK' /\ OnePath /\ [MonitorNext]_monitorVars => OnePath'
  BY OnePathStep DEF monitorVars, OnePath, Pending, NoneInSystem
<1>. QED
  BY <1>1, OnePathInit, MonitorTypeCorrect, PTL DEF MonitorSpec

\* However crashes, restarts, health checks and stops interleave, one server at most is in the system.
THEOREM OneChild == MonitorSpec => []OneChildInSystem
<1>1. MonitorTypeOK /\ OnePath => OneChildInSystem
  BY DEF OnePath, OneChildInSystem, Pending, NoneInSystem, RestartUnderWay, IsLive, MonitorTypeOK
<1>. QED
  BY <1>1, OnePathHolds, MonitorTypeCorrect, PTL
-----------------------------------------------------------------------------
(* No orphan but by a race *)

Quiet == ~timer /\ due = 0 /\ starts = 0

\* How far the shutdown is tells what can still happen to the children.
StopIsFinal ==
    /\ timer => state = "crashed"
    /\ state = "starting" => starts > 0
    /\ state = "stopped" => \A p \in Procs : procs[p] # "alive"
    /\ stop.at = "cancelling" => Quiet /\ NoneInSystem /\ state = "stopping"
    /\ stop.at = "killing" => /\ Quiet
                              /\ child = stop.of
                              /\ stop.of \in Procs
                              /\ state \in {"stopping", "stopped"}
    /\ runner \notin {"stopping", "cleaning"} => stop.at = "none"
    /\ ~raced /\ (\/ runner \in {"cleaning", "leaving", "exited"}
                  \/ stop.at \in {"reporting", "returned"})
          => Quiet /\ state = "stopped"
    /\ ~raced /\ runner = "cleaning" => stop.at = "returned"

LEMMA OnePathMeans ==
    ASSUME MonitorTypeOK, OnePath
    PROVE  /\ timer => due = 0 /\ starts = 0
           /\ due > 0 => ~timer /\ due = 1 /\ starts = 0
           /\ starts > 0 => ~timer /\ due = 0 /\ starts = 1
           /\ ~Quiet => NoneInSystem
           /\ \A p \in Procs : procs[p] \in InSystem => p = child
           /\ runner = "new" => Quiet /\ NoneInSystem
BY DEF OnePath, Pending, Quiet, MonitorTypeOK

LEMMA StopIsFinalStep ==
    ASSUME MonitorTypeOK, OnePath, StopIsFinal, MonitorNext
    PROVE  StopIsFinal'
<1>0. /\ due \in Nat /\ starts \in Nat /\ timer \in BOOLEAN
      /\ procs \in [Procs -> {"unborn", "alive", "killed", "gone"}]
      /\ child \in Procs \cup {NoProc}
      /\ NoProc \notin Procs
  BY MonitorAssumption DEF MonitorTypeOK
<1>1. /\ timer => due = 0 /\ starts = 0
      /\ due > 0 => ~timer /\ due = 1 /\ starts = 0
      /\ starts > 0 => ~timer /\ due = 0 /\ starts = 1
      /\ ~Quiet => NoneInSystem
      /\ \A p \in Procs : procs[p] \in InSystem => p = child
      /\ runner = "new" => Quiet /\ NoneInSystem
  BY OnePathMeans
<1>. USE DEF childVars, pendingVars, countVars, healthVars, ownerVars, Monitoring
<1>2. CASE Launch
  BY <1>0, <1>1, <1>2 DEF Launch, CallStart, StopIsFinal, Quiet, NoneInSystem
<1>3. ASSUME NEW p \in Procs, StartSpawns(p) PROVE StopIsFinal'
  BY <1>0, <1>1, <1>3 DEF StartSpawns, StopIsFinal, Quiet, NoneInSystem
<1>4. ASSUME NEW unheard \in BOOLEAN, StartFails(unheard) PROVE StopIsFinal'
  BY <1>0, <1>1, <1>4 DEF StartFails, NoStop, StopIsFinal, Quiet, NoneInSystem, InSystem
<1>20. CASE InstallsHandlers \/ SignalledEarly
  BY <1>20 DEF InstallsHandlers, SignalledEarly, StopIsFinal, Quiet, NoneInSystem
<1>21. ASSUME NEW p \in Procs, ChildErrors(p) PROVE StopIsFinal'
  <2>1. /\ state' = (IF state \in {"running", "starting"} THEN "crashed" ELSE state)
        /\ UNCHANGED <<procs, child, timer, due, starts, stop, runner, raced>>
    BY <1>21 DEF ChildErrors
  <2>. QED
    BY <2>1 DEF StopIsFinal, Quiet, NoneInSystem
<1>5. ASSUME NEW p \in Procs, NEW how \in Exits, NEW long \in BOOLEAN, Exit(p, how, long)
      PROVE  StopIsFinal'
  <2>1. Quiet /\ ~timer /\ due = 0 /\ starts = 0 /\ state # "starting" /\ stop.at # "cancelling"
    BY <1>0, <1>1, <1>5 DEF Exit, NoneInSystem, StopIsFinal, Quiet
  <2>2. NoneInSystem'
    BY <1>0, <1>1, <1>5 DEF Exit, NoneInSystem, InSystem
  <2>3. \A q \in Procs : procs'[q] # "alive"
    BY <2>2 DEF NoneInSystem, InSystem
  <2>4. CASE Monitoring
    <3>1. ExitHandler(how) /\ UNCHANGED <<child, due, starts, stop, runner, raced>>
      BY <1>5, <2>4 DEF Exit
    <3>2. CASE state = "running"
      BY <2>1, <2>2, <2>3, <3>1, <3>2 DEF ExitHandler, StopIsFinal, Quiet
    <3>3. CASE state # "running"
      <4>1. state' = "stopped" /\ timer' = timer
        BY <3>1, <3>3 DEF ExitHandler
      <4>. QED
        BY <2>1, <2>2, <2>3, <3>1, <4>1 DEF StopIsFinal, Quiet
    <3>. QED
      BY <3>2, <3>3
  <2>5. CASE ~Monitoring
    BY <1>5, <2>1, <2>2, <2>3, <2>5 DEF Exit, StopIsFinal, Quiet
  <2>. QED
    BY <2>4, <2>5
<1>6. CASE TimerFires
  BY <1>0, <1>1, <1>6 DEF TimerFires, StopIsFinal, Quiet, NoneInSystem
<1>7. CASE RestartGoes
  BY <1>0, <1>1, <1>7 DEF RestartGoes, CallStart, StopIsFinal, Quiet, NoneInSystem
<1>8. CASE StopMarks
  <2>1. CASE timer
    <3>1. /\ ~timer' /\ state' = "stopping" /\ stop' = [at |-> "cancelling", of |-> NoProc]
          /\ UNCHANGED <<procs, child, due, starts, runner>>
      BY <1>8, <2>1 DEF StopMarks
    <3>2. due = 0 /\ starts = 0 /\ NoneInSystem
      BY <1>1, <2>1 DEF Quiet
    <3>3. stop.at = "asked" /\ runner \in {"stopping", "cleaning"}
      BY <1>8 DEF StopMarks, StopIsFinal
    <3>4. ~raced' => ~raced
      BY <1>8 DEF StopMarks
    <3>5. Quiet' /\ NoneInSystem'
      BY <3>1, <3>2 DEF Quiet, NoneInSystem
    <3>6. runner' # "cleaning" \/ raced'
      BY <1>0, <1>8, <2>1, <3>1, <3>3, <3>4 DEF StopIsFinal, Quiet
    <3>. QED
      BY <3>1, <3>3, <3>5, <3>6 DEF StopIsFinal
  <2>2. CASE ~timer /\ IsLive(child)
    <3>1. Quiet /\ child \in Procs
      BY <1>0, <1>1, <2>2 DEF IsLive, NoneInSystem
    <3>2. /\ state' = "stopping" /\ stop' = [at |-> "killing", of |-> child]
          /\ UNCHANGED <<procs, child, timer, due, starts, runner>>
      BY <1>8, <2>2 DEF StopMarks, KillOrFinish
    <3>3. runner \in {"stopping", "cleaning"} /\ stop.at = "asked"
      BY <1>8 DEF StopMarks, StopIsFinal
    <3>4. Quiet'
      BY <3>1, <3>2 DEF Quiet
    <3>5. ~raced' => ~raced
      BY <1>8 DEF StopMarks
    <3>6. runner' = "cleaning" => raced'
      BY <3>2, <3>3, <3>5 DEF StopIsFinal
    <3>. QED
      BY <3>1, <3>2, <3>3, <3>4, <3>6 DEF StopIsFinal, Quiet
  <2>3. CASE ~timer /\ ~IsLive(child)
    <3>1. \A p \in Procs : procs[p] # "alive"
      BY <1>0, <1>1, <2>3 DEF IsLive, InSystem
    <3>2. /\ state' = "stopped" /\ stop' = [at |-> "reporting", of |-> NoProc]
          /\ UNCHANGED <<procs, child, timer, due, starts, runner>>
      BY <1>8, <2>3 DEF StopMarks, KillOrFinish
    <3>4. ~raced' => ~RestartUnderWay
      BY <1>8 DEF StopMarks
    <3>3. ~raced' => Quiet
      BY <1>0, <2>3, <3>4 DEF Quiet, RestartUnderWay
    <3>6. ~raced' => Quiet'
      BY <3>2, <3>3 DEF Quiet
    <3>7. runner \in {"stopping", "cleaning"}
      BY <1>8 DEF StopMarks, StopIsFinal
    <3>8. ~timer'
      BY <2>3, <3>2
    <3>9. ~raced' /\ runner' = "cleaning" => FALSE
      BY <1>8, <3>2, <3>4 DEF StopMarks, StopIsFinal
    <3>. QED
      BY <3>1, <3>2, <3>6, <3>7, <3>8, <3>9 DEF StopIsFinal
  <2>. QED
    BY <2>1, <2>2, <2>3
<1>9. CASE StopGoesOn
  BY <1>0, <1>1, <1>9 DEF StopGoesOn, KillOrFinish, IsLive, StopIsFinal, Quiet, NoneInSystem, InSystem
<1>10. CASE StopSeesExit
  BY <1>0, <1>1, <1>10 DEF StopSeesExit, AfterKill, StopIsFinal, Quiet, NoneInSystem, InSystem
<1>11. CASE StopTimesOut
  <2>1. Quiet /\ child = stop.of /\ state \in {"stopping", "stopped"}
    BY <1>11 DEF StopTimesOut, StopIsFinal
  <2>2. \A p \in Procs : procs'[p] # "alive"
    BY <1>0, <1>1, <1>11 DEF StopTimesOut, ForceKilled, InSystem
  <2>3. state' = "stopped" /\ stop'.at \in {"reporting", "returned"}
    BY <1>11, <2>1 DEF StopTimesOut, AfterKill
  <2>. QED
    BY <1>11, <2>1, <2>2, <2>3 DEF StopTimesOut, StopIsFinal, Quiet
<1>12. CASE StopReports
  BY <1>0, <1>1, <1>12 DEF StopReports, StopIsFinal, Quiet, NoneInSystem
<1>13. CASE Shutdown
  <2>1. /\ UNCHANGED <<state, procs, child, timer, due, starts>>
        /\ runner' = "stopping"
        /\ stop' = [at |-> IF state \in {"stopped", "starting"} THEN "returned" ELSE "asked",
                    of |-> NoProc]
    BY <1>13 DEF Shutdown, CallStop
  <2>2. ~raced' => ~RestartUnderWay
    BY <1>13 DEF Shutdown
  <2>3. ~raced' => due = 0 /\ starts = 0
    BY <1>0, <2>2 DEF RestartUnderWay
  <2>4. ~raced' /\ state \in {"stopped", "starting"} => Quiet' /\ state = "stopped"
    BY <1>0, <2>1, <2>3 DEF StopIsFinal, Quiet
  <2>5. Quiet' <=> Quiet
    BY <2>1 DEF Quiet
  <2>. QED
    BY <2>1, <2>4, <2>5 DEF StopIsFinal
<1>14. CASE Cleanup
  BY <1>0, <1>1, <1>14 DEF Cleanup, CallStop, RestartUnderWay, StopIsFinal, Quiet, NoneInSystem
<1>15. CASE RemoveLogs
  BY <1>0, <1>1, <1>15 DEF RemoveLogs, NoStop, StopIsFinal, Quiet, NoneInSystem
<1>16. CASE Leave
  BY <1>0, <1>1, <1>16 DEF Leave, StopIsFinal, Quiet, NoneInSystem
<1>17. ASSUME NEW late \in BOOLEAN, HealthTick(late) PROVE StopIsFinal'
  BY <1>0, <1>17 DEF HealthTick, StopIsFinal, Quiet, NoneInSystem
<1>18. CASE ProbeAnswered \/ ProbeFailed \/ HealthKills
  BY <1>0, <1>18 DEF ProbeAnswered, ProbeFailed, HealthKills, StopIsFinal, Quiet, NoneInSystem
<1>19. CASE HealthKillTimesOut
  BY <1>0, <1>1, <1>19 DEF HealthKillTimesOut, ForceKilled, StopIsFinal, Quiet, NoneInSystem, InSystem
<1>. QED
  BY <1>2, <1>3, <1>4, <1>5, <1>6, <1>7, <1>8, <1>9, <1>10, <1>11, <1>12, <1>13, <1>14, <1>15,
     <1>16, <1>17, <1>18, <1>19, <1>20, <1>21 DEF MonitorNext, StopStep

LEMMA StopIsFinalHolds == MonitorSpec => []StopIsFinal
<1>1. MonitorInit => StopIsFinal
  BY DEF MonitorInit, StopIsFinal, Quiet, NoneInSystem, NoStop
<1>2. MonitorTypeOK /\ OnePath /\ StopIsFinal /\ [MonitorNext]_monitorVars => StopIsFinal'
  BY StopIsFinalStep DEF monitorVars, StopIsFinal, Quiet, NoneInSystem
<1>. QED
  BY <1>1, <1>2, OnePathHolds, MonitorTypeCorrect, PTL DEF MonitorSpec

\* The tool leaves a server behind, unsignalled, only if a restart was under way when it stopped or a
\* signal came before it could handle one.
THEOREM NoOrphanButByRace == MonitorSpec => []OrphansOnlyByRace
<1>1. StopIsFinal => OrphansOnlyByRace
  BY DEF StopIsFinal, OrphansOnlyByRace, Monitoring
<1>. QED
  BY <1>1, StopIsFinalHolds, PTL

-----------------------------------------------------------------------------
(* The log *)

\* Nobody has a file open under the log's name that is not there.
OpenLogExists == \A l \in Lines : appends[l] = Path => exists

LEMMA LogTypeStep ==
    ASSUME LogTypeOK, OpenLogExists, [LogNext]_logVars
    PROVE  LogTypeOK'
<1>. USE LogAssumption DEF LogTypeOK, Places
<1>1. ASSUME NEW l \in Lines, AppendOpens(l)
      PROVE  LogTypeOK'
  BY <1>1 DEF AppendOpens
<1>2. ASSUME NEW l \in Lines, AppendWrites(l)
      PROVE  LogTypeOK'
  <2>1. store' \in [Places -> SUBSET Lines]
    BY <1>2 DEF AppendWrites
  <2>2. appends' \in [Lines -> Places \cup {Void, "new", "done"}]
    BY <1>2 DEF AppendWrites
  <2>3. ~exists => store'[Path] = {}
    BY <1>2 DEF AppendWrites, OpenLogExists
  <2>. QED
    BY <1>2, <2>1, <2>2, <2>3 DEF AppendWrites
<1>3. ASSUME NEW keep \in SUBSET Lines, TrimReads(keep)
      PROVE  LogTypeOK'
  BY <1>3 DEF TrimReads
<1>4. CASE TrimRenames
  BY <1>4 DEF TrimRenames, Moved, NoTrim
<1>5. ASSUME NEW r \in LogReaders, ReaderStep(r)
      PROVE  LogTypeOK'
  <2>1. CASE ReaderLocks(r) \/ ReaderFindsStale(r) \/ ReaderUnlinksStale(r) \/ ReaderGivesUp(r)
    BY <2>1 DEF ReaderLocks, ReaderFindsStale, ReaderUnlinksStale, ReaderGivesUp
  <2>2. CASE ReaderRenames(r)
    <3>1. /\ appends' \in [Lines -> Places \cup {Void, "new", "done"}]
          /\ store' \in [Places -> SUBSET Lines]
      BY <2>2 DEF ReaderRenames, Moved
    <3>2. ~exists' => store'[Path] = {}
      BY <2>2 DEF ReaderRenames
    <3>3. exists' \in BOOLEAN
      BY <2>2 DEF ReaderRenames
    <3>. QED
      BY <2>2, <3>1, <3>2, <3>3 DEF ReaderRenames
  <2>3. CASE ReaderCreates(r)
    BY <2>3 DEF ReaderCreates
  <2>4. CASE ReaderReads(r)
    BY <2>4 DEF ReaderReads
  <2>5. CASE ReaderUnlinks(r)
    BY <2>5 DEF ReaderUnlinks, Moved
  <2>6. CASE ReaderUnlocks(r)
    BY <2>6 DEF ReaderUnlocks
  <2>7. CASE ReaderKilled(r)
    BY <2>7 DEF ReaderKilled
  <2>. QED
    BY <1>5, <2>1, <2>2, <2>3, <2>4, <2>5, <2>6, <2>7 DEF ReaderStep
<1>6. CASE UNCHANGED logVars
  BY <1>6 DEF logVars
<1>. QED
  BY <1>1, <1>2, <1>3, <1>4, <1>5, <1>6 DEF LogNext

\* A line that is not written yet is nowhere.
UnwrittenIsNowhere ==
    \A l \in Lines : appends[l] # "done" =>
        /\ returned[l] = 0 /\ l \notin trim.keep /\ l \notin store[Path]
        /\ \A r \in LogReaders : l \notin store[r] /\ l \notin got[r]

\* A reader has nothing before it renames the log away, and has read nothing before it reads.
ReadersStartEmpty ==
    \A r \in LogReaders :
        /\ readers[r] \in {"idle", "stale", "locked", "renamed", "created"} => got[r] = {}
        /\ readers[r] \in {"idle", "stale", "locked"} =>
               store[r] = {} /\ \A l \in Lines : appends[l] # r

LogInv == OpenLogExists /\ UnwrittenIsNowhere /\ ReadersStartEmpty /\ LinesReadOnce

LEMMA LogInvStep ==
    ASSUME LogTypeOK, LogInv, [LogNext]_logVars
    PROVE  LogInv'
<1>. USE LogAssumption DEF LogTypeOK, LogInv, OpenLogExists, UnwrittenIsNowhere, ReadersStartEmpty,
                           LinesReadOnce, Held, Places
<1>1. ASSUME NEW l \in Lines, AppendOpens(l)
      PROVE  LogInv'
  BY <1>1 DEF AppendOpens
<1>2. ASSUME NEW l \in Lines, AppendWrites(l)
      PROVE  LogInv'
  BY <1>2 DEF AppendWrites
<1>3. ASSUME NEW keep \in SUBSET Lines, TrimReads(keep)
      PROVE  LogInv'
  BY <1>3 DEF TrimReads
<1>4. CASE TrimRenames
  BY <1>4, ZenonT(40) DEF TrimRenames, Moved, NoTrim
<1>5. ASSUME NEW r \in LogReaders, ReaderStep(r)
      PROVE  LogInv'
  <2>1. CASE ReaderLocks(r) \/ ReaderFindsStale(r) \/ ReaderUnlinksStale(r) \/ ReaderGivesUp(r)
    BY <2>1 DEF ReaderLocks, ReaderFindsStale, ReaderUnlinksStale, ReaderGivesUp
  <2>2. CASE ReaderRenames(r)
    BY <2>2 DEF ReaderRenames, Moved
  <2>3. CASE ReaderCreates(r)
    BY <2>3 DEF ReaderCreates
  <2>4. CASE ReaderReads(r)
    BY <2>4 DEF ReaderReads
  <2>5. CASE ReaderUnlinks(r)
    BY <2>5 DEF ReaderUnlinks, Moved
  <2>6. CASE ReaderUnlocks(r)
    BY <2>6 DEF ReaderUnlocks
  <2>7. CASE ReaderKilled(r)
    BY <2>7 DEF ReaderKilled
  <2>. QED
    BY <1>5, <2>1, <2>2, <2>3, <2>4, <2>5, <2>6, <2>7 DEF ReaderStep
<1>6. CASE UNCHANGED logVars
  BY <1>6 DEF logVars
<1>. QED
  BY <1>1, <1>2, <1>3, <1>4, <1>5, <1>6 DEF LogNext

LEMMA LogInvariant == LogSpec => [](LogTypeOK /\ LogInv)
<1>1. LogInit => LogTypeOK /\ LogInv
  <2>1. LogInit => LogTypeOK
    <3>1. LogInit => /\ appends \in [Lines -> Places \cup {Void, "new", "done"}]
                     /\ store \in [Places -> SUBSET Lines]
                     /\ ~exists => store[Path] = {}
      BY DEF LogInit, Places
    <3>2. LogInit => /\ returned \in [Lines -> Nat]
                     /\ got \in [LogReaders -> SUBSET Lines]
                     /\ trim \in [at : {"idle", "read"}, keep : SUBSET Lines]
      BY DEF LogInit, NoTrim
    <3>3. LogInit => exists \in BOOLEAN /\ mixed \in BOOLEAN
      BY DEF LogInit
    <3>. QED
      BY <3>1, <3>2, <3>3, ZenonT(40) DEF LogInit, LogTypeOK
  <2>2. LogInit => LogInv
    BY LogAssumption DEF LogInit, LogInv, OpenLogExists, UnwrittenIsNowhere, ReadersStartEmpty, LinesReadOnce, Held,
                         Places, NoTrim
  <2>. QED
    BY <2>1, <2>2
<1>2. LogTypeOK /\ LogInv /\ [LogNext]_logVars => (LogTypeOK /\ LogInv)'
  BY LogTypeStep, LogInvStep DEF LogInv
<1>. QED
  BY <1>1, <1>2, PTL DEF LogSpec

\* For any number of lines and readers, locks that go stale, kills and trims: no line of the log is
\* printed twice or held by two readers, unless a trim put back a file that a reset had taken.
THEOREM NoLineIsReadTwice == LogSpec => []LinesReadOnce
<1>1. LogInv => LinesReadOnce
  BY DEF LogInv
<1>. QED
  BY <1>1, LogInvariant, PTL

-----------------------------------------------------------------------------
(* The four parts of a workspace together *)

\* A behaviour of the four together is one of each: what is proved of a part, here, in FilesProofs
\* or in ToolPlanProofs, holds of the whole that the run MCWorkspace checks.
THEOREM WorkspaceIsItsParts ==
  WorkspaceSpec => MonitorSpec /\ LogSpec /\ FilesSpec /\ PlanSpec /\ MonitorFairness
<1>1. WorkspaceInit => MonitorInit /\ LogInit /\ FilesInit /\ PlanInit
  BY DEF WorkspaceInit
<1>2. [WorkspaceNext]_<<monitorVars, logVars, filesVars, planVars, part>>
        => /\ [MonitorNext]_monitorVars /\ [LogNext]_logVars
           /\ [FilesNext]_filesVars /\ [PlanNext]_planVars
  BY DEF WorkspaceNext
<1>. QED
  BY <1>1, <1>2, PTL DEF WorkspaceSpec, MonitorSpec, LogSpec, FilesSpec, PlanSpec

\* Whatever a step of any part does, the state of every part keeps its type.
THEOREM WorkspaceTyped == WorkspaceSpec => []WorkspaceTypeOK
<1>1. MonitorTypeOK /\ LogTypeOK /\ FilesTypeOK /\ PlanTypeOK => WorkspaceTypeOK
  BY DEF WorkspaceTypeOK
<1>. QED
  BY <1>1, WorkspaceIsItsParts, MonitorTypeCorrect, LogInvariant, FilesTypeCorrect,
     PlanTypeCorrect, PTL
=============================================================================
