----------------------------- MODULE Deployment -----------------------------
(***************************************************************************)
(* DeploymentManager (agents/services/implementations/DeploymentManager.ts)*)
(* of one agent: concurrent calls of deployToSandbox share one promise, a  *)
(* retry loop behind the promise runs attempts of deploy(), attempts and   *)
(* callers have timers that stop the waiting but not the work, failures    *)
(* reset the session, and a health check interval redeploys a sick         *)
(* instance.  Code between two awaits is one action; every await is a      *)
(* point where any other action may run.                                   *)
(*                                                                         *)
(* A call of deployToSandbox, its retry loop and the file its caller saved *)
(* just before it share one identity, a member of Calls.  A run of         *)
(* deploy() and the sandbox instance it may create share a member of       *)
(* Attempts: createInstance names an instance "i-" + generateId().         *)
(***************************************************************************)
EXTENDS Naturals, FiniteSets

CONSTANTS
    Calls,                         \* calls of deployToSandbox, health ticks included
    Attempts,                      \* runs of deploy(); their number bounds the retries
    None,                          \* null / undefined
    AiTemplate,                    \* templateName includes 'agents': a token is awaited
    MaxAttemptsBeforeSessionReset, \* maxAttemptsBeforeSessionReset
    MaxRestarts,                   \* bound on restarts of the durable object
    SandboxIdOf(_)                 \* the container that serves a session: its own, or one of a pool

ASSUME NoneAssumption == None \notin Calls \cup Attempts \cup Nat
ASSUME ResetAssumption == MaxAttemptsBeforeSessionReset \in Nat \ {0}
ASSUME TemplateAssumption == AiTemplate \in BOOLEAN
ASSUME RestartAssumption == MaxRestarts \in Nat

VARIABLES
    sessionId,                \* state.sessionId; every reset takes the next number
    sandboxInstanceId,        \* state.sandboxInstanceId
    generatedFilesMap,        \* state.generatedFilesMap: the callers whose file it holds
    cachedSandboxClient,      \* the session of the cached client, or None
    currentDeploymentPromise, \* the call whose loop is behind the promise, or None
    healthCheckInterval,      \* the instance the live interval checks, or None
    call,                     \* the calls: where each stands
    loop,                     \* the executeDeploymentWithRetry a leading call started
    run,                      \* the deploy() runs
    sandboxes,                \* external: the session and the files of each instance
    restarts                  \* restarts so far

memory == <<cachedSandboxClient, currentDeploymentPromise, healthCheckInterval>>
vars == <<sessionId, sandboxInstanceId, generatedFilesMap, memory, call, loop,
          run, sandboxes, restarts>>

Sessions == Nat
Waiting == {"lead", "join"}
Active == {"attempt", "setup", "backoff"}    \* loops that still have work to do
Settled == {"ok", "error", "lost"}           \* runs whose promise has settled
Pending == {"status", "token", "create", "write"}

CallRecords == [pc : {"idle", "tick", "lead", "join", "ok", "null", "gone"},
                loop : Calls \cup {None},       \* the loop it leads or has joined
                client : Sessions \cup {None},  \* of a health tick
                inst : Attempts \cup {None}]    \* the instance a health tick checks
LoopRecords == [pc : {"none", "done"} \cup Active,
                attempt : Attempts \cup {None}, \* the attempt it awaits
                tries : Nat,
                files : SUBSET Calls,           \* {} asks for every generated file
                redeploy : BOOLEAN,
                inst : Attempts \cup {None}]    \* the instance of its preview
RunRecords == [pc : {"unused", "over"} \cup Pending \cup Settled,
               loop : Calls \cup {None},
               client : Sessions,               \* the session of the client it awaits
               inst : Attempts \cup {None},
               redeployed : BOOLEAN,
               files : SUBSET Calls,            \* the files it is sending
               late : BOOLEAN]                  \* its loop stopped waiting for it
SandboxRecords == [session : Sessions \cup {None}, files : SUBSET Calls]

\* Each variable holds values of its kind: the persisted state, the in-memory
\* fields, the calls and loops in progress and the sandboxes outside.
TypeOK ==
    /\ sessionId \in Sessions
    /\ sandboxInstanceId \in Attempts \cup {None}
    /\ generatedFilesMap \subseteq Calls
    /\ cachedSandboxClient \in Sessions \cup {None}
    /\ currentDeploymentPromise \in Calls \cup {None}
    /\ healthCheckInterval \in Attempts \cup {None}
    /\ call \in [Calls -> CallRecords]
    /\ loop \in [Calls -> LoopRecords]
    /\ run \in [Attempts -> RunRecords]
    /\ sandboxes \in [Attempts -> SandboxRecords]
    /\ restarts \in Nat

NoCall == [pc |-> "idle", loop |-> None, client |-> None, inst |-> None]
NoLoop == [pc |-> "none", attempt |-> None, tries |-> 0, files |-> {},
           redeploy |-> FALSE, inst |-> None]
NoRun == [pc |-> "unused", loop |-> None, client |-> 0, inst |-> None,
          redeployed |-> FALSE, files |-> {}, late |-> FALSE]

Init ==
    /\ sessionId = 0
    /\ sandboxInstanceId = None
    /\ generatedFilesMap = {}
    /\ cachedSandboxClient = None
    /\ currentDeploymentPromise = None
    /\ healthCheckInterval = None
    /\ call = [c \in Calls |-> NoCall]
    /\ loop = [c \in Calls |-> NoLoop]
    /\ run = [a \in Attempts |-> NoRun]
    /\ sandboxes = [a \in Attempts |-> [session |-> None, files |-> {}]]
    /\ restarts = 0

\* A run nobody looks at any more: its result was taken, or nobody awaits it.
Over(r) == [NoRun EXCEPT !.pc = "over", !.late = r.late]

-----------------------------------------------------------------------------
\* Mutant: no client is made when the cache is empty.
ClientForCachedOnly(cached, s) == cached

\* getClient() when the state's session is s and the cache holds cached.
ClientFor(cached, s) == IF cached = None THEN s ELSE cached
GetClient == ClientFor(cachedSandboxClient, sessionId)

\* An instance answers through the clients of its container, which MANY_TO_ONE shares among sessions.
Reaches(client, i) ==
    /\ sandboxes[i].session # None
    /\ SandboxIdOf(sandboxes[i].session) = SandboxIdOf(client)

\* createNewInstance() up to its first await, entered with client cl cached and
\* with g in generatedFilesMap: an AI template awaits a token before it asks
\* for a client and reads the files.
CreateNewInstance(r, cl, g) ==
    [r EXCEPT !.pc = IF AiTemplate THEN "token" ELSE "create",
              !.client = cl,
              !.files = IF AiTemplate THEN {} ELSE g]

(***************************************************************************)
(* One turn of the retry loop of call l up to its first await: deploy()    *)
(* runs synchronously into ensureInstance(), which resets the session of a *)
(* redeploy, reads sandboxInstanceId and takes a client, then awaits the   *)
(* status of the instance or goes on to create one.                        *)
(***************************************************************************)
BeginAttempt(l, a, tries, files, redeploy, g) ==
    LET s  == IF redeploy THEN sessionId + 1 ELSE sessionId
        i  == IF redeploy THEN None ELSE sandboxInstanceId
        cl == ClientFor(IF redeploy THEN None ELSE cachedSandboxClient, s)
        r  == [NoRun EXCEPT !.loop = l]
    IN /\ run[a].pc = "unused"
       /\ sessionId' = s
       /\ sandboxInstanceId' = i
       /\ cachedSandboxClient' = cl
       /\ loop' = [loop EXCEPT ![l] = [pc |-> "attempt", attempt |-> a,
                       tries |-> tries, files |-> files,
                       redeploy |-> redeploy, inst |-> None]]
       /\ run' = [run EXCEPT ![a] =
                    IF i # None
                    THEN [r EXCEPT !.pc = "status", !.client = cl, !.inst = i]
                    ELSE CreateNewInstance(r, cl, g)]

\* deployToSandbox while a promise is there: wait on it, whatever was asked for.
Join(c) ==
    /\ currentDeploymentPromise # None
    /\ call' = [call EXCEPT ![c] = [NoCall EXCEPT !.pc = "join",
                                        !.loop = currentDeploymentPromise]]
    /\ UNCHANGED <<sessionId, sandboxInstanceId, cachedSandboxClient,
                   currentDeploymentPromise, loop, run>>

\* Mutant: the promise already there is not looked at.
LeadAlways(c, files, redeploy, g) ==
    /\ currentDeploymentPromise' = c
    /\ call' = [call EXCEPT ![c] = [NoCall EXCEPT !.pc = "lead", !.loop = c]]
    /\ \E a \in Attempts : BeginAttempt(c, a, 1, files, redeploy, g)

\* deployToSandbox without a promise: start the retry loop and wait on it.
Lead(c, files, redeploy, g) ==
    /\ currentDeploymentPromise = None
    /\ currentDeploymentPromise' = c
    /\ call' = [call EXCEPT ![c] = [NoCall EXCEPT !.pc = "lead", !.loop = c]]
    /\ \E a \in Attempts : BeginAttempt(c, a, 1, files, redeploy, g)

DeployToSandbox(c, files, redeploy, g) ==
    Join(c) \/ Lead(c, files, redeploy, g)

\* The agent saves a file and deploys it, alone or with all the others.
Request(c) ==
    /\ call[c].pc = "idle"
    /\ generatedFilesMap' = generatedFilesMap \cup {c}
    /\ \E files \in {{}, {c}}, redeploy \in BOOLEAN :
          DeployToSandbox(c, files, redeploy, generatedFilesMap')
    /\ UNCHANGED <<healthCheckInterval, sandboxes, restarts>>

-----------------------------------------------------------------------------
\* deploy() returns or throws. Of a late run nobody awaits the promise.
Settle(r, pc) ==
    IF r.late THEN Over(r)
    ELSE [r EXCEPT !.pc = pc, !.client = 0, !.files = {}]

\* The end of deploy(), which asks for a client once more if clearLogs is set.
ClearLogs == cachedSandboxClient' \in {cachedSandboxClient, GetClient}

\* ensureInstance() has its instance i: deploy() goes on to getFilesToDeploy()
\* and writes the files, with the client of the session of this moment.
InstanceReady(a, i, redeployed) ==
    LET asked == loop[run[a].loop].files
        files == IF asked = {} \/ redeployed THEN generatedFilesMap ELSE asked
        r == [run[a] EXCEPT !.inst = i, !.redeployed = redeployed]
    IN IF files = {}
       THEN /\ run' = [run EXCEPT ![a] = Settle(r, "ok")]
            /\ ClearLogs
       ELSE /\ run' = [run EXCEPT ![a] = [r EXCEPT !.pc = "write", !.files = files,
                                                  !.client = GetClient]]
            /\ cachedSandboxClient' = GetClient

\* getInstanceStatus answers that the instance is running.
StatusHealthy(a) ==
    /\ run[a].pc = "status"
    /\ Reaches(run[a].client, run[a].inst)
    /\ InstanceReady(a, run[a].inst, FALSE)
    /\ UNCHANGED <<sessionId, sandboxInstanceId, generatedFilesMap, healthCheckInterval,
                   currentDeploymentPromise, call, loop, sandboxes, restarts>>

\* getInstanceStatus answers that it is not: createNewInstance with a client
\* asked for anew.
StatusUnhealthy(a) ==
    /\ run[a].pc = "status"
    /\ run' = [run EXCEPT ![a] = CreateNewInstance(@, GetClient, generatedFilesMap)]
    /\ cachedSandboxClient' = IF AiTemplate THEN cachedSandboxClient ELSE GetClient
    /\ UNCHANGED <<sessionId, sandboxInstanceId, generatedFilesMap, healthCheckInterval,
                   currentDeploymentPromise, call, loop, sandboxes, restarts>>

\* generateAppProxyToken answers: now the client and the files are read.
TokenAnswers(a) ==
    /\ run[a].pc = "token"
    /\ run' = [run EXCEPT ![a] = [@ EXCEPT !.pc = "create", !.client = GetClient,
                                             !.files = generatedFilesMap]]
    /\ cachedSandboxClient' = GetClient
    /\ UNCHANGED <<sessionId, sandboxInstanceId, generatedFilesMap, healthCheckInterval,
                   currentDeploymentPromise, call, loop, sandboxes, restarts>>

\* createInstance answers with an instance, in the sandbox of the session whose
\* client was asked; ensureInstance stores it in the state, of whatever session
\* the state has by now.
CreateAnswers(a) ==
    /\ run[a].pc = "create"
    /\ sandboxes' = [sandboxes EXCEPT ![a] = [session |-> run[a].client,
                                              files |-> run[a].files]]
    /\ sandboxInstanceId' = a
    /\ InstanceReady(a, a, TRUE)
    /\ UNCHANGED <<sessionId, generatedFilesMap, healthCheckInterval,
                   currentDeploymentPromise, call, loop, restarts>>

\* writeFiles answers with success: deploy() returns.
WriteAnswers(a) ==
    /\ run[a].pc = "write"
    /\ Reaches(run[a].client, run[a].inst)
    /\ sandboxes' = [sandboxes EXCEPT ![run[a].inst].files = @ \cup run[a].files]
    /\ run' = [run EXCEPT ![a] = Settle(@, "ok")]
    /\ ClearLogs
    /\ UNCHANGED <<sessionId, sandboxInstanceId, generatedFilesMap, healthCheckInterval,
                   currentDeploymentPromise, call, loop, restarts>>

\* Mutant: the success field of the answer to writeFiles is not read.
RunFailsUnlessWriting(a) ==
    /\ run[a].pc \in Pending
    /\ \E pc \in {"error", "lost"} :
          run' = [run EXCEPT ![a] = Settle(@, IF @.pc = "write" THEN "ok" ELSE pc)]
    /\ UNCHANGED <<sessionId, sandboxInstanceId, generatedFilesMap, memory,
                   call, loop, sandboxes, restarts>>

\* An awaited answer of the sandbox is an error or a throw: deploy() throws, with
\* a message of a lost session ("lost") or another one ("error").
RunFails(a) ==
    /\ run[a].pc \in Pending
    /\ \E pc \in {"error", "lost"} : run' = [run EXCEPT ![a] = Settle(@, pc)]
    /\ UNCHANGED <<sessionId, sandboxInstanceId, generatedFilesMap, memory,
                   call, loop, sandboxes, restarts>>

-----------------------------------------------------------------------------
\* Mutant: one failure more than the limit is needed.
ResetsOffByOne(l, sessionLevel) ==
    (IF sessionLevel THEN 1 ELSE 0)
    + (IF loop[l].tries % (MaxAttemptsBeforeSessionReset + 1) = 0 THEN 1 ELSE 0)

\* How many session resets a failed attempt of loop l causes: one for a
\* session-level error, one more for every third failure.
Resets(l, sessionLevel) ==
    (IF sessionLevel THEN 1 ELSE 0)
    + (IF loop[l].tries % MaxAttemptsBeforeSessionReset = 0 THEN 1 ELSE 0)

BackOff(r) == [r EXCEPT !.pc = "backoff", !.attempt = None, !.inst = None]

\* Mutant: a reset leaves the cached client of the old session.
HandleFailureKeepsClient(l, sessionLevel) ==
    /\ sessionId' = sessionId + Resets(l, sessionLevel)
    /\ UNCHANGED cachedSandboxClient
    /\ sandboxInstanceId' = None
    /\ loop' = [loop EXCEPT ![l] = BackOff(@)]

\* Mutant: neither the reset nor the catch block clears the instance.
HandleFailureKeepsInstance(l, sessionLevel) ==
    LET resets == Resets(l, sessionLevel)
    IN /\ sessionId' = sessionId + resets
       /\ cachedSandboxClient' = IF resets > 0 THEN None ELSE cachedSandboxClient
       /\ UNCHANGED sandboxInstanceId
       /\ loop' = [loop EXCEPT ![l] = BackOff(@)]

\* The catch block of the retry loop, down to the backoff.
HandleFailure(l, sessionLevel) ==
    LET resets == Resets(l, sessionLevel)
    IN /\ sessionId' = sessionId + resets
       /\ cachedSandboxClient' = IF resets > 0 THEN None ELSE cachedSandboxClient
       /\ sandboxInstanceId' = None
       /\ loop' = [loop EXCEPT ![l] = BackOff(@)]

\* The loop of l returns the preview of instance i.
Return(l, i) == [NoLoop EXCEPT !.pc = "done", !.files = loop[l].files, !.inst = i]

\* The awaited attempt returned: start the health check unless the instance is
\* an old one with an interval still live, run the setup commands if there are
\* any, return the preview.
DeploySucceeds(l) ==
    LET a == loop[l].attempt
        fresh == run[a].redeployed \/ healthCheckInterval = None
    IN /\ loop[l].pc = "attempt"
       /\ run[a].pc = "ok"
       /\ \/ loop' = [loop EXCEPT ![l] = Return(l, run[a].inst)]
          \/ fresh /\ loop' = [loop EXCEPT ![l] = [@ EXCEPT !.pc = "setup", !.attempt = None,
                                                           !.inst = run[a].inst]]
       /\ run' = [run EXCEPT ![a] = Over(@)]
       /\ IF fresh
          THEN /\ healthCheckInterval' = run[a].inst
               /\ cachedSandboxClient' = GetClient
          ELSE UNCHANGED <<healthCheckInterval, cachedSandboxClient>>
       /\ UNCHANGED <<sessionId, sandboxInstanceId, generatedFilesMap,
                      currentDeploymentPromise, call, sandboxes, restarts>>

\* The awaited attempt threw.
DeployFails(l) ==
    /\ loop[l].pc = "attempt"
    /\ run[loop[l].attempt].pc \in {"error", "lost"}
    /\ HandleFailure(l, run[loop[l].attempt].pc = "lost")
    /\ run' = [run EXCEPT ![loop[l].attempt] = Over(@)]
    /\ UNCHANGED <<generatedFilesMap, currentDeploymentPromise, healthCheckInterval,
                   call, sandboxes, restarts>>

\* PER_ATTEMPT_TIMEOUT_MS: the loop gives the attempt up, the attempt runs on.
AttemptTimesOut(l) ==
    /\ loop[l].pc = "attempt"
    /\ run[loop[l].attempt].pc \in Pending
    /\ run' = [run EXCEPT ![loop[l].attempt].late = TRUE]
    /\ HandleFailure(l, FALSE)
    /\ UNCHANGED <<generatedFilesMap, currentDeploymentPromise, healthCheckInterval,
                   call, sandboxes, restarts>>

\* executeSetupCommands and its callback return.
SetupSucceeds(l) ==
    /\ loop[l].pc = "setup"
    /\ loop' = [loop EXCEPT ![l] = Return(l, @.inst)]
    /\ UNCHANGED <<sessionId, sandboxInstanceId, generatedFilesMap, memory,
                   call, run, sandboxes, restarts>>

\* They throw or time out: the whole attempt counts as failed.
SetupFails(l) ==
    /\ loop[l].pc = "setup"
    /\ \E sessionLevel \in BOOLEAN : HandleFailure(l, sessionLevel)
    /\ UNCHANGED <<generatedFilesMap, currentDeploymentPromise, healthCheckInterval,
                   call, run, sandboxes, restarts>>

\* The backoff is over: the next turn of `while (true)`.
Retry(l) ==
    /\ loop[l].pc = "backoff"
    /\ \E a \in Attempts :
          BeginAttempt(l, a, loop[l].tries + 1, loop[l].files, loop[l].redeploy,
                       generatedFilesMap)
    /\ UNCHANGED <<generatedFilesMap, currentDeploymentPromise, healthCheckInterval,
                   call, sandboxes, restarts>>

-----------------------------------------------------------------------------
\* Whether the call that leads a deployment is done waiting: its loop returned,
\* or MASTER_DEPLOYMENT_TIMEOUT_MS is over, which is later than the first
\* attempt's own timeout.
LeaderAwake(c) == loop[c].pc # "attempt" \/ loop[c].tries > 1

\* Mutant: the promise is cleared after a success only, not in a `finally`.
LeaderReturnsOnTimeoutKeeping(c) ==
    /\ call[c].pc = "lead"
    /\ LeaderAwake(c)
    /\ call' = [call EXCEPT ![c].pc = IF loop[c].pc = "done" THEN "ok" ELSE "null"]
    /\ currentDeploymentPromise' =
          IF loop[c].pc = "done" THEN None ELSE currentDeploymentPromise
    /\ UNCHANGED <<sessionId, sandboxInstanceId, generatedFilesMap, cachedSandboxClient,
                   healthCheckInterval, loop, run, sandboxes, restarts>>

\* The leading call leaves deployToSandbox, and its `finally` clears the promise:
\* with the preview of its loop, or at MASTER_DEPLOYMENT_TIMEOUT_MS with null.
LeaderReturns(c) ==
    /\ call[c].pc = "lead"
    /\ LeaderAwake(c)
    /\ call' = [call EXCEPT ![c].pc = IF loop[c].pc = "done" THEN "ok" ELSE "null"]
    /\ currentDeploymentPromise' = None
    /\ UNCHANGED <<sessionId, sandboxInstanceId, generatedFilesMap, cachedSandboxClient,
                   healthCheckInterval, loop, run, sandboxes, restarts>>

\* Mutant: a call that joined waits without a timeout of its own.
JoinerReturnsWhenDone(c) ==
    /\ call[c].pc = "join"
    /\ loop[call[c].loop].pc = "done"
    /\ call' = [call EXCEPT ![c].pc = "ok"]
    /\ UNCHANGED <<sessionId, sandboxInstanceId, generatedFilesMap, memory,
                   loop, run, sandboxes, restarts>>

\* Mutant: a call that joined takes a cleared promise for a finished deployment.
JoinerReturnsWhenCleared(c) ==
    /\ call[c].pc = "join"
    /\ call' = [call EXCEPT ![c].pc =
                  IF currentDeploymentPromise = None THEN "ok" ELSE "null"]
    /\ UNCHANGED <<sessionId, sandboxInstanceId, generatedFilesMap, memory,
                   loop, run, sandboxes, restarts>>

\* A call that joined leaves, with the preview or at its own timeout, which
\* started after the leader's.
JoinerReturns(c) ==
    /\ call[c].pc = "join"
    /\ loop[call[c].loop].pc = "done" \/ call[call[c].loop].pc = "null"
    /\ call' = [call EXCEPT ![c].pc =
                  IF loop[call[c].loop].pc = "done" THEN "ok" ELSE "null"]
    /\ UNCHANGED <<sessionId, sandboxInstanceId, generatedFilesMap, memory,
                   loop, run, sandboxes, restarts>>

\* The interval fires: getInstanceStatus of the instance it was started for.
TickStarts(c) ==
    /\ healthCheckInterval # None
    /\ call[c].pc = "idle"
    /\ call' = [call EXCEPT ![c] = [pc |-> "tick", loop |-> None,
                    client |-> GetClient, inst |-> healthCheckInterval]]
    /\ cachedSandboxClient' = GetClient
    /\ UNCHANGED <<sessionId, sandboxInstanceId, generatedFilesMap, healthCheckInterval,
                   currentDeploymentPromise, loop, run, sandboxes, restarts>>

\* The status is healthy, or asking threw: nothing to do.
TickEnds(c) ==
    /\ call[c].pc = "tick"
    /\ call' = [call EXCEPT ![c] = NoCall]
    /\ UNCHANGED <<sessionId, sandboxInstanceId, generatedFilesMap, memory,
                   loop, run, sandboxes, restarts>>

\* The status is unhealthy: clear the interval that is live now and redeploy.
TickUnhealthy(c) ==
    /\ call[c].pc = "tick"
    /\ healthCheckInterval' = None
    /\ DeployToSandbox(c, {}, FALSE, generatedFilesMap)
    /\ UNCHANGED <<generatedFilesMap, sandboxes, restarts>>

\* The durable object is evicted and started again: the agent's state survives,
\* the manager's fields, its loops and its callers do not.
Restart ==
    /\ restarts < MaxRestarts
    /\ restarts' = restarts + 1
    /\ cachedSandboxClient' = None
    /\ currentDeploymentPromise' = None
    /\ healthCheckInterval' = None
    /\ call' = [c \in Calls |-> IF call[c].pc \in Waiting
                                THEN [call[c] EXCEPT !.pc = "gone"]
                                ELSE IF call[c].pc = "tick" THEN NoCall ELSE call[c]]
    /\ loop' = [c \in Calls |-> IF loop[c].pc \in Active THEN NoLoop ELSE loop[c]]
    /\ run' = [a \in Attempts |-> IF run[a].pc = "unused" THEN NoRun ELSE Over(run[a])]
    /\ UNCHANGED <<sessionId, sandboxInstanceId, generatedFilesMap, sandboxes>>

Next ==
    \/ \E c \in Calls :
          \/ Request(c) \/ LeaderReturns(c) \/ JoinerReturns(c)
          \/ TickStarts(c) \/ TickEnds(c) \/ TickUnhealthy(c)
          \/ DeploySucceeds(c) \/ DeployFails(c) \/ AttemptTimesOut(c)
          \/ SetupSucceeds(c) \/ SetupFails(c) \/ Retry(c)
    \/ \E a \in Attempts :
          \/ StatusHealthy(a) \/ StatusUnhealthy(a) \/ TokenAnswers(a)
          \/ CreateAnswers(a) \/ WriteAnswers(a) \/ RunFails(a)
    \/ Restart

\* Timers fire, and a settled promise resumes whoever awaits it.
Timers ==
    \A c \in Calls :
        /\ WF_vars(LeaderReturns(c)) /\ WF_vars(JoinerReturns(c))
        /\ WF_vars(AttemptTimesOut(c)) /\ WF_vars(DeploySucceeds(c)) /\ WF_vars(DeployFails(c))

Spec == Init /\ [][Next]_vars
FairSpec == Spec /\ Timers
-----------------------------------------------------------------------------
(* Properties *)

\* currentDeploymentPromise belongs to exactly the one call that waits as its
\* leader: a promise is never left behind and never cleared by somebody else.
LeaderOwnsPromise ==
    \A c \in Calls : currentDeploymentPromise = c <=> call[c].pc = "lead"

\* getClient(): whatever the resets and the restarts in between, the cached
\* client is one of the current session.
ClientOfSession == cachedSandboxClient \in {None, sessionId}

\* A loop that returned its preview returned an instance that exists and holds
\* the file its caller had saved before it asked for the deployment.
PreviewServesRequest ==
    \A l \in Calls : loop[l].pc = "done" =>
        /\ loop[l].inst \in Attempts
        /\ sandboxes[loop[l].inst].session # None
        /\ l \in generatedFilesMap => l \in sandboxes[loop[l].inst].files

\* No timer has cut a wait short: no attempt was given up, no caller was.
NothingTimedOut ==
    /\ \A a \in Attempts : ~run[a].late
    /\ \A c \in Calls : call[c].pc # "null"

\* As long as no timer has fired, two retry loops never run at once, and the
\* stored instance is one of the current session: what can go wrong with them
\* comes from work that outlives its timer.
SoundUntilTimeout ==
    NothingTimedOut =>
        /\ \A k, l \in Calls : loop[k].pc \in Active /\ loop[l].pc \in Active => k = l
        /\ sandboxInstanceId # None => sandboxes[sandboxInstanceId].session = sessionId

\* "After consecutive failures, reset session to get fresh sandbox": a loop that
\* has failed n times has been through n \div MaxAttemptsBeforeSessionReset resets
\* at least, so it never keeps hitting one broken session.
FailuresForceSessions ==
    \A l \in Calls :
        LET failed == IF loop[l].pc = "backoff" THEN loop[l].tries ELSE loop[l].tries - 1
        IN loop[l].pc \in Active => sessionId >= failed \div MaxAttemptsBeforeSessionReset

\* Sessions only move forward, and an instance stored under one never survives
\* the step that leaves it: resetSessionId clears it.
ResetClearsInstance ==
    [][sessionId' # sessionId =>
          /\ sessionId < sessionId'
          /\ sandboxInstanceId' = None]_vars

\* Whoever waits for a deployment gets an answer in the end, a preview or null.
EveryCallReturns ==
    \A c \in Calls : call[c].pc \in Waiting ~> call[c].pc \notin Waiting

-----------------------------------------------------------------------------
(* What the proofs strengthen the invariants with. *)

\* A run in progress belongs to a loop of a call that was made; unless it is
\* late, its loop awaits it; it has an instance once it looks for one or has one.
RunsWired ==
    \A a \in Attempts :
        /\ run[a].pc \in Pending \cup Settled =>
              /\ run[a].loop \in Calls
              /\ call[run[a].loop].pc \notin {"idle", "tick"}
              /\ ~run[a].late => /\ loop[run[a].loop].pc = "attempt"
                                 /\ loop[run[a].loop].attempt = a
        /\ run[a].pc \in {"status", "write", "ok"} => run[a].inst \in Attempts

\* A loop in progress was started by its call, which waits for it or gave it up;
\* the attempt it awaits is its own; its preview names an instance.
LoopsWired ==
    \A l \in Calls :
        /\ loop[l].pc # "none" =>
              /\ call[l].loop = l
              /\ call[l].pc \in {"lead", "ok", "null", "gone"}
        /\ loop[l].pc \in Active => call[l].pc \in {"lead", "null"}
        /\ loop[l].pc = "attempt" =>
              /\ loop[l].attempt \in Attempts
              /\ run[loop[l].attempt].loop = l
              /\ run[loop[l].attempt].pc \in Pending \cup Settled
              /\ ~run[loop[l].attempt].late
        /\ loop[l].pc \in {"setup", "done"} => loop[l].inst \in Attempts

Wired == TypeOK /\ RunsWired /\ LoopsWired
-----------------------------------------------------------------------------

\* The status of a caller, as SharedDeployment sees it.
StatusOf(pc) ==
    CASE pc \in {"idle", "tick"} -> "idle"
      [] pc \in Waiting -> "waiting"
      [] pc = "ok" -> "served"
      [] pc = "null" -> "gaveUp"
      [] pc = "gone" -> "gone"

Shared == INSTANCE SharedDeployment WITH
    Callers <- Calls,
    boarding <- currentDeploymentPromise,
    status <- [c \in Calls |-> StatusOf(call[c].pc)],
    flight <- [c \in Calls |-> call[c].loop],
    landed <- {l \in Calls : loop[l].pc = "done"}

\* The callers see one shared deployment at a time.
ImplementsSharedDeployment == Shared!Spec
=============================================================================
