# vibesdk: a TLA+ verification project

vibesdk generates and deploys web applications from a conversation. Each app has an
*agent*, a Cloudflare durable object: one thread, one isolate, a persisted `state`, and
fields in memory that an eviction loses. An agent's work is a tangle of long asynchronous
calls (inference, sandbox, database, other durable objects) and everything between two
`await`s is atomic. What can go wrong is therefore a matter of *interleaving at awaits*,
of *timers that stop the waiting and not the work*, and of *restarts*. That is what these
modules model.

Paths below are relative to `src/apps/vibesdk-api/src/` unless they begin with `src/`.

## 1. Inventory

| Component | State | Operations | Interacts with | What makes it correct |
|---|---|---|---|---|
| Deployment manager (`agents/services/implementations/DeploymentManager.ts`) | persisted `sessionId`, `sandboxInstanceId`; in memory: the cached sandbox client, `currentDeploymentPromise`, the health check interval | `deployToSandbox`, its retry loop, `deploy`, `ensureInstance`, setup commands, health checks, session resets | the agent's behavior calls it; it calls the sandbox service | one shared deployment at a time; client and instance are of the current session; a returned preview exists and holds the files asked for; every caller is answered |
| Phasic generation (`agents/core/behaviors/base.ts`, `phasic.ts`) | persisted phases, flags, `phasesCounter`, pending requests; in memory: `generationPromise`, the abort controller, `deepDebugPromise` | `generateAllFiles`, the state machine (plan, implement, finalize, review), stop, deep debug | conversation turns queue requests and launch it; connections start, stop and resume it; it deploys | one open phase; requests planned once and not lost; it ends; STOP reaches it; debug and generation exclude each other |
| Conversation (`codingAgent.ts`, `UserConversationProcessor.ts`, `conversationCompactifier.ts`) | two histories in the object's SQL store | `handleUserInput`, tool calls, compaction | generation, deployment manager | the running history accounts for all of the full one; tool results keep their calls; no message lost to a concurrent turn; a queued request is acted upon |
| Connections (`agents/core/websocket.ts`) | none of its own | dispatch of client messages | all of the above | messages in any order are harmless |
| Agentic behavior (`agents/core/behaviors/agentic.ts`) | persisted `mvpGenerated`, `pendingUserInputs`; in memory: `generationPromise`, the abort controller, the template | queue a message, `build()` and its attempts, `generateAllFiles`, stop, resume | connections and messages start it; its tools complete it or import a template | a pending message is read by a build; one build at a time |
| Agent tools (`agents/tools/`) | none | `queue_request`, `deep_debug`, `wait_for_generation`, file and deployment tools; parallel execution with declared resources | behavior | conflicting calls never run in parallel |
| Files and git (`FileManager.ts`, `agents/git/git.ts`) | `generatedFilesMap`; index, commits, branch and HEAD in SQLite | record, save, delete, stage, commit, reset, sync | generation, conversation, the git tool | map and index of a path differ only for a known cause; a reset undoes the later commits |
| Vault (`src/apps/secrets-store/src/user-secrets-store.ts`, `vault-context.tsx` of the web app) | per user: encrypted rows, one session in memory; per tab: a key and a socket | set up, unlock, lock, reset, expire; store, delete | tabs, agents | rows and session are under the vault's key; no session without a tab that holds its socket |
| Unlock dialogue (`services/secrets/SecretsClient.ts`, `codingAgent.ts`) | per agent: the cached client, its unlock promise | get, notify, time out, drop | vault, connections | whoever waits is answered; nobody waits on a client that is gone |
| Tickets (`src/apps/secrets-store/src/ws-ticket-manager.ts`) | map of tickets in memory | issue, consume, expire | websocket upgrade | a ticket admits once |
| Rate limits (`src/apps/rate-limit/`, `services/rate-limit/`) | buckets of counts, in a durable object or in KV | increment, remaining, reset, cleanup | every endpoint | no window lets more than its limit pass, none refuses without reason |
| Client SDK (`src/packages/sdk/src/ws.ts`, `session.ts`) | socket, timer, attempts, queue of messages | connect, reconnect, send, close | the agent's connections | one socket; messages arrive once, and in order but for what listeners of `ws:open` send |
| Container process monitor (`src/apps/vibesdk-api/container/`) | child process, timers, counters; a log file | start, exit, restart, health check, stop, shutdown; append, trim, reset | the sandbox client runs its commands | one child; none left behind; a shutdown ends; a line is read once |
| Sandbox service, inference, output formats, code fixer, deployers, database services, frontend | — | — | — | see `components` in `PROJECT.json` |

### What is hard here

* **Interleaving at awaits.** Two callers of `deployToSandbox`; a tick of the health check in
  the middle of a deployment; a message queued while the generation closes; a debug that
  checks for a generation once and never again; a shared abort controller.
* **Timers.** `withTimeout` rejects the wait and leaves the promise running: a late attempt
  still writes `sandboxInstanceId`; the retry loop outlives its caller.
* **Restarts.** A durable object is evicted at any await: `state` survives, promises do not.
* **Termination.** The generation's loop is bounded by a counter that messages recharge.
* **Read, await, write.** Conversation histories, analysis caches, `generatedFilesMap`
  against commits, KV rate limits.

* **Beliefs about another party.** A tab, the agent and the store each keep their own idea of
  whether the vault is open; an SDK connection, of which socket it has; a stopping monitor, of
  whether a restart is on its way.

`PROJECT.json` lists every hazard at the line where it bites, with the properties aimed at
it; those without a property say why.

## 2. Plan

Modules in the order of the importance of what they say; each is written to be proved about
(constants with named assumptions, one action per handler between two awaits, invariants as
named conjunctions, no RECURSIVE operator).

| # | Module | Composes / refines | Runs | Theorems worth proving | Status |
|---|---|---|---|---|---|
| 1 | `Deployment`, `SharedDeployment` | the first implements the second | 2 calls, 2-3 attempts | typing, `LeaderOwnsPromise`, `ClientOfSession`, `ResetClearsInstance`, `PreviewServesRequest`, `SoundUntilTimeout`, `FailuresForceSessions`, the refinement | modelled; proved |
| 2 | `Generation` | turns of conversation, buttons, state machine | 2 messages, 2 phases, 1 restart | typing, `OneOpenPhase`, `RequestsPlannedOnce`, `LostOnlyByPlanner`, `StopReachesGeneration`, `PhasesBounded` | modelled; proved |
| 3 | `Conversation` | turns, review message, clear, compaction | 4 turns | typing, `SameKnowledge`, `ToolsFollowTheirCalls`, `RecentMessagesKept`, `CompactionBoundsTurns` | modelled; proved |
| 4 | `Vault` | the store with its tabs | 2 tabs, 2 keys, 2 sockets | typing, `KeysAgree`, `SessionHasAHolder` | modelled; proved |
| 5 | `SecretsClient` | the agents' side of the vault, over its session | 2 requests, 3 clients | `PromptsAreAwaited` | modelled; proved |
| 6 | `RateLimit` | durable object against sliding windows | 2 keys, 9 ticks | typing, `LimitsHold`, `RefusalsAreJustified` | modelled; proved |
| 7 | `SdkConnection` | the client of an agent | 3 sockets, 2 messages | typing, `OneSocket`, `HeardInOrder` | modelled; proved |
| 8 | `Agentic` | the agentic behavior with its messages and buttons | 2 messages, 2 builds | typing, `RequestHasATaker` | modelled; proved |
| 9 | `ProcessMonitor`, `MonitorLog` | the container's monitor and its log | 3 children; 2 lines, 3 readers | typing, `OneChildInSystem`, `OrphansOnlyByRace`, `LinesReadOnce` | modelled; proved |
| 10 | `Files` | file map against index, commits, HEAD | 2 savers, 2 resetters, 2 commits | typing, `StateIsStaged` | modelled; proved |
| 11 | `ToolPlan` | parallel tool calls | batches of up to 3 calls | typing, `ConflictsInOrder`, `NeverCircular` | modelled; proved |

`MCUser`, `MCServices` and `MCWorkspace` put components that share no variable into one run: a
behaviour is one of one of them, so the states add up and do not multiply. That such a behaviour
is also one of every part is proved.

## 3. Modules

### `Deployment` — the deployment manager

A *call* of `deployToSandbox`, the retry loop it may start and the file its caller saved just
before share one identity (`Calls`); a run of `deploy()` and the instance it may create share
another (`Attempts`). State and code:

| Variable | Code |
|---|---|
| `sessionId`, `sandboxInstanceId`, `generatedFilesMap` | the persisted `state` of the agent (of the map: which callers' files it holds) |
| `cachedSandboxClient`, `currentDeploymentPromise`, `healthCheckInterval` | fields of the manager; the promise is named by the call whose loop is behind it |
| `call` | each caller between its awaits: waiting as leader or joiner, answered, or lost in a restart; or a health tick |
| `loop` | `executeDeploymentWithRetry`: awaiting an attempt, the setup commands, the backoff |
| `run` | `deploy()`: awaiting a status, a token, `createInstance`, `writeFiles` |
| `sandboxes` | outside: the session and files of every instance |

Each action is the code from one await to the next: `Request` (the agent saves a file and calls
`deployToSandbox`, which joins or leads), the answers (`StatusHealthy`, `CreateAnswers`,
`WriteAnswers`...), the failures (`RunFails`, `DeployFails` with the resets of the catch
block), `AttemptTimesOut` (the run goes on as `late`), `LeaderReturns` and `JoinerReturns`
(result or timeout), `TickStarts`/`TickEnds`/`TickUnhealthy`, `Restart`.

Left out: the Cloudflare deployment, callbacks and broadcasts, bootstrap commands, the
blueprint and logs. Errors are "session-level" or not, chosen freely where the code matches a
message. Sessions are numbered; the code takes a new UUID. Which container serves a session is the
constant `SandboxIdOf`: under MANY_TO_ONE sessions share a pool (`sandboxSdkClient.ts:89-126`), so
that a client of a new session may still reach an instance of an old one (`Reaches`). The run
`deployment` has a pool of two containers, `deployment_live` a container for each session; the
proofs are for any.

### `SharedDeployment` — what `deployToSandbox` promises

Callers board the flight in preparation or open their own; one flight boards at a time; a
caller is served only once the flight it boarded has landed. `Deployment` implements it under
the refinement `Shared` (a flight is a retry loop): no caller is ever handed the result of a
loop it did not wait for, not even after a timeout cleared the promise and a second loop began.

### `Generation` — state machine, messages and buttons

| Variable | Code |
|---|---|
| `shouldBeGenerating`, `mvpGenerated`, `reviewingInitiated`, `pendingUserInputs`, `phasesCounter`, `generatedPhases` | the persisted state; a phase is whether it is completed and which requests it was planned from |
| `templateLoaded` | whether `templateDetailsCache` is set |
| `machine` | the state machine behind `generationPromise`: `starting` (`ensureTemplateDetails` is awaited, before the `try` of `buildWrapper`), `stuck` (it threw there), `issues`/`planning` (PHASE_GENERATING before and during inference), `preparing`/`implementing`/`deploying` (PHASE_IMPLEMENTING), `reviewing`, `closing` (IDLE, while `updateApp` is awaited); with the phase, the suggestions taken, the abort signal of its inference |
| `chat` | turns of `handleUserInput`: thinking, waiting for the generation, debugging |

`ensureTemplateDetails` throws outside the `try` whose `finally` clears `generationPromise`
(`base.ts:512`): `TemplateMissing` leaves the promise set for as long as the object lives, and no
click or message starts a generation again. `GenerationTerminates` names this exception: every
other generation ends.

The shared abort controller is modelled by what becomes of the inferences that hold its
signal: STOP still reaches it (`current`), it was aborted, or the controller was forgotten
while it runs (`detached`).

The nested calls of the states (`executePhaseImplementation` finalizes inline,
`executeFinalizing` plans and implements one last phase and then reviews) are the operators
`Finalize`, `Review`, `Idle` and `Fail`, used inside the action of the answer that triggers
them. An aborted inference may throw (`PlanningFails`, `ImplementationFails`) or end early with
what it has (`FilesGenerated`), as the code allows both. Left out: what files contain, the
sandbox (see `Deployment`), static analysis, broadcasts, `wait_for_debug`, images. A turn
queues at most one request and debugs at most once; phase names are distinct (phases are
marked by name in the code). Not modelled either: the phase concept carried inside one
await-free stretch (`currentPhase`), and errors of `updateApp`, which it swallows itself.

### `Conversation` — two histories and their compaction

| Variable | Code |
|---|---|
| `fullHistory`, `runningHistory` | the rows of `full_conversations` and `compact_conversations`; empty if there is none |
| `turn` | calls of `handleUserInput`: thinking, with the two histories they have read, or how they ended |
| `reviewingInitiated` | of the state, and the message of the review, which comes with it |

A message is its role and what it is *about*: an original message is about itself (its turn
and place), a summary about everything it summarizes. `Knows(h)` is what a history is about,
so that `SameKnowledge` can say that the running history, however often compacted, accounts
for the full one. The summary's wording is left to the inference; that it stands for its
messages is assumed, that the right messages are replaced by it is what is checked.

`TurnBegins` is the read at the await, `TurnAnswers` everything from the answer to the save
(compaction, its split at a turn boundary, what is stored of it, both INSERTs), also for an
aborted inference; `TurnFallsBack` and `TurnThrows` are the two ways out of the catch.
`long` (over MAX_ESTIMATED_TOKENS) is free. `Save` may fail at the first or the second INSERT,
and the code swallows it. The compaction is decided when the inference begins and modelled
when it ends; it depends only on what the turn has read.

Left out: images, identifiers (fresh, so deduplication does nothing), several results for one
message of the assistant, a call that is aborted before its result, a response that is skipped
because it repeats the last one, the last-resort slice in `compactifyContext`'s catch, which
only a throwing broadcast reaches, and the agentic behavior's own use of the two tables.

### `Agentic` — one long inference after the other

| Variable | Code |
|---|---|
| `mvpGenerated`, `pendingUserInputs`, `shouldBeGenerating` | the persisted state |
| `generationPromise`, `templateLoaded` | whether the promise is set, and whether `templateDetailsCache` is |
| `builds` | calls of `buildWrapper`: `starting` (awaits the template), `looping` (in `build()`, between attempts), `attempt` (in the inference of `executeGeneration`), `closing` (awaits `updateApp`) |
| `inputs` | calls of `handleUserInput`: awaiting its uploads, queued and about to look whether a build runs, over |
| `broken` | history: since the last start a build threw, or the object was made anew |

A message is only queued; an attempt takes what is pending when it begins and is cut short by a
tool that finds more. `executeGeneration` clears `generationPromise` after every attempt, and
`build()` goes on: so there may be several builds, each clearing what another has set, and the
question is whether a message can be left in the queue with nobody to read it
(`RequestHasATaker`, `RequestIsTaken`). It cannot, unless a build fails; `OneBuild` fails.
`ensureTemplateDetails` may throw (after `init_suitable_template` emptied the cache) before the
`try` of `buildWrapper`, which leaves the promise set: `BuildCannotStart`. Left out: the
conversation an attempt writes, images (`pendingUserImages` is never emptied here), streaming.

### `Vault` — the secrets of one user

| Variable | Code |
|---|---|
| `vault`, `secrets`, `session` | the rows of `vault_config` and `secrets`, and `this.session` of the store: one per user, whichever tab opened it |
| `sockets` | every connection a tab opened, with the messages still on their way; `late`: the tab's ten seconds were over |
| `tabs` | the refs and the state of `VaultProvider`: the key, the socket, the status, and the call under way |
| `keys`, `resetUnder` | keys derived so far; history: a reset arrived while a key of the old vault was held |

A ciphertext is known by the key it is under, a master key by the number of the setup that
derived it. The store handles one message at a time and its handlers reach no await that
matters between reading and changing the session, so `Deliver` is one step. `SocketDrops` cuts
off what a connection still carries; `Evict` is hibernation, which keeps the sockets and loses
the session. `RefreshFails` leaves a tab with a status it does not know (`unknown`), in which
the user interface still offers to unlock, lock and reset. `SessionHasAHolder` says when a session may be open and `KeysAgree` under which
key everything is; both name the way in which the code does let them fail (a connection given
up after its timeout; a reset under another tab). Left out: reads, the storage limits,
`vault_update_secret` (no sender in the repository) and the RPC `lockVault` (no caller).

### `SecretsClient` — an agent waits for the vault

`getDecryptedSecret` asks the store, is told that the vault is locked, waits on a promise
shared by all requests of the same client object, and asks once more. `client` is the agent's
cached client, which a lock, or any closed socket, drops while requests still run on it;
`prompting` says which clients have a pending promise. The store is seen as its session only
and changes freely. An answer `session_expired` is not followed by a prompt, as in the code.

### `RateLimit` — buckets against windows

`increment` with its cleanup, and `resetLimit`, over several keys that share one object; time
is counted in ticks that divide a bucket. A request counts for the `creditCost` of its model, which
may be a fraction or 0 (`config.types.ts`): limits and costs are numbers of a unit that divides
them all, half a credit in the run, and the rounding of floating-point sums is left out. `accepted` is a history by tick, so that `LimitsHold`
and `RefusalsAreJustified` can speak of real sliding windows while the code counts buckets.
`LimitsHold` is stated of every window that no key of the object undercuts (`Covered`): a cleanup
takes its horizon from the request that happens to run it, and is a cleanup of all keys. Its bound
is the limit and less than the largest cost, not the limit itself, because `increment` compares
before it adds.

At this commit no request reaches `increment`: the worker hands it to the object with `stub.fetch`
(`src/apps/rate-limit/src/index.ts:19`), the object has no `fetch` handler, and the caller treats the
error as a permission (`services/rate-limit/rateLimits.ts:150-156`). What is modelled and proved is
what the object's own operations do when they are called.

### `SdkConnection` — a client's connection to an agent

`createAgentConnection` and what `BuildSession` hangs on its events: fetching a URL (`fetching`),
the reconnect timer, one `ws` variable for sockets that succeed each other, the queue of
messages sent while none is open. `onOpen` emits `ws:open` before it flushes the queue, with `isOpen`
already set: `opening` says how far the listeners are, and `Send` and `Close` may come from one of
them, before or after the session's own, which sends `session_init` (`SaysHello`). A listener that
throws (`ListenerThrows`) keeps `onOpen` from the flush, so that the queue waits for the next socket
while newer messages go out. A socket may be `dead` before its close event: `send` looks at `isOpen`
only, and what it hands to such a socket is lost in silence.

`said`, `heard`, `ahead` and `lost` are histories for `HeardInOrder`: nothing is received twice or
was not sent; a message overtakes an earlier one only if it was sent between the opening of a
socket and the flush; nothing is missing but for an overflow of the queue, `close()`, or a dead
socket. That the two exceptions exist is what the code does; that there is no other is the property.

### `ProcessMonitor`, `MonitorLog` — inside the container

`ProcessMonitor` has every `await` of `start`, `stop`, the restart callback, the health check
and the runner's shutdown as a point where exits and timers may come in. `procs` is the system's
view of the children, `child` the monitor's; `raced` records that a stop passed a restart which
was already past its own check. The signal handlers are installed when `start` has returned
(`InstallsHandlers`): a signal before that ends the tool and leaves the child, which has a process
group of its own (`SignalledEarly`, the runner is `signalled`). `ChildErrors` is the child's `error`
event; that of a spawn without a pid finds no listener and ends the tool (`StartFails(TRUE)`).
Probes of the port, the age of a run and the way a child exits
are free. `MonitorLog` follows where a line is: an append has the file open under whatever name
it has moved to, a trim writes back some or all of the lines it read, and readers take the file away under a lock
that an invocation killed by its time limit leaves behind. Reading without `--reset` changes
nothing and is left out; `mixed` records that a trim put back what a reset had taken.

### `Files` — the map and the repository

A save puts its files in `generatedFilesMap` at once and stages them one await after the other,
so savers interleave per file; `resets` are calls of `reset`, each with the sync that it fires
and nobody awaits. A reset moves HEAD, checks out (`ResetChecksOut`, or throws half-way), lists the
files (`ResetLists`, or throws) and only then fires its sync. What a save compares a file with is
`Base`: the map's content, else the template's (`Template`), else the empty one; a file that comes
into the map with the content of its base is recorded and not staged. `excused` collects the paths whose map and index some cause drove apart; the
list of these causes, in the comment of `StateIsStaged`, is what the property says: there is no
other. The git library is modelled as it documents itself (add and commit are atomic; a commit
on a detached HEAD moves HEAD alone); nothing of it is in the repository.

### `ToolPlan` — parallel tool calls

`buildExecutionPlan` computes its groups before any call runs; since a group starts when the one
before has ended, `NextGroup`, the calls left whose dependencies are done, is the same group.
`ConflictsInOrder` does not repeat the code's conflict test: it reads the declarations as locks
(`Writes`, `Uses`) and a clash as two uses of which one writes. Calls are positions in the
batch; ids are assumed distinct (with two equal ids the planner's loop would not end).

## 4. Runs

| Run | Question | Bounds |
|---|---|---|
| `deployment` | who owns the promise, which session the client and instance are of, what a preview holds, how failures force sessions, in every interleaving | 2 calls, 3 attempts, reset after 2 failures, a pool of two containers: enough for a second loop beside one that was given up, for a session reset by count and by error, and for a late attempt overtaken by a newer one |
| `deployment_live` | every caller is answered; the refinement | 2 calls, 2 attempts, AI template (token awaited), one restart, a container per session |
| `generation` | phases, requests, bounds, reach of STOP; every generation ends | 2 messages, 2 phases, recharge 1, 2 clicks, 1 restart, a template that is or is not loaded after it: both orders of two turns and of any two buttons, a recharge at and below the limit |
| `request_planned` | *violated*: a request queued while the generation reviews or closes is never planned | 1 message, 1 click, nothing fails |
| `user` | what the two histories hold of each other, what compaction keeps and bounds; whose session of the vault is open, and under which key rows and session are | 4 turns of up to 4 messages, limits scaled down to 3 turns and 3 recent messages: one more turn than compaction needs, sequential or overlapping, with a tool call on either side of the split; a clear, a failed save and a restart, of which a behaviour has two (`TwoMishaps`). 2 tabs, 2 keys, 2 sockets, 1 row, 2 messages on a socket: a second vault after a reset, two tabs with a socket each or one with a late and a new one; at most one tab at a time whose status could not be fetched, before the first connection (`OneUnfetched`); no recovery code, whose refusal changes nothing else (`NoCodes`; they are tried in `recovery_codes`) |
| `history_truncated` | *violated*: a turn overwrites what was stored since it read | 2 turns, nothing fails |
| `recovery_codes` | *violated*: a recovery code opens the vault | 1 tab |
| `services` | the unlock dialogue; the rate limits; the SDK's sockets and messages; who reads the messages of the agentic behavior | 2 requests and 3 clients: one that still runs on a dropped client while its successor prompts; 9 ticks, buckets of 3, windows of 2 to 6, costs of 0 and 1.5 credits: windows that begin inside a bucket, more than one day, a cleanup at every tick, a limit that is passed by half a credit; 3 sockets, 2 retries, 2 messages and a queue of 1: an overflow, two reconnections, a listener's message that overtakes a queued one, a message lost on a dead socket; 2 messages and 2 builds: one that closes while the other starts |
| `one_build` | *violated*: one agentic build at a time | 1 message, 2 builds |
| `workspace` | children, orphans, the shutdown; log lines; map and index; the order of tool calls | 3 children, 2 restarts, a threshold of 2; 2 lines and 3 readers: a killed reader, one that takes over its lock and one in between; 1 file of 2 contents, one of them the template's, 2 savers, 2 resetters, three of them at once (`ThreeAtOnce`), 2 commits: paths are independent but for commits and resets; batches of up to 3 calls of 9 kinds |
| `stable_runs` | *violated*: a stable run gives a server its restarts back | as `workspace`, with 1 line and 1 reader |
| `reset_branch` | *violated*: a reset removes the later commits from the log | as `workspace` |

The turns of `user` are numbered in the order in which they begin (`InOrder`): no property or
action tells one name from another, so every behaviour is one of these but for names; the tabs
are under TLC's symmetry. In `workspace` children, readers and lines, and in `generation`
messages, begin in a fixed order for the same reason (`ChildrenInTurn`, `ReadersInTurn`,
`LinesInTurn`, `TurnsInTurn`; symmetry itself is not sound beside liveness).

Deadlock is not checked: a system without work left stops, and the bounds on clicks,
restarts, attempts, keys, sockets, children and commits stop it too.

**Fairness.** `Deployment`: timers fire and settled promises resume their awaiters (weak
fairness of the returns and timeouts only; nothing says that the sandbox ever answers).
`Generation`: whatever the machine awaits, the template included, answers or fails (inference has its own limits and
the sandbox calls have timeouts), and a turn that can end does. `CalmSpec` also says that no
plan and no implementation fails: it is used for the violated `request_planned`, so that its
counterexample is not a mere failure. `SecretsClient`: the store answers, a settled promise
resumes its waiters, and the unlock timer fires; no tab ever has to unlock. `Agentic`: what
a build awaits answers or fails (an attempt's inference is bounded by depth and time), and
`handleUserInput` goes on once it has queued; nothing is assumed of uploads, buttons or tools.
`ProcessMonitor`: the
event loop runs the continuations of `stop()` and the timers, the kill's own timer among them;
no child has to exit, not even when told to.

**Findings.** The six violated runs are places where comments, documentation or a text of the
product promise something else than the code does; each quotes both. Some further divergences
were met while modelling and have no run of their own:

* `executeDeploymentWithRetry` goes on after its caller got its answer at the master timeout,
  beside the loop of the next caller (`DeploymentManager.ts:400`, comments at 325 and 498).
* STOP between two inferences aborts nothing the state machine looks at; it goes on
  (`websocket.ts:132`, `src/docs/llm.md:1273`).
* A generation may begin during a deep debug, though not the reverse (`base.ts:483`,
  `src/docs/llm.md:1356`).
* Turns full of tool calls reach MAX_LLM_MESSAGES before anything triggers compaction
  (`inferutils/core.ts:617`, `src/docs/llm.md:1207`).
* In the agentic behavior the reminder to mark the completion is dead code: it asks for
  `!pendingUserInputs`, and an array is never falsy (`agentic.ts:352`).
* A call of a tool that does not exist rejects its batch, where the comment says "Warn and skip"
  (`toolExecution.ts:26` and 228), and what runs of its group runs on.

### What the properties exempt

Some properties name a case that the code does get wrong, or leaves open, as an exception. They then
say that there is no *other* way to fail; the case itself is in the model, is reached by the run, and
is not caught by it:

| Property | Exception | What happens in it |
|---|---|---|
| `SessionHasAHolder` | `GaveUp` | a ready that arrives after the tab's ten seconds opens a session nobody works with (`vault-context.tsx:187`) |
| `KeysAgree` | `resetUnder` | a reset while another tab holds a key: its later rows are under the old one (`user-secrets-store.ts:897`) |
| `LimitsHold` | `Covered` | a key with a short horizon cleans up what another's longer window still needs (`rate-limit-store.do.ts:72`) |
| `OneSocket` | `lateUrl` | `close()` during the await of the URL: a socket is opened afterwards and nobody closes it (`ws.ts:223`) |
| `HeardInOrder` | `ahead`, `lost` | a listener's message before the flush; a message on a dead socket (`ws.ts:86`, `ws.ts:242`) |
| `OrphansOnlyByRace` | `raced`, `signalled` | a restart past its check during a stop; a signal before the handlers (`process-monitor.ts:1038`, `cli-tools.ts:408`) |
| `RequestHasATaker` | `broken` | after a build that threw the queue waits for the next start (`base.ts:512`) |
| `GenerationTerminates` | `stuck` | the template cannot be fetched and the promise stays set (`base.ts:512`) |
| `StateIsStaged` | `excused` | the causes listed with it; among them a template's file that is regenerated unchanged, which is in the map and never staged (`FileManager.ts:139`), and a reset that throws after its checkout (`git.ts:327`) |
| `SameKnowledge` | a failed INSERT | one history is saved and the other is not (`codingAgent.ts:568`) |

Nor do the properties speak of an instance that a restart orphans (`DeploymentManager.ts:600`), of
STOP between two inferences (`StopReachesGeneration` is about one that runs), or of a conversation
that reaches MAX_LLM_MESSAGES before a compaction is triggered.

## 5. Proofs

`DeploymentProofs` (any sets of calls and attempts, any limits) proves `TypeOK`,
`LeaderOwnsPromise` and `ClientOfSession`. Typing alone is not inductive: an answer to a run
touches the loop of that run and the loop touches the call, so the invariant `Wired` adds that
a live run belongs to a loop that was started, that unless it is late its loop awaits exactly
it, and that a loop in progress belongs to its own call (`RunsWired`, `LoopsWired`).
`LeaderOwnsPromise` then follows for itself: only the leader sets the promise and only its
`finally` clears it.

The rest is proved from it, one invariant on top of the other, for any sets of calls and
attempts and any limits:

* `ResetClearsInstance` needs typing only; it is stated of steps, not of states.
* `PreviewServesRequest` follows from `Served`, which follows the file of a loop's caller: once it
  is stored, it is among the files that a run of the loop writes and in the instance that the run
  returns (`RunServed`), and in the one the loop has returned (`LoopServed`). An attempt creates
  its instance once, so that no later step replaces what was served.
* `SoundUntilTimeout` follows from `SessionInv`. As long as nothing timed out, a loop with work to
  do has its caller waiting, who holds the promise (`OneActiveLoop`), so that at most one run is
  under way; it creates in the current session (`CreatedInSession`), and so what is stored is of
  that session (`StoredInSession`).
* `FailuresForceSessions` follows from `FailuresCounted`: there were at least as
  many sessions as the failures of a loop call for (`LoopCounts`), and sessions only move forward.
  `Quotients` is the arithmetic.
* `DeploymentIsShared` is the refinement of `SharedDeployment`. `OnFlights` says that a call that
  waits is aboard a flight and one that has not asked aboard none; each action is then a step of the
  abstract specification or one that no caller sees (`Unseen`).

`GenerationProofs` proves `TypeOK`, `OneOpenPhase` and `RequestsPlannedOnce` from `IInv`, which
adds `HeldIsQueued`: whatever is pending, with the planner or in a phase was queued by its
turn, so that a turn that has not queued yet cannot duplicate it. `OneOpenPhase` is kept
because planning only happens in states with no incomplete phase and the machine implements
the very phase that is incomplete, over throws and restarts too, which leave the phase open
for `Launch` to find.

`ConversationProofs` proves `TypeOK`, `SameKnowledge` and `ToolsFollowTheirCalls` from an
invariant that says of every turn's snapshot what the properties say of the tables
(`TurnsSound`): what is saved is the snapshot, however old, so the snapshots must be sound for
the tables to stay so. It rests on lemmas about histories: what a concatenation knows
(`KnowsConcat`), that compaction keeps what a history knows wherever it splits
(`CompactedKnows`), and that a tail that begins with a user's message keeps its tool calls
(`TailFollows`). A failed INSERT ends `SameKnowledge` but not `ToolsFollowTheirCalls`; both
theorems say so.

Two more are about steps. `RecentMessagesAlwaysKept` needs only what a split is
(`IsTurnBoundary`: nothing at or after it is replaced, and enough messages come after it) and
what is stored of it (`CompactedShape`, `RecentInStored`). `CompactionAlwaysBoundsTurns` counts:
of the user's messages after the split, all but the first are among the last
PRESERVE_RECENT_MESSAGES - 1, or the split would be later (`FewTurns`), and of a stretch of
messages no more than every other one is the user's (`HalfAtMost`). The latter is a second invariant, `HistoriesAnswered`: in every history and snapshot
another message follows each of the user's, summaries and fallbacks included. It needs
PRESERVE_RECENT_MESSAGES to be at most 2 (MAX_TURNS - 1) (the code's are 10 and 40).

`ToolPlanProofs` proves typing, `ConflictsInOrder` and `NeverCircular`: a clash of uses is a
conflict of the declarations (`ConflictIsClash`), every conflict is an edge from the later call
to the earlier one, and a call starts only when its dependencies are done; the least call left
always qualifies.

`FilesProofs` proves typing and `StateIsStaged` from `FilesInv`: where map and index differ is
excused or still to be staged (`ApartIsExcused`), what a save has still to stage is what the map
holds unless the path is excused (`StagesTheMap`), and what a sync has read is what the index
holds but for what was touched since (`ReadsTheIndex`).

`ContainerProofs` proves typing, `OneChildInSystem` and `OrphansOnlyByRace`. The first needs
`OnePath`: a live child, a set timer, a due callback and a start under way exclude each other,
so that there is one path to the next child. The second needs `StopIsFinal`: when no restart
was under way, what the shutdown has passed stays so, and a live child at its end has been sent
SIGKILL.

It also proves the log's `LinesReadOnce`: a reader that holds a file has taken it away from
everybody else (`ReadersStartEmpty`, `OpenLogExists`), and a line that is not written yet is in no
file (`UnwrittenIsNowhere`).

`GenerationProofs` goes on with three more. `PhasesAlwaysBounded` needs a potential: `PhasesLeft`,
the phases that may still be planned before another message, computed from the counter, from
whether a phase is open or requests are pending, and from where the machine is. No step raises
the phases planned and left together, but for `QueueRequest`, by a recharge and one phase. It
needs `Recharge` to be at least 1 (the code's is 3, `phasic.ts:321`). `OnlyThePlannerLoses` is
stated of steps: from one state to the next a request leaves pending, planner and phases together
only if the planner had it. `StopAlwaysReaches` holds because whatever forgets the controller also
ends, in the same step, the inference of the machine.

`VaultProofs` proves typing, `KeysAgree` and `SessionHasAHolder`. The rows can only be kept
under the vault's key if whatever may still write them is: `KeysFollow` says of the session, the
rows, the keys that tabs hold and the messages that still travel that they carry the key of the
vault of the moment, unless a tab reset the vault while another held a key (`resetUnder`).
Messages on the wire have to be part of it, because what a tab believed when it sent them counts
when they arrive.

`SessionHasAHolder` needs more about the sockets (`HolderInv`): an init is the first message of
its socket (`InitLeads`); a socket that may still bring one, or whose ready is on its way, is the
one its tab is opening, unless it closes or was given up (`Opening`); and the socket a tab works
with is open and its own (`SocketOf`). A socket that was given up loses its mark when it closes,
so `Opening` must hold of the others even while the exception lasts. Most actions only add
messages or let a closing socket go, which `NothingTakenOver` treats once for all.

`ServicesProofs` proves `PromptsAreAwaited`, client by client, since a dropped client's requests
run on beside those of its successor; and `OneSocket`, from the invariant that a `close()`
during the await of a URL has been noted (`LateUrlNoted`) and that listeners only run while the
socket counts as open (`OpeningIsOpen`). `RequestHasATaker` is proved from
`PromiseIsKept`: while nothing broke, a set promise means that a build is going to read the
queue, and if there is nothing to do at the moment, that one is in its inference, after which it
looks again. So a message that finds the promise set is not left, however often several builds
set and clear it.

`HeardInOrder` is inductive with three more (`HeardIInv`): nothing waits while a socket is open and
past its flush, or after `close()` (`QueueRests`); what waits was said (`PendingSaid`); and once the session has sent its message on a socket that is
not dead, what was heard last was heard there (`SocketGreeted`), so that a flushed queue never comes
before it. `OneSocket` is needed for it: with a
second open socket the flush could overtake what was sent.

The rate limiter's two properties compare sums: of the counts in buckets, and of what was accepted
by tick. `LimitIInv` relates them bucket by bucket. A bucket counts no more than was accepted in
its ticks (`CountsAtMost`); and for every horizon that no key's cleanup undercuts, no less than was
accepted in those of its ticks that lie within it (`CountsAtLeast`). The latter survives a cleanup
because a bucket's timestamp is not before anything accepted in it (`Stamped`), so that one that
goes holds nothing within the horizon. Nothing is accepted later than now (`NothingLater`).
`CountsCoverWindow` and `CountsWithinWindow` then sum over the buckets of a window
(`TotalGroups`): they count what was accepted in it, and at most what was accepted in it and one
bucket more. The facts about sums (`TotalTake`, `TotalSplit`, `TotalMonotone`, `TotalGroups`...)
hold for all finite sets; an induction theorem cannot be instantiated here, so they come from a
smallest counterexample (`SmallestSet`), and that the fold the model uses is such a sum from
`FoldsAgree`: two functions with its recursion agree on every finite set.

**The compositions.** `UserIsItsParts`, `ServicesAreTheirParts` and `WorkspaceIsItsParts` say that a
behaviour of `MCUser`, `MCServices` or `MCWorkspace` is a behaviour of each of its components,
with their fairness where they have one. So whatever is proved of a component's specification
holds of the specification that the run checks, and their types (`UserTyped`, `ServicesTyped`,
`WorkspaceTyped`) follow from the components' own.

Assumptions are only the named ones on constants (`NoneAssumption`, `ResetAssumption`,
`CounterAssumption`, `CompactionAssumption`, `MonitorAssumption`, `FilesAssumption`,
`PlanAssumption`...), evaluated by TLC in every run.

Every invariant and action property of a passing run, and the refinement, is proved. Only
model-checked: liveness (`EveryCallReturns`, `GenerationTerminates`, `GetsEnd`, `RequestIsTaken`,
`ShutdownEnds`), since fairness and ENABLED are beyond this prover; and the six violated runs,
whose counterexamples are TLC's.

## 6. Not modelled

Parsers and formats (`agents/output-formats`), the code fixer, static analysis, prompts: data
transformation without concurrency. External services (Cloudflare, GitHub, containers, inference
providers, the git library) appear only by how the code uses them. The messages that an agentic
attempt adds to the conversation, and their compaction while its tools run (`agentic.ts:239`),
are in no module: `Conversation` has the turns of the phasic behavior. Tickets are one atomic
delete in memory. The KV rate limiter reads and writes without atomicity and is meant to be
approximate. The cache of static analyses, the images of requests and the clone of an agent are
left out of `Generation`. The scripts that set up and deploy the platform and the user interface
make up most of the repository's lines; they are sequences of external calls and rendering.
`PROJECT.json` gives each component its status and reason.
