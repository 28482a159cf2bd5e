------------------------------ MODULE Generation ------------------------------
(***************************************************************************)
(* The phasic code generation of one agent: generateAllFiles and           *)
(* buildWrapper (agents/core/behaviors/base.ts), the state machine they    *)
(* launch (agents/core/behaviors/phasic.ts), the user messages that queue  *)
(* requests, debug, and start a generation when they find none running     *)
(* (agents/core/codingAgent.ts), and the buttons of the connections        *)
(* (agents/core/websocket.ts).  Code between two awaits is one action.     *)
(*                                                                         *)
(* A message, its turn of conversation and the request it may queue share  *)
(* one identity, a member of Inputs.  An inference holds an abort signal,  *)
(* of which only this matters: whether STOP would still reach it           *)
(* ("current"), nothing can reach it any more ("detached"), or it was      *)
(* reached ("aborted").                                                    *)
(***************************************************************************)
EXTENDS Integers, Sequences, FiniteSets

CONSTANTS
    Inputs,        \* the user's messages
    MaxPhases,     \* MAX_PHASES
    Recharge,      \* what queueUserRequest recharges phasesCounter to
    MaxClicks,     \* bound on GENERATE_ALL, STOP_GENERATION, RESUME_GENERATION
    MaxRestarts    \* bound on restarts of the durable object

ASSUME CounterAssumption == MaxPhases \in Nat \ {0} /\ Recharge \in 1..MaxPhases
ASSUME BoundAssumption == MaxClicks \in Nat /\ MaxRestarts \in Nat

VARIABLES
    shouldBeGenerating, mvpGenerated, reviewingInitiated, \* the state's flags
    pendingUserInputs,  \* state.pendingUserInputs
    generatedPhases,    \* state.generatedPhases: completed or not, and from which requests
    phasesCounter,      \* state.phasesCounter
    templateLoaded,     \* templateDetailsCache is there
    machine,            \* the state machine behind generationPromise
    chat,               \* the turns of handleUserInput
    clicks, restarts    \* so far

flags == <<shouldBeGenerating, mvpGenerated, reviewingInitiated>>
vars == <<flags, pendingUserInputs, generatedPhases, phasesCounter, templateLoaded,
          machine, chat, clicks, restarts>>

Signals == {"none", "current", "detached", "aborted"}
Implementing == {"preparing", "implementing", "deploying"}
Inferring == {"planning", "implementing"}

Phases == [completed : BOOLEAN, suggestions : SUBSET Inputs]
Machines == [pc : {"none", "starting", "stuck", "issues", "reviewing", "closing"} \cup Inferring \cup Implementing,
             phase : Nat,                    \* the one it implements
             suggestions : SUBSET Inputs,    \* the ones it is planning with
             final : BOOLEAN,                \* called by executeFinalizing
             signal : Signals,
             button : BOOLEAN]               \* launched by GENERATE_ALL
Turns == [pc : {"unsent", "thinking", "waiting", "answered", "gone"},
          queued : BOOLEAN,
          signal : Signals,
          debug : {"none", "over"} \cup (Signals \ {"none"})]

TypeOK ==
    /\ shouldBeGenerating \in BOOLEAN
    /\ mvpGenerated \in BOOLEAN
    /\ reviewingInitiated \in BOOLEAN
    /\ pendingUserInputs \subseteq Inputs
    /\ generatedPhases \in Seq(Phases)
    /\ phasesCounter \in Int /\ phasesCounter <= MaxPhases
    /\ templateLoaded \in BOOLEAN
    /\ machine \in Machines
    /\ chat \in [Inputs -> Turns]
    /\ clicks \in Nat
    /\ restarts \in Nat

NoMachine == [pc |-> "none", phase |-> 0, suggestions |-> {}, final |-> FALSE,
              signal |-> "none", button |-> FALSE]
NoTurn == [pc |-> "unsent", queued |-> FALSE, signal |-> "none", debug |-> "none"]

Init ==
    /\ shouldBeGenerating = FALSE
    /\ mvpGenerated = FALSE
    /\ reviewingInitiated = FALSE
    /\ pendingUserInputs = {}
    /\ generatedPhases = <<>>
    /\ phasesCounter = MaxPhases
    /\ templateLoaded = TRUE
    /\ machine = NoMachine
    /\ chat = [i \in Inputs |-> NoTurn]
    /\ clicks = 0
    /\ restarts = 0

-----------------------------------------------------------------------------
isCodeGenerating == machine.pc # "none"
isDeepDebugging == \E i \in Inputs : chat[i].debug \in Signals \ {"none"}
NothingToDo == mvpGenerated /\ pendingUserInputs = {}
Incomplete == {k \in DOMAIN generatedPhases : ~generatedPhases[k].completed}

NewPhase(suggestions) == [completed |-> FALSE, suggestions |-> suggestions]

\* generateAllFiles, and buildWrapper down to its first await, of ensureTemplateDetails.
Launch(button) ==
    /\ ~isCodeGenerating
    /\ ~NothingToDo
    /\ machine' = [NoMachine EXCEPT !.pc = "starting", !.button = button]

GenerateAllFiles(button) ==
    \/ Launch(button)
    \/ /\ isCodeGenerating \/ NothingToDo
       /\ UNCHANGED machine

\* The same generation in another state, with no inference.
At(pc) == [NoMachine EXCEPT !.pc = pc, !.button = machine.button]

\* What becomes of the inferences in progress: of signal s when the controller is
\* forgotten, and when it is aborted.
Detached(s) == IF s = "current" THEN "detached" ELSE s
Aborted(s) == IF s = "current" THEN "aborted" ELSE s

\* The state machine is IDLE: build() returns, clearAbortController, and the
\* status of the app is updated while generationPromise is still there.
Idle ==
    /\ machine' = At("closing")
    /\ chat' = [i \in Inputs |-> [chat[i] EXCEPT !.signal = Detached(@), !.debug = Detached(@)]]

\* executeReviewCycle down to its await.
Review ==
    /\ reviewingInitiated' = TRUE
    /\ IF reviewingInitiated
       THEN Idle
       ELSE /\ machine' = At("reviewing")
            /\ UNCHANGED chat

\* executeFinalizing: the first time it only sets mvpGenerated, later it plans and
\* implements one more phase.
Finalize ==
    /\ mvpGenerated' = TRUE
    /\ IF mvpGenerated
       THEN /\ machine' = [At("issues") EXCEPT !.final = TRUE]
            /\ UNCHANGED <<reviewingInitiated, chat>>
       ELSE Review

\* A throw in executePhaseGeneration or executePhaseImplementation: a rate limit
\* ends the machine, another error makes it IDLE or, in executeFinalizing, is over.
Fail ==
    \/ Idle /\ UNCHANGED reviewingInitiated
    \/ machine.final /\ Review

-----------------------------------------------------------------------------
\* The template is there, from the cache or fetched: launchStateMachine down to its
\* first await goes on with the last incomplete phase, plans the next one, or begins
\* with the first one of the blueprint.
MachineStarts ==
    /\ machine.pc = "starting"
    /\ templateLoaded' = TRUE
    /\ \/ \E k \in Incomplete :
             /\ \A j \in Incomplete : j <= k
             /\ machine' = [At("preparing") EXCEPT !.phase = k]
             /\ UNCHANGED generatedPhases
       \/ /\ Incomplete = {} /\ generatedPhases # <<>>
          /\ machine' = At("issues")
          /\ UNCHANGED generatedPhases
       \/ /\ generatedPhases = <<>>
          /\ machine' = [At("preparing") EXCEPT !.phase = 1]
          /\ generatedPhases' = <<NewPhase({})>>
    /\ UNCHANGED <<flags, pendingUserInputs, phasesCounter, chat, clicks, restarts>>

\* It cannot be fetched: ensureTemplateDetails throws before the try of buildWrapper,
\* whose finally would have cleared generationPromise.
TemplateMissing ==
    /\ machine.pc = "starting" /\ ~templateLoaded
    /\ machine' = At("stuck")
    /\ UNCHANGED <<flags, pendingUserInputs, generatedPhases, phasesCounter, templateLoaded,
                   chat, clicks, restarts>>

\* Mutant: the requests stay pending while they are planned.
IssuesFetchedKeeping ==
    /\ machine.pc = "issues"
    /\ machine' = [machine EXCEPT !.pc = "planning", !.suggestions = pendingUserInputs,
                                  !.signal = "current"]
    /\ UNCHANGED <<flags, pendingUserInputs, generatedPhases, phasesCounter, chat, clicks,
                   restarts, templateLoaded>>

\* executePhaseGeneration: fetchAllIssues answers, fetchPendingUserRequests takes
\* the requests out of the state, and the inference of generateNextPhase begins.
IssuesFetched ==
    /\ machine.pc = "issues"
    /\ machine' = [machine EXCEPT !.pc = "planning", !.suggestions = pendingUserInputs,
                                  !.signal = "current"]
    /\ pendingUserInputs' = {}
    /\ UNCHANGED <<flags, generatedPhases, phasesCounter, chat, clicks, restarts,
                   templateLoaded>>

\* generateNextPhase has a phase with files: it is the next one to implement.
PhasePlanned ==
    /\ machine.pc = "planning"
    /\ generatedPhases' = Append(generatedPhases, NewPhase(machine.suggestions))
    /\ machine' = [machine EXCEPT !.pc = "preparing", !.suggestions = {}, !.signal = "none",
                                  !.phase = Len(generatedPhases) + 1]
    /\ UNCHANGED <<flags, pendingUserInputs, phasesCounter, chat, clicks, restarts,
                   templateLoaded>>

\* Mutant: a planner without files is asked again.
NothingPlannedAgain ==
    /\ machine.pc = "planning"
    /\ machine' = [machine EXCEPT !.pc = "issues", !.suggestions = {}, !.signal = "none"]
    /\ UNCHANGED <<flags, chat, pendingUserInputs, generatedPhases, phasesCounter, clicks,
                   restarts, templateLoaded>>

\* It has no files, or every retry of the inference failed: no more phases.
NothingPlanned ==
    /\ machine.pc = "planning"
    /\ IF machine.final THEN Review /\ UNCHANGED mvpGenerated ELSE Finalize
    /\ UNCHANGED <<shouldBeGenerating, pendingUserInputs, generatedPhases, phasesCounter,
                   clicks, restarts, templateLoaded>>

\* The inference of the plan throws: a stop, a rate limit.
PlanningFails ==
    /\ machine.pc = "planning"
    /\ Fail
    /\ UNCHANGED <<shouldBeGenerating, mvpGenerated, pendingUserInputs, generatedPhases,
                   phasesCounter, clicks, restarts, templateLoaded>>

\* executePhaseImplementation: fetchAllIssues answers, the inference begins.
ImplementationStarts ==
    /\ machine.pc = "preparing"
    /\ machine' = [machine EXCEPT !.pc = "implementing", !.signal = "current"]
    /\ UNCHANGED <<flags, pendingUserInputs, generatedPhases, phasesCounter, chat, clicks,
                   restarts, templateLoaded>>

\* The inference of implementPhase is over, as a whole or cut off in the middle of
\* its stream; files are saved, commands run, the sandbox deployed.
FilesGenerated ==
    /\ machine.pc = "implementing"
    /\ machine' = [machine EXCEPT !.pc = "deploying", !.signal = "none"]
    /\ UNCHANGED <<flags, pendingUserInputs, generatedPhases, phasesCounter, chat, clicks,
                   restarts, templateLoaded>>

\* Something in implementPhase throws: the phase stays incomplete.
ImplementationFails ==
    /\ machine.pc \in {"implementing", "deploying"}
    /\ Fail
    /\ UNCHANGED <<shouldBeGenerating, mvpGenerated, pendingUserInputs, generatedPhases,
                   phasesCounter, clicks, restarts, templateLoaded>>

\* Mutant: markPhaseComplete is forgotten.
PhaseImplementedUnmarked ==
    /\ machine.pc = "deploying"
    /\ phasesCounter' = phasesCounter - 1
    /\ \/ machine.final /\ Review /\ UNCHANGED mvpGenerated
       \/ ~machine.final /\ pendingUserInputs = {} /\ Finalize
       \/ /\ ~machine.final
          /\ phasesCounter' > 0 \/ pendingUserInputs # {}
          /\ machine' = At("issues")
          /\ UNCHANGED <<mvpGenerated, reviewingInitiated, chat>>
    /\ UNCHANGED <<shouldBeGenerating, pendingUserInputs, generatedPhases, clicks, restarts,
                   templateLoaded>>

\* Mutant: phasesCounter is not counted down.
PhaseImplementedUncounted ==
    /\ machine.pc = "deploying"
    /\ generatedPhases' = [generatedPhases EXCEPT ![machine.phase].completed = TRUE]
    /\ \/ machine.final /\ Review /\ UNCHANGED mvpGenerated
       \/ ~machine.final /\ pendingUserInputs = {} /\ Finalize
       \/ /\ ~machine.final
          /\ machine' = At("issues")
          /\ UNCHANGED <<mvpGenerated, reviewingInitiated, chat>>
    /\ UNCHANGED <<shouldBeGenerating, pendingUserInputs, phasesCounter, clicks, restarts,
                   templateLoaded>>

\* implementPhase returns and has marked its phase complete. The last phase, or
\* the last one the counter allows, finalizes unless requests are pending.
PhaseImplemented ==
    /\ machine.pc = "deploying"
    /\ generatedPhases' = [generatedPhases EXCEPT ![machine.phase].completed = TRUE]
    /\ phasesCounter' = phasesCounter - 1
    /\ \/ machine.final /\ Review /\ UNCHANGED mvpGenerated
       \/ ~machine.final /\ pendingUserInputs = {} /\ Finalize
       \/ /\ ~machine.final
          /\ phasesCounter' > 0 \/ pendingUserInputs # {}
          /\ machine' = At("issues")
          /\ UNCHANGED <<mvpGenerated, reviewingInitiated, chat>>
    /\ UNCHANGED <<shouldBeGenerating, pendingUserInputs, clicks, restarts, templateLoaded>>

\* executeReviewCycle has its issues and has told the user.
ReviewEnds ==
    /\ machine.pc = "reviewing"
    /\ Idle
    /\ UNCHANGED <<flags, pendingUserInputs, generatedPhases, phasesCounter, clicks,
                   restarts, templateLoaded>>

\* updateApp answers: generationPromise is cleared. Only GENERATE_ALL then clears
\* shouldBeGenerating.
GenerationEnds ==
    /\ machine.pc = "closing"
    /\ machine' = NoMachine
    /\ shouldBeGenerating' = (shouldBeGenerating /\ ~machine.button)
    /\ UNCHANGED <<mvpGenerated, reviewingInitiated, pendingUserInputs, generatedPhases,
                   phasesCounter, chat, clicks, restarts, templateLoaded>>

-----------------------------------------------------------------------------
\* handleUserInput has awaited the template and gets to its inference.
ChatStarts(i) ==
    /\ chat[i].pc = "unsent"
    /\ chat' = [chat EXCEPT ![i] = [@ EXCEPT !.pc = "thinking", !.signal = "current"]]
    /\ templateLoaded' = TRUE
    /\ UNCHANGED <<flags, pendingUserInputs, generatedPhases, phasesCounter, machine,
                   clicks, restarts>>

\* Mutant: the list is written as it was read before the conversation.
QueueRequestAlone(i) ==
    /\ chat[i].pc = "thinking" /\ ~chat[i].queued
    /\ chat' = [chat EXCEPT ![i].queued = TRUE]
    /\ pendingUserInputs' = {i}
    /\ phasesCounter' = IF phasesCounter <= Recharge THEN Recharge ELSE phasesCounter
    /\ UNCHANGED <<flags, generatedPhases, machine, clicks, restarts, templateLoaded>>

\* Mutant: a request adds to the counter instead of filling it up.
QueueRequestAdding(i) ==
    /\ chat[i].pc = "thinking" /\ ~chat[i].queued
    /\ chat' = [chat EXCEPT ![i].queued = TRUE]
    /\ pendingUserInputs' = pendingUserInputs \cup {i}
    /\ phasesCounter' = phasesCounter + Recharge
    /\ UNCHANGED <<flags, generatedPhases, machine, clicks, restarts, templateLoaded>>

\* The tool queue_request: recharge the counter, append the request.
QueueRequest(i) ==
    /\ chat[i].pc = "thinking" /\ ~chat[i].queued
    /\ chat' = [chat EXCEPT ![i].queued = TRUE]
    /\ pendingUserInputs' = pendingUserInputs \cup {i}
    /\ phasesCounter' = IF phasesCounter <= Recharge THEN Recharge ELSE phasesCounter
    /\ UNCHANGED <<flags, generatedPhases, machine, clicks, restarts, templateLoaded>>

\* The tool deep_debug, once a turn: refused during a generation or another debug.
DebugStarts(i) ==
    /\ chat[i].pc = "thinking" /\ chat[i].debug = "none"
    /\ ~isCodeGenerating
    /\ ~isDeepDebugging
    /\ chat' = [chat EXCEPT ![i].debug = "current"]
    /\ UNCHANGED <<flags, pendingUserInputs, generatedPhases, phasesCounter, machine,
                   clicks, restarts, templateLoaded>>

DebugEnds(i) ==
    /\ chat[i].debug \in Signals \ {"none"}
    /\ chat' = [chat EXCEPT ![i].debug = "over"]
    /\ UNCHANGED <<flags, pendingUserInputs, generatedPhases, phasesCounter, machine,
                   clicks, restarts, templateLoaded>>

\* The tool wait_for_generation: wait for generationPromise, if it is there.  That of
\* a generation that is stuck has been rejected, which ends the wait too.
WaitStarts(i) ==
    /\ chat[i].pc = "thinking" /\ chat[i].debug \in {"none", "over"}
    /\ isCodeGenerating
    /\ chat' = [chat EXCEPT ![i].pc = "waiting"]
    /\ UNCHANGED <<flags, pendingUserInputs, generatedPhases, phasesCounter, machine,
                   clicks, restarts, templateLoaded>>

WaitEnds(i) ==
    /\ chat[i].pc = "waiting"
    /\ ~isCodeGenerating \/ machine.pc = "stuck"
    /\ chat' = [chat EXCEPT ![i].pc = "thinking"]
    /\ UNCHANGED <<flags, pendingUserInputs, generatedPhases, phasesCounter, machine,
                   clicks, restarts, templateLoaded>>

Ended(i, how) == [NoTurn EXCEPT !.pc = how, !.queued = chat[i].queued]

\* Mutant: the turn clears the abort controller when it is over.
ChatEndsClearing(i) ==
    /\ chat[i].pc = "thinking" /\ chat[i].debug \in {"none", "over"}
    /\ chat' = [chat EXCEPT ![i] = Ended(i, "answered")]
    /\ IF isCodeGenerating
       THEN machine' = [machine EXCEPT !.signal = Detached(@)]
       ELSE GenerateAllFiles(FALSE)
    /\ UNCHANGED <<flags, pendingUserInputs, generatedPhases, phasesCounter, clicks, restarts,
                   templateLoaded>>

\* The turn is over, of itself or aborted: generate, if nothing is generating.
ChatEnds(i) ==
    /\ chat[i].pc = "thinking" /\ chat[i].debug \in {"none", "over"}
    /\ chat' = [chat EXCEPT ![i] = Ended(i, "answered")]
    /\ GenerateAllFiles(FALSE)
    /\ UNCHANGED <<flags, pendingUserInputs, generatedPhases, phasesCounter, clicks, restarts,
                   templateLoaded>>

\* The turn throws.
ChatFails(i) ==
    /\ chat[i].pc = "thinking" /\ chat[i].debug \in {"none", "over"}
    /\ chat' = [chat EXCEPT ![i] = Ended(i, "gone")]
    /\ UNCHANGED <<flags, pendingUserInputs, generatedPhases, phasesCounter, machine,
                   clicks, restarts, templateLoaded>>

-----------------------------------------------------------------------------
Click == clicks < MaxClicks /\ clicks' = clicks + 1

\* GENERATE_ALL.
Generate ==
    /\ Click
    /\ shouldBeGenerating' = (isCodeGenerating \/ ~NothingToDo)
    /\ GenerateAllFiles(TRUE)
    /\ UNCHANGED <<mvpGenerated, reviewingInitiated, pendingUserInputs, generatedPhases,
                   phasesCounter, chat, restarts, templateLoaded>>

\* RESUME_GENERATION.
Resume ==
    /\ Click
    /\ shouldBeGenerating' = TRUE
    /\ GenerateAllFiles(FALSE)
    /\ UNCHANGED <<mvpGenerated, reviewingInitiated, pendingUserInputs, generatedPhases,
                   phasesCounter, chat, restarts, templateLoaded>>

\* STOP_GENERATION: cancelCurrentInference aborts the controller of the moment.
Stop ==
    /\ Click
    /\ shouldBeGenerating' = FALSE
    /\ machine' = [machine EXCEPT !.signal = Aborted(@)]
    /\ chat' = [i \in Inputs |-> [chat[i] EXCEPT !.signal = Aborted(@), !.debug = Aborted(@)]]
    /\ UNCHANGED <<mvpGenerated, reviewingInitiated, pendingUserInputs, generatedPhases,
                   phasesCounter, restarts, templateLoaded>>

\* The durable object is evicted and started again: only the state survives.  onStart
\* loads the template, but not in read-only mode.
Restart ==
    /\ restarts < MaxRestarts
    /\ restarts' = restarts + 1
    /\ machine' = NoMachine
    /\ chat' = [i \in Inputs |->
                  IF chat[i].pc \in {"thinking", "waiting"}
                  THEN Ended(i, "gone")
                  ELSE chat[i]]
    /\ templateLoaded' \in BOOLEAN
    /\ UNCHANGED <<flags, pendingUserInputs, generatedPhases, phasesCounter, clicks>>

Work ==
    \/ MachineStarts \/ TemplateMissing \/ IssuesFetched \/ PhasePlanned \/ NothingPlanned \/ PlanningFails
    \/ ImplementationStarts \/ FilesGenerated \/ ImplementationFails \/ PhaseImplemented
    \/ ReviewEnds \/ GenerationEnds

Converse(i) ==
    \/ ChatStarts(i) \/ QueueRequest(i) \/ DebugStarts(i) \/ DebugEnds(i)
    \/ WaitStarts(i) \/ WaitEnds(i) \/ ChatEnds(i) \/ ChatFails(i)

Next ==
    \/ Work
    \/ \E i \in Inputs : Converse(i)
    \/ Generate \/ Resume \/ Stop
    \/ Restart

Spec == Init /\ [][Next]_vars
\* Whatever the generation awaits answers: an inference, the sandbox, the database.
FairSpec == Spec /\ WF_vars(Work) /\ \A i \in Inputs : WF_vars(ChatEnds(i))
\* The same when no template is missing, and no plan and no implementation throws.
CalmSpec ==
    /\ Init /\ [][Next /\ ~TemplateMissing /\ ~PlanningFails /\ ~ImplementationFails]_vars
    /\ WF_vars(Work) /\ \A i \in Inputs : WF_vars(ChatEnds(i))
-----------------------------------------------------------------------------
(* Properties *)

\* A phase is planned only when every earlier one is complete, and the one that is
\* being implemented is the one that is not: over stops, failures, restarts and
\* resumes no phase is left out and no two are open.
OneOpenPhase ==
    /\ \A j, k \in Incomplete : j = k
    /\ machine.pc \in Implementing => Incomplete = {machine.phase}
    /\ machine.pc \in {"issues", "planning"} => Incomplete = {}

\* Where a request is: pending, with the planner, or part of a phase.
Planner == IF machine.pc = "planning" THEN machine.suggestions ELSE {}
Held == pendingUserInputs \cup Planner
        \cup UNION {generatedPhases[k].suggestions : k \in DOMAIN generatedPhases}

\* No request is planned twice, however messages, stops and restarts interleave.
RequestsPlannedOnce ==
    /\ pendingUserInputs \cap Planner = {}
    /\ \A k \in DOMAIN generatedPhases :
          /\ generatedPhases[k].suggestions \cap (pendingUserInputs \cup Planner) = {}
          /\ \A j \in DOMAIN generatedPhases :
                j # k => generatedPhases[j].suggestions \cap generatedPhases[k].suggestions = {}

\* A request is lost only by the planner it was given to: by no other message that
\* is queued meanwhile, no stop, no failed implementation and no restart elsewhere.
LostOnlyByPlanner == [][Held \ Planner \subseteq Held']_vars

\* "Prevents infinite generation loops": without further requests a generation
\* plans no more phases than the counter started with, and each request adds no
\* more than its recharge and one final phase.
PhasesBounded ==
    Len(generatedPhases) <=
        MaxPhases + (Recharge + 1) * Cardinality({i \in Inputs : chat[i].queued})

\* STOP_GENERATION reaches the inference of the generation, whichever turns of
\* conversation share its abort controller.
StopReachesGeneration == machine.pc \in Inferring => machine.signal # "detached"

\* Every generation ends, but one whose template cannot be fetched: its promise is
\* never cleared, so no other one starts before the next restart.
GenerationTerminates == isCodeGenerating ~> ~isCodeGenerating \/ machine.pc = "stuck"

\* "Queue up modification requests or changes, to be implemented in the next
\* development phase": a request does not stay pending for ever after a turn that
\* ended without an error (in CalmSpec: when no generation fails either).
QueuedRequestIsPlanned ==
    \A i \in Inputs : i \in pendingUserInputs /\ chat[i].pc = "answered"
                       ~> i \notin pendingUserInputs
=============================================================================
