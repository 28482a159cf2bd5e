-------------------------------- MODULE Agentic --------------------------------
(***************************************************************************)
(* The agentic behaviour of an agent (agents/core/behaviors/agentic.ts):   *)
(* messages are queued without an answer of their own, and build() makes   *)
(* one attempt after the other, each a long inference with tools, until    *)
(* the app is complete and no message is left.  generateAllFiles and       *)
(* buildWrapper of base.ts start it.  executeGeneration clears             *)
(* generationPromise after EVERY attempt, so a build may go on while       *)
(* nothing says that one is running.                                       *)
(*                                                                         *)
(* Of the abort signal of an attempt only this matters: whether STOP would *)
(* reach it ("current"), nothing can any more ("detached"), or it was      *)
(* reached ("aborted").                                                    *)
(***************************************************************************)
EXTENDS Naturals, FiniteSets

CONSTANTS
  Requests,  \* the user's messages
  Builds     \* bound: builds that may run at the same time

VARIABLES
  mvpGenerated,       \* state.mvpGenerated
  pendingUserInputs,  \* state.pendingUserInputs
  shouldBeGenerating, \* state.shouldBeGenerating
  generationPromise,  \* generationPromise is not null
  templateLoaded,     \* templateDetailsCache is not null
  builds,             \* the calls of buildWrapper
  inputs,             \* the calls of handleUserInput
  broken              \* history: since the last start a build failed or was cut off

agenticVars == <<mvpGenerated, pendingUserInputs, shouldBeGenerating, generationPromise,
                 templateLoaded, builds, inputs, broken>>

agentState == <<mvpGenerated, pendingUserInputs, shouldBeGenerating>>

BuildRecords == [pc : {"none", "starting", "looping", "attempt", "closing"},
                 signal : {"none", "current", "detached", "aborted"},
                 button : BOOLEAN] \* launched by GENERATE_ALL

AgenticTypeOK ==
  /\ mvpGenerated \in BOOLEAN
  /\ pendingUserInputs \subseteq Requests
  /\ shouldBeGenerating \in BOOLEAN
  /\ generationPromise \in BOOLEAN
  /\ templateLoaded \in BOOLEAN
  /\ builds \in [Builds -> BuildRecords]
  /\ inputs \in [Requests -> {"unsent", "uploading", "queued", "over"}]
  /\ broken \in BOOLEAN

NoBuild == [pc |-> "none", signal |-> "none", button |-> FALSE]

AgenticInit ==
  /\ mvpGenerated = FALSE
  /\ pendingUserInputs = {}
  /\ shouldBeGenerating = FALSE
  /\ generationPromise = FALSE
  /\ templateLoaded = TRUE
  /\ builds = [b \in Builds |-> NoBuild]
  /\ inputs = [r \in Requests |-> "unsent"]
  /\ broken = FALSE

-----------------------------------------------------------------------------
\* Mutant: a finished app is never worked on again.
NothingToDoOnceComplete == mvpGenerated

\* What generateAllFiles and the loop of build() ask.
NothingToDo == mvpGenerated /\ pendingUserInputs = {}

\* generateAllFiles, and buildWrapper down to its first await.
GenerateAllFiles(button) ==
  \/ /\ generationPromise \/ NothingToDo
     /\ UNCHANGED <<generationPromise, builds, broken>>
  \/ /\ ~generationPromise /\ ~NothingToDo
     /\ generationPromise' = TRUE
     /\ broken' = FALSE
     /\ \E b \in Builds :
          /\ builds[b].pc = "none"
          /\ builds' = [builds EXCEPT ![b] = [pc |-> "starting", signal |-> "none",
                                              button |-> button]]

\* The builds after the controller was forgotten (clearAbortController), and b at pc.
Cleared(b, pc) ==
  [c \in Builds |->
    IF c = b THEN [builds[b] EXCEPT !.pc = pc, !.signal = "none"]
    ELSE [builds[c] EXCEPT !.signal = IF @ = "current" THEN "detached" ELSE @]]

-----------------------------------------------------------------------------
(* A build.                                                                *)

\* ensureTemplateDetails of buildWrapper returns, from the cache or with a fetch.
BuildStarts(b) ==
  /\ builds[b].pc = "starting"
  /\ templateLoaded' = TRUE
  /\ builds' = [builds EXCEPT ![b].pc = "looping"]
  /\ UNCHANGED <<agentState, generationPromise, inputs, broken>>

\* It has nothing cached and throws.  It stands before the try of buildWrapper:
\* nothing clears generationPromise.
BuildCannotStart(b) ==
  /\ builds[b].pc = "starting" /\ ~templateLoaded
  /\ builds' = [builds EXCEPT ![b] = NoBuild]
  /\ broken' = TRUE
  /\ UNCHANGED <<agentState, generationPromise, templateLoaded, inputs>>

\* build() has work: executeGeneration takes the messages that are pending and gets
\* to its inference.
AttemptBegins(b) ==
  /\ builds[b].pc = "looping" /\ ~NothingToDo
  /\ templateLoaded
  /\ pendingUserInputs' = {}
  /\ builds' = [builds EXCEPT ![b].pc = "attempt", ![b].signal = "current"]
  /\ UNCHANGED <<mvpGenerated, shouldBeGenerating, generationPromise, templateLoaded, inputs,
                 broken>>

\* The same without template details: getOperationOptions throws after the messages
\* were taken.
AttemptCannotBegin(b) ==
  /\ builds[b].pc = "looping" /\ ~NothingToDo
  /\ ~templateLoaded
  /\ pendingUserInputs' = {}
  /\ builds' = Cleared(b, "closing")
  /\ generationPromise' = FALSE
  /\ broken' = TRUE
  /\ UNCHANGED <<mvpGenerated, shouldBeGenerating, templateLoaded, inputs>>

\* The tool mark_generation_complete.
MarkComplete(b) ==
  /\ builds[b].pc = "attempt"
  /\ mvpGenerated' = TRUE
  /\ UNCHANGED <<pendingUserInputs, shouldBeGenerating, generationPromise, templateLoaded,
                 builds, inputs, broken>>

\* The tool init_suitable_template: importTemplate empties the cache before the
\* fetch that fills it.
ImportTemplate(b) ==
  /\ builds[b].pc = "attempt"
  /\ templateLoaded' \in BOOLEAN
  /\ UNCHANGED <<agentState, generationPromise, builds, inputs, broken>>

\* Mutant: only buildWrapper clears generationPromise.
AttemptEndsHolding(b) ==
  /\ builds[b].pc = "attempt"
  /\ builds' = Cleared(b, "looping")
  /\ UNCHANGED <<agentState, generationPromise, templateLoaded, inputs, broken>>

\* The inference is over: complete, out of answers, at its depth limit, or cut short
\* by the AbortError of a tool that found a message in the queue.
AttemptEnds(b) ==
  /\ builds[b].pc = "attempt"
  /\ builds' = Cleared(b, "looping")
  /\ generationPromise' = FALSE
  /\ UNCHANGED <<agentState, templateLoaded, inputs, broken>>

\* It throws: a stop, a rate limit, too many messages.  build() throws too.
AttemptFails(b) ==
  /\ builds[b].pc = "attempt"
  /\ builds' = Cleared(b, "closing")
  /\ generationPromise' = FALSE
  /\ broken' = TRUE
  /\ UNCHANGED <<agentState, templateLoaded, inputs>>

\* build() returns, and buildWrapper awaits updateApp.
LoopEnds(b) ==
  /\ builds[b].pc = "looping" /\ NothingToDo
  /\ builds' = Cleared(b, "closing")
  /\ UNCHANGED <<agentState, generationPromise, templateLoaded, inputs, broken>>

\* updateApp answers; GENERATE_ALL then clears shouldBeGenerating.
BuildEnds(b) ==
  /\ builds[b].pc = "closing"
  /\ builds' = [builds EXCEPT ![b] = NoBuild]
  /\ generationPromise' = FALSE
  /\ shouldBeGenerating' = (shouldBeGenerating /\ ~builds[b].button)
  /\ UNCHANGED <<mvpGenerated, pendingUserInputs, templateLoaded, inputs, broken>>

-----------------------------------------------------------------------------
(* The user.                                                               *)

\* handleUserInput, down to the upload of the images.
InputArrives(r) ==
  /\ inputs[r] = "unsent"
  /\ inputs' = [inputs EXCEPT ![r] = "uploading"]
  /\ UNCHANGED <<agentState, generationPromise, templateLoaded, builds, broken>>

\* queueUserRequest.
QueueUserRequest(r) ==
  /\ inputs[r] = "uploading"
  /\ inputs' = [inputs EXCEPT ![r] = "queued"]
  /\ pendingUserInputs' = pendingUserInputs \cup {r}
  /\ UNCHANGED <<mvpGenerated, shouldBeGenerating, generationPromise, templateLoaded, builds,
                 broken>>

\* An upload throws: the message is gone.
UploadFails(r) ==
  /\ inputs[r] = "uploading"
  /\ inputs' = [inputs EXCEPT ![r] = "over"]
  /\ UNCHANGED <<agentState, generationPromise, templateLoaded, builds, broken>>

\* handleUserInput of the agent, after that of the behaviour: generate when idle.
InputEnds(r) ==
  /\ inputs[r] = "queued"
  /\ inputs' = [inputs EXCEPT ![r] = "over"]
  /\ GenerateAllFiles(FALSE)
  /\ UNCHANGED <<agentState, templateLoaded>>

\* GENERATE_ALL.
GenerateAll ==
  /\ shouldBeGenerating' = (generationPromise \/ ~NothingToDo)
  /\ GenerateAllFiles(TRUE)
  /\ UNCHANGED <<mvpGenerated, pendingUserInputs, templateLoaded, inputs>>

\* RESUME_GENERATION.
ResumeGeneration ==
  /\ shouldBeGenerating' = TRUE
  /\ GenerateAllFiles(FALSE)
  /\ UNCHANGED <<mvpGenerated, pendingUserInputs, templateLoaded, inputs>>

\* STOP_GENERATION: cancelCurrentInference aborts the controller of the moment.
StopGeneration ==
  /\ shouldBeGenerating' = FALSE
  /\ builds' = [b \in Builds |->
       [builds[b] EXCEPT !.signal = IF @ = "current" THEN "aborted" ELSE @]]
  /\ UNCHANGED <<mvpGenerated, pendingUserInputs, generationPromise, templateLoaded, inputs,
                 broken>>

\* The durable object is evicted and started again: only the state survives.
AgentStartsAgain ==
  /\ generationPromise' = FALSE
  /\ templateLoaded' = TRUE
  /\ builds' = [b \in Builds |-> NoBuild]
  /\ inputs' = [r \in Requests |-> IF inputs[r] = "unsent" THEN "unsent" ELSE "over"]
  /\ broken' = TRUE
  /\ UNCHANGED agentState

-----------------------------------------------------------------------------
\* What a build does next.
BuildGoesOn(b) ==
  \/ BuildStarts(b) \/ BuildCannotStart(b)
  \/ AttemptBegins(b) \/ AttemptCannotBegin(b)
  \/ AttemptEnds(b) \/ AttemptFails(b)
  \/ LoopEnds(b) \/ BuildEnds(b)

InputGoesOn(r) == InputArrives(r) \/ QueueUserRequest(r) \/ UploadFails(r) \/ InputEnds(r)

AgenticNext ==
  \/ \E b \in Builds : BuildGoesOn(b) \/ MarkComplete(b) \/ ImportTemplate(b)
  \/ \E r \in Requests : InputGoesOn(r)
  \/ GenerateAll \/ ResumeGeneration \/ StopGeneration
  \/ AgentStartsAgain

AgenticSpec == AgenticInit /\ [][AgenticNext]_agenticVars

\* Whatever a build awaits answers, and handleUserInput goes on after it has queued.
AgenticFairness ==
  /\ \A b \in Builds : WF_agenticVars(BuildGoesOn(b))
  /\ \A r \in Requests : WF_agenticVars(InputEnds(r))

-----------------------------------------------------------------------------
(* Properties.                                                             *)

\* A build that is still going to read the queue.
WillRead(b) == builds[b].pc \in {"starting", "looping", "attempt"}

\* "just queue messages ... Messages will be injected into conversation": a message
\* never waits with nobody to read it.  While one is pending, and no build failed or
\* was cut off since the last start, a build is still going to read the queue or
\* handleUserInput is about to look whether it must start one: although the promise
\* it looks at is set, cleared and set again by several builds, and a build that is
\* past its last look at the queue may still hold it.
RequestHasATaker ==
  pendingUserInputs # {} /\ ~broken =>
    \/ \E b \in Builds : WillRead(b)
    \/ \E r \in Requests : inputs[r] = "queued"

\* And it is read, unless a build fails or is cut off before.
RequestIsTaken ==
  \A r \in Requests :
    (r \in pendingUserInputs /\ ~broken) ~> (r \notin pendingUserInputs \/ broken)

\* "Check if generation is already active to avoid duplicate processes": no two
\* builds work at the same time.
OneBuild == \A b, c \in Builds : WillRead(b) /\ WillRead(c) => b = c
=============================================================================
