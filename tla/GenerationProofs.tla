-------------------------- MODULE GenerationProofs --------------------------
(* Proofs about Generation, for all sets of messages, limits and bounds. *)
EXTENDS Generation, FiniteSetTheorems, TLAPS

-----------------------------------------------------------------------------
(* The records of the state machine and of the turns *)

LEMMA AtType ==
    ASSUME TypeOK, NEW pc \in {"stuck", "issues", "reviewing", "closing"}
    PROVE  /\ At(pc) \in Machines
           /\ At(pc).pc = pc
           /\ [At(pc) EXCEPT !.final = TRUE] \in Machines
           /\ [At(pc) EXCEPT !.final = TRUE].pc = pc
BY DEF At, NoMachine, TypeOK, Machines, Signals, Inferring, Implementing

LEMMA PhasesType ==
    ASSUME NEW s \in SUBSET Inputs
    PROVE  NewPhase(s) \in Phases /\ NewPhase(s).suggestions = s /\ ~NewPhase(s).completed
BY DEF NewPhase, Phases

\* Aborting or forgetting the controller changes the signals of the turns only.
LEMMA SignalsType ==
    ASSUME NEW t \in Turns
    PROVE  /\ [t EXCEPT !.signal = Detached(@), !.debug = Detached(@)] \in Turns
           /\ [t EXCEPT !.signal = Detached(@), !.debug = Detached(@)].queued = t.queued
           /\ [t EXCEPT !.signal = Aborted(@), !.debug = Aborted(@)] \in Turns
           /\ [t EXCEPT !.signal = Aborted(@), !.debug = Aborted(@)].queued = t.queued
BY DEF Turns, Signals, Detached, Aborted

LEMMA EndedType ==
    ASSUME TypeOK, NEW i \in Inputs, NEW how \in {"answered", "gone"}
    PROVE  Ended(i, how) \in Turns /\ Ended(i, how).queued = chat[i].queued
BY DEF Ended, NoTurn, TypeOK, Turns, Signals

\* Every turn stays typed and keeps what it has queued.
ChatKept ==
    /\ chat' \in [Inputs -> Turns]
    /\ \A i \in Inputs : chat[i].queued => chat'[i].queued

-----------------------------------------------------------------------------
(* What the helpers of the state machine do *)

\* The machine leaves its phases alone.
Resting == machine'.pc \in {"none", "stuck", "reviewing", "closing"}

LEMMA IdleEffect ==
    ASSUME TypeOK, Idle
    PROVE  machine' \in Machines /\ Resting /\ ChatKept
<1>1. machine' \in Machines /\ Resting
  BY AtType DEF Idle, Resting
<1>2. \A i \in Inputs : chat[i] \in Turns
  BY DEF TypeOK
<1>. QED
  BY <1>1, <1>2, SignalsType DEF Idle, ChatKept

LEMMA ReviewEffect ==
    ASSUME TypeOK, Review
    PROVE  machine' \in Machines /\ Resting /\ ChatKept /\ reviewingInitiated' \in BOOLEAN
<1>1. CASE reviewingInitiated
  BY <1>1, IdleEffect DEF Review
<1>2. CASE ~reviewingInitiated
  BY <1>2, AtType DEF Review, Resting, ChatKept, TypeOK
<1>. QED
  BY <1>1, <1>2

LEMMA FinalizeEffect ==
    ASSUME TypeOK, Finalize
    PROVE  /\ machine' \in Machines /\ (Resting \/ machine'.pc = "issues")
           /\ ChatKept /\ reviewingInitiated' \in BOOLEAN /\ mvpGenerated' \in BOOLEAN
<1>1. CASE mvpGenerated
  BY <1>1, AtType DEF Finalize, ChatKept, TypeOK
<1>2. CASE ~mvpGenerated
  BY <1>2, ReviewEffect DEF Finalize
<1>. QED
  BY <1>1, <1>2

LEMMA FailEffect ==
    ASSUME TypeOK, Fail
    PROVE  machine' \in Machines /\ Resting /\ ChatKept /\ reviewingInitiated' \in BOOLEAN
BY IdleEffect, ReviewEffect DEF Fail, TypeOK

LEMMA StartEffect ==
    ASSUME TypeOK, OneOpenPhase, MachineStarts
    PROVE  /\ machine' \in Machines /\ generatedPhases' \in Seq(Phases)
           /\ OneOpenPhase'
           /\ machine'.pc \in {"preparing", "issues"}
           /\ \/ generatedPhases' = generatedPhases
              \/ generatedPhases = <<>> /\ generatedPhases' = <<NewPhase({})>>
<1>0. machine \in Machines
  BY DEF TypeOK
<1>4. \A k \in Nat : /\ [At("preparing") EXCEPT !.phase = k] \in Machines
                     /\ [At("preparing") EXCEPT !.phase = k].pc = "preparing"
                     /\ [At("preparing") EXCEPT !.phase = k].phase = k
  BY <1>0 DEF At, NoMachine, Machines, Signals, Inferring, Implementing
<1>1. ASSUME NEW k \in Incomplete, machine' = [At("preparing") EXCEPT !.phase = k],
             UNCHANGED generatedPhases
      PROVE  /\ machine' \in Machines /\ machine'.pc = "preparing" /\ OneOpenPhase'
  <2>1. k \in Nat
    BY <1>1 DEF Incomplete, TypeOK
  <2>2. machine' \in Machines /\ machine'.pc = "preparing" /\ machine'.phase = k
    BY <1>1, <1>4, <2>1
  <2>3. Incomplete' = Incomplete
    BY <1>1 DEF Incomplete
  <2>. QED
    BY <1>1, <2>2, <2>3 DEF OneOpenPhase
<1>2. ASSUME Incomplete = {}, machine' = At("issues"), UNCHANGED generatedPhases
      PROVE  machine' \in Machines /\ machine'.pc = "issues" /\ OneOpenPhase'
  <2>1. machine' \in Machines /\ machine'.pc = "issues"
    BY <1>2, AtType
  <2>2. Incomplete' = {}
    BY <1>2 DEF Incomplete
  <2>. QED
    BY <2>1, <2>2 DEF OneOpenPhase, Implementing
<1>3. ASSUME generatedPhases' = <<NewPhase({})>>,
             machine' = [At("preparing") EXCEPT !.phase = 1]
      PROVE  /\ machine' \in Machines /\ machine'.pc = "preparing" /\ OneOpenPhase'
             /\ generatedPhases' \in Seq(Phases)
  <2>1. machine' \in Machines /\ machine'.pc = "preparing" /\ machine'.phase = 1
    BY <1>3, <1>4
  <2>2. NewPhase({}) \in Phases /\ ~NewPhase({}).completed
    BY PhasesType
  <2>3. DOMAIN generatedPhases' = {1} /\ generatedPhases'[1] = NewPhase({})
    BY <1>3
  <2>4. Incomplete' = {1}
    BY <2>2, <2>3 DEF Incomplete
  <2>. QED
    BY <1>3, <2>1, <2>2, <2>4 DEF OneOpenPhase
<1>. QED
  BY <1>1, <1>2, <1>3 DEF MachineStarts, TypeOK

LEMMA GenerateAllFilesEffect ==
    ASSUME TypeOK, NEW b \in BOOLEAN, GenerateAllFiles(b)
    PROVE  /\ machine' \in Machines
           /\ \/ UNCHANGED machine
              \/ machine.pc = "none" /\ ~NothingToDo /\ machine'.pc = "starting"
           /\ machine'.final => machine.final
<1>1. machine \in Machines
  BY DEF TypeOK
<1>2. CASE Launch(b)
  <2>1. machine.pc = "none" /\ ~NothingToDo
    BY <1>2 DEF Launch, isCodeGenerating
  <2>2. machine' \in Machines /\ machine'.pc = "starting" /\ ~machine'.final
    BY <1>2 DEF Launch, NoMachine, Machines, Signals
  <2>. QED
    BY <2>1, <2>2
<1>3. CASE UNCHANGED machine
  BY <1>1, <1>3
<1>. QED
  BY <1>2, <1>3 DEF GenerateAllFiles

-----------------------------------------------------------------------------
(* The inductive invariant.  A request can be planned twice only if it can be    *)
(* queued twice: whatever is pending, with the planner or in a phase is of a     *)
(* turn that has used its queue_request.                                         *)

HeldIsQueued ==
    /\ \A i \in pendingUserInputs : chat[i].queued
    /\ \A i \in Planner : chat[i].queued
    /\ \A k \in DOMAIN generatedPhases :
          \A i \in generatedPhases[k].suggestions : chat[i].queued

IInv == TypeOK /\ OneOpenPhase /\ RequestsPlannedOnce /\ HeldIsQueued

\* The phases of before, planned from the same requests.
SameRequests ==
    /\ DOMAIN generatedPhases' = DOMAIN generatedPhases
    /\ \A k \in DOMAIN generatedPhases :
          generatedPhases'[k].suggestions = generatedPhases[k].suggestions

LEMMA RequestsAreInputs ==
    ASSUME TypeOK
    PROVE  /\ Planner \subseteq Inputs /\ pendingUserInputs \subseteq Inputs
           /\ \A k \in DOMAIN generatedPhases : generatedPhases[k].suggestions \subseteq Inputs
<1>1. \A k \in DOMAIN generatedPhases : generatedPhases[k] \in Phases
  BY DEF TypeOK
<1>2. machine.suggestions \subseteq Inputs
  BY DEF TypeOK, Machines
<1>. QED
  BY <1>1, <1>2 DEF TypeOK, Planner, Phases

\* A step that neither moves a request nor gives one to the planner.
LEMMA RequestsKept ==
    ASSUME IInv, SameRequests, UNCHANGED pendingUserInputs, ChatKept, Planner' \subseteq Planner
    PROVE  RequestsPlannedOnce' /\ HeldIsQueued'
<1>1. /\ Planner \subseteq Inputs /\ pendingUserInputs \subseteq Inputs
      /\ \A k \in DOMAIN generatedPhases : generatedPhases[k].suggestions \subseteq Inputs
  BY RequestsAreInputs DEF IInv
<1>2. RequestsPlannedOnce'
  BY DEF IInv, RequestsPlannedOnce, SameRequests
<1>3. \A i \in Inputs : chat[i].queued => chat'[i].queued
  BY DEF ChatKept
<1>4. HeldIsQueued'
  BY <1>1, <1>3 DEF IInv, HeldIsQueued, SameRequests
<1>. QED
  BY <1>2, <1>4

LEMMA PhasesKept ==
    ASSUME IInv, UNCHANGED generatedPhases
    PROVE  SameRequests /\ Incomplete' = Incomplete /\ generatedPhases' \in Seq(Phases)
BY DEF SameRequests, Incomplete, IInv, TypeOK

\* A turn takes a step of its own, and at most adds to what it has queued.
LEMMA TurnStep ==
    ASSUME TypeOK, NEW i \in Inputs, NEW t \in Turns, chat[i].queued => t.queued,
           chat' = [chat EXCEPT ![i] = t]
    PROVE  ChatKept
BY DEF ChatKept, TypeOK

\* A step of the conversations that leaves the machine alone.
LEMMA ChatStep ==
    ASSUME IInv, ChatKept,
           templateLoaded' \in BOOLEAN,
           UNCHANGED <<flags, pendingUserInputs, generatedPhases, phasesCounter, machine, clicks,
                       restarts>>
    PROVE  IInv'
<1>1. RequestsPlannedOnce' /\ HeldIsQueued'
  BY PhasesKept, RequestsKept DEF Planner
<1>2. TypeOK'
  BY DEF IInv, TypeOK, ChatKept, flags
<1>3. OneOpenPhase'
  BY PhasesKept DEF IInv, OneOpenPhase
<1>. QED
  BY <1>1, <1>2, <1>3 DEF IInv

\* A step after which the machine has no phase in hand.
LEMMA RestingStep ==
    ASSUME IInv, Resting, machine' \in Machines, ChatKept,
           reviewingInitiated' \in BOOLEAN, mvpGenerated' \in BOOLEAN,
           shouldBeGenerating' \in BOOLEAN, restarts' \in Nat, templateLoaded' \in BOOLEAN,
           UNCHANGED <<pendingUserInputs, generatedPhases, phasesCounter, clicks>>
    PROVE  IInv'
<1>1. RequestsPlannedOnce' /\ HeldIsQueued'
  BY PhasesKept, RequestsKept DEF Planner, Resting
<1>2. TypeOK'
  BY DEF IInv, TypeOK, ChatKept
<1>3. OneOpenPhase'
  BY PhasesKept DEF IInv, OneOpenPhase, Resting, Implementing
<1>. QED
  BY <1>1, <1>2, <1>3 DEF IInv

-----------------------------------------------------------------------------
(* The steps of the state machine *)

LEMMA MachineStartsStep ==
    ASSUME IInv, MachineStarts  PROVE IInv'
<1>1. /\ TypeOK /\ machine' \in Machines /\ generatedPhases' \in Seq(Phases)
      /\ OneOpenPhase' /\ machine'.pc \in {"preparing", "issues"}
      /\ \/ generatedPhases' = generatedPhases
         \/ generatedPhases = <<>> /\ generatedPhases' = <<NewPhase({})>>
  BY StartEffect DEF IInv
<1>2. templateLoaded' \in BOOLEAN
  BY Zenon DEF MachineStarts
<1>3. TypeOK'
  BY <1>1, <1>2 DEF TypeOK, MachineStarts, flags
<1>4. Planner' = {} /\ UNCHANGED <<pendingUserInputs, chat>>
  BY <1>1 DEF Planner, MachineStarts
<1>5. CASE generatedPhases' = generatedPhases
  <2>1. ChatKept
    BY <1>1, <1>4 DEF ChatKept, TypeOK
  <2>. QED
    BY <1>1, <1>3, <1>4, <1>5, <2>1, PhasesKept, RequestsKept DEF IInv
<1>6. CASE generatedPhases = <<>> /\ generatedPhases' = <<NewPhase({})>>
  <2>1. DOMAIN generatedPhases' = {1} /\ generatedPhases'[1].suggestions = {}
    BY <1>6, PhasesType
  <2>2. RequestsPlannedOnce' /\ HeldIsQueued'
    BY <1>4, <2>1 DEF IInv, RequestsPlannedOnce, HeldIsQueued
  <2>. QED
    BY <1>1, <1>3, <2>2 DEF IInv
<1>. QED
  BY <1>1, <1>5, <1>6

LEMMA TemplateMissingStep ==
    ASSUME IInv, TemplateMissing  PROVE IInv'
<1>1. TypeOK /\ machine' \in Machines /\ Resting
  BY AtType DEF IInv, TemplateMissing, Resting
<1>2. ChatKept
  BY <1>1 DEF ChatKept, TypeOK, TemplateMissing
<1>. QED
  BY <1>1, <1>2, RestingStep DEF TemplateMissing, TypeOK, flags

LEMMA IssuesFetchedStep ==
    ASSUME IInv, IssuesFetched  PROVE IInv'
<1>1. /\ machine \in Machines /\ pendingUserInputs \in SUBSET Inputs
      /\ machine.pc = "issues" /\ Incomplete = {}
  BY DEF IssuesFetched, IInv, TypeOK, OneOpenPhase
<1>2. machine' \in Machines /\ machine'.pc = "planning" /\ machine'.suggestions = pendingUserInputs
  <2>1. machine' = [machine EXCEPT !.pc = "planning", !.suggestions = pendingUserInputs,
                                   !.signal = "current"]
    BY DEF IssuesFetched
  <2>2. PICK m \in Machines, s \in SUBSET Inputs : m = machine /\ s = pendingUserInputs
    BY <1>1
  <2>3. ASSUME NEW x, x = [m EXCEPT !.pc = "planning", !.suggestions = s, !.signal = "current"]
        PROVE  x \in Machines /\ x.pc = "planning" /\ x.suggestions = s
    BY <2>3 DEF Machines, Signals, Inferring, Implementing
  <2>. QED
    BY <2>1, <2>2, <2>3
<1>3. TypeOK'
  BY <1>2 DEF IssuesFetched, IInv, TypeOK, flags
<1>4. OneOpenPhase'
  BY <1>1, <1>2 DEF IssuesFetched, OneOpenPhase, Incomplete, Implementing
<1>5. Planner = {} /\ Planner' = pendingUserInputs /\ pendingUserInputs' = {}
  BY <1>1, <1>2 DEF IssuesFetched, Planner
<1>6. RequestsPlannedOnce'
  BY <1>5 DEF IssuesFetched, IInv, RequestsPlannedOnce
<1>7. HeldIsQueued'
  BY <1>5 DEF IssuesFetched, IInv, HeldIsQueued
<1>. QED
  BY <1>3, <1>4, <1>6, <1>7 DEF IInv

LEMMA PhasePlannedStep ==
    ASSUME IInv, PhasePlanned  PROVE IInv'
<1> DEFINE n == Len(generatedPhases) + 1
           p == NewPhase(machine.suggestions)
<1>1. /\ machine \in Machines /\ machine.suggestions \in SUBSET Inputs
      /\ machine.pc = "planning" /\ Incomplete = {} /\ Planner = machine.suggestions
      /\ generatedPhases \in Seq(Phases)
  BY DEF PhasePlanned, IInv, TypeOK, OneOpenPhase, Machines, Planner
<1>2. p \in Phases /\ p.suggestions = machine.suggestions /\ ~p.completed
  BY <1>1, PhasesType
<1>3. n \in Nat /\ DOMAIN generatedPhases = 1..(n - 1)
  BY <1>1
<1>4. /\ generatedPhases' \in Seq(Phases)
      /\ DOMAIN generatedPhases' = 1..n
      /\ generatedPhases'[n] = p
      /\ \A k \in DOMAIN generatedPhases : generatedPhases'[k] = generatedPhases[k]
  BY <1>1, <1>2 DEF PhasePlanned
<1>5. machine' \in Machines /\ machine'.pc = "preparing" /\ machine'.phase = n
  <2>1. machine' = [machine EXCEPT !.pc = "preparing", !.suggestions = {}, !.signal = "none",
                                   !.phase = n]
    BY DEF PhasePlanned
  <2>2. PICK m \in Machines, k \in Nat : m = machine /\ k = n
    BY <1>1, <1>3
  <2>3. ASSUME NEW x, x = [m EXCEPT !.pc = "preparing", !.suggestions = {}, !.signal = "none", !.phase = k]
        PROVE  x \in Machines /\ x.pc = "preparing" /\ x.phase = k
    BY <2>3 DEF Machines, Signals, Inferring, Implementing
  <2>. QED
    BY <2>1, <2>2, <2>3
<1>6. TypeOK'
  BY <1>4, <1>5 DEF PhasePlanned, IInv, TypeOK, flags
<1>7. OneOpenPhase'
  <2>1. \A k \in 1..n : k = n \/ k \in DOMAIN generatedPhases
    BY <1>3
  <2>2. Incomplete' = {n}
    BY <1>1, <1>2, <1>3, <1>4, <2>1 DEF Incomplete
  <2>. QED
    BY <1>5, <2>2 DEF OneOpenPhase
<1>8. \A k \in DOMAIN generatedPhases' : k = n \/ k \in DOMAIN generatedPhases
  BY <1>3, <1>4
<1>9. Planner' = {} /\ pendingUserInputs' = pendingUserInputs
  BY <1>5 DEF PhasePlanned, Planner
<1>10. RequestsPlannedOnce'
  <2> HIDE DEF n, p
  <2>. QED
    BY <1>1, <1>2, <1>4, <1>8, <1>9 DEF IInv, RequestsPlannedOnce
<1>11. HeldIsQueued'
  <2> HIDE DEF n, p
  <2>1. UNCHANGED chat
    BY DEF PhasePlanned
  <2>. QED
    BY <1>1, <1>2, <1>4, <1>8, <1>9, <2>1 DEF IInv, HeldIsQueued
<1>. QED
  BY <1>6, <1>7, <1>10, <1>11 DEF IInv

LEMMA NothingPlannedStep ==
    ASSUME IInv, NothingPlanned  PROVE IInv'
<1>1. TypeOK
  BY DEF IInv
<1>2. /\ machine' \in Machines /\ (Resting \/ machine'.pc = "issues")
      /\ ChatKept /\ reviewingInitiated' \in BOOLEAN /\ mvpGenerated' \in BOOLEAN
  BY <1>1, ReviewEffect, FinalizeEffect DEF NothingPlanned, TypeOK
<1>3. CASE Resting
  BY <1>1, <1>2, <1>3, RestingStep DEF NothingPlanned, TypeOK
<1>4. CASE machine'.pc = "issues"
  <2>1. RequestsPlannedOnce' /\ HeldIsQueued'
    BY <1>2, <1>4, PhasesKept, RequestsKept DEF Planner, NothingPlanned
  <2>2. Incomplete' = {}
    BY PhasesKept DEF IInv, OneOpenPhase, NothingPlanned
  <2>3. OneOpenPhase'
    BY <1>4, <2>2 DEF OneOpenPhase, Implementing
  <2>4. TypeOK'
    BY <1>1, <1>2 DEF TypeOK, ChatKept, NothingPlanned
  <2>. QED
    BY <2>1, <2>3, <2>4 DEF IInv
<1>. QED
  BY <1>2, <1>3, <1>4

LEMMA FailStep ==
    ASSUME IInv, PlanningFails \/ ImplementationFails  PROVE IInv'
<1>1. TypeOK
  BY DEF IInv
<1>2. machine' \in Machines /\ Resting /\ ChatKept /\ reviewingInitiated' \in BOOLEAN
  BY <1>1, FailEffect DEF PlanningFails, ImplementationFails
<1>. QED
  BY <1>1, <1>2, RestingStep DEF PlanningFails, ImplementationFails, TypeOK

\* Between the two halves of an implementation the phase in hand stays the same.
LEMMA ImplementingStep ==
    ASSUME IInv, ImplementationStarts \/ FilesGenerated  PROVE IInv'
<1>1. TypeOK /\ machine \in Machines /\ machine.pc \in Implementing
  BY DEF IInv, TypeOK, ImplementationStarts, FilesGenerated, Implementing
<1>2. machine' \in Machines /\ machine'.pc \in Implementing /\ machine'.phase = machine.phase
  <2>1. PICK pc \in Implementing, s \in Signals :
                machine' = [machine EXCEPT !.pc = pc, !.signal = s]
    BY DEF ImplementationStarts, FilesGenerated, Implementing, Signals
  <2>2. PICK m \in Machines : m = machine
    BY <1>1
  <2>3. ASSUME NEW x, x = [m EXCEPT !.pc = pc, !.signal = s]
        PROVE  x \in Machines /\ x.pc = pc /\ x.phase = m.phase
    BY <2>3 DEF Machines, Signals, Inferring, Implementing
  <2>. QED
    BY <2>1, <2>2, <2>3
<1>3. UNCHANGED <<flags, pendingUserInputs, generatedPhases, phasesCounter, chat, clicks, restarts,
                  templateLoaded>>
  BY DEF ImplementationStarts, FilesGenerated
<1>4. RequestsPlannedOnce' /\ HeldIsQueued'
  <2>1. ChatKept
    BY <1>1, <1>3 DEF ChatKept, TypeOK
  <2>2. Planner' = {}
    BY <1>2 DEF Planner, Implementing
  <2>. QED
    BY <1>3, <2>1, <2>2, PhasesKept, RequestsKept
<1>5. TypeOK'
  BY <1>1, <1>2, <1>3 DEF TypeOK, flags
<1>6. OneOpenPhase'
  BY <1>1, <1>2, <1>3, PhasesKept DEF IInv, OneOpenPhase, Implementing
<1>. QED
  BY <1>4, <1>5, <1>6 DEF IInv

\* The phase in hand was the only open one: none is left.
LEMMA PhaseImplementedStep ==
    ASSUME IInv, PhaseImplemented  PROVE IInv'
<1>1. /\ TypeOK /\ machine.pc = "deploying" /\ Incomplete = {machine.phase}
      /\ generatedPhases \in Seq(Phases) /\ phasesCounter \in Int /\ phasesCounter <= MaxPhases
  BY DEF IInv, TypeOK, OneOpenPhase, PhaseImplemented, Implementing
<1>2. PICK k \in DOMAIN generatedPhases : k = machine.phase
  BY <1>1 DEF Incomplete
<1>3. /\ generatedPhases' \in Seq(Phases)
      /\ DOMAIN generatedPhases' = DOMAIN generatedPhases
      /\ generatedPhases'[k].completed
      /\ \A j \in DOMAIN generatedPhases :
            /\ generatedPhases'[j].suggestions = generatedPhases[j].suggestions
            /\ j # k => generatedPhases'[j] = generatedPhases[j]
  <2>1. generatedPhases' = [generatedPhases EXCEPT ![k].completed = TRUE]
    BY <1>2 DEF PhaseImplemented
  <2>2. generatedPhases[k] \in Phases
    BY <1>1, <1>2
  <2>3. ASSUME NEW old \in Phases, NEW x, x = [old EXCEPT !.completed = TRUE]
        PROVE  x \in Phases /\ x.completed /\ x.suggestions = old.suggestions
    BY <2>3 DEF Phases
  <2>4. PICK old \in Phases : old = generatedPhases[k]
    BY <2>2
  <2>5. generatedPhases' = [generatedPhases EXCEPT ![k] = [old EXCEPT !.completed = TRUE]]
    BY <2>1, <2>4
  <2>6. PICK x \in Phases : x = [old EXCEPT !.completed = TRUE]
    BY <2>3
  <2>. QED
    BY <1>1, <1>2, <2>3, <2>4, <2>5, <2>6
<1>4. Incomplete' = {}
  BY <1>1, <1>2, <1>3 DEF Incomplete
<1>5. /\ machine' \in Machines /\ (Resting \/ machine'.pc = "issues")
      /\ ChatKept /\ reviewingInitiated' \in BOOLEAN /\ mvpGenerated' \in BOOLEAN
  <2>1. CASE machine.final /\ Review /\ UNCHANGED mvpGenerated
    BY <1>1, <2>1, ReviewEffect DEF TypeOK
  <2>2. CASE Finalize
    BY <1>1, <2>2, FinalizeEffect
  <2>3. CASE machine' = At("issues") /\ UNCHANGED <<mvpGenerated, reviewingInitiated, chat>>
    BY <1>1, <2>3, AtType DEF TypeOK, ChatKept
  <2>. QED
    BY <2>1, <2>2, <2>3 DEF PhaseImplemented
<1>6. RequestsPlannedOnce' /\ HeldIsQueued'
  <2>1. Planner' = {} /\ SameRequests
    BY <1>3, <1>5 DEF Planner, Resting, SameRequests
  <2>. QED
    BY <1>5, <2>1, RequestsKept DEF PhaseImplemented
<1>7. phasesCounter' \in Int /\ phasesCounter' <= MaxPhases
  BY <1>1, CounterAssumption DEF PhaseImplemented
<1>8. TypeOK'
  BY <1>1, <1>3, <1>5, <1>7 DEF PhaseImplemented, TypeOK, ChatKept
<1>9. OneOpenPhase'
  BY <1>4, <1>5 DEF OneOpenPhase, Resting, Implementing
<1>. QED
  BY <1>6, <1>8, <1>9 DEF IInv

LEMMA MachineStops ==
    ASSUME IInv, ReviewEnds \/ GenerationEnds \/ Restart  PROVE IInv'
<1>1. TypeOK
  BY DEF IInv
<1>2. machine' \in Machines /\ Resting /\ ChatKept
  <2>1. CASE ReviewEnds
    BY <1>1, <2>1, IdleEffect DEF ReviewEnds
  <2>2. NoMachine \in Machines /\ NoMachine.pc = "none"
    BY DEF NoMachine, Machines, Signals
  <2>3. CASE GenerationEnds
    BY <1>1, <2>2, <2>3 DEF GenerationEnds, Resting, ChatKept, TypeOK
  <2>4. CASE Restart
    <3>1. \A i \in Inputs : /\ chat[i] \in Turns
                            /\ Ended(i, "gone") \in Turns
                            /\ Ended(i, "gone").queued = chat[i].queued
      BY <1>1, EndedType DEF TypeOK
    <3>. QED
      BY <2>2, <2>4, <3>1 DEF Restart, Resting, ChatKept
  <2>. QED
    BY <2>1, <2>3, <2>4
<1>3. shouldBeGenerating' \in BOOLEAN /\ restarts' \in Nat
  <2>1. (shouldBeGenerating /\ ~machine.button) \in BOOLEAN
    OBVIOUS
  <2>2. shouldBeGenerating' \in BOOLEAN
    BY <1>1, <2>1, Zenon DEF TypeOK, ReviewEnds, GenerationEnds, Restart, flags
  <2>3. restarts' = restarts \/ restarts' = restarts + 1
    BY DEF ReviewEnds, GenerationEnds, Restart
  <2>4. restarts' \in Nat
    BY <1>1, <2>3 DEF TypeOK
  <2>. QED
    BY <2>2, <2>4
<1>4. UNCHANGED <<mvpGenerated, reviewingInitiated, pendingUserInputs, generatedPhases,
                  phasesCounter, clicks>>
  BY DEF ReviewEnds, GenerationEnds, Restart, flags
<1>5. templateLoaded' \in BOOLEAN
  BY <1>1 DEF ReviewEnds, GenerationEnds, Restart, TypeOK
<1>. QED
  BY <1>1, <1>2, <1>3, <1>4, <1>5, RestingStep DEF TypeOK

-----------------------------------------------------------------------------
(* The steps of the conversations and of the connections *)

LEMMA QueueRequestStep ==
    ASSUME IInv, NEW i \in Inputs, QueueRequest(i)  PROVE IInv'
<1>1. /\ TypeOK /\ chat[i] \in Turns /\ ~chat[i].queued
      /\ chat' = [chat EXCEPT ![i].queued = TRUE]
  BY DEF IInv, TypeOK, QueueRequest
<1>2. /\ chat' \in [Inputs -> Turns] /\ chat'[i].queued
      /\ \A j \in Inputs : chat[j].queued => chat'[j].queued
  <2>1. PICK t \in Turns : t = chat[i]
    BY <1>1
  <2>2. ASSUME NEW x, x = [t EXCEPT !.queued = TRUE]
        PROVE  x \in Turns /\ x.queued
    BY <2>2 DEF Turns
  <2>3. chat' = [chat EXCEPT ![i] = [t EXCEPT !.queued = TRUE]]
    BY <1>1, <2>1
  <2>. QED
    BY <1>1, <2>2, <2>3 DEF TypeOK
<1>3. /\ i \notin pendingUserInputs /\ i \notin Planner
      /\ \A k \in DOMAIN generatedPhases : i \notin generatedPhases[k].suggestions
  BY <1>1 DEF IInv, HeldIsQueued
<1>4. /\ pendingUserInputs' = pendingUserInputs \cup {i} /\ Planner' = Planner
      /\ UNCHANGED <<flags, generatedPhases, machine, clicks, restarts, templateLoaded>>
  BY DEF QueueRequest, Planner
<1>5. phasesCounter' \in Int /\ phasesCounter' <= MaxPhases
  BY <1>1, CounterAssumption DEF TypeOK, QueueRequest
<1>6. TypeOK'
  BY <1>1, <1>2, <1>4, <1>5 DEF TypeOK, flags
<1>7. OneOpenPhase'
  BY <1>4, PhasesKept DEF IInv, OneOpenPhase
<1>8. RequestsPlannedOnce'
  BY <1>3, <1>4 DEF IInv, RequestsPlannedOnce
<1>9. HeldIsQueued'
  <2>1. /\ Planner \subseteq Inputs /\ pendingUserInputs \subseteq Inputs
        /\ \A k \in DOMAIN generatedPhases : generatedPhases[k].suggestions \subseteq Inputs
    BY RequestsAreInputs DEF IInv
  <2>. QED
    BY <1>2, <1>4, <2>1 DEF IInv, HeldIsQueued
<1>. QED
  BY <1>6, <1>7, <1>8, <1>9 DEF IInv

\* The other steps of a turn change the turn alone.
LEMMA ConverseStep ==
    ASSUME IInv, NEW i \in Inputs,
           \/ ChatStarts(i) \/ DebugStarts(i) \/ DebugEnds(i) \/ WaitStarts(i) \/ WaitEnds(i)
           \/ ChatFails(i)
    PROVE  IInv'
<1>1. TypeOK /\ chat[i] \in Turns
  BY DEF IInv, TypeOK
<1>2. PICK u \in Turns : u = chat[i]
  BY <1>1
<1>3. ASSUME NEW pc \in {"thinking", "waiting"}, NEW d \in {"current", "over"}
      PROVE  /\ [u EXCEPT !.pc = pc] \in Turns /\ [u EXCEPT !.pc = pc].queued = u.queued
             /\ [u EXCEPT !.debug = d] \in Turns /\ [u EXCEPT !.debug = d].queued = u.queued
             /\ [u EXCEPT !.pc = pc, !.signal = "current"] \in Turns
             /\ [u EXCEPT !.pc = pc, !.signal = "current"].queued = u.queued
  BY <1>3 DEF Turns, Signals
<1>4. ChatKept
  <2>1. CASE ChatStarts(i)
    BY <1>1, <1>2, <1>3, <2>1, TurnStep DEF ChatStarts
  <2>2. CASE DebugStarts(i) \/ DebugEnds(i)
    BY <1>1, <1>2, <1>3, <2>2, TurnStep DEF DebugStarts, DebugEnds
  <2>3. CASE WaitStarts(i) \/ WaitEnds(i)
    BY <1>1, <1>2, <1>3, <2>3, TurnStep DEF WaitStarts, WaitEnds
  <2>4. CASE ChatFails(i)
    BY <1>1, <2>4, EndedType, TurnStep DEF ChatFails
  <2>. QED
    BY <2>1, <2>2, <2>3, <2>4
<1>5. templateLoaded' \in BOOLEAN
  <2>1. CASE ChatStarts(i)
    BY <2>1, Zenon DEF ChatStarts
  <2>2. CASE ~ChatStarts(i)
    BY <1>1, <2>2 DEF TypeOK, DebugStarts, DebugEnds, WaitStarts, WaitEnds, ChatFails
  <2>. QED
    BY <2>1, <2>2
<1>. QED
  BY <1>4, <1>5, ChatStep
  DEF ChatStarts, DebugStarts, DebugEnds, WaitStarts, WaitEnds, ChatFails

\* A step that calls generateAllFiles.
LEMMA GenerateStep ==
    ASSUME IInv, NEW b \in BOOLEAN, GenerateAllFiles(b), ChatKept,
           shouldBeGenerating' \in BOOLEAN, clicks' \in Nat,
           UNCHANGED <<mvpGenerated, reviewingInitiated, pendingUserInputs, generatedPhases,
                       phasesCounter, restarts, templateLoaded>>
    PROVE  IInv'
<1>1. machine' \in Machines /\ (UNCHANGED machine \/ machine'.pc = "starting")
  BY GenerateAllFilesEffect DEF IInv
<1>2. TypeOK'
  BY <1>1 DEF IInv, TypeOK, ChatKept
<1>3. Planner' \subseteq Planner
  BY <1>1 DEF Planner
<1>4. OneOpenPhase'
  BY <1>1, PhasesKept DEF IInv, OneOpenPhase, Implementing
<1>. QED
  BY <1>2, <1>3, <1>4, PhasesKept, RequestsKept DEF IInv

LEMMA ChatEndsStep ==
    ASSUME IInv, NEW i \in Inputs, ChatEnds(i)  PROVE IInv'
<1>1. ChatKept
  BY EndedType, TurnStep DEF ChatEnds, IInv
<1>. QED
  BY <1>1, GenerateStep DEF ChatEnds, IInv, TypeOK, flags

LEMMA ClickStep ==
    ASSUME IInv, Generate \/ Resume  PROVE IInv'
<1>1. ChatKept /\ clicks' \in Nat
  <2>1. UNCHANGED chat /\ clicks' = clicks + 1
    BY DEF Generate, Resume, Click
  <2>. QED
    BY <2>1 DEF IInv, TypeOK, ChatKept
<1>2. shouldBeGenerating' \in BOOLEAN
  <2>1. (isCodeGenerating \/ ~NothingToDo) \in BOOLEAN
    OBVIOUS
  <2>. QED
    BY <2>1, Zenon DEF Generate, Resume
<1>3. PICK b \in BOOLEAN : GenerateAllFiles(b)
  BY Zenon DEF Generate, Resume
<1>. QED
  BY <1>1, <1>2, <1>3, GenerateStep DEF Generate, Resume

LEMMA StopStep ==
    ASSUME IInv, Stop  PROVE IInv'
<1>1. TypeOK /\ \A i \in Inputs : chat[i] \in Turns
  BY DEF IInv, TypeOK
<1>2. ChatKept
  BY <1>1, SignalsType DEF Stop, ChatKept
<1>3. /\ machine' \in Machines
      /\ machine'.pc = machine.pc /\ machine'.phase = machine.phase
      /\ machine'.suggestions = machine.suggestions
  <2>1. PICK m \in Machines : m = machine
    BY <1>1 DEF TypeOK
  <2>2. machine' = [m EXCEPT !.signal = Aborted(@)]
    BY <2>1 DEF Stop
  <2>3. ASSUME NEW n, n = [m EXCEPT !.signal = Aborted(@)]
        PROVE  /\ n \in Machines
               /\ n.pc = m.pc /\ n.phase = m.phase /\ n.suggestions = m.suggestions
    BY <2>3 DEF Machines, Signals, Aborted, Inferring, Implementing
  <2>. QED
    BY <2>1, <2>2, <2>3
<1>4. TypeOK'
  <2>1. /\ shouldBeGenerating' = FALSE /\ clicks' = clicks + 1
        /\ UNCHANGED <<mvpGenerated, reviewingInitiated, pendingUserInputs, generatedPhases,
                       phasesCounter, restarts, templateLoaded>>
    BY DEF Stop, Click
  <2>2. shouldBeGenerating' \in BOOLEAN
    BY Zenon DEF Stop
  <2>3. clicks' \in Nat
    BY <1>1, <2>1 DEF TypeOK
  <2>. QED
    BY <1>1, <1>2, <1>3, <2>1, <2>2, <2>3, Zenon DEF TypeOK, ChatKept
<1>5. OneOpenPhase'
  BY <1>3, PhasesKept DEF Stop, IInv, OneOpenPhase
<1>6. RequestsPlannedOnce' /\ HeldIsQueued'
  BY <1>2, <1>3, PhasesKept, RequestsKept DEF Stop, Planner
<1>. QED
  BY <1>4, <1>5, <1>6 DEF IInv

LEMMA StutterStep ==
    ASSUME IInv, UNCHANGED vars  PROVE IInv'
<1>1. ChatKept
  BY DEF vars, ChatKept, IInv, TypeOK
<1>. QED
  BY <1>1, ChatStep DEF vars, IInv, TypeOK

-----------------------------------------------------------------------------
LEMMA InitIInv == Init => IInv
<1> SUFFICES ASSUME Init PROVE IInv
  OBVIOUS
<1>1. Incomplete = {} /\ Planner = {} /\ generatedPhases = <<>> /\ machine.pc = "none"
  BY DEF Init, NoMachine, Incomplete, Planner
<1>2. TypeOK
  <2>1. NoMachine \in Machines
    BY DEF NoMachine, Machines, Signals
  <2>2. NoTurn \in Turns
    BY DEF NoTurn, Turns, Signals
  <2>3. <<>> \in Seq(Phases) /\ MaxPhases \in Int
    BY CounterAssumption
  <2>4. FALSE \in BOOLEAN /\ 0 \in Nat /\ MaxPhases <= MaxPhases
    BY CounterAssumption
  <2>. QED
    BY <2>1, <2>2, <2>3, <2>4 DEF Init, TypeOK
<1>3. OneOpenPhase
  BY <1>1 DEF OneOpenPhase, Implementing
<1>4. RequestsPlannedOnce /\ HeldIsQueued
  BY <1>1 DEF Init, RequestsPlannedOnce, HeldIsQueued
<1>. QED
  BY <1>2, <1>3, <1>4 DEF IInv

LEMMA NextIInv == IInv /\ [Next]_vars => IInv'
BY MachineStartsStep, TemplateMissingStep, IssuesFetchedStep, PhasePlannedStep, NothingPlannedStep, FailStep,
   ImplementingStep, PhaseImplementedStep, MachineStops, QueueRequestStep, ConverseStep, ChatEndsStep, ClickStep,
   StopStep, StutterStep
DEF Next, Work, Converse

\* Every reachable state satisfies the inductive invariant.
THEOREM Invariance == Spec => []IInv
BY InitIInv, NextIInv, PTL DEF Spec

\* The state, the state machine and the turns of conversation stay well typed.
THEOREM TypeCorrect == Spec => []TypeOK
BY Invariance, PTL DEF IInv

\* Over stops, failures, restarts and resumes at most one phase is incomplete, and
\* it is the one the state machine implements.
THEOREM OneOpenPhaseAlways == Spec => []OneOpenPhase
BY Invariance, PTL DEF IInv

\* No request is planned twice.
THEOREM RequestsPlannedOnceAlways == Spec => []RequestsPlannedOnce
BY Invariance, PTL DEF IInv

-----------------------------------------------------------------------------
(* What a stop reaches                                                       *)

LEMMA AttachedStep ==
    ASSUME TypeOK, machine.signal # "detached", [Next]_vars
    PROVE  machine'.signal # "detached"
<1>1. machine \in Machines
  BY DEF TypeOK
<1>2. \A pc : At(pc).signal = "none" /\ [At(pc) EXCEPT !.final = TRUE].signal = "none"
  BY DEF At, NoMachine
<1>3. Idle => machine'.signal = "none"
  BY <1>2 DEF Idle
<1>4. Review => machine'.signal = "none"
  BY <1>2, <1>3 DEF Review
<1>5. Finalize => machine'.signal = "none"
  BY <1>2, <1>4 DEF Finalize
<1>6. Fail => machine'.signal = "none"
  BY <1>3, <1>4 DEF Fail
<1>7. \A b \in BOOLEAN : GenerateAllFiles(b) => UNCHANGED machine \/ machine'.signal = "none"
  BY DEF GenerateAllFiles, Launch, NoMachine
<1>8. CASE Work
  <2>0. CASE MachineStarts \/ TemplateMissing
    BY <2>0 DEF MachineStarts, TemplateMissing, At, NoMachine
  <2>1. CASE IssuesFetched \/ PhasePlanned \/ ImplementationStarts \/ FilesGenerated
    BY <1>1, <2>1 DEF IssuesFetched, PhasePlanned, ImplementationStarts, FilesGenerated, Machines
  <2>2. CASE NothingPlanned \/ PlanningFails \/ ImplementationFails
    BY <1>4, <1>5, <1>6, <2>2 DEF NothingPlanned, PlanningFails, ImplementationFails
  <2>3. CASE PhaseImplemented \/ ReviewEnds \/ GenerationEnds
    BY <1>2, <1>3, <1>4, <1>5, <2>3 DEF PhaseImplemented, ReviewEnds, GenerationEnds, NoMachine
  <2>. QED
    BY <1>8, <2>0, <2>1, <2>2, <2>3 DEF Work
<1>9. ASSUME NEW i \in Inputs, Converse(i)
      PROVE  machine'.signal # "detached"
  BY <1>7, <1>9
  DEF Converse, ChatStarts, QueueRequest, DebugStarts, DebugEnds, WaitStarts, WaitEnds, ChatEnds,
      ChatFails
<1>10. CASE Generate \/ Resume
  BY <1>7, <1>10 DEF Generate, Resume
<1>11. CASE Stop
  BY <1>1, <1>11 DEF Stop, Aborted, Machines
<1>12. CASE Restart
  BY <1>12 DEF Restart, NoMachine
<1>13. CASE UNCHANGED vars
  BY <1>13 DEF vars
<1>. QED
  BY <1>8, <1>9, <1>10, <1>11, <1>12, <1>13 DEF Next

\* STOP_GENERATION reaches the inference of the generation, however many turns of conversation
\* have come and gone with the abort controller that they share with it.
THEOREM StopAlwaysReaches == Spec => []StopReachesGeneration
<1>1. Init => machine.signal # "detached"
  BY DEF Init, NoMachine
<1>2. TypeOK /\ machine.signal # "detached" /\ [Next]_vars => (machine.signal # "detached")'
  BY AttachedStep
<1>3. machine.signal # "detached" => StopReachesGeneration
  BY DEF StopReachesGeneration
<1>. QED
  BY <1>1, <1>2, <1>3, TypeCorrect, PTL DEF Spec

-----------------------------------------------------------------------------
(* Where requests go                                                         *)

\* Phases are only added, with the requests they were planned from.
PhasesStay ==
    \A k \in DOMAIN generatedPhases :
        /\ k \in DOMAIN generatedPhases'
        /\ generatedPhases'[k].suggestions = generatedPhases[k].suggestions

LEMMA LostStep ==
    ASSUME PhasesStay, pendingUserInputs \subseteq pendingUserInputs' \cup Planner'
    PROVE  Held \ Planner \subseteq Held'
BY DEF PhasesStay, Held

LEMMA HeldStep ==
    ASSUME TypeOK, [Next]_vars
    PROVE  Held \ Planner \subseteq Held'
<1>1. machine \in Machines /\ generatedPhases \in Seq(Phases)
  BY DEF TypeOK
<1>2. UNCHANGED generatedPhases => PhasesStay
  BY DEF PhasesStay
<1>3. CASE Work
  <2>0. CASE MachineStarts
    <3>1. generatedPhases = <<>> => DOMAIN generatedPhases = {}
      OBVIOUS
    <3>2. PhasesStay
      BY <1>2, <2>0, <3>1 DEF MachineStarts, PhasesStay
    <3>. QED
      BY <2>0, <3>2, LostStep DEF MachineStarts
  <2>1. CASE IssuesFetched
    <3>1. Planner' = pendingUserInputs
      BY <1>1, <2>1 DEF IssuesFetched, Planner, Machines
    <3>. QED
      BY <1>2, <2>1, <3>1, LostStep DEF IssuesFetched
  <2>2. CASE PhasePlanned
    <3>1. PhasesStay
      BY <1>1, <2>2, PhasesType DEF PhasePlanned, PhasesStay
    <3>. QED
      BY <2>2, <3>1, LostStep DEF PhasePlanned
  <2>3. CASE PhaseImplemented
    <3>1. \A k \in DOMAIN generatedPhases : generatedPhases[k] \in Phases
      BY <1>1
    <3>2. PhasesStay
      BY <1>1, <2>3, <3>1 DEF PhaseImplemented, PhasesStay, Phases
    <3>. QED
      BY <2>3, <3>2, LostStep DEF PhaseImplemented
  <2>4. CASE TemplateMissing \/ NothingPlanned \/ PlanningFails \/ ImplementationStarts
             \/ FilesGenerated \/ ImplementationFails \/ ReviewEnds \/ GenerationEnds
    BY <1>2, <2>4, LostStep
    DEF TemplateMissing, NothingPlanned, PlanningFails, ImplementationStarts, FilesGenerated, ImplementationFails,
        ReviewEnds, GenerationEnds
  <2>. QED
    BY <1>3, <2>0, <2>1, <2>2, <2>3, <2>4 DEF Work
<1>4. ASSUME NEW i \in Inputs, Converse(i)
      PROVE  PhasesStay /\ pendingUserInputs \subseteq pendingUserInputs'
  BY <1>2, <1>4
  DEF Converse, ChatStarts, QueueRequest, DebugStarts, DebugEnds, WaitStarts, WaitEnds, ChatEnds,
      ChatFails
<1>5. CASE Generate \/ Resume \/ Stop \/ Restart
  BY <1>2, <1>5, LostStep DEF Generate, Resume, Stop, Restart
<1>6. CASE UNCHANGED vars
  BY <1>2, <1>6, LostStep DEF vars
<1>. QED
  BY <1>3, <1>4, <1>5, <1>6, LostStep DEF Next

\* A request is lost only by the planner it was given to, whatever is queued, stopped, failed,
\* resumed or restarted meanwhile.
THEOREM OnlyThePlannerLoses == Spec => LostOnlyByPlanner
<1>1. TypeOK /\ [Next]_vars => [Held \ Planner \subseteq Held']_vars
  BY HeldStep
<1>. QED
  BY <1>1, TypeCorrect, PTL DEF Spec, LostOnlyByPlanner

-----------------------------------------------------------------------------
(* How many phases are planned                                               *)

Queued == {i \in Inputs : chat[i].queued}
Pending == pendingUserInputs # {}
Looping == machine.pc \in {"starting", "issues", "planning"} \cup Implementing

AtLeast(n, k) == IF n > k THEN n ELSE k
OneIf(b) == IF b THEN 1 ELSE 0

\* The rounds of the loop that end a generation by its counter, and the phase that
\* executeFinalizing adds to them.
Rounds == AtLeast(phasesCounter, IF Pending THEN 2 ELSE 1)
FinalPhase == OneIf(Pending \/ (mvpGenerated /\ Looping /\ (machine.final => machine.pc = "starting")))

\* The phases that may still be planned before a message recharges the counter.
PhasesLeft ==
    IF Incomplete # {} THEN Rounds - 1 + FinalPhase
    ELSE IF machine.pc = "planning" \/ generatedPhases = <<>> THEN Rounds + FinalPhase
    ELSE IF Looping \/ ~NothingToDo THEN AtLeast(phasesCounter, 1) + FinalPhase
    ELSE AtLeast(phasesCounter, 0)

FewLeft ==
    /\ machine.final => mvpGenerated
    /\ IsFiniteSet(Queued)
    /\ Len(generatedPhases) + PhasesLeft <= MaxPhases + (Recharge + 1) * Cardinality(Queued)

LEMMA LeftType ==
    TypeOK => PhasesLeft \in Nat /\ Len(generatedPhases) \in Nat /\ phasesCounter \in Int
BY DEF TypeOK, PhasesLeft, Rounds, FinalPhase, AtLeast, OneIf

LEMMA LeftTypeNext ==
    (TypeOK => PhasesLeft \in Nat /\ Len(generatedPhases) \in Nat /\ phasesCounter \in Int)'
BY LeftType, PTL

\* A step that queues nothing plans no more than was left.
LEMMA FewStep ==
    ASSUME FewLeft, TypeOK, TypeOK',
           \A i \in Inputs : chat'[i].queued = chat[i].queued,
           machine'.final => mvpGenerated',
           Len(generatedPhases') + PhasesLeft' <= Len(generatedPhases) + PhasesLeft
    PROVE  FewLeft'
<1>1. Queued' = Queued
  BY DEF Queued
<1>2. Cardinality(Queued) \in Nat /\ MaxPhases \in Nat /\ Recharge \in Nat
  BY FS_CardinalityType, CounterAssumption DEF FewLeft
<1>3. (Recharge + 1) * Cardinality(Queued) \in Nat
  BY <1>2
<1>4. /\ PhasesLeft \in Nat /\ Len(generatedPhases) \in Nat
      /\ PhasesLeft' \in Nat /\ Len(generatedPhases') \in Nat
  BY LeftType, LeftTypeNext
<1>. QED
  BY <1>1, <1>2, <1>3, <1>4 DEF FewLeft

\* The machine comes to rest with what it had left.
LEMMA RestLeft ==
    ASSUME TypeOK, TypeOK', OneOpenPhase, FewLeft, Resting,
           UNCHANGED <<pendingUserInputs, generatedPhases, phasesCounter>>,
           mvpGenerated => mvpGenerated', mvpGenerated' => mvpGenerated \/ machine.pc = "planning"
    PROVE  Len(generatedPhases') + PhasesLeft' <= Len(generatedPhases) + PhasesLeft
<1>1. Incomplete' = Incomplete
  BY DEF Incomplete
<1>2. Pending' = Pending /\ ~Looping'
  BY DEF Pending, Looping, Resting, Implementing
<1>. QED
  BY <1>1, <1>2, LeftType
  DEF PhasesLeft, Rounds, FinalPhase, AtLeast, OneIf, NothingToDo, Pending, Looping, TypeOK,
      OneOpenPhase, Implementing, FewLeft
LEMMA FreshMachine ==
    /\ \A pc : ~At(pc).final /\ [At(pc) EXCEPT !.final = TRUE].final
    /\ \A pc \in {"stuck", "issues", "reviewing", "closing"} :
          At(pc).pc = pc /\ [At(pc) EXCEPT !.final = TRUE].pc = pc
    /\ ~NoMachine.final /\ NoMachine.pc = "none"
BY DEF At, NoMachine

\* Idle, Review, Finalize and Fail leave what the turns have queued, ...
LEMMA QueuedKept ==
    ASSUME TypeOK
    PROVE  /\ Idle => \A i \in Inputs : chat'[i].queued = chat[i].queued
           /\ Review => \A i \in Inputs : chat'[i].queued = chat[i].queued
           /\ Finalize => \A i \in Inputs : chat'[i].queued = chat[i].queued
           /\ Fail => \A i \in Inputs : chat'[i].queued = chat[i].queued
<1>1. \A i \in Inputs : chat[i] \in Turns
  BY DEF TypeOK
<1>2. Idle => \A i \in Inputs : chat'[i].queued = chat[i].queued
  BY <1>1, SignalsType DEF Idle
<1>3. Review => \A i \in Inputs : chat'[i].queued = chat[i].queued
  BY <1>2 DEF Review
<1>. QED
  BY <1>2, <1>3 DEF Finalize, Fail

\* ... and all but Finalize bring the machine to rest.
LEMMA MachineRests ==
    /\ Idle => Resting /\ ~machine'.final
    /\ Review => Resting /\ ~machine'.final
    /\ Fail => Resting /\ ~machine'.final
<1>1. Idle => Resting /\ ~machine'.final
  BY FreshMachine, ZenonT(40) DEF Idle, Resting
<1>2. Review => Resting /\ ~machine'.final
  BY <1>1, FreshMachine DEF Review, Resting
<1>. QED
  BY <1>1, <1>2 DEF Fail

LEMMA PlanningLeft ==
    ASSUME TypeOK, TypeOK', OneOpenPhase, FewLeft,
           IssuesFetched \/ PhasePlanned \/ NothingPlanned
    PROVE  FewLeft'
<1>1. machine \in Machines /\ generatedPhases \in Seq(Phases)
  BY DEF TypeOK
<1>2. Incomplete = {} /\ Looping
  BY DEF OneOpenPhase, Looping, IssuesFetched, PhasePlanned, NothingPlanned
<1>3. CASE IssuesFetched
  <2>1. Incomplete' = {} /\ ~Pending'
    BY <1>2, <1>3 DEF IssuesFetched, Incomplete, Pending
  <2>2. machine'.pc = "planning" /\ machine'.final = machine.final
    BY <1>1, <1>3 DEF IssuesFetched, Machines
  <2>3. Len(generatedPhases') + PhasesLeft' <= Len(generatedPhases) + PhasesLeft
    BY <1>2, <1>3, <2>1, <2>2, LeftType
    DEF IssuesFetched, flags, PhasesLeft, Rounds, FinalPhase, AtLeast, OneIf, Looping, FewLeft
  <2>. QED
    BY <1>3, <2>2, <2>3, FewStep DEF IssuesFetched, flags, FewLeft
<1>4. CASE PhasePlanned
  <2>1. /\ Len(generatedPhases') = Len(generatedPhases) + 1
        /\ Len(generatedPhases') \in DOMAIN generatedPhases'
        /\ generatedPhases'[Len(generatedPhases')] = NewPhase(machine.suggestions)
    BY <1>1, <1>4 DEF PhasePlanned
  <2>2. Incomplete' # {}
    BY <2>1 DEF Incomplete, NewPhase
  <2>3. machine'.pc = "preparing" /\ machine'.final = machine.final
    BY <1>1, <1>4 DEF PhasePlanned, Machines
  <2>4. Pending' = Pending
    BY <1>4 DEF PhasePlanned, Pending
  <2>5. Len(generatedPhases') + PhasesLeft' <= Len(generatedPhases) + PhasesLeft
    BY <1>2, <1>4, <2>1, <2>2, <2>3, <2>4, LeftType
    DEF PhasePlanned, flags, PhasesLeft, Rounds, FinalPhase, AtLeast, OneIf, Looping,
        Implementing
  <2>. QED
    BY <1>4, <2>3, <2>5, FewStep DEF PhasePlanned, flags, FewLeft
<1>5. CASE NothingPlanned
  <2>1. Incomplete' = {} /\ Pending' = Pending
    BY <1>2, <1>5 DEF NothingPlanned, Incomplete, Pending
  <2>2. \A i \in Inputs : chat'[i].queued = chat[i].queued
    BY <1>5, QueuedKept DEF NothingPlanned
  <2>3. CASE Review
    <3>1. (mvpGenerated => mvpGenerated') /\ (mvpGenerated' => mvpGenerated \/ machine.pc = "planning")
      BY <1>5 DEF NothingPlanned, Finalize, TypeOK
    <3>2. Len(generatedPhases') + PhasesLeft' <= Len(generatedPhases) + PhasesLeft
      BY <1>5, <2>3, <3>1, RestLeft, MachineRests DEF NothingPlanned
    <3>. QED
      BY <2>2, <2>3, <3>2, FewStep, MachineRests
  <2>4. CASE ~Review
    <3>1. ~machine.final /\ mvpGenerated /\ mvpGenerated'
          /\ machine'.pc = "issues" /\ machine'.final
      BY <1>5, <2>4, FreshMachine DEF NothingPlanned, Finalize
    <3>2. Len(generatedPhases') + PhasesLeft' <= Len(generatedPhases) + PhasesLeft
      BY <1>2, <1>5, <2>1, <3>1, LeftType
      DEF NothingPlanned, PhasesLeft, Rounds, FinalPhase, AtLeast, OneIf, Looping
    <3>. QED
      BY <2>2, <3>1, <3>2, FewStep
  <2>. QED
    BY <2>3, <2>4
<1>. QED
  BY <1>3, <1>4, <1>5
LEMMA ImplementingLeft ==
    ASSUME TypeOK, TypeOK', OneOpenPhase, OneOpenPhase', FewLeft,
           ImplementationStarts \/ FilesGenerated \/ PhaseImplemented
    PROVE  FewLeft'
<1>1. machine \in Machines /\ generatedPhases \in Seq(Phases)
  BY DEF TypeOK
<1>2. machine.pc \in Implementing /\ Incomplete = {machine.phase} /\ Looping
  BY DEF OneOpenPhase, Looping, ImplementationStarts, FilesGenerated, PhaseImplemented,
         Implementing
<1>3. CASE ImplementationStarts \/ FilesGenerated
  <2>1. Incomplete' = Incomplete /\ Pending' = Pending
    BY <1>3 DEF ImplementationStarts, FilesGenerated, Incomplete, Pending
  <2>2. machine'.pc \in Implementing /\ machine'.final = machine.final
    BY <1>1, <1>3 DEF ImplementationStarts, FilesGenerated, Machines, Implementing
  <2>3. Len(generatedPhases') + PhasesLeft' <= Len(generatedPhases) + PhasesLeft
    BY <1>2, <1>3, <2>1, <2>2, LeftType
    DEF ImplementationStarts, FilesGenerated, flags, PhasesLeft, Rounds, FinalPhase, AtLeast,
        OneIf, Looping, Implementing
  <2>. QED
    BY <1>3, <2>2, <2>3, FewStep DEF ImplementationStarts, FilesGenerated, flags, FewLeft
<1>4. CASE PhaseImplemented
  <2>1. /\ Len(generatedPhases') = Len(generatedPhases)
        /\ DOMAIN generatedPhases' = DOMAIN generatedPhases
        /\ \A k \in DOMAIN generatedPhases : k # machine.phase =>
              generatedPhases'[k] = generatedPhases[k]
        /\ machine.phase \in DOMAIN generatedPhases => generatedPhases'[machine.phase].completed
    <3>1. \A k \in DOMAIN generatedPhases : generatedPhases[k] \in Phases
      BY <1>1
    <3>. QED
      BY <1>1, <1>4, <3>1 DEF PhaseImplemented, Phases
  <2>2. Incomplete' = {} /\ Pending' = Pending /\ generatedPhases # <<>> /\ generatedPhases' # <<>>
    BY <1>1, <1>2, <1>4, <2>1 DEF PhaseImplemented, Incomplete, Pending
  <2>3. \A i \in Inputs : chat'[i].queued = chat[i].queued
    BY <1>4, QueuedKept DEF PhaseImplemented
  <2>4. phasesCounter' = phasesCounter - 1 /\ mvpGenerated \in BOOLEAN
    BY <1>4 DEF PhaseImplemented, TypeOK
  <2>5. CASE machine.final /\ Review /\ UNCHANGED mvpGenerated
    <3>1. ~Looping' /\ ~machine'.final /\ machine'.pc # "planning"
      BY <2>5, MachineRests DEF Looping, Resting, Implementing
    <3>2. Len(generatedPhases') + PhasesLeft' <= Len(generatedPhases) + PhasesLeft
      BY <1>2, <2>1, <2>2, <2>4, <2>5, <3>1, LeftType
      DEF PhasesLeft, Rounds, FinalPhase, AtLeast, OneIf, NothingToDo, Pending, FewLeft
    <3>. QED
      BY <2>3, <3>1, <3>2, FewStep
  <2>6. CASE ~machine.final /\ pendingUserInputs = {} /\ Finalize
    <3>1. CASE mvpGenerated
      <4>1. mvpGenerated' /\ machine'.pc = "issues" /\ machine'.final
        BY <2>6, <3>1, FreshMachine DEF Finalize
      <4>2. Len(generatedPhases') + PhasesLeft' <= Len(generatedPhases) + PhasesLeft
        BY <1>2, <2>1, <2>2, <2>4, <2>6, <3>1, <4>1, LeftType
        DEF PhasesLeft, Rounds, FinalPhase, AtLeast, OneIf, Looping, Pending
      <4>. QED
        BY <2>3, <4>1, <4>2, FewStep
    <3>2. CASE ~mvpGenerated
      <4>1. mvpGenerated' /\ ~machine'.final /\ ~Looping' /\ machine'.pc # "planning"
        BY <2>6, <3>2, MachineRests DEF Finalize, Looping, Resting, Implementing
      <4>2. NothingToDo'
        BY <1>4, <2>6, <4>1 DEF PhaseImplemented, NothingToDo
      <4>3. Len(generatedPhases') + PhasesLeft' <= Len(generatedPhases) + PhasesLeft
        BY <1>2, <2>1, <2>2, <2>4, <2>6, <3>2, <4>1, <4>2, LeftType
        DEF PhasesLeft, Rounds, FinalPhase, AtLeast, OneIf, Looping, Pending
      <4>. QED
        BY <2>3, <4>1, <4>3, FewStep
    <3>. QED
      BY <2>4, <3>1, <3>2
  <2>7. CASE /\ ~machine.final
             /\ phasesCounter' > 0 \/ pendingUserInputs # {}
             /\ machine' = At("issues")
             /\ UNCHANGED <<mvpGenerated, reviewingInitiated, chat>>
    <3>1. machine'.pc = "issues" /\ ~machine'.final
      BY <2>7, FreshMachine
    <3>2. Len(generatedPhases') + PhasesLeft' <= Len(generatedPhases) + PhasesLeft
      BY <1>2, <2>1, <2>2, <2>4, <2>7, <3>1, LeftType
      DEF PhasesLeft, Rounds, FinalPhase, AtLeast, OneIf, Looping, Pending
    <3>. QED
      BY <2>3, <3>1, <3>2, FewStep
  <2>. QED
    BY <1>4, <2>5, <2>6, <2>7 DEF PhaseImplemented
<1>. QED
  BY <1>3, <1>4

LEMMA RestingLeft ==
    ASSUME TypeOK, TypeOK', OneOpenPhase, FewLeft,
           \/ TemplateMissing \/ PlanningFails \/ ImplementationFails
           \/ ReviewEnds \/ GenerationEnds \/ Restart
    PROVE  FewLeft'
<1>1. Resting /\ ~machine'.final
  BY MachineRests, FreshMachine
  DEF TemplateMissing, PlanningFails, ImplementationFails, ReviewEnds, GenerationEnds, Restart, Resting
<1>2. UNCHANGED <<mvpGenerated, pendingUserInputs, generatedPhases, phasesCounter>>
  BY DEF TemplateMissing, PlanningFails, ImplementationFails, ReviewEnds, GenerationEnds, Restart, flags
<1>3. \A i \in Inputs : chat'[i].queued = chat[i].queued
  <2>1. CASE PlanningFails \/ ImplementationFails \/ ReviewEnds \/ GenerationEnds
    BY <2>1, QueuedKept DEF TemplateMissing, PlanningFails, ImplementationFails, ReviewEnds, GenerationEnds
  <2>2. CASE Restart
    BY <2>2, EndedType DEF Restart
  <2>3. CASE TemplateMissing
    BY <2>3 DEF TemplateMissing
  <2>. QED
    BY <2>1, <2>2, <2>3
<1>. QED
  BY <1>1, <1>2, <1>3, RestLeft, FewStep

\* A launch that is waiting for its template may still plan what there was to do.
LEMMA LaunchLeft ==
    ASSUME TypeOK, TypeOK', FewLeft, NEW b \in BOOLEAN, GenerateAllFiles(b),
           UNCHANGED <<mvpGenerated, pendingUserInputs, generatedPhases, phasesCounter>>,
           \A i \in Inputs : chat'[i].queued = chat[i].queued
    PROVE  FewLeft'
<1>1. /\ Pending' = Pending /\ mvpGenerated \in BOOLEAN /\ Incomplete' = Incomplete
      /\ NothingToDo' = NothingToDo
  BY DEF Pending, TypeOK, Incomplete, NothingToDo
<1>2. CASE UNCHANGED machine
  <2>1. PhasesLeft' = PhasesLeft
    BY <1>1, <1>2
    DEF PhasesLeft, Rounds, FinalPhase, AtLeast, OneIf, Looping
  <2>. QED
    BY <1>2, <2>1, LeftType, FewStep DEF FewLeft
<1>3. CASE machine.pc = "none" /\ ~NothingToDo /\ machine'.pc = "starting"
  <2>1. PhasesLeft' = PhasesLeft \/ PhasesLeft' <= PhasesLeft
    BY <1>1, <1>3, LeftType
    DEF PhasesLeft, Rounds, FinalPhase, AtLeast, OneIf, Looping, NothingToDo, Pending, Implementing
  <2>2. machine'.final => mvpGenerated'
    BY GenerateAllFilesEffect DEF FewLeft
  <2>. QED
    BY <2>1, <2>2, LeftType, LeftTypeNext, FewStep
<1>. QED
  BY <1>2, <1>3, GenerateAllFilesEffect

\* The state machine takes up the open phase, plans, or opens the first one.
LEMMA StartLeft ==
    ASSUME TypeOK, TypeOK', OneOpenPhase, OneOpenPhase', FewLeft, MachineStarts
    PROVE  FewLeft'
<1>1. /\ Pending' = Pending /\ mvpGenerated \in BOOLEAN /\ Looping /\ machine.pc = "starting"
      /\ NothingToDo' = NothingToDo
      /\ UNCHANGED <<mvpGenerated, phasesCounter, chat>>
  BY DEF Pending, TypeOK, MachineStarts, Looping, NothingToDo, flags
<1>2. /\ machine'.pc \in {"preparing", "issues"} /\ ~machine'.final
      /\ machine'.pc = "issues" => generatedPhases # <<>> /\ Incomplete = {}
      /\ generatedPhases = <<>> => machine'.pc = "preparing"
  BY DEF MachineStarts, At, NoMachine, Incomplete
<1>3. CASE UNCHANGED generatedPhases
  <2>1. Incomplete' = Incomplete
    BY <1>3 DEF Incomplete
  <2>2. Looping'
    BY <1>2 DEF Looping, Implementing
  <2>3. FinalPhase' = FinalPhase
    BY <1>1, <1>2, <2>2 DEF FinalPhase, OneIf
  <2>4. Rounds' = Rounds
    BY <1>1 DEF Rounds, AtLeast
  <2>5. PhasesLeft' <= PhasesLeft
    BY <1>1, <1>2, <1>3, <2>1, <2>2, <2>3, <2>4, LeftType
    DEF PhasesLeft, Rounds, FinalPhase, AtLeast, OneIf
  <2>. QED
    BY <1>1, <1>2, <1>3, <2>5, LeftType, LeftTypeNext, FewStep
<1>4. CASE generatedPhases = <<>> /\ generatedPhases' = <<NewPhase({})>>
  <2>1. Incomplete = {}
    BY <1>4 DEF Incomplete
  <2>2. Incomplete' # {}
    BY <1>2, <1>4 DEF OneOpenPhase, Implementing
  <2>3. Len(generatedPhases) = 0 /\ Len(generatedPhases') = 1
    BY <1>4
  <2>4. Len(generatedPhases') + PhasesLeft' <= Len(generatedPhases) + PhasesLeft
    BY <1>1, <1>2, <1>4, <2>1, <2>2, <2>3, LeftType
    DEF PhasesLeft, Rounds, FinalPhase, AtLeast, OneIf, Looping
  <2>. QED
    BY <1>1, <1>2, <2>4, FewStep
<1>. QED
  BY <1>3, <1>4 DEF MachineStarts

\* A step that leaves the generation alone.
LEMMA AloneLeft ==
    ASSUME TypeOK, TypeOK', FewLeft,
           UNCHANGED <<mvpGenerated, pendingUserInputs, generatedPhases, phasesCounter>>,
           machine'.pc = machine.pc, machine'.final = machine.final,
           \A i \in Inputs : chat'[i].queued = chat[i].queued
    PROVE  FewLeft'
<1>1. PhasesLeft' = PhasesLeft
  BY DEF PhasesLeft, Rounds, FinalPhase, AtLeast, OneIf, Looping, NothingToDo, Incomplete, Pending
<1>. QED
  BY <1>1, LeftType, FewStep DEF FewLeft

LEMMA Budget ==
    ASSUME NEW n \in Nat, NEW left \in Nat, NEW next \in Nat, NEW max \in Nat, NEW r \in Nat,
           NEW k \in Nat, n + left <= max + k, next <= left + r + 1
    PROVE  n + next <= max + (k + r + 1)
OBVIOUS

LEMMA MoreLeft ==
    ASSUME NEW n \in Nat, NEW m \in Nat, NEW f \in Nat, NEW r \in Nat, m <= n + r
    PROVE  m + 1 <= n + f + r + 1 /\ m - 1 + 1 <= n - 1 + f + r + 1
OBVIOUS

\* A request adds what it recharges and a final phase.
LEMMA QueueLeft ==
    ASSUME TypeOK, TypeOK', FewLeft, NEW i \in Inputs, QueueRequest(i)
    PROVE  FewLeft'
<1>1. \A j \in Inputs : chat[j] \in Turns
  BY DEF TypeOK
<1>2. /\ chat'[i].queued
      /\ \A j \in Inputs : j # i => chat'[j] = chat[j]
  BY <1>1 DEF QueueRequest, TypeOK, Turns
<1>3. i \notin Queued /\ Queued' = Queued \cup {i}
  BY <1>2 DEF QueueRequest, Queued
<1>4. /\ IsFiniteSet(Queued') /\ Cardinality(Queued) \in Nat
      /\ Cardinality(Queued') = Cardinality(Queued) + 1
  BY <1>3, FS_AddElement, FS_CardinalityType DEF FewLeft
<1>5. Incomplete' = Incomplete /\ Looping' = Looping /\ Pending'
  BY DEF QueueRequest, Incomplete, Looping, Pending
<1>6. Recharge \in Nat /\ Recharge >= 1 /\ MaxPhases \in Nat
  BY CounterAssumption
<1>7. PhasesLeft' <= PhasesLeft + Recharge + 1
  <2>1. /\ phasesCounter' = IF phasesCounter <= Recharge THEN Recharge ELSE phasesCounter
        /\ UNCHANGED <<mvpGenerated, generatedPhases, machine>>
    BY DEF QueueRequest, flags
  <2>2. /\ Rounds \in Nat /\ Rounds' \in Nat
        /\ FinalPhase \in Nat /\ FinalPhase' = 1
    BY <1>5, <1>6, <2>1, LeftType DEF Rounds, FinalPhase, AtLeast, OneIf
  <2>3. Rounds' <= Rounds + Recharge
    BY <1>5, <1>6, <2>1, LeftType DEF Rounds, AtLeast
  <2>4. /\ AtLeast(phasesCounter, 0) \in Nat /\ AtLeast(phasesCounter, 1) \in Nat
        /\ AtLeast(phasesCounter', 1) \in Nat
        /\ AtLeast(phasesCounter', 1) <= AtLeast(phasesCounter, 0) + Recharge
        /\ AtLeast(phasesCounter', 1) <= AtLeast(phasesCounter, 1) + Recharge
    BY <1>6, <2>1, LeftType DEF AtLeast
  <2>5. ~NothingToDo'
    BY <1>5 DEF NothingToDo, Pending
  <2>6. CASE Incomplete # {}
    <3>1. PhasesLeft = Rounds - 1 + FinalPhase /\ PhasesLeft' = Rounds' - 1 + FinalPhase'
      BY <1>5, <2>6 DEF PhasesLeft
    <3>. QED
      BY <1>6, <2>2, <2>3, <3>1, MoreLeft
  <2>7. CASE Incomplete = {} /\ (machine.pc = "planning" \/ generatedPhases = <<>>)
    <3>1. PhasesLeft = Rounds + FinalPhase /\ PhasesLeft' = Rounds' + FinalPhase'
      BY <1>5, <2>1, <2>7 DEF PhasesLeft
    <3>. QED
      BY <1>6, <2>2, <2>3, <3>1, MoreLeft
  <2>8. CASE Incomplete = {} /\ machine.pc # "planning" /\ generatedPhases # <<>>
    <3>1. /\ \/ PhasesLeft = AtLeast(phasesCounter, 1) + FinalPhase
             \/ PhasesLeft = AtLeast(phasesCounter, 0)
          /\ PhasesLeft' = AtLeast(phasesCounter', 1) + FinalPhase'
      BY <1>5, <2>1, <2>5, <2>8 DEF PhasesLeft
    <3>. QED
      BY <1>6, <2>2, <2>4, <3>1
  <2>. QED
    BY <2>6, <2>7, <2>8
<1>8. (Recharge + 1) * (Cardinality(Queued) + 1) = (Recharge + 1) * Cardinality(Queued) + Recharge + 1
  BY <1>4, <1>6
<1>9. (Recharge + 1) * Cardinality(Queued) \in Nat
  BY <1>4, <1>6
<1>10. /\ PhasesLeft \in Nat /\ PhasesLeft' \in Nat /\ Len(generatedPhases) \in Nat
       /\ generatedPhases' = generatedPhases /\ machine' = machine /\ mvpGenerated' = mvpGenerated
  BY LeftType, LeftTypeNext DEF QueueRequest, flags
<1>11. Len(generatedPhases) + PhasesLeft' <=
          MaxPhases + (Recharge + 1) * Cardinality(Queued')
  <2>1. Len(generatedPhases) + PhasesLeft <= MaxPhases + (Recharge + 1) * Cardinality(Queued)
    BY DEF FewLeft
  <2>. QED
    BY <1>4, <1>6, <1>7, <1>8, <1>9, <1>10, <2>1, Budget
<1>. QED
  BY <1>4, <1>10, <1>11 DEF FewLeft

LEMMA ConverseLeft ==
    ASSUME TypeOK, TypeOK', OneOpenPhase, OneOpenPhase', FewLeft, NEW i \in Inputs, Converse(i)
    PROVE  FewLeft'
<1>1. \A j \in Inputs : chat[j] \in Turns
  BY DEF TypeOK
<1>2. CASE QueueRequest(i)
  BY <1>2, QueueLeft
<1>3. CASE ChatStarts(i) \/ DebugStarts(i) \/ DebugEnds(i) \/ WaitStarts(i) \/ WaitEnds(i)
  <2>1. \A j \in Inputs : chat'[j].queued = chat[j].queued
    <3>0. \A t \in Turns : [t EXCEPT !.pc = "thinking", !.signal = "current"].queued = t.queued
      BY DEF Turns
    <3>1. CASE ChatStarts(i)
      BY <1>1, <3>0, <3>1 DEF ChatStarts, TypeOK
    <3>3. CASE DebugStarts(i)
      BY <1>1, <3>3 DEF DebugStarts, Turns, TypeOK
    <3>2. CASE DebugEnds(i) \/ WaitStarts(i) \/ WaitEnds(i)
      BY <1>1, <3>2 DEF DebugEnds, WaitStarts, WaitEnds, Turns, TypeOK
    <3>. QED
      BY <1>3, <3>1, <3>2, <3>3
  <2>. QED
    BY <1>3, <2>1, AloneLeft DEF ChatStarts, DebugStarts, DebugEnds, WaitStarts, WaitEnds, flags
<1>4. CASE ChatEnds(i) \/ ChatFails(i)
  <2>1. \A j \in Inputs : chat'[j].queued = chat[j].queued
    BY <1>1, <1>4, EndedType DEF ChatEnds, ChatFails, TypeOK
  <2>2. CASE ChatEnds(i)
    BY <2>1, <2>2, LaunchLeft DEF ChatEnds, flags
  <2>3. CASE ChatFails(i)
    BY <2>1, <2>3, AloneLeft DEF ChatFails, flags
  <2>. QED
    BY <1>4, <2>2, <2>3
<1>. QED
  BY <1>2, <1>3, <1>4 DEF Converse

LEMMA ClickLeft ==
    ASSUME TypeOK, TypeOK', OneOpenPhase, OneOpenPhase', FewLeft, Generate \/ Resume \/ Stop
    PROVE  FewLeft'
<1>1. CASE Generate \/ Resume
  BY <1>1, LaunchLeft DEF Generate, Resume
<1>2. CASE Stop
  <2>1. machine'.pc = machine.pc /\ machine'.final = machine.final
    BY <1>2 DEF Stop, TypeOK, Machines
  <2>2. \A j \in Inputs : chat'[j].queued = chat[j].queued
    BY <1>2, SignalsType DEF Stop, TypeOK
  <2>. QED
    BY <1>2, <2>1, <2>2, AloneLeft DEF Stop
<1>. QED
  BY <1>1, <1>2

LEMMA FewNext ==
    ASSUME TypeOK, TypeOK', OneOpenPhase, OneOpenPhase', FewLeft, [Next]_vars
    PROVE  FewLeft'
<1>1. CASE Work
  BY <1>1, StartLeft, PlanningLeft, ImplementingLeft, RestingLeft DEF Work
<1>2. ASSUME NEW i \in Inputs, Converse(i)
      PROVE  FewLeft'
  BY <1>2, ConverseLeft
<1>3. CASE Generate \/ Resume \/ Stop
  BY <1>3, ClickLeft
<1>4. CASE Restart
  BY <1>4, RestingLeft
<1>5. CASE UNCHANGED vars
  BY <1>5, AloneLeft DEF vars, flags
<1>. QED
  BY <1>1, <1>2, <1>3, <1>4, <1>5 DEF Next

LEMMA FewInit == Init => FewLeft
<1> SUFFICES ASSUME Init PROVE FewLeft
  OBVIOUS
<1>1. Queued = {}
  BY DEF Init, Queued, NoTurn
<1>2. IsFiniteSet(Queued) /\ Cardinality(Queued) = 0
  BY <1>1, FS_EmptySet
<1>3. /\ Len(generatedPhases) = 0 /\ generatedPhases = <<>> /\ Incomplete = {}
      /\ ~machine.final /\ ~Pending /\ ~mvpGenerated /\ phasesCounter = MaxPhases
  BY DEF Init, NoMachine, Incomplete, Pending
<1>4. MaxPhases \in Nat \ {0} /\ Recharge \in Nat
  BY CounterAssumption
<1>5. PhasesLeft = MaxPhases
  BY <1>3, <1>4 DEF PhasesLeft, Rounds, FinalPhase, AtLeast, OneIf
<1>. QED
  BY <1>2, <1>3, <1>4, <1>5 DEF FewLeft

\* A generation plans no more phases than the counter started with, and each request adds no
\* more than its recharge and one final phase, over stops, failures, resumes and restarts.
THEOREM PhasesAlwaysBounded == Spec => []PhasesBounded
<1>1. TypeOK /\ OneOpenPhase /\ TypeOK' /\ OneOpenPhase' /\ FewLeft /\ [Next]_vars => FewLeft'
  BY FewNext
<1>2. TypeOK /\ FewLeft => PhasesBounded
  <2> SUFFICES ASSUME TypeOK, FewLeft PROVE PhasesBounded
    OBVIOUS
  <2>1. Cardinality(Queued) \in Nat /\ MaxPhases \in Nat /\ Recharge \in Nat
    BY FS_CardinalityType, CounterAssumption DEF FewLeft
  <2>2. (Recharge + 1) * Cardinality(Queued) \in Nat
    BY <2>1
  <2>. QED
    BY <2>1, <2>2, LeftType DEF FewLeft, PhasesBounded, Queued
<1>. QED
  BY <1>1, <1>2, FewInit, TypeCorrect, OneOpenPhaseAlways, PTL DEF Spec

=============================================================================
