----------------------------- MODULE Conversation -----------------------------
(***************************************************************************)
(* The two histories of an agent's conversation, the full one and the      *)
(* running one (agents/core/codingAgent.ts), and who writes them: turns of *)
(* handleUserInput (agents/core/behaviors/base.ts), which read both before *)
(* a long inference and write both after it, with the running one          *)
(* compacted (agents/operations/UserConversationProcessor.ts,              *)
(* agents/utils/conversationCompactifier.ts), the message of the review    *)
(* (agents/core/behaviors/phasic.ts) and CLEAR_CONVERSATION.               *)
(*                                                                         *)
(* Of a message only this matters: its role, and the facts it is about,    *)
(* which of an original message is the message itself (the turn it is of   *)
(* and its place in the turn) and of a summary all that it summarizes.     *)
(***************************************************************************)
EXTENDS Naturals, Sequences, FiniteSets

CONSTANTS
    Turns,                     \* the turns of conversation
    Review,                    \* stands for the review, in the place of a turn
    MAX_TURNS,                 \* COMPACTIFICATION_CONFIG.MAX_TURNS
    PRESERVE_RECENT_MESSAGES,  \* COMPACTIFICATION_CONFIG.PRESERVE_RECENT_MESSAGES
    MAX_LLM_MESSAGES,
    MaxToolCalls,              \* bound on the tool calls of a turn
    MaxClears,                 \* bound on CLEAR_CONVERSATION
    MaxSaveFailures,           \* bound on INSERTs that throw
    MaxRestarts                \* bound on restarts of the durable object

ASSUME ReviewAssumption == Review \notin Turns
ASSUME CompactionAssumption ==
    /\ MAX_TURNS \in Nat \ {0}
    /\ PRESERVE_RECENT_MESSAGES \in Nat \ {0}
    /\ PRESERVE_RECENT_MESSAGES <= 2 * (MAX_TURNS - 1)
ASSUME BoundAssumption ==
    /\ MAX_LLM_MESSAGES \in Nat /\ MaxToolCalls \in Nat
    /\ MaxClears \in Nat /\ MaxSaveFailures \in Nat /\ MaxRestarts \in Nat

VARIABLES
    fullHistory,         \* the row of full_conversations, <<>> if there is none
    runningHistory,      \* the row of compact_conversations
    turn,                \* the turns, and the conversationState each has read
    reviewingInitiated,  \* and the message of the review is in the histories
    clears, saveFailures, restarts  \* so far

vars == <<fullHistory, runningHistory, turn, reviewingInitiated, clears, saveFailures, restarts>>

Facts == (Turns \cup {Review}) \X Nat
Messages == [role : {"user", "assistant", "tool"}, about : SUBSET Facts]
Histories == Seq(Messages)
TurnRecords == [pc : {"unsent", "thinking", "answered", "fallback", "gone"},
                full : Histories, running : Histories]

TypeOK ==
    /\ fullHistory \in Histories
    /\ runningHistory \in Histories
    /\ turn \in [Turns -> TurnRecords]
    /\ reviewingInitiated \in BOOLEAN
    /\ clears \in Nat
    /\ saveFailures \in Nat
    /\ restarts \in Nat

Finished(pc) == [pc |-> pc, full |-> <<>>, running |-> <<>>]

Init ==
    /\ fullHistory = <<>>
    /\ runningHistory = <<>>
    /\ turn = [t \in Turns |-> Finished("unsent")]
    /\ reviewingInitiated = FALSE
    /\ clears = 0
    /\ saveFailures = 0
    /\ restarts = 0

-----------------------------------------------------------------------------
Original(role, t, place) == [role |-> role, about |-> {<<t, place>>}]

RoleAt(place) ==
    IF place = 1 THEN "user" ELSE IF place % 2 = 0 THEN "assistant" ELSE "tool"

\* The messages a turn adds: the user's, a message of the assistant that calls a tool
\* and its result for each of n tool calls, and the response.
MessagesOf(t, n) == [place \in 1..(2 * n + 2) |-> Original(RoleAt(place), t, place)]

\* What a history is about.
Knows(h) == UNION {h[k].about : k \in DOMAIN h}

countTurns(h) == Cardinality({k \in DOMAIN h : h[k].role = "user"})

\* Mutant: one turn more than the limit is needed.
ShouldCompactifyLate(h, long) == long \/ countTurns(h) > MAX_TURNS

\* shouldCompactify: by turns, or because the messages are long.
ShouldCompactify(h, long) == long \/ countTurns(h) >= MAX_TURNS

\* Mutant: the split is where the recent messages begin, whatever begins there.
IsTurnBoundaryAnywhere(h, i) ==
    i = (IF Len(h) > PRESERVE_RECENT_MESSAGES THEN Len(h) - PRESERVE_RECENT_MESSAGES ELSE 0)

\* Mutant: one recent message less is preserved.
IsTurnBoundaryLate(h, i) ==
    LET Boundary(j) == /\ j + PRESERVE_RECENT_MESSAGES <= Len(h) + 1
                       /\ j < Len(h)
                       /\ h[j + 1].role = "user"
    IN /\ i = 0 \/ Boundary(i)
       /\ \A j \in (i + 1)..Len(h) : ~Boundary(j)

\* findTurnBoundary: i messages come before the last user's message that leaves
\* PRESERVE_RECENT_MESSAGES or more after the split; 0 if there is none.
IsTurnBoundary(h, i) ==
    LET Boundary(j) == /\ j + PRESERVE_RECENT_MESSAGES <= Len(h)
                       /\ h[j + 1].role = "user"
    IN /\ i = 0 \/ Boundary(i)
       /\ \A j \in (i + 1)..Len(h) : ~Boundary(j)

\* Mutant: the summary is a system message.
SummaryOfSystem(h) == [role |-> "system", about |-> Knows(h)]

Summary(h) == [role |-> "assistant", about |-> Knows(h)]

\* Mutant: the summary is not kept.
CompactedWithoutSummary(h, i) == SubSeq(h, i + 1, Len(h))

\* compactifyContext, split after i messages.
Compacted(h, i) == <<Summary(SubSeq(h, 1, i))>> \o SubSeq(h, i + 1, Len(h))

\* What the inference is given for the running history h: h itself, or h compacted.
ContextOf(h, i, long) == IF ShouldCompactify(h, long) /\ i > 0 THEN Compacted(h, i) ELSE h

\* What is stored of it: a context of the same length counts as not compacted.
StoredOf(h, i, long) ==
    IF Len(ContextOf(h, i, long)) # Len(h) THEN ContextOf(h, i, long) ELSE h

\* The system prompt, the project, the assistant's acknowledgement; the user's message.
Prompts == 4

-----------------------------------------------------------------------------
\* getConversationState: the running history is the full one if it is empty.
Running == IF runningHistory = <<>> THEN fullHistory ELSE runningHistory

\* setConversationState: the running history, then the full one; a throw of either
\* INSERT is swallowed.
Save(full, running) ==
    \/ /\ fullHistory' = full
       /\ runningHistory' = running
       /\ UNCHANGED saveFailures
    \/ /\ saveFailures < MaxSaveFailures
       /\ saveFailures' = saveFailures + 1
       /\ runningHistory' \in {running, runningHistory}
       /\ UNCHANGED fullHistory

\* handleUserInput reads the conversation.
TurnBegins(t) ==
    /\ turn[t].pc = "unsent"
    /\ turn' = [turn EXCEPT ![t] = [pc |-> "thinking", full |-> fullHistory,
                                    running |-> Running]]
    /\ UNCHANGED <<fullHistory, runningHistory, reviewingInitiated, clears, saveFailures,
                   restarts>>

\* The inference answers, or is aborted with what it has: the turn is appended to the
\* conversation as it was read.
TurnAnswers(t) ==
    /\ turn[t].pc = "thinking"
    /\ \E n \in 0..MaxToolCalls, i \in 0..Len(turn[t].running), long \in BOOLEAN :
          /\ IsTurnBoundary(turn[t].running, i)
          /\ Len(ContextOf(turn[t].running, i, long)) + Prompts <= MAX_LLM_MESSAGES
          /\ Save(turn[t].full \o MessagesOf(t, n),
                  StoredOf(turn[t].running, i, long) \o MessagesOf(t, n))
    /\ turn' = [turn EXCEPT ![t] = Finished("answered")]
    /\ UNCHANGED <<reviewingInitiated, clears, restarts>>

\* Something else than a limit throws, or every retry of the inference failed: the
\* fallback response, and no compaction.
TurnFallsBack(t) ==
    /\ turn[t].pc = "thinking"
    /\ Save(turn[t].full \o MessagesOf(t, 0), turn[t].running \o MessagesOf(t, 0))
    /\ turn' = [turn EXCEPT ![t] = Finished("fallback")]
    /\ UNCHANGED <<reviewingInitiated, clears, restarts>>

\* A limit is exceeded, MAX_LLM_MESSAGES among others: nothing is saved.
TurnThrows(t) ==
    /\ turn[t].pc = "thinking"
    /\ turn' = [turn EXCEPT ![t] = Finished("gone")]
    /\ UNCHANGED <<fullHistory, runningHistory, reviewingInitiated, clears, saveFailures,
                   restarts>>

\* executeReviewCycle finds issues and asks the user: addConversationMessage.
ReviewAsks ==
    LET message == <<Original("assistant", Review, 1)>>
    IN /\ ~reviewingInitiated
       /\ reviewingInitiated' = TRUE
       /\ Save(fullHistory \o message, Running \o message)
       /\ UNCHANGED <<turn, clears, restarts>>

\* CLEAR_CONVERSATION.
ClearConversation ==
    /\ clears < MaxClears
    /\ clears' = clears + 1
    /\ fullHistory' = <<>>
    /\ runningHistory' = <<>>
    /\ UNCHANGED <<turn, reviewingInitiated, saveFailures, restarts>>

\* The durable object is evicted and started again: the tables survive.
Restart ==
    /\ restarts < MaxRestarts
    /\ restarts' = restarts + 1
    /\ turn' = [t \in Turns |-> IF turn[t].pc = "thinking" THEN Finished("gone") ELSE turn[t]]
    /\ UNCHANGED <<fullHistory, runningHistory, reviewingInitiated, clears, saveFailures>>

Next ==
    \/ \E t \in Turns : TurnBegins(t) \/ TurnAnswers(t) \/ TurnFallsBack(t) \/ TurnThrows(t)
    \/ ReviewAsks
    \/ ClearConversation
    \/ Restart

Spec == Init /\ [][Next]_vars
-----------------------------------------------------------------------------
(* Properties *)

\* As long as no INSERT throws, whatever turns overlap, are summarized, fall back or
\* are cleared, the running history is about exactly what the full one is about: a
\* summary or one of the messages it keeps accounts for every message.
SameKnowledge == saveFailures = 0 => Knows(runningHistory) = Knows(fullHistory)

\* The result of a tool directly follows the call it answers.
ToolsFollow(h) ==
    \A k \in DOMAIN h : h[k].role = "tool" =>
        /\ k > 1
        /\ \E t \in Turns, place \in 1..(2 * MaxToolCalls + 1) :
              h[k].about = {<<t, place>>} /\ h[k - 1].about = {<<t, place - 1>>}

\* "Respects turn boundaries to avoid tool call fragmentation": neither history holds
\* the result of a tool without its call before it, wherever compaction splits.
ToolsFollowTheirCalls == ToolsFollow(fullHistory) /\ ToolsFollow(runningHistory)

Answers(t) == turn[t].pc = "thinking" /\ turn'[t].pc = "answered"

\* The last PRESERVE_RECENT_MESSAGES of h, or all there are, are in the history saved,
\* in one piece.
KeepsRecent(h, saved) ==
    LET n == IF Len(h) < PRESERVE_RECENT_MESSAGES THEN Len(h) ELSE PRESERVE_RECENT_MESSAGES
    IN \E k \in 0..Len(saved) :
          /\ k + n <= Len(saved)
          /\ \A j \in 1..n : saved[k + j] = h[Len(h) - n + j]

\* "PRESERVE_RECENT_MESSAGES: 10 messages always kept": the last messages a turn has
\* read are in the running history it saves, in one piece.
RecentMessagesKept ==
    [][\A t \in Turns : Answers(t) /\ runningHistory' # runningHistory =>
          KeepsRecent(turn[t].running, runningHistory')]_vars

\* "MAX_TURNS: 40 conversation turns": a turn that is answered leaves no more than
\* MAX_TURNS in the running history, however many fallbacks and overlapping turns
\* came before it.
CompactionBoundsTurns ==
    [][\A t \in Turns : Answers(t) /\ runningHistory' # runningHistory =>
          countTurns(runningHistory') <= MAX_TURNS]_vars

\* "Full History: Complete conversation log. Never truncated": nothing leaves the
\* full history but by CLEAR_CONVERSATION.
NeverTruncated ==
    [][Knows(fullHistory) \subseteq Knows(fullHistory') \/ clears' # clears]_vars
=============================================================================
