-------------------------- MODULE ConversationProofs --------------------------
(* Proofs about Conversation, for all sets of turns, limits and bounds. *)
EXTENDS Conversation, SequenceTheorems, FiniteSetTheorems, TLAPS

-----------------------------------------------------------------------------
(* What a history knows *)

LEMMA KnowsConcat ==
    ASSUME NEW s \in Histories, NEW t \in Histories
    PROVE  Knows(s \o t) = Knows(s) \cup Knows(t)
<1>1. /\ Len(s \o t) = Len(s) + Len(t)
      /\ \A k \in 1..(Len(s) + Len(t)) :
            (s \o t)[k] = IF k <= Len(s) THEN s[k] ELSE t[k - Len(s)]
  BY ConcatProperties DEF Histories
<1>2. /\ s \o t \in Histories
      /\ DOMAIN s = 1..Len(s) /\ Len(s) \in Nat
      /\ DOMAIN t = 1..Len(t) /\ Len(t) \in Nat
      /\ DOMAIN (s \o t) = 1..(Len(s) + Len(t))
  BY <1>1, ConcatProperties DEF Histories
<1>3. ASSUME NEW f \in Knows(s \o t)
      PROVE  f \in Knows(s) \cup Knows(t)
  <2>1. PICK k \in 1..(Len(s) + Len(t)) : f \in (s \o t)[k].about
    BY <1>2, <1>3 DEF Knows
  <2>2. CASE k <= Len(s)
    <3>1. k \in DOMAIN s /\ f \in s[k].about
      BY <1>1, <1>2, <2>1, <2>2
    <3>. QED
      BY <3>1 DEF Knows
  <2>3. CASE k > Len(s)
    <3>1. k - Len(s) \in DOMAIN t /\ f \in t[k - Len(s)].about
      BY <1>1, <1>2, <2>1, <2>3
    <3>. QED
      BY <3>1 DEF Knows
  <2>. QED
    BY <1>2, <2>1, <2>2, <2>3
<1>4. ASSUME NEW f \in Knows(s)
      PROVE  f \in Knows(s \o t)
  <2>1. PICK k \in 1..Len(s) : f \in s[k].about
    BY <1>2, <1>4 DEF Knows
  <2>2. k \in DOMAIN (s \o t) /\ f \in (s \o t)[k].about
    BY <1>1, <1>2, <2>1
  <2>. QED
    BY <2>2 DEF Knows
<1>5. ASSUME NEW f \in Knows(t)
      PROVE  f \in Knows(s \o t)
  <2>1. PICK k \in 1..Len(t) : f \in t[k].about
    BY <1>2, <1>5 DEF Knows
  <2>2. k + Len(s) \in DOMAIN (s \o t) /\ f \in (s \o t)[k + Len(s)].about
    BY <1>1, <1>2, <2>1
  <2>. QED
    BY <2>2 DEF Knows
<1>. QED
  BY <1>3, <1>4, <1>5

LEMMA KnowsOne ==
    ASSUME NEW m \in Messages
    PROVE  <<m>> \in Histories /\ Knows(<<m>>) = m.about
BY DEF Histories, Knows

LEMMA KnowsType ==
    ASSUME NEW h \in Histories
    PROVE  Knows(h) \subseteq Facts
<1>1. \A k \in DOMAIN h : h[k] \in Messages
  BY DEF Histories
<1>2. \A k \in DOMAIN h : h[k].about \subseteq Facts
  BY <1>1 DEF Messages
<1>. QED
  BY <1>2 DEF Knows

-----------------------------------------------------------------------------
(* Compaction *)

\* Compaction keeps the type and everything the history is about.
LEMMA CompactedKnows ==
    ASSUME NEW h \in Histories, NEW i \in 0..Len(h)
    PROVE  /\ Compacted(h, i) \in Histories
           /\ Knows(Compacted(h, i)) = Knows(h)
<1>. DEFINE head == SubSeq(h, 1, i)
            tail == SubSeq(h, i + 1, Len(h))
<1>1. head \in Histories /\ tail \in Histories
  BY SubSeqProperties DEF Histories
<1>2. head \o tail = h
  <2>1. 1 \in 1..(Len(h) + 1) /\ i \in (1 - 1)..Len(h) /\ Len(h) \in i..Len(h)
    BY DEF Histories
  <2>2. SubSeq(h, 1, i) \o SubSeq(h, i + 1, Len(h)) = SubSeq(h, 1, Len(h))
    BY <2>1, ConcatAdjacentSubSeq DEF Histories
  <2>. QED
    BY <2>2, SubSeqFull DEF Histories
<1>3. Summary(head) \in Messages /\ Summary(head).about = Knows(head)
  BY <1>1, KnowsType DEF Summary, Messages
<1>4. <<Summary(head)>> \in Histories /\ Knows(<<Summary(head)>>) = Knows(head)
  BY <1>3, KnowsOne
<1>5. Compacted(h, i) = <<Summary(head)>> \o tail
  BY DEF Compacted
<1>6. Knows(h) = Knows(head) \cup Knows(tail)
  BY <1>1, <1>2, KnowsConcat
<1>7. Knows(<<Summary(head)>> \o tail) = Knows(head) \cup Knows(tail)
  BY <1>1, <1>4, KnowsConcat
<1>8. <<Summary(head)>> \o tail \in Histories
  BY <1>1, <1>4, ConcatProperties DEF Histories
<1>. QED
  BY <1>5, <1>6, <1>7, <1>8

LEMMA StoredKnows ==
    ASSUME NEW h \in Histories, NEW i \in 0..Len(h), NEW long \in BOOLEAN
    PROVE  /\ StoredOf(h, i, long) \in Histories
           /\ Knows(StoredOf(h, i, long)) = Knows(h)
BY CompactedKnows DEF StoredOf, ContextOf

LEMMA OriginalType ==
    ASSUME NEW t \in Turns \cup {Review}, NEW place \in Nat,
           NEW role \in {"user", "assistant", "tool"}
    PROVE  Original(role, t, place) \in Messages
BY DEF Original, Messages, Facts

LEMMA MessagesType ==
    ASSUME NEW t \in Turns, NEW n \in Nat
    PROVE  MessagesOf(t, n) \in Histories
<1>. DEFINE m == 2 * n + 2
<1>1. \A place \in 1..m : RoleAt(place) \in {"user", "assistant", "tool"}
  BY DEF RoleAt
<1>2. \A place \in 1..m : Original(RoleAt(place), t, place) \in Messages
  BY <1>1, OriginalType
<1>3. m \in Nat
  OBVIOUS
<1>4. MessagesOf(t, n) \in [1..m -> Messages]
  BY <1>2 DEF MessagesOf
<1>. HIDE DEF m
<1>. QED
  BY <1>3, <1>4 DEF Histories

-----------------------------------------------------------------------------
(* The results of tools and their calls *)

LEMMA ConcatFollows ==
    ASSUME NEW s \in Histories, NEW t \in Histories, ToolsFollow(s), ToolsFollow(t)
    PROVE  s \o t \in Histories /\ ToolsFollow(s \o t)
<1>1. /\ s \o t \in Histories
      /\ \A k \in 1..(Len(s) + Len(t)) :
            (s \o t)[k] = IF k <= Len(s) THEN s[k] ELSE t[k - Len(s)]
  BY ConcatProperties DEF Histories
<1>2. /\ DOMAIN s = 1..Len(s) /\ Len(s) \in Nat
      /\ DOMAIN t = 1..Len(t) /\ Len(t) \in Nat
      /\ DOMAIN (s \o t) = 1..(Len(s) + Len(t))
  BY <1>1, ConcatProperties DEF Histories
<1>3. ASSUME NEW k \in 1..(Len(s) + Len(t)), (s \o t)[k].role = "tool"
      PROVE  /\ k > 1
             /\ \E u \in Turns, place \in 1..(2 * MaxToolCalls + 1) :
                   /\ (s \o t)[k].about = {<<u, place>>}
                   /\ (s \o t)[k - 1].about = {<<u, place - 1>>}
  <2>1. CASE k <= Len(s)
    <3>1. k \in DOMAIN s /\ (s \o t)[k] = s[k]
      BY <1>1, <1>2, <2>1
    <3>2. k > 1 => (s \o t)[k - 1] = s[k - 1]
      BY <1>1, <1>2, <2>1
    <3>. QED
      BY <1>3, <3>1, <3>2 DEF ToolsFollow
  <2>2. CASE k > Len(s)
    <3>1. k - Len(s) \in DOMAIN t /\ (s \o t)[k] = t[k - Len(s)]
      BY <1>1, <1>2, <2>2
    <3>2. k - Len(s) > 1 => (s \o t)[k - 1] = t[(k - Len(s)) - 1]
      BY <1>1, <1>2, <2>2
    <3>3. /\ k - Len(s) > 1
          /\ \E u \in Turns, place \in 1..(2 * MaxToolCalls + 1) :
                /\ t[k - Len(s)].about = {<<u, place>>}
                /\ t[(k - Len(s)) - 1].about = {<<u, place - 1>>}
      BY <1>3, <3>1 DEF ToolsFollow
    <3>. QED
      BY <1>2, <3>1, <3>2, <3>3
  <2>. QED
    BY <1>2, <2>1, <2>2
<1>. QED
  BY <1>1, <1>2, <1>3 DEF ToolsFollow

LEMMA OneFollows ==
    ASSUME NEW m \in Messages, m.role # "tool"
    PROVE  ToolsFollow(<<m>>)
BY DEF ToolsFollow

\* What is left of a history that is split before a message of the user.
LEMMA TailFollows ==
    ASSUME NEW h \in Histories, ToolsFollow(h), NEW i \in 0..(Len(h) - 1),
           h[i + 1].role = "user"
    PROVE  ToolsFollow(SubSeq(h, i + 1, Len(h)))
<1>. DEFINE tail == SubSeq(h, i + 1, Len(h))
<1>1. DOMAIN h = 1..Len(h) /\ Len(h) \in Nat
  BY DEF Histories
<1>2. tail \in Histories /\ Len(tail) = Len(h) - i
  BY <1>1, SubSeqProperties DEF Histories
<1>3. \A k \in 1..(Len(h) - i) : tail[k] = h[i + k]
  BY <1>1, SubSeqProperties DEF Histories
<1>4. DOMAIN tail = 1..(Len(h) - i)
  BY <1>2 DEF Histories
<1>. HIDE DEF tail
<1>5. ASSUME NEW k \in DOMAIN tail, tail[k].role = "tool"
      PROVE  /\ k > 1
             /\ \E u \in Turns, place \in 1..(2 * MaxToolCalls + 1) :
                   tail[k].about = {<<u, place>>} /\ tail[k - 1].about = {<<u, place - 1>>}
  <2>1. k > 1 /\ i + k \in DOMAIN h /\ tail[k] = h[i + k] /\ tail[k - 1] = h[(i + k) - 1]
    BY <1>1, <1>3, <1>4, <1>5
  <2>. QED
    BY <1>5, <2>1 DEF ToolsFollow
<1>. QED
  BY <1>5 DEF tail, ToolsFollow

LEMMA StoredFollows ==
    ASSUME NEW h \in Histories, NEW i \in 0..Len(h), NEW long \in BOOLEAN,
           ToolsFollow(h), IsTurnBoundary(h, i)
    PROVE  ToolsFollow(StoredOf(h, i, long))
<1>1. CASE i = 0
  BY <1>1 DEF StoredOf, ContextOf
<1>2. CASE i > 0
  <2>1. i + PRESERVE_RECENT_MESSAGES <= Len(h) /\ h[i + 1].role = "user"
    BY <1>2 DEF IsTurnBoundary
  <2>2. i \in 0..(Len(h) - 1) /\ Len(h) \in Nat
    BY <2>1, CompactionAssumption DEF Histories
  <2>3. ToolsFollow(SubSeq(h, i + 1, Len(h)))
    BY <2>1, <2>2, TailFollows
  <2>4. SubSeq(h, 1, i) \in Histories /\ SubSeq(h, i + 1, Len(h)) \in Histories
    BY <2>2, SubSeqProperties DEF Histories
  <2>5. Summary(SubSeq(h, 1, i)) \in Messages /\ Summary(SubSeq(h, 1, i)).role # "tool"
    BY <2>4, KnowsType DEF Summary, Messages
  <2>6. ToolsFollow(Compacted(h, i))
    BY <2>3, <2>4, <2>5, OneFollows, KnowsOne, ConcatFollows DEF Compacted
  <2>. QED
    BY <2>6 DEF StoredOf, ContextOf
<1>. QED
  BY <1>1, <1>2

LEMMA MessagesFollow ==
    ASSUME NEW t \in Turns, NEW n \in 0..MaxToolCalls
    PROVE  ToolsFollow(MessagesOf(t, n))
<1>1. n \in Nat /\ n <= MaxToolCalls /\ MaxToolCalls \in Nat
  BY BoundAssumption
<1>2. DOMAIN MessagesOf(t, n) = 1..(2 * n + 2)
  BY DEF MessagesOf
<1>3. ASSUME NEW k \in 1..(2 * n + 2), MessagesOf(t, n)[k].role = "tool"
      PROVE  /\ k > 1
             /\ \E u \in Turns, place \in 1..(2 * MaxToolCalls + 1) :
                   /\ MessagesOf(t, n)[k].about = {<<u, place>>}
                   /\ MessagesOf(t, n)[k - 1].about = {<<u, place - 1>>}
  <2>1. k # 1 /\ k % 2 # 0
    BY <1>3 DEF MessagesOf, Original, RoleAt
  <2>2. k # 2 * n + 2
    BY <1>1, <2>1
  <2>3. k - 1 \in 1..(2 * n + 2) /\ k \in 1..(2 * MaxToolCalls + 1)
    BY <1>1, <2>1, <2>2
  <2>4. /\ MessagesOf(t, n)[k].about = {<<t, k>>}
        /\ MessagesOf(t, n)[k - 1].about = {<<t, k - 1>>}
    BY <2>3 DEF MessagesOf, Original
  <2>. QED
    BY <2>1, <2>3, <2>4
<1>. QED
  BY <1>2, <1>3 DEF ToolsFollow

-----------------------------------------------------------------------------
(* The invariant: what holds of the two tables holds of what every turn has read *)

TurnsSound ==
    \A t \in Turns :
        /\ saveFailures = 0 => Knows(turn[t].running) = Knows(turn[t].full)
        /\ ToolsFollow(turn[t].full)
        /\ ToolsFollow(turn[t].running)

IInv == TypeOK /\ SameKnowledge /\ ToolsFollowTheirCalls /\ TurnsSound

\* What can be saved: two histories of the same knowledge, whole in their tool calls.
Savable(full, running) ==
    /\ full \in Histories
    /\ running \in Histories
    /\ saveFailures = 0 => Knows(running) = Knows(full)
    /\ ToolsFollow(full)
    /\ ToolsFollow(running)

\* The part of the invariant about the tables.
Tables ==
    /\ fullHistory \in Histories
    /\ runningHistory \in Histories
    /\ saveFailures \in Nat
    /\ SameKnowledge
    /\ ToolsFollowTheirCalls

LEMMA SaveKeepsTables ==
    ASSUME Tables, NEW full, NEW running, Savable(full, running), Save(full, running)
    PROVE  Tables' /\ (saveFailures' = 0 => saveFailures = 0)
<1>1. CASE fullHistory' = full /\ runningHistory' = running /\ UNCHANGED saveFailures
  BY <1>1 DEF Tables, Savable, SameKnowledge, ToolsFollowTheirCalls
<1>2. CASE /\ saveFailures' = saveFailures + 1
           /\ runningHistory' \in {running, runningHistory}
           /\ UNCHANGED fullHistory
  <2>1. saveFailures' \in Nat /\ saveFailures' # 0
    BY <1>2 DEF Tables
  <2>. QED
    BY <1>2, <2>1 DEF Tables, Savable, SameKnowledge, ToolsFollowTheirCalls
<1>. QED
  BY <1>1, <1>2 DEF Save

LEMMA EmptyKnows ==
    <<>> \in Histories /\ Knows(<<>>) = {} /\ ToolsFollow(<<>>)
<1>1. DOMAIN <<>> = {}
  OBVIOUS
<1>2. <<>> \in Histories
  BY EmptySeq DEF Histories
<1>. QED
  BY <1>1, <1>2 DEF Knows, ToolsFollow

\* Appending the same messages to both keeps them savable.
LEMMA AppendSavable ==
    ASSUME NEW full, NEW running, Savable(full, running),
           NEW messages \in Histories, ToolsFollow(messages)
    PROVE  Savable(full \o messages, running \o messages)
<1>1. full \in Histories /\ running \in Histories
  BY DEF Savable
<1>2. /\ Knows(full \o messages) = Knows(full) \cup Knows(messages)
      /\ Knows(running \o messages) = Knows(running) \cup Knows(messages)
  BY <1>1, KnowsConcat
<1>3. /\ full \o messages \in Histories /\ ToolsFollow(full \o messages)
      /\ running \o messages \in Histories /\ ToolsFollow(running \o messages)
  BY <1>1, ConcatFollows DEF Savable
<1>. QED
  BY <1>2, <1>3 DEF Savable

LEMMA RunningSavable ==
    ASSUME IInv
    PROVE  Savable(fullHistory, Running)
<1>1. CASE runningHistory = <<>>
  BY <1>1 DEF IInv, TypeOK, ToolsFollowTheirCalls, Savable, Running
<1>2. CASE runningHistory # <<>>
  BY <1>2 DEF IInv, TypeOK, SameKnowledge, ToolsFollowTheirCalls, Savable, Running
<1>. QED
  BY <1>1, <1>2

LEMMA TurnSavable ==
    ASSUME IInv, NEW t \in Turns
    PROVE  Savable(turn[t].full, turn[t].running)
BY DEF IInv, TypeOK, TurnRecords, TurnsSound, Savable

LEMMA FinishedSound ==
    ASSUME NEW pc \in {"unsent", "thinking", "answered", "fallback", "gone"}
    PROVE  /\ Finished(pc) \in TurnRecords
           /\ Finished(pc).full = <<>> /\ Finished(pc).running = <<>>
BY EmptyKnows DEF Finished, TurnRecords

\* A turn ends and the others go on.
LEMMA FinishKeepsTurns ==
    ASSUME IInv, NEW t \in Turns, NEW pc \in {"answered", "fallback", "gone"},
           turn' = [turn EXCEPT ![t] = Finished(pc)], saveFailures' = 0 => saveFailures = 0
    PROVE  turn' \in [Turns -> TurnRecords] /\ TurnsSound'
<1>1. turn \in [Turns -> TurnRecords] /\ TurnsSound
  BY DEF IInv, TypeOK
<1>2. turn' \in [Turns -> TurnRecords]
  BY <1>1, FinishedSound
<1>3. ASSUME NEW u \in Turns
      PROVE  /\ saveFailures' = 0 => Knows(turn'[u].running) = Knows(turn'[u].full)
             /\ ToolsFollow(turn'[u].full)
             /\ ToolsFollow(turn'[u].running)
  <2>1. CASE u = t
    <3>1. turn'[u].full = <<>> /\ turn'[u].running = <<>>
      BY <1>1, <2>1, FinishedSound
    <3>. QED
      BY <3>1, EmptyKnows
  <2>2. CASE u # t
    <3>1. turn'[u] = turn[u]
      BY <1>1, <2>2
    <3>. QED
      BY <1>1, <3>1 DEF TurnsSound
  <2>. QED
    BY <2>1, <2>2
<1>. QED
  BY <1>2, <1>3 DEF TurnsSound

LEMMA InitIInv == Init => IInv
<1>. SUFFICES ASSUME Init
              PROVE  IInv
  OBVIOUS
<1>1. TypeOK
  BY FinishedSound, EmptyKnows DEF Init, TypeOK
<1>2. SameKnowledge /\ ToolsFollowTheirCalls
  BY EmptyKnows DEF Init, SameKnowledge, ToolsFollowTheirCalls
<1>3. \A t \in Turns : turn[t].full = <<>> /\ turn[t].running = <<>>
  BY FinishedSound DEF Init
<1>4. TurnsSound
  BY <1>3, EmptyKnows DEF TurnsSound
<1>. QED
  BY <1>1, <1>2, <1>4 DEF IInv

\* Every action that saves: the tables by SaveKeepsTables, the turns by what it does to
\* them, the counters by their types.
LEMMA NextIInv == IInv /\ [Next]_vars => IInv'
<1>. SUFFICES ASSUME IInv, [Next]_vars
              PROVE  IInv'
  OBVIOUS
<1>a. Tables /\ turn \in [Turns -> TurnRecords] /\ TurnsSound
  BY DEF IInv, TypeOK, Tables
<1>b. reviewingInitiated \in BOOLEAN /\ clears \in Nat /\ restarts \in Nat
  BY DEF IInv, TypeOK
<1>1. ASSUME NEW t \in Turns, TurnBegins(t)
      PROVE  IInv'
  <2>1. Savable(fullHistory, Running)
    BY RunningSavable
  <2>2. turn' = [turn EXCEPT ![t] = [pc |-> "thinking", full |-> fullHistory,
                                     running |-> Running]]
    BY <1>1 DEF TurnBegins
  <2>3. turn' \in [Turns -> TurnRecords]
    BY <1>a, <2>1, <2>2 DEF TurnRecords, Savable
  <2>4. TurnsSound'
    <3>1. ASSUME NEW u \in Turns
          PROVE  /\ saveFailures' = 0 => Knows(turn'[u].running) = Knows(turn'[u].full)
                 /\ ToolsFollow(turn'[u].full)
                 /\ ToolsFollow(turn'[u].running)
      <4>1. saveFailures' = saveFailures
        BY <1>1 DEF TurnBegins
      <4>2. CASE u = t
        <5>1. turn'[u].full = fullHistory /\ turn'[u].running = Running
          BY <1>a, <2>2, <4>2
        <5>. QED
          BY <2>1, <4>1, <5>1 DEF Savable
      <4>3. CASE u # t
        <5>1. turn'[u] = turn[u]
          BY <1>a, <2>2, <4>3
        <5>. QED
          BY <1>a, <4>1, <5>1 DEF TurnsSound
      <4>. QED
        BY <4>2, <4>3
    <3>. QED
      BY <3>1 DEF TurnsSound
  <2>. QED
    BY <1>1, <1>a, <1>b, <2>3, <2>4
    DEF TurnBegins, IInv, TypeOK, Tables, SameKnowledge, ToolsFollowTheirCalls
<1>2. ASSUME NEW t \in Turns, TurnAnswers(t)
      PROVE  IInv'
  <2>1. PICK n \in 0..MaxToolCalls, i \in 0..Len(turn[t].running), long \in BOOLEAN :
           /\ IsTurnBoundary(turn[t].running, i)
           /\ Save(turn[t].full \o MessagesOf(t, n),
                   StoredOf(turn[t].running, i, long) \o MessagesOf(t, n))
    BY <1>2 DEF TurnAnswers
  <2>2. MessagesOf(t, n) \in Histories /\ ToolsFollow(MessagesOf(t, n))
    BY MessagesType, MessagesFollow, BoundAssumption
  <2>3. Savable(turn[t].full, turn[t].running)
    BY TurnSavable
  <2>4. Savable(turn[t].full, StoredOf(turn[t].running, i, long))
    BY <2>1, <2>3, StoredKnows, StoredFollows DEF Savable
  <2>5. Tables' /\ (saveFailures' = 0 => saveFailures = 0)
    BY <1>a, <2>1, <2>2, <2>4, AppendSavable, SaveKeepsTables
  <2>6. turn' \in [Turns -> TurnRecords] /\ TurnsSound'
    BY <1>2, <2>5, FinishKeepsTurns DEF TurnAnswers
  <2>. QED
    BY <1>2, <1>b, <2>5, <2>6 DEF TurnAnswers, IInv, TypeOK, Tables
<1>3. ASSUME NEW t \in Turns, TurnFallsBack(t)
      PROVE  IInv'
  <2>1. MessagesOf(t, 0) \in Histories /\ ToolsFollow(MessagesOf(t, 0))
    BY MessagesType, MessagesFollow, BoundAssumption
  <2>2. Savable(turn[t].full, turn[t].running)
    BY TurnSavable
  <2>3. Tables' /\ (saveFailures' = 0 => saveFailures = 0)
    BY <1>3, <1>a, <2>1, <2>2, AppendSavable, SaveKeepsTables DEF TurnFallsBack
  <2>4. turn' \in [Turns -> TurnRecords] /\ TurnsSound'
    BY <1>3, <2>3, FinishKeepsTurns DEF TurnFallsBack
  <2>. QED
    BY <1>3, <1>b, <2>3, <2>4 DEF TurnFallsBack, IInv, TypeOK, Tables
<1>4. ASSUME NEW t \in Turns, TurnThrows(t)
      PROVE  IInv'
  <2>1. turn' \in [Turns -> TurnRecords] /\ TurnsSound'
    BY <1>4, FinishKeepsTurns DEF TurnThrows
  <2>. QED
    BY <1>4, <1>a, <1>b, <2>1
    DEF TurnThrows, IInv, TypeOK, Tables, SameKnowledge, ToolsFollowTheirCalls
<1>5. CASE ReviewAsks
  <2>. DEFINE message == Original("assistant", Review, 1)
  <2>1. message \in Messages /\ message.role # "tool"
    BY OriginalType DEF Original
  <2>2. <<message>> \in Histories /\ ToolsFollow(<<message>>)
    BY <2>1, KnowsOne, OneFollows
  <2>3. Savable(fullHistory \o <<message>>, Running \o <<message>>)
    BY <2>2, RunningSavable, AppendSavable
  <2>4. Tables' /\ (saveFailures' = 0 => saveFailures = 0)
    BY <1>5, <1>a, <2>3, SaveKeepsTables DEF ReviewAsks
  <2>5. turn' = turn /\ TurnsSound'
    BY <1>5, <1>a, <2>4 DEF ReviewAsks, TurnsSound
  <2>. QED
    BY <1>5, <1>a, <1>b, <2>4, <2>5 DEF ReviewAsks, IInv, TypeOK, Tables
<1>6. CASE ClearConversation
  BY <1>6, <1>a, <1>b, EmptyKnows
  DEF ClearConversation, IInv, TypeOK, Tables, TurnsSound, SameKnowledge, ToolsFollowTheirCalls
<1>7. CASE Restart
  <2>1. \A u \in Turns : turn'[u] = turn[u] \/ turn'[u] = Finished("gone")
    BY <1>7 DEF Restart
  <2>2. turn' \in [Turns -> TurnRecords]
    BY <1>7, <1>a, <2>1, FinishedSound DEF Restart
  <2>3. \A u \in Turns : \/ turn'[u] = turn[u]
                          \/ (turn'[u].full = <<>> /\ turn'[u].running = <<>>)
    BY <2>1, FinishedSound
  <2>4. saveFailures' = saveFailures
    BY <1>7 DEF Restart
  <2>5. TurnsSound'
    BY <1>a, <2>3, <2>4, EmptyKnows DEF TurnsSound
  <2>. QED
    BY <1>7, <1>a, <1>b, <2>2, <2>5
    DEF Restart, IInv, TypeOK, Tables, SameKnowledge, ToolsFollowTheirCalls
<1>8. CASE UNCHANGED vars
  BY <1>8, <1>a, <1>b
  DEF vars, IInv, TypeOK, Tables, TurnsSound, SameKnowledge, ToolsFollowTheirCalls
<1>. QED
  BY <1>1, <1>2, <1>3, <1>4, <1>5, <1>6, <1>7, <1>8 DEF Next

LEMMA IInvAlways == Spec => []IInv
BY InitIInv, NextIInv, PTL DEF Spec

-----------------------------------------------------------------------------
(* Recent messages: what is stored ends with what was read, from the split on *)

\* A compacted history is the summary and what came after the split.
LEMMA CompactedShape ==
    ASSUME NEW h \in Histories, NEW i \in 1..Len(h)
    PROVE  /\ Compacted(h, i) \in Histories
           /\ Len(Compacted(h, i)) = Len(h) - i + 1
           /\ Compacted(h, i)[1].role = "assistant"
           /\ \A k \in 2..(Len(h) - i + 1) : Compacted(h, i)[k] = h[i + k - 1]
<1>. DEFINE head == SubSeq(h, 1, i)
            tail == SubSeq(h, i + 1, Len(h))
<1>1. Len(h) \in Nat /\ h \in Seq(Messages)
  BY DEF Histories
<1>2. head \in Histories /\ tail \in Histories
  BY <1>1, SubSeqProperties DEF Histories
<1>3. Len(tail) = Len(h) - i /\ \A k \in 1..(Len(h) - i) : tail[k] = h[i + k]
  BY <1>1, SubSeqProperties
<1>4. Summary(head) \in Messages /\ Summary(head).role = "assistant"
  BY <1>2, KnowsType DEF Summary, Messages
<1>. DEFINE summary == <<Summary(head)>>
<1>5. Compacted(h, i) = summary \o tail
  BY DEF Compacted
<1>. HIDE DEF head, tail
<1>6. /\ summary \in Seq(Messages) /\ tail \in Seq(Messages)
      /\ Len(summary) = 1 /\ summary[1] = Summary(head)
  BY <1>2, <1>4 DEF Histories
<1>. HIDE DEF summary
<1>7. /\ Len(summary \o tail) = 1 + (Len(h) - i)
      /\ \A k \in 1..(1 + (Len(h) - i)) :
            (summary \o tail)[k] = IF k <= 1 THEN summary[k] ELSE tail[k - 1]
  <2>1. /\ Len(summary \o tail) = Len(summary) + Len(tail)
        /\ \A k \in 1..(Len(summary) + Len(tail)) :
              (summary \o tail)[k] = IF k <= Len(summary) THEN summary[k] ELSE tail[k - Len(summary)]
    BY <1>6, ConcatProperties
  <2>. QED
    BY <1>1, <1>3, <1>6, <2>1
<1>8. ASSUME NEW k \in 2..(Len(h) - i + 1)
      PROVE  Compacted(h, i)[k] = h[i + k - 1]
  <2>1. Compacted(h, i)[k] = tail[k - 1]
    BY <1>1, <1>5, <1>7
  <2>2. k - 1 \in 1..(Len(h) - i) /\ i + (k - 1) = i + k - 1
    BY <1>1
  <2>. QED
    BY <1>3, <2>1, <2>2
<1>9. Compacted(h, i)[1] = Summary(head)
  BY <1>1, <1>5, <1>6, <1>7, SMTT(30)
<1>10. Len(Compacted(h, i)) = Len(h) - i + 1
  BY <1>1, <1>5, <1>7
<1>. QED
  BY <1>1, <1>4, <1>8, <1>9, <1>10, CompactedKnows

LEMMA StoredCases ==
    ASSUME NEW h \in Histories, NEW i \in 0..Len(h), NEW long \in BOOLEAN, IsTurnBoundary(h, i)
    PROVE  \/ StoredOf(h, i, long) = h
           \/ /\ StoredOf(h, i, long) = Compacted(h, i)
              /\ i \in 1..Len(h)
              /\ i + PRESERVE_RECENT_MESSAGES <= Len(h)
<1>1. Len(h) \in Nat
  BY DEF Histories
<1>2. CASE ShouldCompactify(h, long) /\ i > 0
  <2>1. i \in 1..Len(h) /\ i + PRESERVE_RECENT_MESSAGES <= Len(h)
    BY <1>1, <1>2 DEF IsTurnBoundary
  <2>. QED
    BY <1>2, <2>1 DEF StoredOf, ContextOf
<1>3. CASE ~(ShouldCompactify(h, long) /\ i > 0)
  BY <1>3 DEF StoredOf, ContextOf
<1>. QED
  BY <1>2, <1>3

LEMMA RecentInStored ==
    ASSUME NEW h \in Histories, NEW i \in 0..Len(h), NEW long \in BOOLEAN, IsTurnBoundary(h, i),
           NEW messages \in Histories
    PROVE  KeepsRecent(h, StoredOf(h, i, long) \o messages)
<1>. DEFINE stored == StoredOf(h, i, long)
            n == IF Len(h) < PRESERVE_RECENT_MESSAGES THEN Len(h) ELSE PRESERVE_RECENT_MESSAGES
<1>1. stored \in Histories
  BY StoredKnows
<1>2. /\ Len(h) \in Nat /\ Len(stored) \in Nat /\ Len(messages) \in Nat
      /\ PRESERVE_RECENT_MESSAGES \in Nat
      /\ n \in Nat /\ n <= Len(h) /\ n <= PRESERVE_RECENT_MESSAGES
  BY <1>1, CompactionAssumption DEF Histories
<1>3. n <= Len(stored) /\ \A j \in 1..n : stored[(Len(stored) - n) + j] = h[Len(h) - n + j]
  <2>1. CASE stored = h
    BY <1>2, <2>1
  <2>2. CASE /\ stored = Compacted(h, i) /\ i \in 1..Len(h)
             /\ i + PRESERVE_RECENT_MESSAGES <= Len(h)
    <3>1. Len(stored) = Len(h) - i + 1
      BY <2>2, CompactedShape
    <3>2. n <= Len(h) - i
      BY <1>2, <2>2
    <3>. HIDE DEF n
    <3>3. ASSUME NEW j \in 1..n
          PROVE  stored[(Len(stored) - n) + j] = h[Len(h) - n + j]
      <4>1. /\ (Len(stored) - n) + j \in 2..(Len(h) - i + 1)
            /\ i + ((Len(stored) - n) + j) - 1 = Len(h) - n + j
        BY <1>2, <2>2, <3>1, <3>2
      <4>. QED
        BY <2>2, <4>1, CompactedShape
    <3>. QED
      BY <1>2, <2>2, <3>1, <3>2, <3>3
  <2>. QED
    BY <2>1, <2>2, StoredCases
<1>. HIDE DEF stored
<1>4. /\ Len(stored \o messages) = Len(stored) + Len(messages)
      /\ \A k \in 1..Len(stored) : (stored \o messages)[k] = stored[k]
  BY <1>1, <1>2, ConcatProperties DEF Histories
<1>. HIDE DEF n
<1>5. /\ Len(stored) - n \in 0..Len(stored \o messages)
      /\ (Len(stored) - n) + n <= Len(stored \o messages)
  BY <1>2, <1>3, <1>4
<1>6. ASSUME NEW j \in 1..n
      PROVE  (stored \o messages)[(Len(stored) - n) + j] = h[Len(h) - n + j]
  <2>1. (Len(stored) - n) + j \in 1..Len(stored)
    BY <1>2, <1>3
  <2>. QED
    BY <1>3, <1>4, <2>1
<1>7. \E k \in 0..Len(stored \o messages) :
         /\ k + n <= Len(stored \o messages)
         /\ \A j \in 1..n : (stored \o messages)[k + j] = h[Len(h) - n + j]
  BY <1>5, <1>6
<1>. QED
  BY <1>7 DEF n, stored, KeepsRecent

\* A turn that is answered and changes the running history saved what it stored of what it
\* read, with its messages.
LEMMA WhatAnAnswerSaves ==
    ASSUME IInv, [Next]_vars, NEW t \in Turns, Answers(t), runningHistory' # runningHistory
    PROVE  /\ turn[t].running \in Histories
           /\ \E n \in 0..MaxToolCalls, i \in 0..Len(turn[t].running), long \in BOOLEAN :
                 /\ IsTurnBoundary(turn[t].running, i)
                 /\ runningHistory' = StoredOf(turn[t].running, i, long) \o MessagesOf(t, n)
<1>1. turn \in [Turns -> TurnRecords] /\ turn[t].running \in Histories
  BY DEF IInv, TypeOK, TurnRecords
<1>2. TurnAnswers(t)
  <2>1. ASSUME NEW u \in Turns, u # t,
               TurnBegins(u) \/ TurnAnswers(u) \/ TurnFallsBack(u) \/ TurnThrows(u)
        PROVE  FALSE
    <3>1. turn'[t] = turn[t]
      BY <1>1, <2>1 DEF TurnBegins, TurnAnswers, TurnFallsBack, TurnThrows
    <3>. QED
      BY <3>1 DEF Answers
  <2>2. ASSUME TurnBegins(t) \/ TurnFallsBack(t) \/ TurnThrows(t)
        PROVE  FALSE
    BY <1>1, <2>2 DEF TurnBegins, TurnFallsBack, TurnThrows, Finished, Answers
  <2>3. ~ReviewAsks /\ ~ClearConversation /\ ~UNCHANGED vars
    BY DEF ReviewAsks, ClearConversation, vars, Answers
  <2>4. ~Restart
    BY DEF Restart, Finished, Answers
  <2>. QED
    BY <2>1, <2>2, <2>3, <2>4 DEF Next
<1>3. PICK n \in 0..MaxToolCalls, i \in 0..Len(turn[t].running), long \in BOOLEAN :
         /\ IsTurnBoundary(turn[t].running, i)
         /\ Save(turn[t].full \o MessagesOf(t, n),
                 StoredOf(turn[t].running, i, long) \o MessagesOf(t, n))
  BY <1>2 DEF TurnAnswers
<1>4. runningHistory' = StoredOf(turn[t].running, i, long) \o MessagesOf(t, n)
  BY <1>3 DEF Save
<1>. QED
  BY <1>1, <1>3, <1>4

-----------------------------------------------------------------------------
(* How many turns a history holds *)

UsersOf(h) == {k \in DOMAIN h : h[k].role = "user"}

\* Whatever a user says is followed by a message of someone else.
UsersAreAnswered(h) ==
    \A k \in UsersOf(h) : k < Len(h) /\ k + 1 \notin UsersOf(h)

LEMMA UsersFinite ==
    ASSUME NEW h \in Histories
    PROVE  /\ DOMAIN h = 1..Len(h) /\ Len(h) \in Nat
           /\ UsersOf(h) \subseteq 1..Len(h)
           /\ IsFiniteSet(UsersOf(h))
           /\ countTurns(h) = Cardinality(UsersOf(h)) /\ countTurns(h) \in Nat
<1>1. DOMAIN h = 1..Len(h) /\ Len(h) \in Nat /\ UsersOf(h) \subseteq 1..Len(h)
  BY DEF Histories, UsersOf
<1>2. IsFiniteSet(1..Len(h))
  BY <1>1, FS_Interval
<1>3. IsFiniteSet(UsersOf(h)) /\ Cardinality(UsersOf(h)) \in Nat
  BY <1>1, <1>2, FS_Subset, FS_CardinalityType
<1>. QED
  BY <1>1, <1>3 DEF countTurns, UsersOf

\* A set of positions whose successors are not in it fills at most half of where it and they lie.
LEMMA HalfAtMost ==
    ASSUME NEW a \in Nat, NEW b \in Nat, a <= b + 1, NEW S \in SUBSET (a..b),
           \A k \in S : k < b /\ k + 1 \notin S
    PROVE  IsFiniteSet(S) /\ 2 * Cardinality(S) <= b + 1 - a
<1>. DEFINE T == {k \in a..b : k - 1 \in S}
            f == [k \in S |-> k + 1]
<1>1. IsFiniteSet(a..b) /\ Cardinality(a..b) = b + 1 - a
  BY FS_Interval
<1>2. IsFiniteSet(S) /\ IsFiniteSet(T)
  <2>1. T \in SUBSET (a..b)
    OBVIOUS
  <2>. HIDE DEF T
  <2>. QED
    BY <1>1, <2>1, FS_Subset
<1>3. f \in Bijection(S, T)
  <2>1. f \in [S -> T]
    OBVIOUS
  <2>2. \A x, y \in S : f[x] = f[y] => x = y
    OBVIOUS
  <2>3. ASSUME NEW y \in T
        PROVE  \E x \in S : f[x] = y
    <3>1. y - 1 \in S /\ f[y - 1] = y
      OBVIOUS
    <3>. QED
      BY <3>1
  <2>. HIDE DEF f, T
  <2>4. f \in Injection(S, T)
    BY <2>1, <2>2 DEF Injection, IsInjective
  <2>5. f \in Surjection(S, T)
    BY <2>1, <2>3 DEF Surjection
  <2>. QED
    BY <2>4, <2>5 DEF Bijection
<1>4. Cardinality(T) = Cardinality(S)
  BY <1>2, <1>3, FS_Bijection DEF ExistsBijection
<1>5. S \cap T = {}
  OBVIOUS
<1>6. S \cup T \in SUBSET (a..b)
  OBVIOUS
<1>7. Cardinality(S \cup T) = Cardinality(S) + Cardinality(T) - Cardinality({})
  BY <1>2, <1>5, FS_Union
<1>8. Cardinality(S \cup T) <= b + 1 - a
  BY <1>1, <1>6, FS_Subset
<1>. HIDE DEF T
<1>9. Cardinality(S) \in Nat /\ Cardinality({}) = 0
  BY <1>2, FS_CardinalityType, FS_EmptySet
<1>. QED
  BY <1>2, <1>4, <1>7, <1>8, <1>9

\* At most one user's message comes before the last PRESERVE_RECENT_MESSAGES - 1 messages.
LEMMA FewTurns ==
    ASSUME NEW h \in Histories, UsersAreAnswered(h), NEW only \in Nat,
           \A k \in UsersOf(h) : k = only \/ k + PRESERVE_RECENT_MESSAGES > Len(h) + 1
    PROVE  countTurns(h) + 1 <= MAX_TURNS
<1>. DEFINE a == IF PRESERVE_RECENT_MESSAGES > Len(h) + 1 THEN 1
                 ELSE Len(h) + 2 - PRESERVE_RECENT_MESSAGES
            S == {k \in UsersOf(h) : a <= k}
<1>1. /\ PRESERVE_RECENT_MESSAGES \in Nat \ {0} /\ MAX_TURNS \in Nat \ {0}
      /\ PRESERVE_RECENT_MESSAGES <= 2 * (MAX_TURNS - 1)
  BY CompactionAssumption
<1>2. /\ Len(h) \in Nat /\ UsersOf(h) \subseteq 1..Len(h)
      /\ IsFiniteSet(UsersOf(h)) /\ countTurns(h) = Cardinality(UsersOf(h))
  BY UsersFinite
<1>3. a \in Nat /\ a <= Len(h) + 1 /\ Len(h) + 1 - a <= PRESERVE_RECENT_MESSAGES - 1
  BY <1>1, <1>2
<1>4. S \in SUBSET (a..Len(h))
  BY <1>2, <1>3
<1>5. \A k \in S : k < Len(h) /\ k + 1 \notin S
  BY DEF UsersAreAnswered
<1>6. \A k \in UsersOf(h) : k = only \/ k \in S
  BY <1>1, <1>2
<1>. HIDE DEF a
<1>7. IsFiniteSet(S) /\ 2 * Cardinality(S) <= Len(h) + 1 - a
  <2>. HIDE DEF S
  <2>. QED
    BY <1>2, <1>3, <1>4, <1>5, HalfAtMost
<1>. HIDE DEF S
<1>8. /\ IsFiniteSet(S \cup {only}) /\ Cardinality(S) \in Nat
      /\ Cardinality(S \cup {only}) <= Cardinality(S) + 1
  <2>1. IsFiniteSet(S) /\ Cardinality(S) \in Nat
    BY <1>7, FS_CardinalityType
  <2>2. /\ IsFiniteSet(S \cup {only})
        /\ Cardinality(S \cup {only}) = IF only \in S THEN Cardinality(S) ELSE Cardinality(S) + 1
    BY <2>1, FS_AddElement
  <2>. QED
    BY <2>1, <2>2
<1>9. UsersOf(h) \in SUBSET (S \cup {only})
  BY <1>6
<1>10. Cardinality(UsersOf(h)) <= Cardinality(S \cup {only})
  BY <1>8, <1>9, FS_Subset
<1>11. Cardinality(S \cup {only}) \in Nat /\ Cardinality(UsersOf(h)) \in Nat
  BY <1>2, <1>8, FS_CardinalityType
<1>. QED
  BY <1>1, <1>2, <1>3, <1>7, <1>8, <1>10, <1>11

LEMMA ConcatUsers ==
    ASSUME NEW s \in Histories, NEW t \in Histories
    PROVE  /\ s \o t \in Histories /\ Len(s \o t) = Len(s) + Len(t)
           /\ \A k \in 1..(Len(s) + Len(t)) :
                 k \in UsersOf(s \o t) <=>
                     IF k <= Len(s) THEN k \in UsersOf(s) ELSE k - Len(s) \in UsersOf(t)
<1>1. /\ s \o t \in Histories /\ Len(s \o t) = Len(s) + Len(t)
      /\ \A k \in 1..(Len(s) + Len(t)) :
            (s \o t)[k] = IF k <= Len(s) THEN s[k] ELSE t[k - Len(s)]
  BY ConcatProperties DEF Histories
<1>2. /\ DOMAIN s = 1..Len(s) /\ Len(s) \in Nat
      /\ DOMAIN t = 1..Len(t) /\ Len(t) \in Nat
      /\ DOMAIN (s \o t) = 1..(Len(s) + Len(t))
  BY <1>1, UsersFinite
<1>3. ASSUME NEW k \in 1..(Len(s) + Len(t))
      PROVE  k \in UsersOf(s \o t) <=>
                 IF k <= Len(s) THEN k \in UsersOf(s) ELSE k - Len(s) \in UsersOf(t)
  <2>1. k \in UsersOf(s \o t) <=> (s \o t)[k].role = "user"
    BY <1>2 DEF UsersOf
  <2>2. CASE k <= Len(s)
    BY <1>1, <1>2, <2>1, <2>2 DEF UsersOf
  <2>3. CASE ~(k <= Len(s))
    <3>1. k - Len(s) \in 1..Len(t) /\ (s \o t)[k] = t[k - Len(s)]
      BY <1>1, <1>2, <2>3
    <3>. QED
      BY <1>2, <2>1, <2>3, <3>1 DEF UsersOf
  <2>. QED
    BY <2>2, <2>3
<1>. QED
  BY <1>1, <1>3

LEMMA ConcatAnswered ==
    ASSUME NEW s \in Histories, NEW t \in Histories, UsersAreAnswered(s), UsersAreAnswered(t)
    PROVE  UsersAreAnswered(s \o t)
<1>1. /\ Len(s) \in Nat /\ UsersOf(s) \subseteq 1..Len(s)
      /\ Len(t) \in Nat /\ UsersOf(t) \subseteq 1..Len(t)
  BY UsersFinite
<1>2. /\ s \o t \in Histories /\ Len(s \o t) = Len(s) + Len(t)
      /\ UsersOf(s \o t) \subseteq 1..(Len(s) + Len(t))
      /\ \A k \in 1..(Len(s) + Len(t)) :
            k \in UsersOf(s \o t) <=>
                IF k <= Len(s) THEN k \in UsersOf(s) ELSE k - Len(s) \in UsersOf(t)
  BY ConcatUsers, UsersFinite
<1>3. ASSUME NEW k \in UsersOf(s \o t)
      PROVE  k < Len(s) + Len(t) /\ k + 1 \notin UsersOf(s \o t)
  <2>1. CASE k <= Len(s)
    <3>1. k \in UsersOf(s) /\ k < Len(s) /\ k + 1 \notin UsersOf(s)
      BY <1>1, <1>2, <2>1 DEF UsersAreAnswered
    <3>. QED
      BY <1>1, <1>2, <3>1
  <2>2. CASE k > Len(s)
    <3>1. k - Len(s) \in UsersOf(t)
      BY <1>1, <1>2, <2>2
    <3>2. k - Len(s) < Len(t) /\ (k - Len(s)) + 1 \notin UsersOf(t)
      BY <3>1 DEF UsersAreAnswered
    <3>3. (k - Len(s)) + 1 = (k + 1) - Len(s)
      BY <1>1, <1>2
    <3>. QED
      BY <1>1, <1>2, <2>2, <3>2, <3>3
  <2>. QED
    BY <1>1, <1>2, <2>1, <2>2
<1>. QED
  BY <1>2, <1>3 DEF UsersAreAnswered

LEMMA CountConcat ==
    ASSUME NEW s \in Histories, NEW t \in Histories, countTurns(t) = 1
    PROVE  countTurns(s \o t) = countTurns(s) + 1
<1>1. /\ Len(s) \in Nat /\ UsersOf(s) \subseteq 1..Len(s) /\ IsFiniteSet(UsersOf(s))
      /\ countTurns(s) = Cardinality(UsersOf(s))
      /\ Len(t) \in Nat /\ UsersOf(t) \subseteq 1..Len(t) /\ IsFiniteSet(UsersOf(t))
      /\ countTurns(t) = Cardinality(UsersOf(t))
  BY UsersFinite
<1>2. /\ UsersOf(s \o t) \subseteq 1..(Len(s) + Len(t))
      /\ countTurns(s \o t) = Cardinality(UsersOf(s \o t))
      /\ \A k \in 1..(Len(s) + Len(t)) :
            k \in UsersOf(s \o t) <=>
                IF k <= Len(s) THEN k \in UsersOf(s) ELSE k - Len(s) \in UsersOf(t)
  BY ConcatUsers, UsersFinite
<1>3. PICK x : UsersOf(t) = {x}
  BY <1>1, FS_Singleton
<1>4. x \in 1..Len(t)
  BY <1>1, <1>3
<1>5. UsersOf(s \o t) = UsersOf(s) \cup {Len(s) + x}
  <2>1. ASSUME NEW k \in UsersOf(s \o t)
        PROVE  k \in UsersOf(s) \cup {Len(s) + x}
    <3>1. k \in 1..(Len(s) + Len(t))
      BY <1>2
    <3>2. k <= Len(s) => k \in UsersOf(s)
      BY <1>2, <3>1, <2>1
    <3>3. ~(k <= Len(s)) => k - Len(s) = x
      BY <1>2, <1>3, <3>1, <2>1
    <3>. QED
      BY <1>1, <1>4, <3>1, <3>2, <3>3
  <2>2. ASSUME NEW k \in UsersOf(s)
        PROVE  k \in UsersOf(s \o t)
    BY <1>1, <1>2
  <2>3. Len(s) + x \in UsersOf(s \o t)
    <3>1. /\ Len(s) + x \in 1..(Len(s) + Len(t)) /\ ~(Len(s) + x <= Len(s))
          /\ (Len(s) + x) - Len(s) = x
      BY <1>1, <1>4
    <3>. QED
      BY <1>2, <1>3, <3>1
  <2>. QED
    BY <2>1, <2>2, <2>3
<1>6. Len(s) + x \notin UsersOf(s)
  BY <1>1, <1>4
<1>7. Cardinality(UsersOf(s) \cup {Len(s) + x}) = Cardinality(UsersOf(s)) + 1
  BY <1>1, <1>6, FS_AddElement
<1>. QED
  BY <1>1, <1>2, <1>5, <1>7

LEMMA MessagesCount ==
    ASSUME NEW t \in Turns, NEW n \in Nat
    PROVE  countTurns(MessagesOf(t, n)) = 1 /\ UsersAreAnswered(MessagesOf(t, n))
<1>. DEFINE m == MessagesOf(t, n)
<1>1. m \in Histories /\ DOMAIN m = 1..(2 * n + 2) /\ DOMAIN m = 1..Len(m) /\ Len(m) \in Nat
  BY MessagesType, UsersFinite DEF MessagesOf
<1>2. Len(m) = 2 * n + 2
  <2>. HIDE DEF m
  <2>1. 2 * n + 2 \in 1..Len(m) /\ (Len(m) >= 1 => Len(m) \in 1..(2 * n + 2))
    BY <1>1
  <2>. QED
    BY <1>1, <2>1
<1>3. \A k \in 1..(2 * n + 2) : m[k].role = "user" <=> k = 1
  BY DEF MessagesOf, Original, RoleAt
<1>4. UsersOf(m) = {1}
  <2>. HIDE DEF m
  <2>. QED
    BY <1>1, <1>3 DEF UsersOf
<1>5. UsersAreAnswered(m)
  BY <1>2, <1>4 DEF UsersAreAnswered
<1>6. countTurns(m) = 1
  BY <1>1, <1>4, UsersFinite, FS_Singleton
<1>. QED
  BY <1>5, <1>6

\* The messages of a summary or of the review are not the user's.
LEMMA OneAnswered ==
    ASSUME NEW m \in Messages, m.role # "user"
    PROVE  UsersAreAnswered(<<m>>)
BY DEF UsersAreAnswered, UsersOf

LEMMA CompactedUsers ==
    ASSUME NEW h \in Histories, NEW i \in 1..Len(h)
    PROVE  \A k \in UsersOf(Compacted(h, i)) :
               k \in 2..(Len(h) - i + 1) /\ i + k - 1 \in UsersOf(h)
<1>1. Len(h) \in Nat /\ DOMAIN h = 1..Len(h)
  BY UsersFinite
<1>2. /\ Compacted(h, i) \in Histories
      /\ Len(Compacted(h, i)) = Len(h) - i + 1
      /\ Compacted(h, i)[1].role = "assistant"
      /\ \A k \in 2..(Len(h) - i + 1) : Compacted(h, i)[k] = h[i + k - 1]
  BY CompactedShape
<1>3. DOMAIN Compacted(h, i) = 1..(Len(h) - i + 1)
  BY <1>2, UsersFinite
<1>4. ASSUME NEW k \in UsersOf(Compacted(h, i))
      PROVE  k \in 2..(Len(h) - i + 1) /\ i + k - 1 \in UsersOf(h)
  <2>1. k \in 1..(Len(h) - i + 1) /\ Compacted(h, i)[k].role = "user"
    BY <1>3 DEF UsersOf
  <2>2. k # 1
    BY <1>2, <2>1
  <2>3. k \in 2..(Len(h) - i + 1) /\ i + k - 1 \in 1..Len(h)
    BY <1>1, <2>1, <2>2
  <2>4. h[i + k - 1].role = "user"
    BY <1>2, <2>1, <2>3
  <2>. QED
    BY <1>1, <2>3, <2>4 DEF UsersOf
<1>. QED
  BY <1>4

LEMMA CompactedAnswered ==
    ASSUME NEW h \in Histories, NEW i \in 1..Len(h), UsersAreAnswered(h)
    PROVE  UsersAreAnswered(Compacted(h, i))
<1>1. Len(h) \in Nat /\ Len(Compacted(h, i)) = Len(h) - i + 1
  BY CompactedShape, UsersFinite
<1>2. ASSUME NEW k \in UsersOf(Compacted(h, i))
      PROVE  k < Len(h) - i + 1 /\ k + 1 \notin UsersOf(Compacted(h, i))
  <2>1. k \in 2..(Len(h) - i + 1) /\ i + k - 1 \in UsersOf(h)
    BY CompactedUsers
  <2>2. i + k - 1 < Len(h) /\ (i + k - 1) + 1 \notin UsersOf(h)
    BY <2>1 DEF UsersAreAnswered
  <2>3. i + (k + 1) - 1 = (i + k - 1) + 1
    BY <1>1, <2>1
  <2>4. k + 1 \notin UsersOf(Compacted(h, i))
    BY <2>2, <2>3, CompactedUsers
  <2>. QED
    BY <1>1, <2>1, <2>2, <2>4
<1>. QED
  BY <1>1, <1>2 DEF UsersAreAnswered

LEMMA StoredAnswered ==
    ASSUME NEW h \in Histories, NEW i \in 0..Len(h), NEW long \in BOOLEAN,
           IsTurnBoundary(h, i), UsersAreAnswered(h)
    PROVE  UsersAreAnswered(StoredOf(h, i, long))
BY StoredCases, CompactedAnswered

\* After compaction, or without need of it, there is room for a turn.
LEMMA StoredHasRoom ==
    ASSUME NEW h \in Histories, NEW i \in 0..Len(h), NEW long \in BOOLEAN,
           IsTurnBoundary(h, i), UsersAreAnswered(h)
    PROVE  countTurns(StoredOf(h, i, long)) + 1 <= MAX_TURNS
<1>1. /\ PRESERVE_RECENT_MESSAGES \in Nat \ {0} /\ MAX_TURNS \in Nat \ {0}
  BY CompactionAssumption
<1>2. /\ Len(h) \in Nat /\ UsersOf(h) \subseteq 1..Len(h) /\ countTurns(h) \in Nat
      /\ DOMAIN h = 1..Len(h)
  BY UsersFinite
<1>3. \A k \in UsersOf(h) : k <= i + 1 \/ k + PRESERVE_RECENT_MESSAGES > Len(h) + 1
  <2>1. ASSUME NEW k \in UsersOf(h), k > i + 1, k + PRESERVE_RECENT_MESSAGES <= Len(h) + 1
        PROVE  FALSE
    <3>1. /\ k - 1 \in (i + 1)..Len(h) /\ (k - 1) + PRESERVE_RECENT_MESSAGES <= Len(h)
          /\ (k - 1) + 1 = k
      BY <1>1, <1>2, <2>1
    <3>2. h[k].role = "user"
      BY DEF UsersOf
    <3>. QED
      BY <3>1, <3>2 DEF IsTurnBoundary
  <2>. QED
    BY <1>1, <1>2, <2>1
<1>4. CASE ~ShouldCompactify(h, long)
  <2>1. StoredOf(h, i, long) = h /\ ~(countTurns(h) >= MAX_TURNS)
    BY <1>4 DEF StoredOf, ContextOf, ShouldCompactify
  <2>. QED
    BY <1>1, <1>2, <2>1
<1>5. CASE i = 0
  <2>1. StoredOf(h, i, long) = h
    BY <1>5 DEF StoredOf, ContextOf
  <2>2. \A k \in UsersOf(h) : k = 1 \/ k + PRESERVE_RECENT_MESSAGES > Len(h) + 1
    BY <1>2, <1>3, <1>5
  <2>. QED
    BY <2>1, <2>2, FewTurns
<1>6. CASE i > 0 /\ ShouldCompactify(h, long)
  <2>1. i \in 1..Len(h) /\ i + 1 \in UsersOf(h)
    BY <1>1, <1>2, <1>6 DEF IsTurnBoundary, UsersOf
  <2>2. CASE StoredOf(h, i, long) = h
    <3>1. Len(Compacted(h, i)) = Len(h)
      <4>1. ContextOf(h, i, long) = Compacted(h, i)
        BY <1>6 DEF ContextOf
      <4>2. CASE Len(Compacted(h, i)) # Len(h)
        BY <2>2, <4>1, <4>2 DEF StoredOf
      <4>. QED
        BY <4>2
    <3>2. i = 1
      BY <1>2, <2>1, <3>1, CompactedShape
    <3>3. 1 \notin UsersOf(h)
      BY <2>1, <3>2 DEF UsersAreAnswered
    <3>4. \A k \in UsersOf(h) : k = 2 \/ k + PRESERVE_RECENT_MESSAGES > Len(h) + 1
      BY <1>2, <1>3, <3>2, <3>3
    <3>. QED
      BY <2>2, <3>4, FewTurns
  <2>3. CASE StoredOf(h, i, long) = Compacted(h, i)
    <3>1. Compacted(h, i) \in Histories /\ Len(Compacted(h, i)) = Len(h) - i + 1
      BY <2>1, CompactedShape
    <3>2. ASSUME NEW k \in UsersOf(Compacted(h, i))
          PROVE  k = 2 \/ k + PRESERVE_RECENT_MESSAGES > Len(Compacted(h, i)) + 1
      <4>1. k \in 2..(Len(h) - i + 1) /\ i + k - 1 \in UsersOf(h)
        BY <2>1, CompactedUsers
      <4>2. i + k - 1 <= i + 1 \/ (i + k - 1) + PRESERVE_RECENT_MESSAGES > Len(h) + 1
        BY <1>3, <4>1
      <4>. QED
        BY <1>1, <1>2, <3>1, <4>1, <4>2
    <3>3. UsersAreAnswered(Compacted(h, i))
      BY <2>1, CompactedAnswered
    <3>. QED
      BY <2>3, <3>1, <3>2, <3>3, FewTurns
  <2>. QED
    BY <2>2, <2>3, StoredCases
<1>. QED
  BY <1>4, <1>5, <1>6

-----------------------------------------------------------------------------
(* The second invariant: nobody speaks twice in a row *)

\* The second inductive invariant: in both tables and in whatever a turn has read, no message of
\* the user is the last one, nor does one directly follow another.
HistoriesAnswered ==
    /\ UsersAreAnswered(fullHistory)
    /\ UsersAreAnswered(runningHistory)
    /\ \A t \in Turns : UsersAreAnswered(turn[t].full) /\ UsersAreAnswered(turn[t].running)

LEMMA EmptyAnswered == UsersAreAnswered(<<>>)
BY DEF UsersAreAnswered, UsersOf

LEMMA FinishKeepsAnswered ==
    ASSUME IInv, HistoriesAnswered, NEW t \in Turns, NEW pc \in {"answered", "fallback", "gone"},
           turn' = [turn EXCEPT ![t] = Finished(pc)]
    PROVE  \A u \in Turns : UsersAreAnswered(turn'[u].full) /\ UsersAreAnswered(turn'[u].running)
<1>1. turn \in [Turns -> TurnRecords]
  BY DEF IInv, TypeOK
<1>2. ASSUME NEW u \in Turns
      PROVE  UsersAreAnswered(turn'[u].full) /\ UsersAreAnswered(turn'[u].running)
  <2>1. CASE u = t
    <3>1. turn'[u].full = <<>> /\ turn'[u].running = <<>>
      BY <1>1, <2>1, FinishedSound
    <3>. QED
      BY <3>1, EmptyAnswered
  <2>2. CASE u # t
    <3>1. turn'[u] = turn[u]
      BY <1>1, <2>2
    <3>. QED
      BY <3>1 DEF HistoriesAnswered
  <2>. QED
    BY <2>1, <2>2
<1>. QED
  BY <1>2

LEMMA SaveKeepsAnswered ==
    ASSUME HistoriesAnswered, NEW full, NEW running, UsersAreAnswered(full),
           UsersAreAnswered(running), Save(full, running)
    PROVE  UsersAreAnswered(fullHistory') /\ UsersAreAnswered(runningHistory')
BY DEF HistoriesAnswered, Save

LEMMA InitAnswered == Init => HistoriesAnswered
<1>. SUFFICES ASSUME Init
              PROVE  HistoriesAnswered
  OBVIOUS
<1>1. \A t \in Turns : turn[t].full = <<>> /\ turn[t].running = <<>>
  BY FinishedSound DEF Init
<1>. QED
  BY <1>1, EmptyAnswered DEF Init, HistoriesAnswered

LEMMA NextAnswered == IInv /\ HistoriesAnswered /\ [Next]_vars => HistoriesAnswered'
<1>. SUFFICES ASSUME IInv, HistoriesAnswered, [Next]_vars
              PROVE  HistoriesAnswered'
  OBVIOUS
<1>a. /\ turn \in [Turns -> TurnRecords]
      /\ fullHistory \in Histories /\ runningHistory \in Histories
      /\ \A t \in Turns : turn[t].full \in Histories /\ turn[t].running \in Histories
  BY DEF IInv, TypeOK, TurnRecords
<1>b. /\ UsersAreAnswered(fullHistory) /\ UsersAreAnswered(Running) /\ Running \in Histories
      /\ \A t \in Turns : UsersAreAnswered(turn[t].full) /\ UsersAreAnswered(turn[t].running)
  BY <1>a DEF HistoriesAnswered, Running
<1>1. ASSUME NEW t \in Turns, TurnBegins(t)
      PROVE  HistoriesAnswered'
  <2>1. /\ turn' = [turn EXCEPT ![t] = [pc |-> "thinking", full |-> fullHistory,
                                        running |-> Running]]
        /\ UNCHANGED <<fullHistory, runningHistory>>
    BY <1>1 DEF TurnBegins
  <2>2. ASSUME NEW u \in Turns
        PROVE  UsersAreAnswered(turn'[u].full) /\ UsersAreAnswered(turn'[u].running)
    <3>1. CASE u = t
      <4>1. turn'[u].full = fullHistory /\ turn'[u].running = Running
        BY <1>a, <2>1, <3>1
      <4>. QED
        BY <1>b, <4>1
    <3>2. CASE u # t
      <4>1. turn'[u] = turn[u]
        BY <1>a, <2>1, <3>2
      <4>. QED
        BY <1>b, <4>1
    <3>. QED
      BY <3>1, <3>2
  <2>. QED
    BY <2>1, <2>2 DEF HistoriesAnswered
<1>2. ASSUME NEW t \in Turns, TurnAnswers(t)
      PROVE  HistoriesAnswered'
  <2>1. PICK n \in 0..MaxToolCalls, i \in 0..Len(turn[t].running), long \in BOOLEAN :
           /\ IsTurnBoundary(turn[t].running, i)
           /\ Save(turn[t].full \o MessagesOf(t, n),
                   StoredOf(turn[t].running, i, long) \o MessagesOf(t, n))
    BY <1>2 DEF TurnAnswers
  <2>2. MessagesOf(t, n) \in Histories /\ UsersAreAnswered(MessagesOf(t, n))
    BY MessagesType, MessagesCount, BoundAssumption
  <2>3. /\ StoredOf(turn[t].running, i, long) \in Histories
        /\ UsersAreAnswered(StoredOf(turn[t].running, i, long))
    BY <1>a, <1>b, <2>1, StoredKnows, StoredAnswered
  <2>4. /\ UsersAreAnswered(turn[t].full \o MessagesOf(t, n))
        /\ UsersAreAnswered(StoredOf(turn[t].running, i, long) \o MessagesOf(t, n))
    BY <1>a, <1>b, <2>2, <2>3, ConcatAnswered
  <2>5. UsersAreAnswered(fullHistory') /\ UsersAreAnswered(runningHistory')
    BY <2>1, <2>4, SaveKeepsAnswered
  <2>6. \A u \in Turns : UsersAreAnswered(turn'[u].full) /\ UsersAreAnswered(turn'[u].running)
    BY <1>2, FinishKeepsAnswered DEF TurnAnswers
  <2>. QED
    BY <2>5, <2>6 DEF HistoriesAnswered
<1>3. ASSUME NEW t \in Turns, TurnFallsBack(t)
      PROVE  HistoriesAnswered'
  <2>1. MessagesOf(t, 0) \in Histories /\ UsersAreAnswered(MessagesOf(t, 0))
    BY MessagesType, MessagesCount
  <2>2. /\ UsersAreAnswered(turn[t].full \o MessagesOf(t, 0))
        /\ UsersAreAnswered(turn[t].running \o MessagesOf(t, 0))
    BY <1>a, <1>b, <2>1, ConcatAnswered
  <2>3. UsersAreAnswered(fullHistory') /\ UsersAreAnswered(runningHistory')
    BY <1>3, <2>2, SaveKeepsAnswered DEF TurnFallsBack
  <2>4. \A u \in Turns : UsersAreAnswered(turn'[u].full) /\ UsersAreAnswered(turn'[u].running)
    BY <1>3, FinishKeepsAnswered DEF TurnFallsBack
  <2>. QED
    BY <2>3, <2>4 DEF HistoriesAnswered
<1>4. ASSUME NEW t \in Turns, TurnThrows(t)
      PROVE  HistoriesAnswered'
  <2>1. \A u \in Turns : UsersAreAnswered(turn'[u].full) /\ UsersAreAnswered(turn'[u].running)
    BY <1>4, FinishKeepsAnswered DEF TurnThrows
  <2>. QED
    BY <1>4, <2>1 DEF TurnThrows, HistoriesAnswered
<1>5. CASE ReviewAsks
  <2>. DEFINE message == Original("assistant", Review, 1)
  <2>1. message \in Messages /\ message.role # "user"
    BY OriginalType DEF Original
  <2>2. <<message>> \in Histories /\ UsersAreAnswered(<<message>>)
    BY <2>1, KnowsOne, OneAnswered
  <2>3. /\ UsersAreAnswered(fullHistory \o <<message>>)
        /\ UsersAreAnswered(Running \o <<message>>)
    BY <1>a, <1>b, <2>2, ConcatAnswered
  <2>4. UsersAreAnswered(fullHistory') /\ UsersAreAnswered(runningHistory')
    BY <1>5, <2>3, SaveKeepsAnswered DEF ReviewAsks
  <2>. QED
    BY <1>5, <2>4 DEF ReviewAsks, HistoriesAnswered
<1>6. CASE ClearConversation
  BY <1>6, EmptyAnswered DEF ClearConversation, HistoriesAnswered
<1>7. CASE Restart
  <2>1. ASSUME NEW u \in Turns
        PROVE  UsersAreAnswered(turn'[u].full) /\ UsersAreAnswered(turn'[u].running)
    <3>1. turn'[u] = turn[u] \/ turn'[u] = Finished("gone")
      BY <1>7 DEF Restart
    <3>. QED
      BY <3>1, <1>b, FinishedSound, EmptyAnswered
  <2>. QED
    BY <1>7, <2>1 DEF Restart, HistoriesAnswered
<1>8. CASE UNCHANGED vars
  BY <1>8 DEF vars, HistoriesAnswered
<1>. QED
  BY <1>1, <1>2, <1>3, <1>4, <1>5, <1>6, <1>7, <1>8 DEF Next

-----------------------------------------------------------------------------
(* Theorems *)

\* Every reachable state of the conversation is well typed (TypeOK): both tables and
\* every snapshot a turn holds are sequences of messages, whatever is compacted.
THEOREM TypeCorrect == Spec => []TypeOK
<1>1. IInv => TypeOK
  BY DEF IInv
<1>. QED
  BY <1>1, IInvAlways, PTL

\* For any turns that overlap, any compaction limits, clears and restarts, the running
\* history is about exactly what the full history is about until an INSERT throws
\* (setConversationState, compactifyContext).
THEOREM SameKnowledgeAlways == Spec => []SameKnowledge
<1>1. IInv => SameKnowledge
  BY DEF IInv
<1>. QED
  BY <1>1, IInvAlways, PTL

\* For any limits, turns and failures, no history ever holds a tool's result without
\* the call before it (findTurnBoundary).
THEOREM ToolsFollowTheirCallsAlways == Spec => []ToolsFollowTheirCalls
<1>1. IInv => ToolsFollowTheirCalls
  BY DEF IInv
<1>. QED
  BY <1>1, IInvAlways, PTL

\* For any limits, overlapping turns and failures, an answered turn saves a running history that
\* still holds, in one piece, the last PRESERVE_RECENT_MESSAGES of what it had read
\* (findTurnBoundary, compactifyContext).
THEOREM RecentMessagesAlwaysKept == Spec => RecentMessagesKept
<1>1. ASSUME IInv, [Next]_vars, NEW t \in Turns, Answers(t), runningHistory' # runningHistory
      PROVE  KeepsRecent(turn[t].running, runningHistory')
  <2>1. PICK n \in 0..MaxToolCalls, i \in 0..Len(turn[t].running), long \in BOOLEAN :
           /\ IsTurnBoundary(turn[t].running, i)
           /\ runningHistory' = StoredOf(turn[t].running, i, long) \o MessagesOf(t, n)
    BY <1>1, WhatAnAnswerSaves
  <2>2. turn[t].running \in Histories /\ MessagesOf(t, n) \in Histories
    BY <1>1, WhatAnAnswerSaves, MessagesType, BoundAssumption
  <2>3. KeepsRecent(turn[t].running, StoredOf(turn[t].running, i, long) \o MessagesOf(t, n))
    BY <2>1, <2>2, RecentInStored
  <2>. QED
    BY <2>1, <2>3
<1>2. IInv /\ [Next]_vars =>
         [\A t \in Turns : Answers(t) /\ runningHistory' # runningHistory =>
             KeepsRecent(turn[t].running, runningHistory')]_vars
  BY <1>1
<1>. QED
  BY <1>2, IInvAlways, PTL DEF Spec, RecentMessagesKept

\* For any limits that satisfy the assumption, however turns overlap, fall back, fail to save or
\* are compacted, a turn that is answered leaves at most MAX_TURNS of the user's messages in the
\* running history (shouldCompactify, findTurnBoundary, compactifyContext).
THEOREM CompactionAlwaysBoundsTurns == Spec => CompactionBoundsTurns
<1>1. ASSUME IInv, HistoriesAnswered, [Next]_vars, NEW t \in Turns, Answers(t),
             runningHistory' # runningHistory
      PROVE  countTurns(runningHistory') <= MAX_TURNS
  <2>1. PICK n \in 0..MaxToolCalls, i \in 0..Len(turn[t].running), long \in BOOLEAN :
           /\ IsTurnBoundary(turn[t].running, i)
           /\ runningHistory' = StoredOf(turn[t].running, i, long) \o MessagesOf(t, n)
    BY <1>1, WhatAnAnswerSaves
  <2>2. /\ turn[t].running \in Histories /\ UsersAreAnswered(turn[t].running)
        /\ MessagesOf(t, n) \in Histories /\ countTurns(MessagesOf(t, n)) = 1
    BY <1>1, WhatAnAnswerSaves, MessagesType, MessagesCount, BoundAssumption
    DEF HistoriesAnswered
  <2>3. StoredOf(turn[t].running, i, long) \in Histories
    BY <2>2, StoredKnows
  <2>4. countTurns(runningHistory') = countTurns(StoredOf(turn[t].running, i, long)) + 1
    BY <2>1, <2>2, <2>3, CountConcat
  <2>. QED
    BY <2>1, <2>2, <2>4, StoredHasRoom
<1>2. IInv /\ HistoriesAnswered /\ [Next]_vars =>
         [\A t \in Turns : Answers(t) /\ runningHistory' # runningHistory =>
             countTurns(runningHistory') <= MAX_TURNS]_vars
  BY <1>1
<1>. QED
  BY <1>2, IInvAlways, InitAnswered, NextAnswered, PTL DEF Spec, CompactionBoundsTurns
=============================================================================
