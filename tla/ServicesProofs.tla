--------------------------- MODULE ServicesProofs ---------------------------
(* Proofs about SecretsClient, SdkConnection, Agentic and RateLimit, for any number of gets, *)
(* clients, sockets, messages, requests, builds, keys and ticks, and about MCServices, the    *)
(* four together.                                                                             *)
EXTENDS MCServices, SequenceTheorems, FiniteSetTheorems, TLAPS

-----------------------------------------------------------------------------
(* The client of the secrets store                                         *)

\* What a get may be.
GetStates ==
  {Idle} \cup [pc : {"asked", "told_locked", "told", "waiting", "again"}, on : Clients]

LEMMA SettledType ==
  ASSUME NEW c \in Clients, NEW next \in {"idle", "again"}, ClientTypeOK
  PROVE  Settled(c, next) \in [Gets -> GetStates]
BY DEF Settled, WaitingOn, ClientTypeOK, GetStates, Idle

LEMMA SettledWaits ==
  ASSUME NEW c, NEW next \in {"idle", "again"}, ClientTypeOK, NEW d \in Clients
  PROVE  (\E g \in Gets : Settled(c, next)[g].pc = "waiting" /\ Settled(c, next)[g].on = d)
         <=> d # c /\ \E g \in Gets : gets[g].pc = "waiting" /\ gets[g].on = d
BY DEF Settled, WaitingOn, ClientTypeOK, Idle

\* PromptsAreAwaited, client by client.
LEMMA AwaitedByClient ==
  ASSUME ClientTypeOK
  PROVE  PromptsAreAwaited <=>
           \A d \in Clients :
             d \in prompting <=> \E g \in Gets : gets[g].pc = "waiting" /\ gets[g].on = d
BY DEF PromptsAreAwaited, ClientTypeOK, Idle

LEMMA ClientStep ==
  ASSUME ClientTypeOK, PromptsAreAwaited, [ClientNext]_clientVars
  PROVE  ClientTypeOK' /\ PromptsAreAwaited'
<1>. USE ClientAssumption
<1>. DEFINE Awaited == \A d \in Clients :
        d \in prompting <=> \E g \in Gets : gets[g].pc = "waiting" /\ gets[g].on = d
<1>0. Awaited
  BY AwaitedByClient
<1>. SUFFICES ClientTypeOK' /\ Awaited'
  BY DEF PromptsAreAwaited, ClientTypeOK, Idle
<1>1. ASSUME NEW g \in Gets, GetBegins(g)
      PROVE  ClientTypeOK' /\ Awaited'
  BY <1>0, <1>1 DEF GetBegins, ClientTypeOK, Idle
<1>2. ASSUME NEW g \in Gets, StoreAnswers(g)
      PROVE  ClientTypeOK' /\ Awaited'
  BY <1>0, <1>2 DEF StoreAnswers, ClientTypeOK, Idle
<1>3. ASSUME NEW g \in Gets, StoreThrows(g) \/ GetReturns(g)
      PROVE  ClientTypeOK' /\ Awaited'
  <2>1. /\ gets[g].pc # "waiting"
        /\ gets' = [gets EXCEPT ![g] = Idle] /\ prompting' = prompting
    BY <1>3 DEF StoreThrows, GetReturns
  <2>2. \A h \in Gets : gets'[h] = IF h = g THEN Idle ELSE gets[h]
    BY <2>1 DEF ClientTypeOK
  <2>3. Awaited'
    BY <1>0, <2>1, <2>2 DEF Idle
  <2>4. ClientTypeOK'
    BY <1>3, <2>1 DEF StoreThrows, GetReturns, ClientTypeOK
  <2>. QED
    BY <2>3, <2>4
<1>4. ASSUME NEW g \in Gets, RequestUnlock(g)
      PROVE  ClientTypeOK' /\ Awaited'
  BY <1>0, <1>4 DEF RequestUnlock, ClientTypeOK, Idle
<1>5. ASSUME NEW c \in Clients, UnlockTimesOut(c)
      PROVE  ClientTypeOK' /\ Awaited'
  <2>1. ClientTypeOK'
    BY <1>5, SettledType DEF UnlockTimesOut, ClientTypeOK, GetStates
  <2>2. Awaited'
    BY <1>0, <1>5, SettledWaits DEF UnlockTimesOut
  <2>. QED
    BY <2>1, <2>2
<1>6. CASE HandleVaultUnlocked
  <2>1. ClientTypeOK'
    BY <1>6, SettledType DEF HandleVaultUnlocked, ClientTypeOK, GetStates
  <2>2. Awaited'
    BY <1>0, <1>6, SettledWaits DEF HandleVaultUnlocked
  <2>. QED
    BY <2>1, <2>2
<1>7. CASE HandleVaultLocked \/ HandleWebSocketClose
  <2>1. ClientTypeOK'
    BY <1>7, SettledType
    DEF HandleVaultLocked, HandleWebSocketClose, DropClient, ClientTypeOK, GetStates
  <2>2. Awaited'
    BY <1>0, <1>7, SettledWaits DEF HandleVaultLocked, HandleWebSocketClose, DropClient
  <2>. QED
    BY <2>1, <2>2
<1>8. CASE AgentRestarts
  BY <1>8 DEF AgentRestarts, ClientTypeOK, Idle
<1>9. CASE TabUnlocks \/ TabLocks \/ SessionEnds
           \/ \E belief \in {"unlocked", "locked"} : TabReports(belief)
  BY <1>0, <1>9, ZenonT(40) DEF TabUnlocks, TabLocks, SessionEnds, TabReports, ClientTypeOK
<1>10. CASE UNCHANGED clientVars
  BY <1>0, <1>10 DEF clientVars, ClientTypeOK
<1>. QED
  BY <1>1, <1>2, <1>3, <1>4, <1>5, <1>6, <1>7, <1>8, <1>9, <1>10 DEF ClientNext

LEMMA ClientInvariant == ClientSpec => [](ClientTypeOK /\ PromptsAreAwaited)
<1>1. ClientInit => ClientTypeOK /\ PromptsAreAwaited
  BY DEF ClientInit, ClientTypeOK, PromptsAreAwaited, Idle
<1>2. ClientTypeOK /\ PromptsAreAwaited /\ [ClientNext]_clientVars
        => (ClientTypeOK /\ PromptsAreAwaited)'
  BY ClientStep
<1>. QED
  BY <1>1, <1>2, PTL DEF ClientSpec

\* A promise of a SecretsClient is pending exactly while a get waits on it, for
\* any number of clients that the agent made and dropped: no get waits on a
\* promise that notifyUnlocked, notifyUnlockFailed and the timer have forgotten,
\* and no promise is left that would swallow the next prompt.
THEOREM PromptsHaveWaiters == ClientSpec => []PromptsAreAwaited
BY ClientInvariant, PTL

-----------------------------------------------------------------------------
(* The connection of the SDK                                               *)

\* OneSocket is inductive with these: close() remembers a URL under way, and onOpen runs on a socket
\* that is taken to be open.
LateUrlNoted == closedByUser /\ fetching > 0 => lateUrl

OpeningIsOpen == opening # "no" => isOpen /\ ~closedByUser

SdkIInv == SdkTypeOK /\ OneSocket /\ LateUrlNoted /\ OpeningIsOpen

LEMMA OnType ==
  ASSUME NEW s \in Sockets, NEW msgs \in Seq(Msgs \cup {Hello})
  PROVE  On(s, msgs) \in Seq([on : Sockets, msg : Msgs \cup {Hello}])
BY DEF On

LEMMA ScheduleType ==
  ASSUME SdkTypeOK, ScheduleReconnect \/ UNCHANGED <<reconnectTimer, reconnectAttempts>>
  PROVE  reconnectTimer' \in BOOLEAN /\ reconnectAttempts' \in 0..MaxRetries
<1>1. CASE closedByUser \/ reconnectAttempts >= MaxRetries \/ reconnectTimer
  BY <1>1 DEF ScheduleReconnect, SdkTypeOK
<1>2. CASE ~(closedByUser \/ reconnectAttempts >= MaxRetries \/ reconnectTimer)
  <2>1. CASE reconnectTimer' = TRUE /\ reconnectAttempts' = reconnectAttempts + 1
    <3>1. reconnectAttempts + 1 \in 0..MaxRetries
      BY <1>2, SdkAssumption DEF SdkTypeOK
    <3>. QED
      BY <2>1, <3>1
  <2>2. CASE UNCHANGED <<reconnectTimer, reconnectAttempts>>
    BY <2>2 DEF SdkTypeOK
  <2>. QED
    BY <1>2, <2>1, <2>2 DEF ScheduleReconnect
<1>. QED
  BY <1>1, <1>2

LEMMA HandOverType ==
  ASSUME SdkTypeOK, ws \in Sockets, NEW msgs \in Seq(Msgs \cup {Hello}), HandOver(msgs)
  PROVE  /\ heard' \in Seq([on : Sockets, msg : Msgs \cup {Hello}])
         /\ lost' \subseteq Msgs
<1>1. On(ws, msgs) \in Seq([on : Sockets, msg : Msgs \cup {Hello}])
  BY OnType
<1>2. CASE sockets[ws] = "dead"
  <2>1. ToSet(msgs) \ {Hello} \subseteq Msgs
    BY DEF ToSet
  <2>. QED
    BY <1>2, <2>1 DEF HandOver, SdkTypeOK
<1>3. CASE sockets[ws] # "dead"
  <2>1. heard' = heard \o On(ws, msgs) /\ lost' = lost
    BY <1>3 DEF HandOver
  <2>2. heard \in Seq([on : Sockets, msg : Msgs \cup {Hello}]) /\ lost \subseteq Msgs
    BY DEF SdkTypeOK
  <2>. QED
    BY <1>1, <2>1, <2>2, ConcatProperties
<1>. QED
  BY <1>2, <1>3

LEMMA SdkTypeStep ==
  ASSUME SdkIInv, [SdkNext]_sdkVars
  PROVE  SdkTypeOK'
<1>. USE SdkAssumption DEF connectVars, socketVars, historyVars
<1>0. SdkTypeOK /\ OneSocket /\ OpeningIsOpen
  BY DEF SdkIInv
<1>a. isOpen => ws \in Sockets
  BY <1>0 DEF OneSocket, SdkTypeOK
<1>1. CASE TimerConnects
  <2>1. fetching' \in Nat /\ reconnectTimer' = FALSE
    BY <1>0, <1>1 DEF TimerConnects, SdkTypeOK
  <2>. QED
    BY <1>0, <1>1, <2>1 DEF TimerConnects, SdkTypeOK
<1>2. ASSUME NEW s \in Sockets, UrlFetched(s)
      PROVE  SdkTypeOK'
  <2>1. /\ sockets' = [sockets EXCEPT ![s] = "connecting"] /\ ws' = s
        /\ fetching > 0 /\ fetching' = fetching - 1
        /\ UNCHANGED <<reconnectTimer, reconnectAttempts, isOpen, opening, closedByUser, pendingSends,
                       historyVars>>
    BY <1>2 DEF UrlFetched
  <2>. QED
    BY <1>0, <2>1 DEF SdkTypeOK
<1>3. CASE UrlFails
  <2>1. fetching' \in Nat
    BY <1>0, <1>3 DEF UrlFails, SdkTypeOK
  <2>2. reconnectTimer' \in BOOLEAN /\ reconnectAttempts' \in 0..MaxRetries
    BY <1>0, <1>3, ScheduleType DEF UrlFails
  <2>. QED
    BY <1>0, <1>3, <2>1, <2>2 DEF UrlFails, SdkTypeOK
<1>4. ASSUME NEW s \in Sockets, Opens(s) \/ Dies(s)
      PROVE  SdkTypeOK'
  <2>1. CASE Opens(s)
    BY <1>0, <2>1 DEF Opens, SdkTypeOK
  <2>2. CASE Dies(s)
    BY <1>0, <2>2 DEF Dies, SdkTypeOK
  <2>. QED
    BY <1>4, <2>1, <2>2
<1>5. ASSUME NEW s \in Sockets, Fails(s)
      PROVE  SdkTypeOK'
  <2>1. reconnectTimer' \in BOOLEAN /\ reconnectAttempts' \in 0..MaxRetries
    BY <1>0, <1>5, ScheduleType DEF Fails
  <2>. QED
    BY <1>0, <1>5, <2>1 DEF Fails, SdkTypeOK
<1>6. ASSUME SaysHello \/ Flushes
      PROVE  SdkTypeOK'
  <2>1. ws \in Sockets
    BY <1>0, <1>a, <1>6 DEF SaysHello, Flushes, OpeningIsOpen
  <2>2. <<Hello>> \in Seq(Msgs \cup {Hello}) /\ pendingSends \in Seq(Msgs \cup {Hello})
    BY <1>0 DEF SdkTypeOK
  <2>3. HandOver(<<Hello>>) \/ HandOver(pendingSends)
    BY <1>6 DEF SaysHello, Flushes
  <2>4. /\ heard' \in Seq([on : Sockets, msg : Msgs \cup {Hello}])
        /\ lost' \subseteq Msgs
    BY <1>0, <2>1, <2>2, <2>3, HandOverType
  <2>5. /\ opening' \in {"open", "no"}
        /\ pendingSends' = pendingSends \/ pendingSends' = <<>>
        /\ UNCHANGED <<connectVars, ws, sockets, isOpen, closedByUser, said, ahead, dropped, lateUrl>>
    BY <1>6 DEF SaysHello, Flushes
  <2>6. pendingSends' \in Seq(Msgs) /\ Len(pendingSends') <= MaxPendingSends
    <3>1. <<>> \in Seq(Msgs) /\ Len(<<>>) <= MaxPendingSends
      OBVIOUS
    <3>2. pendingSends \in Seq(Msgs) /\ Len(pendingSends) <= MaxPendingSends
      BY <1>0 DEF SdkTypeOK
    <3>. QED
      BY <2>5, <3>1, <3>2
  <2>. QED
    BY <1>0, <2>4, <2>5, <2>6 DEF SdkTypeOK
<1>7. CASE ListenerThrows
  BY <1>0, <1>7 DEF ListenerThrows, SdkTypeOK
<1>8. ASSUME NEW m \in Msgs, Send(m)
      PROVE  SdkTypeOK'
  <2>1. said' \in Seq(Msgs) /\ ahead' \subseteq Msgs
    BY <1>0, <1>8, AppendProperties DEF Send, SdkTypeOK
  <2>2. CASE isOpen
    <3>1. ws \in Sockets /\ <<m>> \in Seq(Msgs \cup {Hello}) /\ HandOver(<<m>>)
      BY <1>a, <1>8, <2>2 DEF Send
    <3>2. /\ heard' \in Seq([on : Sockets, msg : Msgs \cup {Hello}])
          /\ lost' \subseteq Msgs
      BY <1>0, <3>1, HandOverType
    <3>3. UNCHANGED <<pendingSends, dropped, connectVars, socketVars, closedByUser, lateUrl>>
      BY <1>8, <2>2 DEF Send
    <3>. QED
      BY <1>0, <2>1, <3>2, <3>3 DEF SdkTypeOK
  <2>3. CASE ~isOpen
    <3>. DEFINE queue == Append(pendingSends, m)
    <3>0. pendingSends \in Seq(Msgs) /\ Len(pendingSends) \in Nat
      BY <1>0 DEF SdkTypeOK
    <3>1. queue \in Seq(Msgs) /\ Len(queue) = Len(pendingSends) + 1 /\ Len(queue) \in Nat
      BY <3>0, AppendProperties
    <3>2. Tail(queue) \in Seq(Msgs) /\ Len(Tail(queue)) = Len(pendingSends)
      <4>. HIDE DEF queue
      <4>1. queue # <<>>
        BY <3>0, <3>1
      <4>. QED
        BY <3>0, <3>1, <4>1, HeadTailProperties
    <3>3. /\ pendingSends' = (IF Len(queue) > MaxPendingSends THEN Tail(queue) ELSE queue)
          /\ dropped' = (dropped \/ Len(queue) > MaxPendingSends)
          /\ UNCHANGED <<heard, lost>>
      BY <1>8, <2>3 DEF Send
    <3>4. pendingSends' \in Seq(Msgs) /\ Len(pendingSends') <= MaxPendingSends
      BY <1>0, <3>1, <3>2, <3>3 DEF SdkTypeOK
    <3>5. dropped' \in BOOLEAN
      BY <3>3
    <3>6. UNCHANGED <<connectVars, socketVars, closedByUser, lateUrl>>
      BY <1>8 DEF Send
    <3>. QED
      BY <1>0, <2>1, <3>3, <3>4, <3>5, <3>6 DEF SdkTypeOK
  <2>. QED
    BY <2>2, <2>3
<1>9. CASE Close
  <2>1. sockets' \in [Sockets -> {"unborn", "connecting", "open", "dead", "closed"}]
    BY <1>0, <1>9 DEF Close, SdkTypeOK
  <2>2. dropped' \in BOOLEAN /\ lateUrl' \in BOOLEAN
    BY <1>9 DEF Close
  <2>3. /\ pendingSends' \in Seq(Msgs) /\ Len(pendingSends') <= MaxPendingSends
        /\ said' \in Seq(Msgs)
        /\ heard' \in Seq([on : Sockets, msg : Msgs \cup {Hello}])
        /\ ahead' \subseteq Msgs /\ lost' \subseteq Msgs
    BY <1>0, <1>9 DEF Close, SdkTypeOK
  <2>4. /\ reconnectTimer' = FALSE /\ closedByUser' = TRUE /\ isOpen' = FALSE /\ opening' = "no"
        /\ ws' = NoSocket
        /\ fetching' \in Nat /\ reconnectAttempts' \in 0..MaxRetries
    BY <1>0, <1>9 DEF Close, SdkTypeOK
  <2>. QED
    BY <2>1, <2>2, <2>3, <2>4 DEF SdkTypeOK
<1>10. CASE UNCHANGED sdkVars
  BY <1>0, <1>10 DEF sdkVars, SdkTypeOK
<1>. QED
  BY <1>1, <1>2, <1>3, <1>4, <1>5, <1>6, <1>7, <1>8, <1>9, <1>10 DEF SdkNext

LEMMA OneSocketStep ==
  ASSUME SdkIInv, [SdkNext]_sdkVars
  PROVE  OneSocket' /\ LateUrlNoted' /\ OpeningIsOpen'
<1>. USE SdkAssumption DEF connectVars, socketVars, historyVars, SdkIInv, SdkTypeOK, OneSocket,
                           LateUrlNoted, OpeningIsOpen, Live
<1>1. CASE TimerConnects
  BY <1>1 DEF TimerConnects
<1>2. ASSUME NEW s \in Sockets, UrlFetched(s)
      PROVE  OneSocket' /\ LateUrlNoted' /\ OpeningIsOpen'
  <2>1. /\ sockets' = [sockets EXCEPT ![s] = "connecting"] /\ ws' = s
        /\ fetching > 0 /\ fetching' = fetching - 1 /\ sockets[s] = "unborn"
        /\ UNCHANGED <<reconnectTimer, reconnectAttempts, isOpen, opening, closedByUser, pendingSends,
                       historyVars>>
    BY <1>2 DEF UrlFetched
  <2>. QED
    BY <2>1
<1>3. CASE UrlFails
  BY <1>3 DEF UrlFails, ScheduleReconnect
<1>4. ASSUME NEW s \in Sockets, Opens(s)
      PROVE  OneSocket' /\ LateUrlNoted' /\ OpeningIsOpen'
  BY <1>4 DEF Opens
<1>5. ASSUME NEW s \in Sockets, Dies(s)
      PROVE  OneSocket' /\ LateUrlNoted' /\ OpeningIsOpen'
  BY <1>5 DEF Dies
<1>6. ASSUME NEW s \in Sockets, Fails(s)
      PROVE  OneSocket' /\ LateUrlNoted' /\ OpeningIsOpen'
  BY <1>6 DEF Fails, ScheduleReconnect
<1>7. CASE SaysHello \/ Flushes \/ ListenerThrows
  <2>1. /\ UNCHANGED <<fetching, reconnectTimer, ws, sockets, isOpen, closedByUser, lateUrl>>
        /\ opening # "no"
    BY <1>7 DEF SaysHello, Flushes, ListenerThrows
  <2>. QED
    BY <2>1
<1>8. ASSUME NEW m \in Msgs, Send(m)
      PROVE  OneSocket' /\ LateUrlNoted' /\ OpeningIsOpen'
  <2>1. UNCHANGED <<fetching, reconnectTimer, ws, sockets, isOpen, opening, closedByUser, lateUrl>>
    BY <1>8 DEF Send
  <2>. QED
    BY <2>1
<1>9. CASE Close
  <2>1. /\ closedByUser' = TRUE /\ isOpen' = FALSE /\ reconnectTimer' = FALSE /\ opening' = "no"
        /\ fetching' = fetching /\ lateUrl' = (fetching > 0)
    BY <1>9 DEF Close
  <2>2. \A s \in Sockets : sockets'[s] \notin Live
    BY <1>9 DEF Close
  <2>3. fetching \in Nat /\ fetching <= 1
    OBVIOUS
  <2>4. fetching > 0 => lateUrl'
    BY <2>1
  <2>5. fetching' \in Nat /\ fetching' <= 1 /\ LateUrlNoted' /\ OpeningIsOpen'
    BY ONLY <2>1, <2>3, <2>4 DEF LateUrlNoted, OpeningIsOpen
  <2>6. OneSocket'
    BY ONLY <2>1, <2>2, <2>5 DEF OneSocket
  <2>. QED
    BY <2>5, <2>6
<1>10. CASE UNCHANGED sdkVars
  BY <1>10 DEF sdkVars
<1>. QED
  BY <1>1, <1>2, <1>3, <1>4, <1>5, <1>6, <1>7, <1>8, <1>9, <1>10 DEF SdkNext

LEMMA SdkIInvInit ==
  ASSUME SdkInit
  PROVE  SdkIInv
<1>1. /\ pendingSends \in Seq(Msgs) /\ Len(pendingSends) <= MaxPendingSends
      /\ said \in Seq(Msgs)
      /\ heard \in Seq([on : Sockets, msg : Msgs \cup {Hello}])
  BY SdkAssumption DEF SdkInit
<1>2. fetching \in Nat /\ reconnectAttempts \in 0..MaxRetries
  BY SdkAssumption DEF SdkInit
<1>3. sockets \in [Sockets -> {"unborn", "connecting", "open", "dead", "closed"}]
  BY DEF SdkInit
<1>4. SdkTypeOK
  BY <1>1, <1>2, <1>3 DEF SdkInit, SdkTypeOK
<1>5. OneSocket /\ LateUrlNoted /\ OpeningIsOpen
  BY DEF SdkInit, OneSocket, LateUrlNoted, OpeningIsOpen, Live
<1>. QED
  BY <1>4, <1>5 DEF SdkIInv

LEMMA SdkInvariant == SdkSpec => []SdkIInv
<1>1. SdkInit => SdkIInv
  BY SdkIInvInit
<1>2. SdkIInv /\ [SdkNext]_sdkVars => SdkIInv'
  BY SdkTypeStep, OneSocketStep DEF SdkIInv
<1>. QED
  BY <1>1, <1>2, PTL DEF SdkSpec

\* However sockets fail and reconnects are scheduled, at most one socket of the
\* connection is up and nothing is under way to a second; after close() one comes
\* up only if the URL was being fetched at that moment.
THEOREM OneSocketAtATime == SdkSpec => []OneSocket
<1>1. SdkIInv => OneSocket
  BY DEF SdkIInv
<1>. QED
  BY <1>1, SdkInvariant, PTL

-----------------------------------------------------------------------------
(* What the agent hears                                                    *)

\* With these HeardInOrder is inductive: nothing waits after the flush of an open socket or after
\* close(), and once the session has sent its message on a socket that is not dead, what was heard
\* last was heard there.
QueueRests == (isOpen /\ opening = "no") \/ closedByUser => pendingSends = <<>>

SocketGreeted ==
  /\ isOpen /\ ~closedByUser
  /\ opening \in {"no", "open"}
  /\ sockets[ws] # "dead"
  => Len(heard) > 0 /\ heard[Len(heard)].on = ws

PendingSaid == \A k \in 1..Len(pendingSends) : Contains(said, pendingSends[k])

HeardIInv == HeardInOrder /\ PendingSaid /\ QueueRests /\ SocketGreeted

LEMMA SdkLengths ==
  ASSUME SdkTypeOK
  PROVE  /\ Len(heard) \in Nat /\ Len(pendingSends) \in Nat /\ Len(said) \in Nat
         /\ heard \in Seq([on : Sockets, msg : Msgs \cup {Hello}])
         /\ pendingSends \in Seq(Msgs) /\ said \in Seq(Msgs)
         /\ Arrived \subseteq 1..Len(heard)
BY DEF SdkTypeOK, Arrived

\* What is sent on a socket comes after all that was heard.
LEMMA HeardThenOn ==
  ASSUME SdkTypeOK, ws \in Sockets, NEW msgs \in Seq(Msgs \cup {Hello}),
         heard' = heard \o On(ws, msgs)
  PROVE  /\ Len(heard') = Len(heard) + Len(msgs) /\ Len(msgs) \in Nat
         /\ \A i \in 1..Len(heard) : i \in 1..Len(heard') /\ heard'[i] = heard[i]
         /\ \A k \in 1..Len(msgs) :
              /\ Len(heard) + k \in 1..Len(heard')
              /\ heard'[Len(heard) + k].on = ws /\ heard'[Len(heard) + k].msg = msgs[k]
         /\ \A i \in 1..Len(heard') :
              i \in 1..Len(heard) \/ \E k \in 1..Len(msgs) : i = Len(heard) + k
<1>. DEFINE sent == On(ws, msgs)
<1>1. sent \in Seq([on : Sockets, msg : Msgs \cup {Hello}])
  BY OnType
<1>2. Len(sent) = Len(msgs) /\ \A k \in 1..Len(msgs) : sent[k] = [on |-> ws, msg |-> msgs[k]]
  BY DEF On
<1>3. Len(heard) \in Nat /\ Len(msgs) \in Nat /\ heard' = heard \o sent
  BY SdkLengths
<1>. HIDE DEF sent
<1>4. /\ Len(heard') = Len(heard) + Len(sent)
      /\ \A i \in 1..(Len(heard) + Len(sent)) :
           heard'[i] = IF i <= Len(heard) THEN heard[i] ELSE sent[i - Len(heard)]
  BY <1>1, <1>3, SdkLengths, ConcatProperties
<1>5. \A i \in 1..Len(heard) : i \in 1..Len(heard') /\ heard'[i] = heard[i]
  BY <1>2, <1>3, <1>4
<1>6. ASSUME NEW k \in 1..Len(msgs)
      PROVE  /\ Len(heard) + k \in 1..Len(heard')
             /\ heard'[Len(heard) + k].on = ws /\ heard'[Len(heard) + k].msg = msgs[k]
  <2>1. /\ Len(heard) + k \in 1..(Len(heard) + Len(sent)) /\ ~(Len(heard) + k <= Len(heard))
        /\ (Len(heard) + k) - Len(heard) = k
    BY <1>2, <1>3
  <2>2. heard'[Len(heard) + k] = [on |-> ws, msg |-> msgs[k]]
    BY <1>2, <1>4, <2>1
  <2>. QED
    BY <1>2, <1>4, <2>1, <2>2
<1>7. ASSUME NEW i \in 1..Len(heard'), i \notin 1..Len(heard)
      PROVE  \E k \in 1..Len(msgs) : i = Len(heard) + k
  <2>1. i - Len(heard) \in 1..Len(msgs) /\ i = Len(heard) + (i - Len(heard))
    BY <1>2, <1>3, <1>4, <1>7
  <2>. QED
    BY <2>1
<1>. QED
  BY <1>2, <1>3, <1>4, <1>5, <1>6, <1>7

\* Handing messages over that come after all that was heard, but for what may overtake, and that are
\* in order, keeps what is heard in order.
LEMMA HandsInOrder ==
  ASSUME SdkTypeOK, HeardInOrder, ws \in Sockets, NEW msgs \in Seq(Msgs),
         heard' = heard \o On(ws, msgs),
         \A x, y : Precedes(said, x, y) => Precedes(said', x, y),
         \A x : Contains(said, x) => Contains(said', x),
         ahead \subseteq ahead',
         \A k \in 1..Len(msgs) : Contains(said', msgs[k]),
         \A i \in Arrived, k \in 1..Len(msgs) :
           /\ heard[i].msg # msgs[k]
           /\ Precedes(said', heard[i].msg, msgs[k]) \/ heard[i].msg \in ahead',
         \A k, l \in 1..Len(msgs) : k < l =>
           msgs[k] # msgs[l] /\ Precedes(said', msgs[k], msgs[l])
  PROVE  /\ \A i \in Arrived' : Contains(said', heard'[i].msg)
         /\ \A i, j \in Arrived' : i < j =>
              /\ heard'[i].msg # heard'[j].msg
              /\ Precedes(said', heard'[i].msg, heard'[j].msg) \/ heard'[i].msg \in ahead'
         /\ \A i \in Arrived : i \in Arrived' /\ heard'[i] = heard[i]
         /\ \A k \in 1..Len(msgs) : \E i \in Arrived' : heard'[i].msg = msgs[k]
         /\ \A i \in Arrived' : \/ i \in Arrived /\ heard'[i] = heard[i]
                                \/ \E k \in 1..Len(msgs) : heard'[i].msg = msgs[k]
<1>0. msgs \in Seq(Msgs \cup {Hello}) /\ Len(heard) \in Nat /\ Len(msgs) \in Nat
      /\ \A k \in 1..Len(msgs) : msgs[k] \in Msgs /\ msgs[k] # Hello
  BY SdkLengths, SdkAssumption
<1>1. /\ \A i \in 1..Len(heard) : i \in 1..Len(heard') /\ heard'[i] = heard[i]
      /\ \A k \in 1..Len(msgs) :
           Len(heard) + k \in 1..Len(heard') /\ heard'[Len(heard) + k].msg = msgs[k]
      /\ \A i \in 1..Len(heard') :
           i \in 1..Len(heard) \/ \E k \in 1..Len(msgs) : i = Len(heard) + k
  BY <1>0, HeardThenOn
<1>2. \A i \in Arrived : i \in 1..Len(heard) /\ i \in Arrived' /\ heard'[i] = heard[i]
  BY <1>1 DEF Arrived
<1>3. \A k \in 1..Len(msgs) : Len(heard) + k \in Arrived'
  BY <1>0, <1>1 DEF Arrived
<1>4. ASSUME NEW i \in Arrived'
      PROVE  i \in Arrived \/ \E k \in 1..Len(msgs) : i = Len(heard) + k
  <2>1. i \in 1..Len(heard') /\ heard'[i].msg # Hello
    BY DEF Arrived
  <2>. QED
    BY <1>1, <2>1 DEF Arrived
<1>5. ASSUME NEW i \in Arrived'
      PROVE  Contains(said', heard'[i].msg)
  <2>1. CASE i \in Arrived
    <3>1. Contains(said, heard[i].msg)
      BY <2>1 DEF HeardInOrder
    <3>. QED
      BY <1>2, <2>1, <3>1
  <2>2. ASSUME NEW k \in 1..Len(msgs), i = Len(heard) + k
        PROVE  Contains(said', heard'[i].msg)
    BY <1>1, <2>2
  <2>. QED
    BY <1>4, <2>1, <2>2
<1>6. ASSUME NEW i \in Arrived', NEW j \in Arrived', i < j
      PROVE  /\ heard'[i].msg # heard'[j].msg
             /\ Precedes(said', heard'[i].msg, heard'[j].msg) \/ heard'[i].msg \in ahead'
  <2>1. CASE i \in Arrived /\ j \in Arrived
    <3>1. /\ heard[i].msg # heard[j].msg
          /\ Precedes(said, heard[i].msg, heard[j].msg) \/ heard[i].msg \in ahead
      BY <1>6, <2>1 DEF HeardInOrder, Overtakes
    <3>. QED
      BY <1>2, <2>1, <3>1
  <2>2. ASSUME i \in Arrived, NEW l \in 1..Len(msgs), j = Len(heard) + l
        PROVE  /\ heard'[i].msg # heard'[j].msg
               /\ Precedes(said', heard'[i].msg, heard'[j].msg) \/ heard'[i].msg \in ahead'
    <3>1. heard'[j].msg = msgs[l] /\ heard'[i] = heard[i]
      BY <1>1, <1>2, <2>2
    <3>2. /\ heard[i].msg # msgs[l]
          /\ Precedes(said', heard[i].msg, msgs[l]) \/ heard[i].msg \in ahead'
      BY <2>2
    <3>. QED
      BY <3>1, <3>2
  <2>3. ASSUME NEW k \in 1..Len(msgs), i = Len(heard) + k, j \in Arrived
        PROVE  FALSE
    <3>1. j \in 1..Len(heard)
      BY <1>2, <2>3
    <3>. QED
      BY <1>0, <1>6, <2>3, <3>1
  <2>4. ASSUME NEW k \in 1..Len(msgs), NEW l \in 1..Len(msgs),
               i = Len(heard) + k, j = Len(heard) + l
        PROVE  /\ heard'[i].msg # heard'[j].msg
               /\ Precedes(said', heard'[i].msg, heard'[j].msg)
    <3>1. k < l
      BY <1>0, <1>6, <2>4
    <3>. QED
      BY <1>1, <2>4, <3>1
  <2>. QED
    BY <1>4, <2>1, <2>2, <2>3, <2>4
<1>7. \A k \in 1..Len(msgs) : \E i \in Arrived' : heard'[i].msg = msgs[k]
  BY <1>1, <1>3
<1>8. ASSUME NEW i \in Arrived'
      PROVE  \/ i \in Arrived /\ heard'[i] = heard[i]
             \/ \E k \in 1..Len(msgs) : heard'[i].msg = msgs[k]
  <2>1. CASE i \in Arrived
    BY <1>2, <2>1
  <2>2. ASSUME NEW k \in 1..Len(msgs), i = Len(heard) + k
        PROVE  heard'[i].msg = msgs[k]
    BY <1>1, <2>2
  <2>. QED
    BY <1>4, <2>1, <2>2
<1>. QED
  BY <1>2, <1>5, <1>6, <1>7, <1>8

\* What comes first on a socket is the session's message or one that was sent ahead, as long as
\* nothing else is handed over before it.
LEMMA FirstOnSocket ==
  ASSUME SdkTypeOK, HeardInOrder, ws \in Sockets, NEW msgs \in Seq(Msgs \cup {Hello}),
         heard' = heard \o On(ws, msgs), ahead \subseteq ahead',
         \/ Len(heard) > 0 /\ heard[Len(heard)].on = ws
         \/ \A k \in 1..Len(msgs) : msgs[k] \in ahead' \cup {Hello}
  PROVE  /\ \A i \in 1..Len(heard') :
              (i = 1 \/ heard'[i - 1].on # heard'[i].on) => heard'[i].msg \in ahead' \cup {Hello}
         /\ Len(msgs) > 0 \/ (Len(heard) > 0 /\ heard[Len(heard)].on = ws)
              => Len(heard') > 0 /\ heard'[Len(heard')].on = ws
<1>1. /\ Len(heard') = Len(heard) + Len(msgs) /\ Len(msgs) \in Nat /\ Len(heard) \in Nat
      /\ \A i \in 1..Len(heard) : i \in 1..Len(heard') /\ heard'[i] = heard[i]
      /\ \A k \in 1..Len(msgs) :
           /\ Len(heard) + k \in 1..Len(heard')
           /\ heard'[Len(heard) + k].on = ws /\ heard'[Len(heard) + k].msg = msgs[k]
      /\ \A i \in 1..Len(heard') :
           i \in 1..Len(heard) \/ \E k \in 1..Len(msgs) : i = Len(heard) + k
  BY HeardThenOn, SdkLengths
<1>2. ASSUME NEW i \in 1..Len(heard'), i = 1 \/ heard'[i - 1].on # heard'[i].on
      PROVE  heard'[i].msg \in ahead' \cup {Hello}
  <2>1. CASE i \in 1..Len(heard)
    <3>1. i # 1 => i - 1 \in 1..Len(heard)
      BY <1>1, <2>1
    <3>2. i = 1 \/ heard[i - 1].on # heard[i].on
      BY <1>1, <1>2, <2>1, <3>1
    <3>3. heard[i].msg \in ahead \cup {Hello}
      BY <2>1, <3>2 DEF HeardInOrder
    <3>. QED
      BY <1>1, <2>1, <3>3
  <2>2. ASSUME NEW k \in 1..Len(msgs), i = Len(heard) + k
        PROVE  heard'[i].msg \in ahead' \cup {Hello}
    <3>1. CASE \A l \in 1..Len(msgs) : msgs[l] \in ahead' \cup {Hello}
      BY <1>1, <2>2, <3>1
    <3>2. CASE Len(heard) > 0 /\ heard[Len(heard)].on = ws
      <4>1. i # 1 /\ heard'[i].on = ws
        BY <1>1, <2>2, <3>2
      <4>2. i - 1 = Len(heard) \/ (k - 1 \in 1..Len(msgs) /\ i - 1 = Len(heard) + (k - 1))
        BY <1>1, <2>2
      <4>3. Len(heard) \in 1..Len(heard)
        BY <1>1, <3>2
      <4>4. heard'[i - 1].on = ws
        <5>1. CASE i - 1 = Len(heard)
          <6>1. heard'[Len(heard)] = heard[Len(heard)]
            BY <1>1, <4>3
          <6>. QED
            BY <3>2, <5>1, <6>1
        <5>2. CASE k - 1 \in 1..Len(msgs) /\ i - 1 = Len(heard) + (k - 1)
          <6>1. heard'[Len(heard) + (k - 1)].on = ws
            BY <1>1, <5>2
          <6>. QED
            BY <5>2, <6>1
        <5>. QED
          BY <4>2, <5>1, <5>2
      <4>. QED
        BY <1>2, <4>1, <4>4
    <3>. QED
      BY <3>1, <3>2
  <2>. QED
    BY <1>1, <2>1, <2>2
<1>3. ASSUME Len(msgs) > 0
      PROVE  Len(heard') > 0 /\ heard'[Len(heard')].on = ws
  <2>1. Len(msgs) \in 1..Len(msgs)
    BY <1>1, <1>3
  <2>. QED
    BY <1>1, <1>3, <2>1
<1>4. ASSUME ~(Len(msgs) > 0), Len(heard) > 0, heard[Len(heard)].on = ws
      PROVE  Len(heard') > 0 /\ heard'[Len(heard')].on = ws
  <2>1. Len(heard') = Len(heard) /\ Len(heard) \in 1..Len(heard)
    BY <1>1, <1>4
  <2>. QED
    BY <1>1, <1>4, <2>1
<1>. QED
  BY <1>2, <1>3, <1>4

\* Sending leaves the order of what was said before, and comes after all of it.
LEMMA SaidGrows ==
  ASSUME SdkTypeOK, NEW m \in Msgs, ~Contains(said, m), said' = Append(said, m)
  PROVE  /\ \A x, y : Precedes(said, x, y) => Precedes(said', x, y)
         /\ \A x : Contains(said, x) => Contains(said', x) /\ Precedes(said', x, m) /\ x # m
         /\ Contains(said', m)
         /\ \A n \in 1..Len(said') : said'[n] = m \/ (n \in 1..Len(said) /\ said'[n] = said[n])
<1>1. Len(said) \in Nat /\ said \in Seq(Msgs)
  BY SdkLengths
<1>2. /\ Len(said') = Len(said) + 1 /\ said'[Len(said) + 1] = m
      /\ \A i \in 1..Len(said) : said'[i] = said[i]
  BY <1>1, AppendProperties
<1>3. /\ Len(said) + 1 \in 1..Len(said')
      /\ \A i \in 1..Len(said) : i \in 1..Len(said') /\ i < Len(said) + 1
      /\ \A i \in 1..Len(said') : i \in 1..Len(said) \/ i = Len(said) + 1
  BY <1>1, <1>2
<1>4. ASSUME NEW x, NEW y, Precedes(said, x, y)
      PROVE  Precedes(said', x, y)
  BY <1>2, <1>3, <1>4 DEF Precedes
<1>5. ASSUME NEW x, Contains(said, x)
      PROVE  Contains(said', x) /\ Precedes(said', x, m) /\ x # m
  BY <1>2, <1>3, <1>5 DEF Precedes, Contains
<1>. QED
  BY <1>2, <1>3, <1>4, <1>5 DEF Contains

\* The session's message is none of the caller's.
LEMMA HelloKeepsOrder ==
  ASSUME SdkTypeOK, HeardIInv, ws \in Sockets, heard' = heard \o On(ws, <<Hello>>),
         UNCHANGED <<said, ahead, lost, pendingSends, dropped>>
  PROVE  HeardInOrder' /\ Len(heard') > 0 /\ heard'[Len(heard')].on = ws
<1>. DEFINE msgs == <<Hello>>
<1>1. msgs \in Seq(Msgs \cup {Hello}) /\ Len(msgs) = 1 /\ \A k \in 1..Len(msgs) : msgs[k] = Hello
  OBVIOUS
<1>2. heard' = heard \o On(ws, msgs) /\ Len(msgs) > 0
  BY <1>1
<1>. HIDE DEF msgs
<1>3. /\ \A i \in 1..Len(heard) : i \in 1..Len(heard') /\ heard'[i] = heard[i]
      /\ \A k \in 1..Len(msgs) : heard'[Len(heard) + k].msg = msgs[k]
      /\ \A i \in 1..Len(heard') :
           i \in 1..Len(heard) \/ \E k \in 1..Len(msgs) : i = Len(heard) + k
  BY <1>1, <1>2, HeardThenOn
<1>4. Arrived' = Arrived /\ \A i \in Arrived : heard'[i] = heard[i]
  <2>1. \A i \in Arrived : i \in Arrived' /\ heard'[i] = heard[i]
    BY <1>3 DEF Arrived
  <2>2. ASSUME NEW i \in Arrived'
        PROVE  i \in Arrived
    <3>1. i \in 1..Len(heard') /\ heard'[i].msg # Hello
      BY DEF Arrived
    <3>2. i \in 1..Len(heard)
      BY <1>1, <1>3, <3>1
    <3>. QED
      BY <1>3, <3>1, <3>2 DEF Arrived
  <2>. QED
    BY <2>1, <2>2
<1>5. /\ \A i \in 1..Len(heard') :
           (i = 1 \/ heard'[i - 1].on # heard'[i].on) => heard'[i].msg \in ahead' \cup {Hello}
      /\ Len(heard') > 0 /\ heard'[Len(heard')].on = ws
  <2>1. HeardInOrder /\ \A k \in 1..Len(msgs) : msgs[k] \in ahead' \cup {Hello}
    BY <1>1 DEF HeardIInv
  <2>. QED
    BY <1>1, <1>2, <2>1, FirstOnSocket
<1>6. said' = said /\ ahead' = ahead /\ pendingSends' = pendingSends
  OBVIOUS
<1>c. /\ \A i \in Arrived : Contains(said, heard[i].msg)
      /\ \A i, j \in Arrived : i < j =>
           /\ heard[i].msg # heard[j].msg
           /\ Precedes(said, heard[i].msg, heard[j].msg) \/ heard[i].msg \in ahead
      /\ \A i \in Arrived, k \in 1..Len(pendingSends) :
           /\ heard[i].msg # pendingSends[k]
           /\ Precedes(said, heard[i].msg, pendingSends[k]) \/ heard[i].msg \in ahead
  BY DEF HeardIInv, HeardInOrder, Overtakes
<1>d. \A i \in Arrived' : i \in Arrived /\ heard'[i] = heard[i]
  BY <1>4
<1>7. /\ \A i \in Arrived' : Contains(said', heard'[i].msg)
      /\ \A i, j \in Arrived' : i < j =>
           /\ heard'[i].msg # heard'[j].msg
           /\ Precedes(said', heard'[i].msg, heard'[j].msg) \/ heard'[i].msg \in ahead'
  BY ONLY <1>6, <1>c, <1>d
<1>8. \A i \in Arrived', k \in 1..Len(pendingSends') :
        /\ heard'[i].msg # pendingSends'[k]
        /\ Precedes(said', heard'[i].msg, pendingSends'[k]) \/ heard'[i].msg \in ahead'
  BY ONLY <1>6, <1>c, <1>d
<1>9. \A k, l \in 1..Len(pendingSends') : k < l =>
        /\ pendingSends'[k] # pendingSends'[l]
        /\ Precedes(said', pendingSends'[k], pendingSends'[l])
  BY DEF HeardIInv, HeardInOrder
<1>10. ~dropped' => \A n \in 1..Len(said') :
          \/ \E i \in Arrived' : heard'[i].msg = said'[n]
          \/ Contains(pendingSends', said'[n])
          \/ said'[n] \in lost'
  <2>1. ~dropped => \A n \in 1..Len(said) :
           \/ \E i \in Arrived : heard[i].msg = said[n]
           \/ Contains(pendingSends, said[n])
           \/ said[n] \in lost
    BY DEF HeardIInv, HeardInOrder
  <2>2. dropped' = dropped /\ lost' = lost
    OBVIOUS
  <2>3. ASSUME NEW i \in Arrived
        PROVE  \E j \in Arrived' : heard'[j].msg = heard[i].msg
    BY <1>4
  <2>. QED
    BY ONLY <1>6, <2>1, <2>2, <2>3
<1>. QED
  BY <1>5, <1>7, <1>8, <1>9, <1>10 DEF HeardInOrder, Overtakes

\* The flush: what waited is heard, or lost with the socket.
LEMMA FlushKeepsOrder ==
  ASSUME SdkTypeOK, HeardIInv, ws \in Sockets, HandOver(pendingSends), pendingSends' = <<>>,
         UNCHANGED <<said, ahead, dropped>>,
         sockets[ws] # "dead" => Len(heard) > 0 /\ heard[Len(heard)].on = ws
  PROVE  /\ HeardInOrder'
         /\ sockets[ws] # "dead" => Len(heard') > 0 /\ heard'[Len(heard')].on = ws
<1>1. 1..Len(pendingSends') = {}
  OBVIOUS
<1>2. pendingSends \in Seq(Msgs) /\ pendingSends \in Seq(Msgs \cup {Hello})
      /\ \A k \in 1..Len(pendingSends) : pendingSends[k] \in Msgs /\ pendingSends[k] # Hello
  BY SdkLengths, SdkAssumption
<1>3. \A x, y : Precedes(said', x, y) <=> Precedes(said, x, y)
  OBVIOUS
<1>4. HeardInOrder
  BY DEF HeardIInv
<1>5. CASE sockets[ws] = "dead"
  <2>1. heard' = heard /\ lost' = lost \cup (ToSet(pendingSends) \ {Hello}) /\ Arrived' = Arrived
    BY <1>5 DEF HandOver, Arrived
  <2>2. ASSUME NEW x, Contains(pendingSends, x)
        PROVE  x \in lost'
    <3>1. PICK k \in 1..Len(pendingSends) : pendingSends[k] = x
      BY <2>2 DEF Contains
    <3>2. x \in ToSet(pendingSends)
      BY <1>2, <3>1 DEF ToSet
    <3>. QED
      BY <1>2, <2>1, <3>1, <3>2
  <2>3. ~dropped' => \A n \in 1..Len(said') :
          \/ \E i \in Arrived' : heard'[i].msg = said'[n]
          \/ Contains(pendingSends', said'[n])
          \/ said'[n] \in lost'
    BY <1>4, <2>1, <2>2 DEF HeardInOrder
  <2>4. \A x, y : Overtakes(x, y)' <=> Overtakes(x, y)
    BY DEF Overtakes
  <2>. QED
    BY <1>1, <1>4, <1>5, <2>1, <2>3, <2>4 DEF HeardInOrder
<1>6. CASE sockets[ws] # "dead"
  <2>1. heard' = heard \o On(ws, pendingSends) /\ lost' = lost
    BY <1>6 DEF HandOver
  <2>2. /\ \A i \in Arrived, k \in 1..Len(pendingSends) :
             /\ heard[i].msg # pendingSends[k]
             /\ Precedes(said', heard[i].msg, pendingSends[k]) \/ heard[i].msg \in ahead'
        /\ \A k, l \in 1..Len(pendingSends) : k < l =>
             pendingSends[k] # pendingSends[l] /\ Precedes(said', pendingSends[k], pendingSends[l])
    BY <1>4 DEF HeardInOrder, Overtakes
  <2>3. /\ \A x : Contains(said, x) => Contains(said', x)
        /\ \A k \in 1..Len(pendingSends) : Contains(said', pendingSends[k])
    BY DEF HeardIInv, PendingSaid
  <2>4. /\ \A i \in Arrived' : Contains(said', heard'[i].msg)
        /\ \A i, j \in Arrived' : i < j =>
             /\ heard'[i].msg # heard'[j].msg
             /\ Precedes(said', heard'[i].msg, heard'[j].msg) \/ heard'[i].msg \in ahead'
        /\ \A i \in Arrived : i \in Arrived' /\ heard'[i] = heard[i]
        /\ \A k \in 1..Len(pendingSends) : \E i \in Arrived' : heard'[i].msg = pendingSends[k]
    BY <1>2, <1>3, <1>4, <2>1, <2>2, <2>3, HandsInOrder
  <2>5. /\ \A i \in 1..Len(heard') :
             (i = 1 \/ heard'[i - 1].on # heard'[i].on) => heard'[i].msg \in ahead' \cup {Hello}
        /\ Len(heard') > 0 /\ heard'[Len(heard')].on = ws
    BY <1>2, <1>4, <1>6, <2>1, FirstOnSocket
  <2>6. ~dropped' => \A n \in 1..Len(said') :
          \/ \E i \in Arrived' : heard'[i].msg = said'[n]
          \/ Contains(pendingSends', said'[n])
          \/ said'[n] \in lost'
    <3>. SUFFICES ASSUME ~dropped, NEW n \in 1..Len(said)
                  PROVE  (\E i \in Arrived' : heard'[i].msg = said[n]) \/ said[n] \in lost
      BY <2>1
    <3>1. CASE \E i \in Arrived : heard[i].msg = said[n]
      BY <2>4, <3>1
    <3>2. CASE Contains(pendingSends, said[n])
      BY <2>4, <3>2 DEF Contains
    <3>. QED
      BY <1>4, <3>1, <3>2 DEF HeardInOrder
  <2>. QED
    BY <1>1, <2>4, <2>5, <2>6 DEF HeardInOrder, Overtakes
<1>. QED
  BY <1>5, <1>6

\* A message sent at once: before the flush it may overtake the queue.
LEMMA SendKeepsOrder ==
  ASSUME SdkTypeOK, HeardIInv, OpeningIsOpen, ws \in Sockets, isOpen, NEW m \in Msgs,
         ~Contains(said, m), said' = Append(said, m), HandOver(<<m>>), ~closedByUser,
         ahead' = IF opening = "no" THEN ahead ELSE ahead \cup {m},
         UNCHANGED <<pendingSends, dropped>>
  PROVE  /\ HeardInOrder' /\ PendingSaid'
         /\ sockets[ws] # "dead" => Len(heard') > 0 /\ heard'[Len(heard')].on = ws
<1>1. /\ \A x, y : Precedes(said, x, y) => Precedes(said', x, y)
      /\ \A x : Contains(said, x) => Contains(said', x) /\ Precedes(said', x, m) /\ x # m
      /\ Contains(said', m)
      /\ \A n \in 1..Len(said') : said'[n] = m \/ (n \in 1..Len(said) /\ said'[n] = said[n])
  BY SaidGrows
<1>2. HeardInOrder /\ PendingSaid /\ QueueRests /\ SocketGreeted
  BY DEF HeardIInv
<1>3. ahead \subseteq ahead' /\ (opening # "no" => m \in ahead')
  OBVIOUS
<1>4. PendingSaid'
  BY <1>1, <1>2 DEF PendingSaid
<1>5. \A k, l \in 1..Len(pendingSends') : k < l =>
        /\ pendingSends'[k] # pendingSends'[l]
        /\ Precedes(said', pendingSends'[k], pendingSends'[l])
  BY <1>1, <1>2 DEF HeardInOrder
\* Whatever still waits is overtaken ahead of the flush only.
<1>6. \A k \in 1..Len(pendingSends) : m # pendingSends[k] /\ m \in ahead'
  <2>. SUFFICES ASSUME NEW k \in 1..Len(pendingSends)
                PROVE  m # pendingSends[k] /\ m \in ahead'
    OBVIOUS
  <2>1. pendingSends # <<>>
    OBVIOUS
  <2>2. opening # "no"
    BY <1>2, <2>1 DEF QueueRests
  <2>. QED
    BY <1>1, <1>2, <1>3, <2>2 DEF PendingSaid
<1>7. \A i \in Arrived, k \in 1..Len(pendingSends) :
        /\ heard[i].msg # pendingSends[k]
        /\ Precedes(said', heard[i].msg, pendingSends[k]) \/ heard[i].msg \in ahead'
  BY <1>1, <1>2, <1>3 DEF HeardInOrder, Overtakes
<1>8. CASE sockets[ws] = "dead"
  <2>1. heard' = heard /\ lost' = lost \cup (ToSet(<<m>>) \ {Hello}) /\ Arrived' = Arrived
    BY <1>8 DEF HandOver, Arrived
  <2>2. m \in lost'
    BY <2>1, SdkAssumption DEF ToSet
  <2>3. ~dropped' => \A n \in 1..Len(said') :
          \/ \E i \in Arrived' : heard'[i].msg = said'[n]
          \/ Contains(pendingSends', said'[n])
          \/ said'[n] \in lost'
    BY <1>1, <1>2, <2>1, <2>2 DEF HeardInOrder
  <2>4. /\ \A i \in Arrived' : Contains(said', heard'[i].msg)
        /\ \A i, j \in Arrived' : i < j =>
             /\ heard'[i].msg # heard'[j].msg
             /\ Precedes(said', heard'[i].msg, heard'[j].msg) \/ heard'[i].msg \in ahead'
        /\ \A i \in 1..Len(heard') :
             (i = 1 \/ heard'[i - 1].on # heard'[i].on) => heard'[i].msg \in ahead' \cup {Hello}
    BY <1>1, <1>2, <1>3, <2>1 DEF HeardInOrder, Overtakes
  <2>. QED
    BY <1>4, <1>5, <1>7, <1>8, <2>1, <2>3, <2>4 DEF HeardInOrder, Overtakes
<1>9. CASE sockets[ws] # "dead"
  <2>. DEFINE msgs == <<m>>
  <2>1. msgs \in Seq(Msgs) /\ msgs \in Seq(Msgs \cup {Hello}) /\ Len(msgs) = 1
        /\ 1..Len(msgs) = {1} /\ msgs[1] = m
    OBVIOUS
  <2>2. heard' = heard \o On(ws, msgs) /\ lost' = lost
    BY <1>9 DEF HandOver
  <2>. HIDE DEF msgs
  <2>3. /\ \A k \in 1..Len(msgs) : Contains(said', msgs[k])
        /\ \A i \in Arrived, k \in 1..Len(msgs) :
             /\ heard[i].msg # msgs[k]
             /\ Precedes(said', heard[i].msg, msgs[k]) \/ heard[i].msg \in ahead'
        /\ \A k, l \in 1..Len(msgs) : k < l =>
             msgs[k] # msgs[l] /\ Precedes(said', msgs[k], msgs[l])
    BY <1>1, <1>2, <2>1 DEF HeardInOrder
  <2>4. /\ \A i \in Arrived' : Contains(said', heard'[i].msg)
        /\ \A i, j \in Arrived' : i < j =>
             /\ heard'[i].msg # heard'[j].msg
             /\ Precedes(said', heard'[i].msg, heard'[j].msg) \/ heard'[i].msg \in ahead'
        /\ \A i \in Arrived : i \in Arrived' /\ heard'[i] = heard[i]
        /\ \A k \in 1..Len(msgs) : \E i \in Arrived' : heard'[i].msg = msgs[k]
        /\ \A i \in Arrived' : \/ i \in Arrived /\ heard'[i] = heard[i]
                               \/ \E k \in 1..Len(msgs) : heard'[i].msg = msgs[k]
    BY <1>1, <1>2, <1>3, <2>1, <2>2, <2>3, HandsInOrder
  <2>5. /\ \A i \in 1..Len(heard') :
             (i = 1 \/ heard'[i - 1].on # heard'[i].on) => heard'[i].msg \in ahead' \cup {Hello}
        /\ Len(heard') > 0 /\ heard'[Len(heard')].on = ws
    <3>1. \/ Len(heard) > 0 /\ heard[Len(heard)].on = ws
          \/ \A k \in 1..Len(msgs) : msgs[k] \in ahead' \cup {Hello}
      BY <1>2, <1>3, <1>9, <2>1 DEF SocketGreeted
    <3>2. Len(msgs) > 0
      BY <2>1
    <3>. QED
      BY <1>2, <1>3, <2>1, <2>2, <3>1, <3>2, FirstOnSocket
  <2>6. \A i \in Arrived', k \in 1..Len(pendingSends') :
          /\ heard'[i].msg # pendingSends'[k]
          /\ Precedes(said', heard'[i].msg, pendingSends'[k]) \/ heard'[i].msg \in ahead'
    BY <1>6, <1>7, <2>1, <2>4
  <2>7. ~dropped' => \A n \in 1..Len(said') :
          \/ \E i \in Arrived' : heard'[i].msg = said'[n]
          \/ Contains(pendingSends', said'[n])
          \/ said'[n] \in lost'
    <3>. SUFFICES ASSUME ~dropped, NEW n \in 1..Len(said')
                  PROVE  \/ \E i \in Arrived' : heard'[i].msg = said'[n]
                         \/ Contains(pendingSends, said'[n])
                         \/ said'[n] \in lost
      BY <2>2
    <3>1. CASE said'[n] = m
      BY <2>1, <2>4, <3>1
    <3>2. CASE n \in 1..Len(said) /\ said'[n] = said[n]
      <4>1. \/ \E i \in Arrived : heard[i].msg = said[n]
            \/ Contains(pendingSends, said[n])
            \/ said[n] \in lost
        BY <1>2, <3>2 DEF HeardInOrder
      <4>2. ASSUME NEW i \in Arrived
            PROVE  i \in Arrived' /\ heard'[i] = heard[i]
        BY <2>4
      <4>. QED
        BY <3>2, <4>1, <4>2
    <3>. QED
      BY <1>1, <3>1, <3>2
  <2>. QED
    BY <1>4, <1>5, <2>4, <2>5, <2>6, <2>7 DEF HeardInOrder, Overtakes
<1>. QED
  BY <1>8, <1>9

\* The queue grows at its end, and loses its head when it is full.
LEMMA QueueKeepsOrder ==
  ASSUME SdkTypeOK, HeardIInv, NEW m \in Msgs, ~Contains(said, m), said' = Append(said, m),
         UNCHANGED <<heard, lost, ahead>>,
         NEW queue, queue = Append(pendingSends, m), NEW full \in BOOLEAN,
         pendingSends' = IF full THEN Tail(queue) ELSE queue,
         dropped' = (dropped \/ full)
  PROVE  HeardInOrder' /\ PendingSaid'
<1>1. /\ Len(pendingSends) \in Nat /\ Len(said) \in Nat /\ Len(heard) \in Nat
      /\ pendingSends \in Seq(Msgs)
  BY SdkLengths
<1>2. /\ queue \in Seq(Msgs) /\ Len(queue) = Len(pendingSends) + 1
      /\ queue[Len(pendingSends) + 1] = m
      /\ \A k \in 1..Len(pendingSends) : queue[k] = pendingSends[k]
  BY <1>1, AppendProperties
<1>3. /\ \A x, y : Precedes(said, x, y) => Precedes(said', x, y)
      /\ \A x : Contains(said, x) => Contains(said', x) /\ Precedes(said', x, m) /\ x # m
      /\ Contains(said', m)
      /\ \A n \in 1..Len(said') : said'[n] = m \/ (n \in 1..Len(said) /\ said'[n] = said[n])
  BY SaidGrows
<1>4. ~dropped' => ~dropped /\ ~full
  BY Zenon
<1>5. Arrived' = Arrived
  BY DEF Arrived
\* What waits afterwards waits in the same order in queue.
<1>6. \E d \in 0..1 : /\ Len(pendingSends') + d = Len(queue)
                      /\ \A k \in 1..Len(pendingSends') : pendingSends'[k] = queue[k + d]
                      /\ d = 1 => full
  <2>1. CASE full
    <3>1. queue # <<>>
      BY <1>1, <1>2
    <3>2. /\ Len(Tail(queue)) = Len(queue) - 1
          /\ \A k \in 1..Len(Tail(queue)) : Tail(queue)[k] = queue[k + 1]
      BY <1>2, <3>1, HeadTailProperties
    <3>3. Len(Tail(queue)) + 1 = Len(queue)
      BY <1>1, <1>2, <3>2
    <3>4. pendingSends' = Tail(queue)
      BY <2>1
    <3>5. /\ Len(pendingSends') + 1 = Len(queue)
          /\ \A k \in 1..Len(pendingSends') : pendingSends'[k] = queue[k + 1]
      BY <3>2, <3>3, <3>4
    <3>6. 1 \in 0..1
      OBVIOUS
    <3>. QED
      BY <2>1, <3>5, <3>6, Zenon
  <2>2. CASE ~full
    <3>1. pendingSends' = queue
      BY <2>2
    <3>2. Len(queue) \in Nat /\ 0 \in 0..1 /\ Len(queue) + 0 = Len(queue) /\ \A k \in 1..Len(queue) : k + 0 = k
      BY <1>1, <1>2
    <3>. QED
      BY <3>1, <3>2
  <2>. QED
    BY <2>1, <2>2
<1>7. PICK d \in 0..1 : /\ Len(pendingSends') + d = Len(queue)
                        /\ \A k \in 1..Len(pendingSends') : pendingSends'[k] = queue[k + d]
                        /\ d = 1 => full
  BY <1>6
<1>8. \A k \in 1..Len(queue) : k \in 1..Len(pendingSends) \/ k = Len(pendingSends) + 1
  BY <1>1, <1>2
<1>9. \A k \in 1..Len(queue) : Contains(said', queue[k])
  BY <1>2, <1>3, <1>8 DEF HeardIInv, PendingSaid
<1>10. ASSUME NEW k \in 1..Len(queue), NEW l \in 1..Len(queue), k < l
       PROVE  queue[k] # queue[l] /\ Precedes(said', queue[k], queue[l])
  <2>1. k \in 1..Len(pendingSends)
    BY <1>1, <1>2, <1>10
  <2>2. CASE l \in 1..Len(pendingSends)
    BY <1>2, <1>3, <1>10, <2>1, <2>2 DEF HeardIInv, HeardInOrder
  <2>3. CASE l = Len(pendingSends) + 1
    BY <1>2, <1>3, <2>1, <2>3 DEF HeardIInv, PendingSaid
  <2>. QED
    BY <1>8, <2>2, <2>3
<1>11. ASSUME NEW i \in Arrived, NEW l \in 1..Len(queue)
       PROVE  /\ heard[i].msg # queue[l]
              /\ Precedes(said', heard[i].msg, queue[l]) \/ heard[i].msg \in ahead
  <2>1. CASE l \in 1..Len(pendingSends)
    BY <1>2, <1>3, <2>1 DEF HeardIInv, HeardInOrder, Overtakes
  <2>2. CASE l = Len(pendingSends) + 1
    BY <1>2, <1>3, <2>2 DEF HeardIInv, HeardInOrder
  <2>. QED
    BY <1>8, <2>1, <2>2
<1>12. Len(pendingSends') \in Nat
  BY <1>1, <1>2, <1>7
<1>13. \A k \in 1..Len(pendingSends') : k + d \in 1..Len(queue) /\ k \in Nat /\ d \in Nat
  BY <1>1, <1>2, <1>7, <1>12
<1>14. ASSUME NEW k \in 1..Len(pendingSends'), NEW l \in 1..Len(pendingSends'), k < l
       PROVE  /\ pendingSends'[k] # pendingSends'[l]
              /\ Precedes(said', pendingSends'[k], pendingSends'[l])
  <2>1. pendingSends'[k] = queue[k + d] /\ pendingSends'[l] = queue[l + d]
    BY <1>7
  <2>2. k + d \in 1..Len(queue) /\ l + d \in 1..Len(queue) /\ k \in Nat /\ l \in Nat /\ d \in Nat
    BY <1>13
  <2>3. k + d < l + d
    BY ONLY <1>14, <2>2
  <2>. QED
    BY <1>10, <2>1, <2>2, <2>3
<1>15. \A i \in Arrived', k \in 1..Len(pendingSends') :
         /\ heard'[i].msg # pendingSends'[k]
         /\ Precedes(said', heard'[i].msg, pendingSends'[k]) \/ heard'[i].msg \in ahead'
  BY <1>5, <1>7, <1>11, <1>13
<1>16. \A k \in 1..Len(pendingSends') : Contains(said', pendingSends'[k])
  BY <1>7, <1>9, <1>13
<1>17. /\ \A i \in Arrived' : Contains(said', heard'[i].msg)
       /\ \A i, j \in Arrived' : i < j =>
            /\ heard'[i].msg # heard'[j].msg
            /\ Precedes(said', heard'[i].msg, heard'[j].msg) \/ heard'[i].msg \in ahead'
  BY <1>3, <1>5 DEF HeardIInv, HeardInOrder, Overtakes
<1>18. ASSUME ~dropped', NEW n \in 1..Len(said')
       PROVE  \/ \E i \in Arrived' : heard'[i].msg = said'[n]
              \/ Contains(pendingSends', said'[n])
              \/ said'[n] \in lost'
  <2>1. ~dropped /\ pendingSends' = queue
    BY <1>4, <1>18
  <2>2. CASE said'[n] = m
    <3>1. Len(pendingSends) + 1 \in 1..Len(queue)
      BY <1>1, <1>2
    <3>. QED
      BY <1>2, <2>1, <2>2, <3>1 DEF Contains
  <2>3. CASE n \in 1..Len(said) /\ said'[n] = said[n]
    <3>1. Contains(pendingSends, said[n]) => Contains(queue, said[n])
      <4>1. \A k \in 1..Len(pendingSends) : k \in 1..Len(queue)
        BY <1>1, <1>2
      <4>. QED
        BY <1>2, <4>1 DEF Contains
    <3>. QED
      BY <1>5, <2>1, <2>3, <3>1 DEF HeardIInv, HeardInOrder
  <2>. QED
    BY <1>3, <2>2, <2>3
<1>19. \A i \in 1..Len(heard') :
         (i = 1 \/ heard'[i - 1].on # heard'[i].on) => heard'[i].msg \in ahead' \cup {Hello}
  BY DEF HeardIInv, HeardInOrder
<1>. QED
  BY <1>14, <1>15, <1>16, <1>17, <1>18, <1>19 DEF HeardInOrder, PendingSaid, Overtakes

LEMMA HeardInit ==
  ASSUME SdkInit
  PROVE  HeardIInv
<1>1. /\ Len(heard) = 0 /\ Len(pendingSends) = 0 /\ Len(said) = 0
      /\ 1..Len(heard) = {} /\ 1..Len(pendingSends) = {} /\ 1..Len(said) = {}
      /\ pendingSends = <<>> /\ isOpen = FALSE
  BY DEF SdkInit
<1>2. Arrived = {}
  BY <1>1 DEF Arrived
<1>. QED
  BY <1>1, <1>2 DEF HeardIInv, HeardInOrder, PendingSaid, QueueRests, SocketGreeted

\* Only opening, sending and closing change what HeardInOrder is about.
LEMMA HeardSame ==
  ASSUME HeardIInv, UNCHANGED <<heard, said, ahead, lost, pendingSends, dropped>>
  PROVE  HeardInOrder' /\ PendingSaid'
<1>1. Arrived' = Arrived
  BY DEF Arrived
<1>2. \A x, y : Overtakes(x, y)' <=> Overtakes(x, y)
  BY DEF Overtakes
<1>. QED
  BY <1>1, <1>2 DEF HeardIInv, HeardInOrder, PendingSaid

LEMMA HeardStep ==
  ASSUME SdkIInv, HeardIInv, [SdkNext]_sdkVars
  PROVE  HeardIInv'
<1>. USE SdkAssumption DEF connectVars, socketVars, historyVars
<1>0. /\ SdkTypeOK /\ OneSocket /\ OpeningIsOpen
      /\ QueueRests /\ SocketGreeted /\ HeardInOrder /\ PendingSaid
      /\ isOpen \in BOOLEAN /\ closedByUser \in BOOLEAN
  BY DEF SdkIInv, HeardIInv, SdkTypeOK
<1>a. isOpen => ws \in Sockets /\ sockets[ws] \in {"open", "dead"}
  BY <1>0 DEF OneSocket, SdkTypeOK
<1>1. CASE TimerConnects \/ UrlFails
  <2>1. /\ UNCHANGED <<heard, said, ahead, lost, pendingSends, dropped>>
        /\ UNCHANGED <<isOpen, opening, closedByUser, ws, sockets>>
    BY <1>1 DEF TimerConnects, UrlFails
  <2>2. QueueRests' /\ SocketGreeted'
    BY <1>0, <2>1 DEF QueueRests, SocketGreeted
  <2>. QED
    BY <2>1, <2>2, HeardSame DEF HeardIInv
<1>2. ASSUME NEW s \in Sockets, UrlFetched(s)
      PROVE  HeardIInv'
  <2>1. UNCHANGED <<heard, said, ahead, lost, pendingSends, dropped, isOpen, opening, closedByUser>>
    BY <1>2 DEF UrlFetched
  <2>2. ~isOpen
    <3>1. fetching > 0
      BY <1>2 DEF UrlFetched
    <3>. QED
      BY <1>0, <1>a, <3>1 DEF OneSocket, SdkTypeOK, Live
  <2>3. QueueRests' /\ SocketGreeted'
    BY <1>0, <2>1, <2>2 DEF QueueRests, SocketGreeted
  <2>. QED
    BY <2>1, <2>3, HeardSame DEF HeardIInv
<1>3. ASSUME NEW s \in Sockets, Fails(s)
      PROVE  HeardIInv'
  <2>1. UNCHANGED <<heard, said, ahead, lost, pendingSends, dropped, closedByUser>> /\ isOpen' = FALSE
    BY <1>3 DEF Fails
  <2>2. QueueRests' /\ SocketGreeted'
    BY <1>0, <2>1 DEF QueueRests, SocketGreeted
  <2>. QED
    BY <2>1, <2>2, HeardSame DEF HeardIInv
<1>4. ASSUME NEW s \in Sockets, Dies(s)
      PROVE  HeardIInv'
  <2>1. /\ UNCHANGED <<heard, said, ahead, lost, pendingSends, dropped>>
        /\ UNCHANGED <<isOpen, opening, closedByUser, ws>>
        /\ sockets' = [sockets EXCEPT ![s] = "dead"]
    BY <1>4 DEF Dies
  <2>2. isOpen => (sockets'[ws] # "dead" => sockets[ws] # "dead")
    BY <1>0, <1>a, <2>1 DEF SdkTypeOK
  <2>3. QueueRests' /\ SocketGreeted'
    BY <1>0, <2>1, <2>2 DEF QueueRests, SocketGreeted
  <2>. QED
    BY <2>1, <2>3, HeardSame DEF HeardIInv
<1>5. ASSUME NEW s \in Sockets, Opens(s)
      PROVE  HeardIInv'
  <2>1. /\ UNCHANGED <<heard, said, ahead, lost, pendingSends, dropped, closedByUser>>
        /\ isOpen' = TRUE /\ opening' = IF closedByUser THEN "no" ELSE "any"
    BY <1>5 DEF Opens
  <2>2. QueueRests' /\ SocketGreeted'
    BY <1>0, <2>1 DEF QueueRests, SocketGreeted
  <2>. QED
    BY <2>1, <2>2, HeardSame DEF HeardIInv
<1>6. CASE ListenerThrows
  <2>1. /\ UNCHANGED <<heard, said, ahead, lost, pendingSends, dropped, closedByUser>>
        /\ opening' = "threw"
    BY <1>6 DEF ListenerThrows
  <2>2. QueueRests' /\ SocketGreeted'
    BY <1>0, <2>1 DEF QueueRests, SocketGreeted
  <2>. QED
    BY <2>1, <2>2, HeardSame DEF HeardIInv
<1>7. CASE SaysHello
  <2>1. /\ opening = "any" /\ opening' = "open" /\ HandOver(<<Hello>>)
        /\ UNCHANGED <<isOpen, closedByUser, ws, sockets, said, ahead, pendingSends, dropped>>
    BY <1>7 DEF SaysHello
  <2>2. isOpen /\ ~closedByUser /\ ws \in Sockets
    BY <1>0, <1>a, <2>1 DEF OpeningIsOpen
  <2>3. QueueRests' /\ PendingSaid'
    BY <1>0, <2>1, <2>2 DEF QueueRests, PendingSaid
  <2>4. CASE sockets[ws] = "dead"
    <3>1. heard' = heard /\ lost' = lost
      <4>1. ToSet(<<Hello>>) \ {Hello} = {}
        BY DEF ToSet
      <4>. QED
        BY <2>1, <2>4, <4>1 DEF HandOver
    <3>2. SocketGreeted'
      BY <2>1, <2>4 DEF SocketGreeted
    <3>. QED
      BY <2>1, <2>3, <3>1, <3>2, HeardSame DEF HeardIInv
  <2>5. CASE sockets[ws] # "dead"
    <3>1. heard' = heard \o On(ws, <<Hello>>) /\ lost' = lost
      BY <2>1, <2>5 DEF HandOver
    <3>2. HeardInOrder' /\ Len(heard') > 0 /\ heard'[Len(heard')].on = ws
      BY <1>0, <2>1, <2>2, <3>1, HelloKeepsOrder
    <3>3. SocketGreeted'
      BY <2>1, <3>2 DEF SocketGreeted
    <3>. QED
      BY <2>3, <3>2, <3>3 DEF HeardIInv
  <2>. QED
    BY <2>4, <2>5
<1>8. CASE Flushes
  <2>1. /\ opening = "open" /\ opening' = "no" /\ HandOver(pendingSends) /\ pendingSends' = <<>>
        /\ UNCHANGED <<isOpen, closedByUser, ws, sockets, said, ahead, dropped>>
    BY <1>8 DEF Flushes
  <2>2. isOpen /\ ~closedByUser /\ ws \in Sockets
    BY <1>0, <1>a, <2>1 DEF OpeningIsOpen
  <2>3. sockets[ws] # "dead" => Len(heard) > 0 /\ heard[Len(heard)].on = ws
    BY <1>0, <2>1, <2>2 DEF SocketGreeted
  <2>4. /\ HeardInOrder'
        /\ sockets[ws] # "dead" => Len(heard') > 0 /\ heard'[Len(heard')].on = ws
    BY <1>0, <2>1, <2>2, <2>3, FlushKeepsOrder
  <2>5. QueueRests' /\ SocketGreeted'
    BY <2>1, <2>4 DEF QueueRests, SocketGreeted
  <2>6. PendingSaid'
    <3>1. 1..Len(pendingSends') = {}
      BY <2>1
    <3>. QED
      BY <3>1 DEF PendingSaid
  <2>. QED
    BY <2>4, <2>5, <2>6 DEF HeardIInv
<1>9. ASSUME NEW m \in Msgs, Send(m)
      PROVE  HeardIInv'
  <2>1. /\ ~closedByUser /\ ~Contains(said, m) /\ said' = Append(said, m)
        /\ ahead' = IF opening = "no" THEN ahead ELSE ahead \cup {m}
        /\ UNCHANGED <<isOpen, opening, closedByUser, ws, sockets>>
    BY <1>9 DEF Send
  <2>2. CASE isOpen
    <3>1. HandOver(<<m>>) /\ UNCHANGED <<pendingSends, dropped>>
      BY <1>9, <2>2 DEF Send
    <3>2. /\ HeardInOrder' /\ PendingSaid'
          /\ sockets[ws] # "dead" => Len(heard') > 0 /\ heard'[Len(heard')].on = ws
      BY <1>0, <1>a, <2>1, <2>2, <3>1, SendKeepsOrder
    <3>3. QueueRests' /\ SocketGreeted'
      BY <1>0, <2>1, <3>1, <3>2 DEF QueueRests, SocketGreeted
    <3>. QED
      BY <3>2, <3>3 DEF HeardIInv
  <2>3. CASE ~isOpen
    <3>. DEFINE queue == Append(pendingSends, m)
                full == Len(queue) > MaxPendingSends
    <3>1. /\ pendingSends' = (IF full THEN Tail(queue) ELSE queue)
          /\ dropped' = (dropped \/ full)
          /\ UNCHANGED <<heard, lost>>
      BY <1>9, <2>3 DEF Send
    <3>2. full \in BOOLEAN /\ queue = Append(pendingSends, m)
      OBVIOUS
    <3>3. ahead' = ahead
      BY <1>0, <2>1, <2>3 DEF OpeningIsOpen
    <3>. HIDE DEF full, queue
    <3>4. HeardInOrder' /\ PendingSaid'
      BY <1>0, <2>1, <3>1, <3>2, <3>3, QueueKeepsOrder
    <3>5. QueueRests' /\ SocketGreeted'
      BY <2>1, <2>3 DEF QueueRests, SocketGreeted
    <3>. QED
      BY <3>4, <3>5 DEF HeardIInv
  <2>. QED
    BY <2>2, <2>3
<1>10. CASE Close
  <2>1. /\ isOpen' = FALSE /\ pendingSends' = <<>> /\ UNCHANGED <<said, heard, ahead, lost>>
    BY <1>10 DEF Close
  <2>2. ~dropped' => ~dropped /\ pendingSends = <<>>
    BY <1>10, Zenon DEF Close
  <2>3. Arrived' = Arrived /\ Len(pendingSends') = 0 /\ 1..Len(pendingSends') = {}
    BY <2>1 DEF Arrived
  <2>4. \A x, y : Overtakes(x, y)' <=> Overtakes(x, y)
    BY <2>1 DEF Overtakes
  <2>5. ~dropped' => \A n \in 1..Len(said') :
          \/ \E i \in Arrived' : heard'[i].msg = said'[n]
          \/ Contains(pendingSends', said'[n])
          \/ said'[n] \in lost'
    BY <1>0, <2>1, <2>2, <2>3 DEF HeardInOrder
  <2>6. HeardInOrder'
    BY <1>0, <2>1, <2>3, <2>4, <2>5 DEF HeardInOrder
  <2>7. PendingSaid' /\ QueueRests' /\ SocketGreeted'
    BY <2>1, <2>3 DEF PendingSaid, QueueRests, SocketGreeted
  <2>. QED
    BY <2>6, <2>7 DEF HeardIInv
<1>11. CASE UNCHANGED sdkVars
  <2>1. /\ UNCHANGED <<heard, said, ahead, lost, pendingSends, dropped>>
        /\ UNCHANGED <<isOpen, opening, closedByUser, ws, sockets>>
    BY <1>11 DEF sdkVars
  <2>2. QueueRests' /\ SocketGreeted'
    BY <1>0, <2>1 DEF QueueRests, SocketGreeted
  <2>. QED
    BY <2>1, <2>2, HeardSame DEF HeardIInv
<1>. QED
  BY <1>1, <1>2, <1>3, <1>4, <1>5, <1>6, <1>7, <1>8, <1>9, <1>10, <1>11 DEF SdkNext

\* However sockets fail and are replaced, and however long the queue is, the agent receives none of
\* the caller's messages twice; a message overtakes another only if it was sent between the opening
\* of a socket and the flush; and none is missing unless the queue overflowed or close() emptied it,
\* or it was sent on a socket that was dead (send, onOpen, flushPendingSends).
THEOREM HeardInOrderAlways == SdkSpec => []HeardInOrder
<1>1. SdkInit => HeardIInv
  BY HeardInit
<1>2. SdkIInv /\ HeardIInv /\ [SdkNext]_sdkVars => HeardIInv'
  BY HeardStep
<1>3. HeardIInv => HeardInOrder
  BY DEF HeardIInv
<1>. QED
  BY <1>1, <1>2, <1>3, SdkInvariant, PTL DEF SdkSpec

-----------------------------------------------------------------------------
(* The agentic behaviour                                                   *)

LEMMA ClearedType ==
  ASSUME AgenticTypeOK, NEW b, NEW pc \in {"looping", "closing"}
  PROVE  Cleared(b, pc) \in [Builds -> BuildRecords]
BY DEF Cleared, AgenticTypeOK, BuildRecords

\* The calls of buildWrapper, through every step.
LEMMA BuildsTypeStep ==
  ASSUME AgenticTypeOK, [AgenticNext]_agenticVars
  PROVE  builds' \in [Builds -> BuildRecords]
<1>0. NoBuild \in BuildRecords
  BY DEF NoBuild, BuildRecords
<1>1. ASSUME NEW b \in Builds,
             AttemptCannotBegin(b) \/ AttemptEnds(b) \/ AttemptFails(b) \/ LoopEnds(b)
      PROVE  builds' \in [Builds -> BuildRecords]
  BY <1>1, ClearedType DEF AttemptCannotBegin, AttemptEnds, AttemptFails, LoopEnds
<1>2. ASSUME NEW b \in Builds,
             BuildStarts(b) \/ BuildCannotStart(b) \/ AttemptBegins(b) \/ BuildEnds(b)
      PROVE  builds' \in [Builds -> BuildRecords]
  BY <1>0, <1>2 DEF BuildStarts, BuildCannotStart, AttemptBegins, BuildEnds, BuildRecords,
       AgenticTypeOK
<1>3. ASSUME NEW b \in Builds, MarkComplete(b) \/ ImportTemplate(b)
      PROVE  builds' \in [Builds -> BuildRecords]
  BY <1>3 DEF MarkComplete, ImportTemplate, AgenticTypeOK
<1>4. ASSUME NEW r \in Requests, InputArrives(r) \/ QueueUserRequest(r) \/ UploadFails(r)
      PROVE  builds' \in [Builds -> BuildRecords]
  BY <1>4 DEF InputArrives, QueueUserRequest, UploadFails, AgenticTypeOK
<1>5. ASSUME NEW button \in BOOLEAN, GenerateAllFiles(button)
      PROVE  builds' \in [Builds -> BuildRecords]
  BY <1>5 DEF GenerateAllFiles, BuildRecords, AgenticTypeOK
<1>6. ASSUME (\E r \in Requests : InputEnds(r)) \/ GenerateAll \/ ResumeGeneration
      PROVE  builds' \in [Builds -> BuildRecords]
  BY <1>5, <1>6 DEF InputEnds, GenerateAll, ResumeGeneration
<1>7. CASE StopGeneration
  BY <1>7 DEF StopGeneration, BuildRecords, AgenticTypeOK
<1>8. CASE AgentStartsAgain \/ UNCHANGED agenticVars
  BY <1>0, <1>8 DEF AgentStartsAgain, agenticVars, AgenticTypeOK
<1>. QED
  BY <1>1, <1>2, <1>3, <1>4, <1>6, <1>7, <1>8 DEF AgenticNext, BuildGoesOn, InputGoesOn

\* The flags.
FlagsTypeOK ==
  /\ mvpGenerated \in BOOLEAN
  /\ shouldBeGenerating \in BOOLEAN
  /\ generationPromise \in BOOLEAN
  /\ templateLoaded \in BOOLEAN
  /\ broken \in BOOLEAN

LEMMA FlagsTypeStep ==
  ASSUME FlagsTypeOK, [AgenticNext]_agenticVars
  PROVE  FlagsTypeOK'
<1>1. ASSUME NEW b \in Builds, BuildGoesOn(b) \/ MarkComplete(b) \/ ImportTemplate(b)
      PROVE  FlagsTypeOK'
  BY <1>1, Zenon DEF BuildGoesOn, MarkComplete, ImportTemplate, BuildStarts, BuildCannotStart,
       AttemptBegins, AttemptCannotBegin, AttemptEnds, AttemptFails, LoopEnds, BuildEnds,
       agentState, FlagsTypeOK
<1>2. ASSUME NEW r \in Requests, InputArrives(r) \/ QueueUserRequest(r) \/ UploadFails(r)
      PROVE  FlagsTypeOK'
  BY <1>2, Zenon DEF InputArrives, QueueUserRequest, UploadFails, agentState, FlagsTypeOK
<1>3. ASSUME NEW button, GenerateAllFiles(button)
      PROVE  generationPromise' \in BOOLEAN /\ broken' \in BOOLEAN
  BY <1>3, Zenon DEF GenerateAllFiles, FlagsTypeOK
<1>4. ASSUME (\E r \in Requests : InputEnds(r)) \/ GenerateAll \/ ResumeGeneration
      PROVE  FlagsTypeOK'
  BY <1>3, <1>4, Zenon DEF InputEnds, GenerateAll, ResumeGeneration, agentState, FlagsTypeOK
<1>5. CASE StopGeneration \/ AgentStartsAgain \/ UNCHANGED agenticVars
  BY <1>5, Zenon DEF StopGeneration, AgentStartsAgain, agentState, agenticVars, FlagsTypeOK
<1>. QED
  BY <1>1, <1>2, <1>4, <1>5 DEF AgenticNext, InputGoesOn

\* The messages.
LEMMA InputsTypeStep ==
  ASSUME AgenticTypeOK, [AgenticNext]_agenticVars
  PROVE  /\ pendingUserInputs' \subseteq Requests
         /\ inputs' \in [Requests -> {"unsent", "uploading", "queued", "over"}]
BY DEF AgenticNext, BuildGoesOn, MarkComplete, ImportTemplate, BuildStarts, BuildCannotStart,
     AttemptBegins, AttemptCannotBegin, AttemptEnds, AttemptFails, LoopEnds, BuildEnds,
     InputGoesOn, InputArrives, QueueUserRequest, UploadFails, InputEnds, GenerateAll,
     ResumeGeneration, StopGeneration, AgentStartsAgain, agentState, agenticVars, AgenticTypeOK

LEMMA AgenticTypeParts ==
  AgenticTypeOK <=>
    /\ FlagsTypeOK
    /\ builds \in [Builds -> BuildRecords]
    /\ pendingUserInputs \subseteq Requests
    /\ inputs \in [Requests -> {"unsent", "uploading", "queued", "over"}]
BY Zenon DEF AgenticTypeOK, FlagsTypeOK

\* AgenticTypeOK, in every behaviour of the builds, their users and the restarts.
THEOREM AgenticTyped == AgenticSpec => []AgenticTypeOK
<1>1. AgenticInit => AgenticTypeOK
  <2>1. AgenticInit => FlagsTypeOK
    BY Zenon DEF AgenticInit, FlagsTypeOK
  <2>2. NoBuild \in BuildRecords
    BY DEF NoBuild, BuildRecords
  <2>3. AgenticInit =>
          /\ builds \in [Builds -> BuildRecords]
          /\ pendingUserInputs \subseteq Requests
          /\ inputs \in [Requests -> {"unsent", "uploading", "queued", "over"}]
    BY <2>2 DEF AgenticInit
  <2>. QED
    BY <2>1, <2>3, AgenticTypeParts
<1>2. AgenticTypeOK /\ [AgenticNext]_agenticVars => AgenticTypeOK'
  <2>. SUFFICES ASSUME AgenticTypeOK, [AgenticNext]_agenticVars
                PROVE  AgenticTypeOK'
    OBVIOUS
  <2>1. FlagsTypeOK'
    BY AgenticTypeParts, FlagsTypeStep, Zenon
  <2>. QED
    BY <2>1, BuildsTypeStep, InputsTypeStep, Zenon DEF AgenticTypeOK, FlagsTypeOK
<1>. QED
  BY <1>1, <1>2, PTL DEF AgenticSpec

\* Whoever finds the promise set may rely on it: then a build will read the queue
\* or, when there is nothing to read, one is in an attempt, at whose end the promise
\* is cleared.
PromiseIsKept ==
  generationPromise /\ ~broken =>
    /\ \E b \in Builds : WillRead(b)
    /\ NothingToDo => \E b \in Builds : builds[b].pc = "attempt"

LEMMA AttemptsRead ==
  ASSUME NEW b \in Builds, builds[b].pc = "attempt"
  PROVE  WillRead(b)
BY DEF WillRead

\* What generateAllFiles leaves behind is a promise that is kept, and a reader if
\* there is something to read.
LEMMA StartKeepsPromise ==
  ASSUME AgenticTypeOK, PromiseIsKept, NEW button \in BOOLEAN, GenerateAllFiles(button),
         UNCHANGED <<mvpGenerated, pendingUserInputs>>
  PROVE  /\ PromiseIsKept'
         /\ ~NothingToDo /\ ~broken' => \E b \in Builds : WillRead(b)'
<1>1. CASE generationPromise \/ NothingToDo
  BY <1>1 DEF GenerateAllFiles, PromiseIsKept, NothingToDo, WillRead
<1>2. CASE ~generationPromise /\ ~NothingToDo
  <2>1. PICK b \in Builds :
          builds' = [builds EXCEPT ![b] = [pc |-> "starting", signal |-> "none",
                                           button |-> button]]
    BY <1>2 DEF GenerateAllFiles
  <2>2. WillRead(b)'
    BY <2>1 DEF WillRead, AgenticTypeOK
  <2>3. ~NothingToDo'
    BY <1>2 DEF NothingToDo
  <2>. QED
    BY <2>2, <2>3 DEF PromiseIsKept
<1>. QED
  BY <1>1, <1>2

LEMMA ClearedReads ==
  ASSUME AgenticTypeOK, NEW b \in Builds, NEW pc \in {"looping", "closing"},
         builds' = Cleared(b, pc)
  PROVE  /\ builds'[b].pc = pc
         /\ \A c \in Builds \ {b} : builds'[c].pc = builds[c].pc
BY DEF Cleared, AgenticTypeOK, BuildRecords

LEMMA TakerStep ==
  ASSUME AgenticTypeOK, PromiseIsKept, RequestHasATaker, [AgenticNext]_agenticVars
  PROVE  PromiseIsKept' /\ RequestHasATaker'
<1>1. ASSUME NEW b \in Builds, BuildStarts(b)
      PROVE  PromiseIsKept' /\ RequestHasATaker'
  <2>1. /\ builds'[b].pc = "looping"
        /\ \A c \in Builds \ {b} : builds'[c] = builds[c]
    BY <1>1 DEF BuildStarts, AgenticTypeOK
  <2>2. \A c \in Builds : WillRead(c)' <=> WillRead(c)
    BY <1>1, <2>1 DEF BuildStarts, WillRead
  <2>. QED
    BY <1>1, <2>1, <2>2 DEF BuildStarts, agentState, PromiseIsKept, RequestHasATaker, NothingToDo
<1>2. ASSUME NEW b \in Builds, BuildCannotStart(b) \/ AttemptCannotBegin(b) \/ AttemptFails(b)
      PROVE  PromiseIsKept' /\ RequestHasATaker'
  BY <1>2 DEF BuildCannotStart, AttemptCannotBegin, AttemptFails, PromiseIsKept, RequestHasATaker
<1>3. ASSUME NEW b \in Builds, AttemptBegins(b)
      PROVE  PromiseIsKept' /\ RequestHasATaker'
  <2>1. builds'[b].pc = "attempt" /\ pendingUserInputs' = {}
    BY <1>3 DEF AttemptBegins, AgenticTypeOK
  <2>. QED
    BY <2>1 DEF PromiseIsKept, RequestHasATaker, WillRead
<1>4. ASSUME NEW b \in Builds, MarkComplete(b) \/ ImportTemplate(b)
      PROVE  PromiseIsKept' /\ RequestHasATaker'
  <2>1. builds[b].pc = "attempt" /\ builds' = builds
    BY <1>4 DEF MarkComplete, ImportTemplate
  <2>. QED
    BY <2>1 DEF PromiseIsKept, RequestHasATaker, WillRead
<1>5. ASSUME NEW b \in Builds, AttemptEnds(b)
      PROVE  PromiseIsKept' /\ RequestHasATaker'
  <2>1. builds'[b].pc = "looping" /\ ~generationPromise'
    BY <1>5, ClearedReads DEF AttemptEnds
  <2>. QED
    BY <2>1 DEF PromiseIsKept, RequestHasATaker, WillRead
<1>6. ASSUME NEW b \in Builds, LoopEnds(b)
      PROVE  PromiseIsKept' /\ RequestHasATaker'
  <2>1. /\ builds[b].pc = "looping" /\ NothingToDo
        /\ \A c \in Builds \ {b} : builds'[c].pc = builds[c].pc
        /\ UNCHANGED <<mvpGenerated, pendingUserInputs, generationPromise, broken>>
    BY <1>6, ClearedReads DEF LoopEnds, agentState
  <2>2. RequestHasATaker'
    BY <2>1 DEF RequestHasATaker, NothingToDo
  <2>3. ASSUME generationPromise, ~broken
        PROVE  \E c \in Builds : builds'[c].pc = "attempt"
    <3>1. PICK c \in Builds : builds[c].pc = "attempt"
      BY <2>1, <2>3 DEF PromiseIsKept
    <3>. QED
      BY <2>1, <3>1
  <2>. QED
    BY <2>1, <2>2, <2>3 DEF PromiseIsKept, WillRead
<1>7. ASSUME NEW b \in Builds, BuildEnds(b)
      PROVE  PromiseIsKept' /\ RequestHasATaker'
  <2>1. /\ ~WillRead(b) /\ ~generationPromise'
        /\ \A c \in Builds \ {b} : builds'[c] = builds[c]
        /\ UNCHANGED <<pendingUserInputs, inputs, broken>>
    BY <1>7 DEF BuildEnds, WillRead, AgenticTypeOK
  <2>. QED
    BY <2>1 DEF PromiseIsKept, RequestHasATaker, WillRead
<1>8. ASSUME NEW r \in Requests, InputArrives(r) \/ UploadFails(r)
      PROVE  PromiseIsKept' /\ RequestHasATaker'
  <2>1. \A q \in Requests : inputs[q] = "queued" => inputs'[q] = "queued"
    BY <1>8 DEF InputArrives, UploadFails, AgenticTypeOK
  <2>. QED
    BY <1>8, <2>1 DEF InputArrives, UploadFails, agentState, PromiseIsKept, RequestHasATaker,
         WillRead, NothingToDo
<1>9. ASSUME NEW r \in Requests, QueueUserRequest(r)
      PROVE  PromiseIsKept' /\ RequestHasATaker'
  <2>1. inputs'[r] = "queued"
    BY <1>9 DEF QueueUserRequest, AgenticTypeOK
  <2>2. PromiseIsKept'
    BY <1>9 DEF QueueUserRequest, PromiseIsKept, WillRead, NothingToDo
  <2>. QED
    BY <2>1, <2>2 DEF RequestHasATaker
<1>10. ASSUME NEW r \in Requests, InputEnds(r)
       PROVE  PromiseIsKept' /\ RequestHasATaker'
  BY <1>10, StartKeepsPromise DEF InputEnds, agentState, RequestHasATaker, NothingToDo
<1>11. ASSUME GenerateAll \/ ResumeGeneration
       PROVE  PromiseIsKept' /\ RequestHasATaker'
  BY <1>11, StartKeepsPromise DEF GenerateAll, ResumeGeneration, RequestHasATaker, NothingToDo
<1>12. ASSUME StopGeneration
       PROVE  PromiseIsKept' /\ RequestHasATaker'
  <2>1. \A b \in Builds : builds'[b].pc = builds[b].pc
    BY <1>12 DEF StopGeneration, AgenticTypeOK, BuildRecords
  <2>. QED
    BY <1>12, <2>1 DEF StopGeneration, PromiseIsKept, RequestHasATaker, WillRead, NothingToDo
<1>13. ASSUME AgentStartsAgain
       PROVE  PromiseIsKept' /\ RequestHasATaker'
  BY <1>13 DEF AgentStartsAgain, PromiseIsKept, RequestHasATaker
<1>14. ASSUME UNCHANGED agenticVars
       PROVE  PromiseIsKept' /\ RequestHasATaker'
  BY <1>14 DEF agenticVars, PromiseIsKept, RequestHasATaker, WillRead, NothingToDo
<1>. QED
  BY <1>1, <1>2, <1>3, <1>4, <1>5, <1>6, <1>7, <1>8, <1>9, <1>10, <1>11, <1>12, <1>13, <1>14
     DEF AgenticNext, BuildGoesOn, InputGoesOn

\* A message to the agentic behaviour never waits with nobody to read it, however
\* many builds set, clear and set again the promise that says one is running.
THEOREM RequestsHaveTakers == AgenticSpec => []RequestHasATaker
<1>1. AgenticInit => PromiseIsKept /\ RequestHasATaker
  BY DEF AgenticInit, PromiseIsKept, RequestHasATaker
<1>. QED
  BY <1>1, AgenticTyped, TakerStep, PTL DEF AgenticSpec

-----------------------------------------------------------------------------
(* Induction without an operator parameter, and sums over finite sets      *)

\* A set of naturals has a least element.
LEMMA LeastNatural ==
  ASSUME NEW T, T \subseteq Nat, T # {}
  PROVE  \E x \in T : \A y \in T : x <= y
<1>. DEFINE R == OpToRel(<, Nat)
<1>1. IsWellFoundedOn(R, Nat)
  BY NatLessThanWellFounded
<1>2. PICK x \in T : \A y \in T : ~(<<y, x>> \in R)
  <2>. HIDE DEF R
  <2>. QED
    BY <1>1, WFMin
<1>3. \A y \in T : <<y, x>> \in R <=> y < x
  BY DEF OpToRel
<1>. HIDE DEF R
<1>4. \A y \in T : ~(y < x)
  BY <1>2, <1>3
<1>. QED
  BY <1>4

\* Induction over finite sets: of the counterexamples there is one from which no
\* element can be removed.
LEMMA SmallestSet ==
  ASSUME NEW C, C # {}, \A S \in C : IsFiniteSet(S)
  PROVE  \E S \in C : \A x \in S : S \ {x} \notin C
<1>. DEFINE sizes == {Cardinality(S) : S \in C}
<1>1. sizes \subseteq Nat /\ sizes # {}
  BY FS_CardinalityType
<1>. HIDE DEF sizes
<1>2. PICK n \in sizes : \A m \in sizes : n <= m
  BY <1>1, LeastNatural
<1>. USE DEF sizes
<1>3. PICK S \in C : n = Cardinality(S)
  BY <1>2
<1>4. ASSUME NEW x \in S, S \ {x} \in C
      PROVE  FALSE
  <2>1. Cardinality(S \ {x}) = Cardinality(S) - 1 /\ Cardinality(S) \in Nat
    BY FS_RemoveElement, FS_CardinalityType
  <2>2. n <= Cardinality(S \ {x})
    BY <1>2, <1>4
  <2>. QED
    BY <1>3, <2>1, <2>2
<1>. QED
  BY <1>4

Total(f, S) == MapThenSumSet(LAMBDA x : f[x], S)

Some(S) == CHOOSE x \in S : TRUE

\* g is the fold of f over the subsets of S.
IsFoldOf(g, f, S) ==
  g = [s \in SUBSET S |-> IF s = {} THEN 0 ELSE f[Some(s)] + g[s \ {Some(s)}]]

Fold(f, S) == CHOOSE g : IsFoldOf(g, f, S)

LEMMA TotalIsFold ==
  ASSUME NEW f, NEW S
  PROVE  Total(f, S) = Fold(f, S)[S]
BY DEF Total, Fold, IsFoldOf, Some, MapThenSumSet, MapThenFoldSet

LEMMA SomeIn ==
  ASSUME NEW S, S # {}
  PROVE  Some(S) \in S
BY DEF Some

LEMMA FoldReads ==
  ASSUME NEW f, NEW S, NEW g, IsFoldOf(g, f, S), NEW s \in SUBSET S
  PROVE  g[s] = IF s = {} THEN 0 ELSE f[Some(s)] + g[s \ {Some(s)}]
BY DEF IsFoldOf

\* Two folds agree where both are defined.
LEMMA FoldsAgree ==
  ASSUME NEW f, NEW S, NEW g, NEW U, NEW h, IsFoldOf(g, f, S), IsFoldOf(h, f, U),
         NEW T, T \subseteq S, T \subseteq U, IsFiniteSet(T)
  PROVE  g[T] = h[T]
<1>. DEFINE C == {s \in SUBSET T : g[s] # h[s]}
<1>. SUFFICES ASSUME C # {} PROVE FALSE
  BY Zenon
<1>1. \A s \in C : IsFiniteSet(s)
  BY FS_Subset
<1>2. PICK s \in C : \A x \in s : s \ {x} \notin C
  <2>. HIDE DEF C
  <2>. QED
    BY <1>1, SmallestSet
<1>3. /\ g[s] = IF s = {} THEN 0 ELSE f[Some(s)] + g[s \ {Some(s)}]
      /\ h[s] = IF s = {} THEN 0 ELSE f[Some(s)] + h[s \ {Some(s)}]
  <2>1. s \in SUBSET S /\ s \in SUBSET U
    BY <1>2
  <2>. QED
    BY <2>1, FoldReads
<1>4. s # {}
  BY <1>2, <1>3
<1>5. g[s \ {Some(s)}] = h[s \ {Some(s)}]
  BY <1>2, <1>4, SomeIn
<1>. QED
  BY <1>2, <1>3, <1>5

LEMMA FoldExists ==
  ASSUME NEW f, NEW S, IsFiniteSet(S)
  PROVE  \E g : IsFoldOf(g, f, S)
<1>. DEFINE Has(u) == \E g : IsFoldOf(g, f, u)
            C == {s \in SUBSET S : \E u \in SUBSET s : ~Has(u)}
<1>. SUFFICES ASSUME C # {} PROVE FALSE
  OBVIOUS
<1>1. \A s \in C : IsFiniteSet(s)
  BY FS_Subset
<1>2. PICK s \in C : \A x \in s : s \ {x} \notin C
  <2>. HIDE DEF C
  <2>. QED
    BY <1>1, SmallestSet
<1>. HIDE DEF Has
<1>3. ASSUME NEW u \in SUBSET s, u # s
      PROVE  Has(u)
  <2>1. PICK x \in s : x \notin u
    BY <1>3
  <2>. QED
    BY <1>2, <2>1
<1>4. ~Has(s)
  BY <1>2, <1>3
<1>5. ASSUME NEW u, Has(u)
      PROVE  IsFoldOf(Fold(f, u), f, u)
  BY <1>5 DEF Has, Fold
<1>. DEFINE last(u) == Fold(f, u)[u]
            h == [u \in SUBSET s |-> IF u = {} THEN 0 ELSE f[Some(u)] + last(u \ {Some(u)})]
<1>6. ASSUME NEW u \in SUBSET s, u # s
      PROVE  h[u] = last(u)
  <2>1. CASE u = {}
    BY <1>3, <1>5, <1>6, <2>1, FoldReads
  <2>2. CASE u # {}
    <3>1. last(u) = f[Some(u)] + Fold(f, u)[u \ {Some(u)}]
      BY <1>3, <1>5, <1>6, <2>2, FoldReads
    <3>2. Fold(f, u)[u \ {Some(u)}] = last(u \ {Some(u)})
      <4>. DEFINE v == u \ {Some(u)}
      <4>1. v \in SUBSET s /\ v # s /\ v \subseteq u /\ IsFiniteSet(v)
        BY <1>1, <1>6, FS_Subset
      <4>2. IsFoldOf(Fold(f, u), f, u) /\ IsFoldOf(Fold(f, v), f, v)
        BY <1>3, <1>5, <1>6, <4>1
      <4>. HIDE DEF v
      <4>3. Fold(f, u)[v] = Fold(f, v)[v]
        BY <4>1, <4>2, FoldsAgree
      <4>. QED
        BY <4>3 DEF v
    <3>. QED
      BY <2>2, <3>1, <3>2
  <2>. QED
    BY <2>1, <2>2
<1>7. ASSUME NEW u \in SUBSET s, u # {}
      PROVE  h[u \ {Some(u)}] = last(u \ {Some(u)})
  BY <1>6, <1>7, SomeIn
<1>8. h = [u \in SUBSET s |-> IF u = {} THEN 0 ELSE f[Some(u)] + h[u \ {Some(u)}]]
  <2>. HIDE DEF last
  <2>1. h = [u \in SUBSET s |-> IF u = {} THEN 0 ELSE f[Some(u)] + last(u \ {Some(u)})]
    OBVIOUS
  <2>. HIDE DEF h
  <2>. QED
    BY <1>7, <2>1
<1>9. IsFoldOf(h, f, s)
  <2>. HIDE DEF h
  <2>. QED
    BY <1>8 DEF IsFoldOf
<1>. QED
  BY <1>4, <1>9 DEF Has

\* The fold of a finite set is one.
LEMMA FoldFolds ==
  ASSUME NEW f, NEW S, IsFiniteSet(S)
  PROVE  IsFoldOf(Fold(f, S), f, S)
BY FoldExists DEF Fold

LEMMA TotalEmpty ==
  ASSUME NEW f
  PROVE  Total(f, {}) = 0
BY FS_EmptySet, FoldFolds, FoldReads, TotalIsFold

LEMMA TotalSome ==
  ASSUME NEW f, NEW S, IsFiniteSet(S), S # {}
  PROVE  Total(f, S) = f[Some(S)] + Total(f, S \ {Some(S)})
<1>. DEFINE rest == S \ {Some(S)}
<1>1. rest \in SUBSET S /\ IsFiniteSet(rest)
  BY FS_Subset
<1>2. Fold(f, S)[S] = f[Some(S)] + Fold(f, S)[rest]
  BY FoldFolds, FoldReads
<1>. HIDE DEF rest
<1>3. Fold(f, S)[rest] = Fold(f, rest)[rest]
  BY <1>1, FoldFolds, FoldsAgree
<1>. QED
  BY <1>2, <1>3, TotalIsFold DEF rest

\* What is summed are naturals.
LEMMA TotalNat ==
  ASSUME NEW D, NEW f \in [D -> Nat], NEW S \in SUBSET D, IsFiniteSet(S)
  PROVE  Total(f, S) \in Nat
<1>. DEFINE C == {s \in SUBSET S : Total(f, s) \notin Nat}
<1>. SUFFICES ASSUME C # {} PROVE FALSE
  OBVIOUS
<1>1. \A s \in C : IsFiniteSet(s)
  BY FS_Subset
<1>2. PICK s \in C : \A x \in s : s \ {x} \notin C
  <2>. HIDE DEF C
  <2>. QED
    BY <1>1, SmallestSet
<1>3. s # {}
  BY <1>2, TotalEmpty
<1>4. Some(s) \in s /\ Total(f, s) = f[Some(s)] + Total(f, s \ {Some(s)})
  BY <1>1, <1>3, TotalSome, SomeIn
<1>5. Total(f, s \ {Some(s)}) \in Nat
  BY <1>2, <1>4
<1>6. f[Some(s)] \in Nat
  BY <1>4
<1>. QED
  BY <1>2, <1>4, <1>5, <1>6

\* The order of the elements does not matter.
LEMMA TotalTake ==
  ASSUME NEW D, NEW f \in [D -> Nat], NEW S \in SUBSET D, IsFiniteSet(S), NEW x \in S
  PROVE  Total(f, S) = f[x] + Total(f, S \ {x})
<1>. DEFINE Takes(s) == \A y \in s : Total(f, s) = f[y] + Total(f, s \ {y})
            C == {s \in SUBSET S : ~Takes(s)}
<1>. SUFFICES ASSUME C # {} PROVE FALSE
  OBVIOUS
<1>1. \A s \in C : IsFiniteSet(s)
  BY FS_Subset
<1>2. PICK s \in C : \A y \in s : s \ {y} \notin C
  <2>. HIDE DEF C
  <2>. QED
    BY <1>1, SmallestSet
<1>3. PICK y \in s : Total(f, s) # f[y] + Total(f, s \ {y})
  BY <1>2
<1>. DEFINE z == Some(s)
            both == (s \ {y}) \ {z}
<1>4. z \in s /\ Total(f, s) = f[z] + Total(f, s \ {z})
  BY <1>1, <1>3, TotalSome, SomeIn
<1>. HIDE DEF z
<1>5. y # z
  BY <1>3, <1>4
<1>6. Takes(s \ {z}) /\ Takes(s \ {y})
  BY <1>2, <1>4
<1>7. both = (s \ {z}) \ {y}
  OBVIOUS
<1>8. Total(f, s \ {z}) = f[y] + Total(f, both)
  BY <1>4, <1>5, <1>6, <1>7
<1>9. Total(f, s \ {y}) = f[z] + Total(f, both)
  BY <1>4, <1>5, <1>6
<1>10. f[y] \in Nat /\ f[z] \in Nat /\ Total(f, both) \in Nat
  <2>1. both \in SUBSET D /\ IsFiniteSet(both)
    BY <1>1, FS_Subset
  <2>. HIDE DEF both
  <2>. QED
    BY <1>4, <2>1, TotalNat
<1>. QED
  BY ONLY <1>3, <1>4, <1>8, <1>9, <1>10

\* What adds up to more: what counts in S counts in T, and at least as much.
LEMMA TotalMonotone ==
  ASSUME NEW D, NEW f \in [D -> Nat], NEW S \in SUBSET D, IsFiniteSet(S),
         NEW E, NEW g \in [E -> Nat], NEW T \in SUBSET E, IsFiniteSet(T),
         \A x \in S : f[x] # 0 => x \in T /\ f[x] <= g[x]
  PROVE  Total(f, S) <= Total(g, T)
<1>. DEFINE Less(s) == \A t \in SUBSET T :
        (\A x \in s : f[x] # 0 => x \in t /\ f[x] <= g[x]) => Total(f, s) <= Total(g, t)
            C == {s \in SUBSET S : ~Less(s)}
<1>. SUFFICES ASSUME C # {} PROVE FALSE
  OBVIOUS
<1>1. \A s \in C : IsFiniteSet(s)
  BY FS_Subset
<1>2. PICK s \in C : \A y \in s : s \ {y} \notin C
  <2>. HIDE DEF C
  <2>. QED
    BY <1>1, SmallestSet
<1>3. PICK t \in SUBSET T : /\ \A x \in s : f[x] # 0 => x \in t /\ f[x] <= g[x]
                            /\ ~(Total(f, s) <= Total(g, t))
  BY <1>2
<1>4. IsFiniteSet(t) /\ t \in SUBSET E /\ s \in SUBSET D /\ IsFiniteSet(s)
  BY <1>1, FS_Subset
<1>5. Total(g, t) \in Nat /\ Total(f, s) \in Nat
  BY <1>4, TotalNat
<1>6. s # {}
  BY <1>3, <1>5, TotalEmpty
<1>7. PICK x \in s : TRUE
  BY <1>6
<1>8. Total(f, s) = f[x] + Total(f, s \ {x}) /\ f[x] \in Nat
  BY <1>4, TotalTake
<1>9. Less(s \ {x})
  BY <1>2
<1>10. CASE f[x] = 0
  <2>1. Total(f, s \ {x}) <= Total(g, t)
    BY <1>3, <1>9
  <2>2. Total(f, s) = Total(f, s \ {x})
    <3>1. s \ {x} \in SUBSET D /\ IsFiniteSet(s \ {x})
      BY <1>4, FS_Subset
    <3>2. Total(f, s \ {x}) \in Nat
      BY <3>1, TotalNat
    <3>. QED
      BY <1>8, <1>10, <3>2
  <2>. QED
    BY <1>3, <2>1, <2>2
<1>11. CASE f[x] # 0
  <2>1. x \in t /\ f[x] <= g[x] /\ g[x] \in Nat
    BY <1>3, <1>4, <1>11
  <2>2. Total(g, t) = g[x] + Total(g, t \ {x})
    BY <1>4, <2>1, TotalTake
  <2>3. Total(f, s \ {x}) <= Total(g, t \ {x})
    BY <1>3, <1>9
  <2>4. Total(f, s \ {x}) \in Nat /\ Total(g, t \ {x}) \in Nat
    <3>1. s \ {x} \in SUBSET D /\ IsFiniteSet(s \ {x}) /\ t \ {x} \in SUBSET E /\ IsFiniteSet(t \ {x})
      BY <1>4, FS_Subset
    <3>. QED
      BY <3>1, TotalNat
  <2>. QED
    BY ONLY <1>3, <1>8, <2>1, <2>2, <2>3, <2>4
<1>. QED
  BY <1>10, <1>11

\* Two disjoint sets.
LEMMA TotalSplit ==
  ASSUME NEW D, NEW f \in [D -> Nat], NEW S \in SUBSET D, IsFiniteSet(S), NEW T \in SUBSET S
  PROVE  Total(f, S) = Total(f, T) + Total(f, S \ T)
<1>. DEFINE Splits(s) == Total(f, (S \ T) \cup s) = Total(f, s) + Total(f, S \ T)
            C == {s \in SUBSET T : ~Splits(s)}
<1>1. ASSUME C # {} PROVE FALSE
  <2>1. \A s \in C : IsFiniteSet(s)
    BY FS_Subset
  <2>2. PICK s \in C : \A y \in s : s \ {y} \notin C
    <3>. HIDE DEF C
    <3>. QED
      BY <1>1, <2>1, SmallestSet
  <2>3. /\ s \in SUBSET D /\ IsFiniteSet(s)
        /\ (S \ T) \cup s \in SUBSET D /\ IsFiniteSet((S \ T) \cup s)
        /\ S \ T \in SUBSET D /\ IsFiniteSet(S \ T)
    <3>1. s \in SUBSET S /\ (S \ T) \cup s \in SUBSET S /\ S \ T \in SUBSET S
      BY <2>2
    <3>. HIDE DEF C
    <3>. QED
      BY <3>1, FS_Subset
  <2>4. Total(f, S \ T) \in Nat
    BY <2>3, TotalNat
  <2>5. s # {}
    <3>1. CASE s = {}
      <4>1. (S \ T) \cup s = S \ T /\ Total(f, s) = 0
        BY <3>1, TotalEmpty
      <4>. QED
        BY <2>2, <2>4, <4>1
    <3>. QED
      BY <3>1
  <2>6. PICK x \in s : TRUE
    BY <2>5
  <2>7. /\ Total(f, s) = f[x] + Total(f, s \ {x})
        /\ Total(f, (S \ T) \cup s) = f[x] + Total(f, ((S \ T) \cup s) \ {x})
    BY <2>3, TotalTake
  <2>8. ((S \ T) \cup s) \ {x} = (S \ T) \cup (s \ {x})
    BY <2>2
  <2>9. Total(f, ((S \ T) \cup s) \ {x}) = Total(f, s \ {x}) + Total(f, S \ T)
    BY <2>2, <2>8
  <2>10. Total(f, s \ {x}) \in Nat /\ f[x] \in Nat
    <3>1. s \ {x} \in SUBSET D /\ IsFiniteSet(s \ {x})
      BY <2>3, FS_Subset
    <3>. QED
      BY <2>3, <3>1, TotalNat
  <2>11. Total(f, (S \ T) \cup s) # Total(f, s) + Total(f, S \ T)
    BY <2>2
  <2>. QED
    BY ONLY <2>4, <2>7, <2>9, <2>10, <2>11
<1>2. Splits(T)
  BY <1>1
<1>3. (S \ T) \cup T = S
  OBVIOUS
<1>. QED
  BY <1>2, <1>3

\* Summing group by group: q[x] is the group of x, g[i] the sum of group i.
LEMMA TotalGroups ==
  ASSUME NEW D, NEW f \in [D -> Nat], NEW S \in SUBSET D, IsFiniteSet(S), NEW q,
         NEW E, NEW g \in [E -> Nat], NEW I \in SUBSET E, IsFiniteSet(I),
         \A i \in I : g[i] = Total(f, {x \in S : q[x] = i})
  PROVE  Total(g, I) = Total(f, {x \in S : q[x] \in I})
<1>. DEFINE In(u) == {x \in S : q[x] \in u}
            Grouped(u) == Total(g, u) = Total(f, In(u))
            C == {u \in SUBSET I : ~Grouped(u)}
<1>. SUFFICES ASSUME C # {} PROVE FALSE
  OBVIOUS
<1>1. \A u \in C : IsFiniteSet(u)
  BY FS_Subset
<1>2. PICK u \in C : \A i \in u : u \ {i} \notin C
  <2>. HIDE DEF C
  <2>. QED
    BY <1>1, SmallestSet
<1>3. u # {}
  <2>1. CASE u = {}
    <3>1. In(u) = {}
      BY <2>1
    <3>. QED
      BY <1>2, <2>1, <3>1, TotalEmpty
  <2>. QED
    BY <2>1
<1>4. PICK i \in u : TRUE
  BY <1>3
<1>5. Total(g, u) = g[i] + Total(g, u \ {i})
  <2>1. u \in SUBSET E
    BY <1>2
  <2>. QED
    BY <1>1, <2>1, TotalTake
<1>6. Total(f, In(u)) = Total(f, In({i})) + Total(f, In(u \ {i}))
  <2>1. In(u) \in SUBSET D /\ IsFiniteSet(In(u))
    BY FS_Subset
  <2>2. In({i}) \in SUBSET In(u) /\ In(u) \ In({i}) = In(u \ {i})
    BY <1>4
  <2>. DEFINE all == In(u)
              part == In({i})
  <2>3. all \in SUBSET D /\ IsFiniteSet(all) /\ part \in SUBSET all
    BY <2>1, <2>2
  <2>. HIDE DEF all, part
  <2>4. Total(f, all) = Total(f, part) + Total(f, all \ part)
    BY <2>3, TotalSplit
  <2>. QED
    BY <2>2, <2>4 DEF all, part
<1>7. g[i] = Total(f, In({i}))
  <2>1. In({i}) = {x \in S : q[x] = i}
    OBVIOUS
  <2>. QED
    BY <1>2, <1>4, <2>1
<1>8. Total(g, u \ {i}) = Total(f, In(u \ {i}))
  BY <1>2, <1>4
<1>. QED
  BY <1>2, <1>5, <1>6, <1>7, <1>8

LEMMA TotalZero ==
  ASSUME NEW D, NEW f \in [D -> Nat], NEW S \in SUBSET D, IsFiniteSet(S), \A x \in S : f[x] = 0
  PROVE  Total(f, S) = 0
<1>1. {} \in SUBSET D /\ IsFiniteSet({}) /\ Total(f, {}) = 0
  BY FS_EmptySet, TotalEmpty
<1>. DEFINE none == {}
<1>. HIDE DEF none
<1>2. none \in SUBSET D /\ IsFiniteSet(none) /\ Total(f, none) = 0
  BY <1>1 DEF none
<1>3. Total(f, S) <= Total(f, none)
  BY <1>2, TotalMonotone
<1>4. Total(f, S) \in Nat
  BY TotalNat
<1>. QED
  BY <1>2, <1>3, <1>4

LEMMA TotalSame ==
  ASSUME NEW D, NEW f \in [D -> Nat], NEW g \in [D -> Nat], NEW S \in SUBSET D, IsFiniteSet(S),
         \A x \in S : f[x] = g[x]
  PROVE  Total(f, S) = Total(g, S)
<1>1. Total(f, S) \in Nat /\ Total(g, S) \in Nat
  BY TotalNat
<1>2. \A x \in S : f[x] \in Nat /\ g[x] \in Nat /\ f[x] <= g[x] /\ g[x] <= f[x]
  OBVIOUS
<1>3. Total(f, S) <= Total(g, S)
  BY <1>2, TotalMonotone
<1>4. Total(g, S) <= Total(f, S)
  BY <1>2, TotalMonotone
<1>. QED
  BY <1>1, <1>3, <1>4

\* One element counts for more.
LEMMA TotalGrows ==
  ASSUME NEW D, NEW f \in [D -> Nat], NEW S \in SUBSET D, IsFiniteSet(S),
         NEW g \in [D -> Nat], NEW x \in D, NEW c \in Nat,
         g[x] = f[x] + c, \A y \in D \ {x} : g[y] = f[y]
  PROVE  Total(g, S) = Total(f, S) + (IF x \in S THEN c ELSE 0)
<1>1. Total(f, S) \in Nat
  BY TotalNat
<1>2. CASE x \in S
  <2>. DEFINE rest == S \ {x}
  <2>1. rest \in SUBSET D /\ IsFiniteSet(rest) /\ \A y \in rest : g[y] = f[y]
    BY FS_Subset
  <2>2. Total(f, S) = f[x] + Total(f, rest) /\ Total(g, S) = g[x] + Total(g, rest)
    BY <1>2, TotalTake
  <2>. HIDE DEF rest
  <2>3. Total(g, rest) = Total(f, rest) /\ Total(f, rest) \in Nat
    BY <2>1, TotalSame, TotalNat
  <2>4. f[x] \in Nat
    OBVIOUS
  <2>. QED
    BY <1>2, <2>2, <2>3, <2>4
<1>3. CASE x \notin S
  <2>1. \A y \in S : g[y] = f[y]
    BY <1>3
  <2>2. Total(g, S) = Total(f, S)
    BY <2>1, TotalSame
  <2>. QED
    BY <1>1, <1>3, <2>2
<1>. QED
  BY <1>2, <1>3

\* A finite set of naturals has a greatest element.
LEMMA MaxOfFinite ==
  ASSUME NEW S \in SUBSET Nat, IsFiniteSet(S), S # {}
  PROVE  Max(S) \in S /\ \A y \in S : y <= Max(S)
<1>. DEFINE Has(T) == \E x \in T : \A y \in T : x >= y
            C == {T \in SUBSET S : T # {} /\ ~Has(T)}
<1>1. ASSUME C # {} PROVE FALSE
  <2>1. \A T \in C : IsFiniteSet(T)
    BY FS_Subset
  <2>2. PICK T \in C : \A x \in T : T \ {x} \notin C
    <3>. HIDE DEF C
    <3>. QED
      BY <1>1, <2>1, SmallestSet
  <2>3. PICK x \in T : TRUE
    BY <2>2
  <2>4. T # {x}
    BY <2>2
  <2>5. PICK m \in T \ {x} : \A y \in T \ {x} : m >= y
    BY <2>2, <2>3, <2>4
  <2>6. x \in Nat /\ m \in Nat /\ T \subseteq Nat
    BY <2>2
  <2>7. CASE m >= x
    <3>1. m \in T /\ \A y \in T : m >= y
      BY <2>5, <2>7
    <3>. QED
      BY <2>2, <3>1
  <2>8. CASE x > m
    <3>1. \A y \in T : x >= y
      BY <2>5, <2>6, <2>8
    <3>. QED
      BY <2>2, <3>1
  <2>. QED
    BY <2>6, <2>7, <2>8
<1>2. Has(S)
  BY <1>1
<1>3. Max(S) \in S /\ \A y \in S : Max(S) >= y
  <2>. DEFINE P(x) == \A y \in S : x >= y
  <2>1. \E x \in S : P(x)
    BY <1>2
  <2>. HIDE DEF P
  <2>2. (CHOOSE x \in S : P(x)) \in S /\ P(CHOOSE x \in S : P(x))
    BY <2>1
  <2>. QED
    BY <2>2 DEF P, Max
<1>. QED
  BY <1>3

-----------------------------------------------------------------------------
(* Division *)

LEMMA DivBounds ==
  ASSUME NEW a \in Int, NEW b \in Nat \ {0}
  PROVE  /\ a \div b \in Int
         /\ b * (a \div b) <= a
         /\ a < b * (a \div b) + b
OBVIOUS

LEMMA TimesMono ==
  ASSUME NEW b \in Nat \ {0}, NEW x \in Int, NEW y \in Int, x < y
  PROVE  b * x + b <= b * y
<1>. DEFINE d == y - x - 1
<1>1. d \in Nat /\ y = x + 1 + d
  OBVIOUS
<1>. HIDE DEF d
<1>2. b * (x + 1 + d) = b * x + b + b * d
  BY <1>1
<1>3. b * d \in Nat /\ b * x \in Int
  BY <1>1
<1>. QED
  BY <1>1, <1>2, <1>3

LEMMA DivMono ==
  ASSUME NEW b \in Nat \ {0}, NEW a \in Int, NEW c \in Int, a <= c
  PROVE  a \div b <= c \div b
<1>. DEFINE x == a \div b
            y == c \div b
<1>1. /\ x \in Int /\ b * x <= a /\ a < b * x + b /\ b * x \in Int
      /\ y \in Int /\ b * y <= c /\ c < b * y + b /\ b * y \in Int
  BY DivBounds
<1>. HIDE DEF x, y
<1>2. ASSUME y < x PROVE FALSE
  <2>1. b * y + b <= b * x
    BY <1>1, <1>2, TimesMono
  <2>. QED
    BY <1>1, <2>1
<1>3. x <= y
  BY <1>1, <1>2
<1>. QED
  BY <1>3 DEF x, y

-----------------------------------------------------------------------------
(* The rate limiter *)

LEMMA LimitConstants ==
  /\ BucketSize \in Nat \ {0} /\ Day \in Nat \ {0} /\ MaxTime \in Nat
  /\ Max(Costs) \in Nat
  /\ \A cost \in Costs : cost \in Nat /\ cost <= Max(Costs)
<1>1. Costs \in SUBSET Nat /\ IsFiniteSet(Costs) /\ Costs # {}
  BY RateLimitAssumption
<1>2. Max(Costs) \in Costs /\ \A y \in Costs : y <= Max(Costs)
  BY <1>1, MaxOfFinite
<1>. QED
  BY <1>2, RateLimitAssumption

\* Every window of a key is positive and no longer than the horizon of its cleanup.
LEMMA WindowsBounded ==
  ASSUME NEW k \in LimitKeys
  PROVE  /\ LongestWindow(k) \in Nat \ {0}
         /\ \A w \in Windows(Config[k]) :
              /\ w.ticks \in Nat \ {0} /\ w.limit \in Nat \ {0}
              /\ w.ticks <= LongestWindow(k)
<1>. DEFINE c == Config[k]
            S == {c.period, c.burstWindow} \cup (IF c.dailyLimit = 0 THEN {} ELSE {Day})
<1>1. c \in ConfigType
  BY RateLimitAssumption
<1>2. /\ c.limit \in Nat \ {0} /\ c.period \in Nat \ {0} /\ c.burst \in Nat
      /\ c.burstWindow \in Nat \ {0} /\ c.dailyLimit \in Nat
  BY <1>1 DEF ConfigType
<1>3. LongestWindow(k) = Max(S)
  BY DEF LongestWindow
<1>4. S \in SUBSET Nat /\ S # {}
  BY <1>2, LimitConstants
<1>5. IsFiniteSet(S)
  <2>1. IsFiniteSet({c.period, c.burstWindow})
    <3>. DEFINE one == {c.period}
    <3>1. IsFiniteSet(one)
      BY FS_Singleton
    <3>. HIDE DEF one
    <3>2. IsFiniteSet(one \cup {c.burstWindow})
      BY <3>1, FS_AddElement
    <3>3. {c.period, c.burstWindow} = one \cup {c.burstWindow}
      BY DEF one
    <3>. QED
      BY <3>2, <3>3
  <2>. DEFINE d == IF c.dailyLimit = 0 THEN {} ELSE {Day}
  <2>2. IsFiniteSet(d)
    <3>1. IsFiniteSet({}) /\ IsFiniteSet({Day})
      BY FS_Singleton, FS_EmptySet
    <3>. QED
      BY <3>1
  <2>. HIDE DEF c, d
  <2>3. IsFiniteSet({c.period, c.burstWindow} \cup d)
    BY <2>1, <2>2, FS_Union
  <2>. QED
    BY <2>3 DEF d
<1>6. Max(S) \in S /\ \A y \in S : y <= Max(S)
  <2>. HIDE DEF S
  <2>. QED
    BY <1>4, <1>5, MaxOfFinite
<1>7. /\ c.period <= Max(S) /\ c.burstWindow <= Max(S) /\ (c.dailyLimit # 0 => Day <= Max(S))
      /\ Max(S) \in Nat
  BY <1>4, <1>6
<1>. HIDE DEF c, S
<1>. SUFFICES ASSUME NEW w \in Windows(c)
              PROVE  w.ticks \in Nat \ {0} /\ w.limit \in Nat \ {0} /\ w.ticks <= Max(S)
  BY <1>2, <1>3, <1>7 DEF c
<1>. QED
  BY <1>2, <1>7, LimitConstants DEF Windows

\* The clock and the buckets.
LEMMA ClockFacts ==
  /\ IsFiniteSet(Times) /\ Times \subseteq Nat
  /\ IsFiniteSet(Indexes) /\ Indexes \subseteq Nat
  /\ \A t \in Times : t \div BucketSize \in Indexes
<1>1. 0 \div BucketSize = 0 /\ MaxTime \div BucketSize \in Int
  BY LimitConstants, DivBounds
<1>2. \A t \in Times : t \div BucketSize \in Indexes
  <2>. SUFFICES ASSUME NEW t \in Times
                PROVE  t \div BucketSize \in Indexes
    OBVIOUS
  <2>1. t \in Int /\ 0 <= t /\ t <= MaxTime /\ MaxTime \in Int
    BY LimitConstants DEF Times
  <2>2. /\ 0 \div BucketSize <= t \div BucketSize
        /\ t \div BucketSize <= MaxTime \div BucketSize
        /\ t \div BucketSize \in Int
    BY <2>1, LimitConstants, DivMono, DivBounds
  <2>. QED
    BY <1>1, <2>2 DEF Indexes
<1>3. IsFiniteSet(Times) /\ IsFiniteSet(Indexes)
  BY <1>1, LimitConstants, FS_Interval, SMTT(30) DEF Times, Indexes
<1>. QED
  BY <1>1, <1>2, <1>3, LimitConstants DEF Times, Indexes

BucketsType == [LimitKeys -> [Indexes -> [count : Nat, timestamp : Times]]]

Counts(bs, k) == [i \in Indexes |-> bs[k][i].count]

\* What increment sums up is a sum of the counts.
LEMMA CountsAreTotal ==
  ASSUME NEW bs \in BucketsType, NEW k \in LimitKeys, NEW X \in SUBSET Indexes
  PROVE  MapThenSumSet(LAMBDA i : bs[k][i].count, X) = Total(Counts(bs, k), X)
<1>. DEFINE f == Counts(bs, k)
            IsCount(g) ==
              g = [s \in SUBSET X |->
                     IF s = {} THEN 0 ELSE bs[k][Some(s)].count + g[s \ {Some(s)}]]
            c == CHOOSE g : IsCount(g)
<1>1. IsFiniteSet(X)
  BY ClockFacts, FS_Subset
<1>2. MapThenSumSet(LAMBDA i : bs[k][i].count, X) = c[X]
  BY DEF MapThenSumSet, MapThenFoldSet, Some
<1>3. ASSUME NEW s \in SUBSET X, s # {}
      PROVE  f[Some(s)] = bs[k][Some(s)].count
  BY <1>3, SomeIn DEF Counts
<1>4. ASSUME NEW g
      PROVE  IsCount(g) <=> IsFoldOf(g, f, X)
  <2>. HIDE DEF f
  <2>. QED
    BY <1>3 DEF IsFoldOf
<1>. HIDE DEF IsCount, f
<1>5. IsCount(c)
  BY <1>1, <1>4, FoldFolds
<1>. HIDE DEF c
<1>6. IsFoldOf(c, f, X) /\ IsFoldOf(Fold(f, X), f, X)
  BY <1>1, <1>4, <1>5, FoldFolds
<1>7. c[X] = Fold(f, X)[X]
  BY <1>1, <1>6, FoldsAgree
<1>. QED
  BY <1>2, <1>7, TotalIsFold DEF f

\* The ticks of a bucket, and the last n ticks.
Ticks(i) == {t \in Times : t \div BucketSize = i}
InHorizon(n) == {t \in Times : now - n < t}

NothingLater == \A k \in LimitKeys, t \in Times : t > now => accepted[k][t] = 0

\* A bucket counts no more than was accepted in its ticks ...
CountsAtMost(bs) ==
  \A k \in LimitKeys, i \in Indexes : bs[k][i].count <= Total(accepted[k], Ticks(i))

\* ... and no less than was within a horizon that no cleanup cuts short ...
CountsAtLeast(bs) ==
  \A k \in LimitKeys, n \in Nat : Covered(n) =>
    \A i \in Indexes : Total(accepted[k], Ticks(i) \cap InHorizon(n)) <= bs[k][i].count

\* ... because its timestamp, by which cleanup judges it, is that of the last of them.
Stamped(bs) ==
  \A k \in LimitKeys, n \in Nat : Covered(n) =>
    \A t \in InHorizon(n) : accepted[k][t] # 0 => bs[k][t \div BucketSize].timestamp >= t

BucketsTell(bs) ==
  bs \in BucketsType /\ CountsAtMost(bs) /\ CountsAtLeast(bs) /\ Stamped(bs)

LimitIInv == LimitTypeOK /\ NothingLater /\ BucketsTell(buckets)

LEMMA LimitTypes ==
  ASSUME LimitTypeOK
  PROVE  /\ now \in Nat /\ now \in Times /\ now <= MaxTime
         /\ now \div BucketSize \in Indexes
         /\ \A k \in LimitKeys : accepted[k] \in [Times -> Nat]
         /\ \A k \in LimitKeys, t \in Times : accepted[k][t] \in Nat
         /\ \A i : Ticks(i) \in SUBSET Times /\ IsFiniteSet(Ticks(i))
         /\ \A n, i : /\ Ticks(i) \cap InHorizon(n) \in SUBSET Times
                      /\ IsFiniteSet(Ticks(i) \cap InHorizon(n))
<1>1. IsFiniteSet(Times) /\ Times \subseteq Nat /\ \A t \in Times : t \div BucketSize \in Indexes
  BY ClockFacts
<1>2. /\ now \in Times
      /\ \A k \in LimitKeys : accepted[k] \in [Times -> Nat]
      /\ \A k \in LimitKeys, t \in Times : accepted[k][t] \in Nat
  BY DEF LimitTypeOK
<1>3. now <= MaxTime
  BY <1>2, LimitConstants DEF Times
<1>4. \A i : Ticks(i) \in SUBSET Times
  BY DEF Ticks
<1>5. \A n, i : Ticks(i) \cap InHorizon(n) \in SUBSET Times
  BY <1>4
<1>6. \A X \in SUBSET Times : IsFiniteSet(X)
  BY <1>1, FS_Subset
<1>. QED
  BY <1>1, <1>2, <1>3, <1>4, <1>5, <1>6

LEMMA CountsType ==
  ASSUME NEW bs \in BucketsType, NEW k \in LimitKeys
  PROVE  /\ Counts(bs, k) \in [Indexes -> Nat]
         /\ \A i \in Indexes : Counts(bs, k)[i] = bs[k][i].count /\ bs[k][i].count \in Nat
BY DEF Counts, BucketsType

\* Cleaning up, for whichever key, forgets nothing that a window still covers.
LEMMA CleanupKeeps ==
  ASSUME LimitIInv, NEW j \in LimitKeys
  PROVE  BucketsTell(AfterCleanup(j))
<1>. DEFINE bs == Cleaned(j)
            old(k, i) == buckets[k][i].timestamp < now - LongestWindow(j)
<1>1. /\ now \in Nat /\ buckets \in BucketsType /\ NoBucket \in [count : Nat, timestamp : Times]
      /\ \A k \in LimitKeys : LongestWindow(k) \in Nat
  <2>1. 0 \in Times
    BY LimitConstants DEF Times
  <2>. QED
    BY <2>1, LimitTypes, WindowsBounded DEF LimitIInv, BucketsTell, NoBucket
<1>2. \A k \in LimitKeys, i \in Indexes :
        bs[k][i] = IF old(k, i) THEN NoBucket ELSE buckets[k][i]
  BY DEF Cleaned
<1>3. bs \in BucketsType
  BY <1>1 DEF Cleaned, BucketsType
<1>4. NoBucket.count = 0
  BY DEF NoBucket
<1>. HIDE DEF bs
<1>5. CountsAtMost(bs)
  <2>. SUFFICES ASSUME NEW k \in LimitKeys, NEW i \in Indexes
                PROVE  bs[k][i].count <= Total(accepted[k], Ticks(i))
    BY DEF CountsAtMost
  <2>1. Total(accepted[k], Ticks(i)) \in Nat
    BY LimitTypes, TotalNat DEF LimitIInv
  <2>2. buckets[k][i].count <= Total(accepted[k], Ticks(i))
    BY DEF LimitIInv, BucketsTell, CountsAtMost
  <2>. QED
    BY <1>2, <1>4, <2>1, <2>2
<1>6. ASSUME NEW k \in LimitKeys, NEW n \in Nat, Covered(n), NEW t \in InHorizon(n),
             accepted[k][t] # 0
      PROVE  /\ t \in Nat /\ t \div BucketSize \in Indexes
             /\ ~old(k, t \div BucketSize)
             /\ buckets[k][t \div BucketSize].timestamp >= t
  <2>1. t \in Nat /\ t \div BucketSize \in Indexes /\ now - n < t
    BY <1>6, ClockFacts DEF InHorizon
  <2>2. buckets[k][t \div BucketSize].timestamp >= t
    BY <1>6 DEF LimitIInv, BucketsTell, Stamped
  <2>3. LongestWindow(j) >= n
    BY <1>6 DEF Covered
  <2>4. buckets[k][t \div BucketSize].timestamp \in Nat
    BY <1>1, <2>1, ClockFacts DEF BucketsType
  <2>. QED
    BY <1>1, <2>1, <2>2, <2>3, <2>4
<1>7. Stamped(bs)
  BY <1>2, <1>6 DEF Stamped
<1>8. CountsAtLeast(bs)
  <2>. SUFFICES ASSUME NEW k \in LimitKeys, NEW n \in Nat, Covered(n), NEW i \in Indexes
                PROVE  Total(accepted[k], Ticks(i) \cap InHorizon(n)) <= bs[k][i].count
    BY DEF CountsAtLeast
  <2>1. CASE ~old(k, i)
    BY <1>2, <2>1 DEF LimitIInv, BucketsTell, CountsAtLeast
  <2>2. CASE old(k, i)
    <3>. DEFINE X == Ticks(i) \cap InHorizon(n)
    <3>1. \A t \in X : accepted[k][t] = 0
      BY <1>6, <2>2 DEF Ticks
    <3>2. X \in SUBSET Times /\ IsFiniteSet(X) /\ accepted[k] \in [Times -> Nat]
      BY LimitTypes DEF LimitIInv
    <3>. HIDE DEF X
    <3>3. Total(accepted[k], X) = 0
      BY <3>1, <3>2, TotalZero
    <3>. QED
      BY <1>2, <1>4, <2>2, <3>3 DEF X
  <2>. QED
    BY <2>1, <2>2
<1>9. BucketsTell(bs)
  BY <1>3, <1>5, <1>7, <1>8 DEF BucketsTell
<1>. QED
  BY <1>9 DEF AfterCleanup, LimitIInv, bs

\* The window of n ticks that ends now.
InWindow(n) == {t \in Times : now - n < t /\ t <= now}

LEMMA AcceptedInIsTotal ==
  ASSUME NEW k, NEW n
  PROVE  AcceptedIn(k, n) = Total(accepted[k], InWindow(n))
BY DEF AcceptedIn, Total, InWindow

LEMMA CountInIsTotal ==
  ASSUME NEW bs \in BucketsType, NEW k \in LimitKeys, NEW n
  PROVE  CountIn(bs, k, n) = Total(Counts(bs, k), BucketsInWindow(now, n) \cap Indexes)
<1>. DEFINE X == BucketsInWindow(now, n) \cap Indexes
<1>1. X \in SUBSET Indexes
  OBVIOUS
<1>. HIDE DEF X
<1>2. MapThenSumSet(LAMBDA i : bs[k][i].count, X) = Total(Counts(bs, k), X)
  BY <1>1, CountsAreTotal
<1>. QED
  BY <1>2 DEF CountIn, X

LEMMA WindowFacts ==
  ASSUME LimitTypeOK, NEW n
  PROVE  /\ InWindow(n) \in SUBSET Times /\ IsFiniteSet(InWindow(n))
         /\ BucketsInWindow(now, n) \cap Indexes \in SUBSET Indexes
         /\ IsFiniteSet(BucketsInWindow(now, n) \cap Indexes)
<1>1. InWindow(n) \in SUBSET Times
  BY DEF InWindow
<1>2. BucketsInWindow(now, n) \cap Indexes \in SUBSET Indexes
  OBVIOUS
<1>. QED
  BY <1>1, <1>2, ClockFacts, FS_Subset

\* The sums of a set of ticks, bucket by bucket.
BucketTotals(k, X) ==
  [i \in Indexes |-> Total(accepted[k], {t \in X : t \div BucketSize = i})]

LEMMA TotalByBucket ==
  ASSUME LimitTypeOK, NEW k \in LimitKeys, NEW X \in SUBSET Times, NEW I \in SUBSET Indexes
  PROVE  /\ BucketTotals(k, X) \in [Indexes -> Nat]
         /\ Total(BucketTotals(k, X), I) = Total(accepted[k], {t \in X : t \div BucketSize \in I})
<1>. DEFINE f == accepted[k]
            g == BucketTotals(k, X)
            q == [t \in Times |-> t \div BucketSize]
<1>1. IsFiniteSet(X) /\ IsFiniteSet(I) /\ f \in [Times -> Nat]
  BY ClockFacts, FS_Subset, LimitTypes
<1>2. \A i : {t \in X : t \div BucketSize = i} = {t \in X : q[t] = i}
  OBVIOUS
<1>3. {t \in X : t \div BucketSize \in I} = {t \in X : q[t] \in I}
  OBVIOUS
<1>. HIDE DEF q, f
<1>4. ASSUME NEW i
      PROVE  Total(f, {t \in X : q[t] = i}) \in Nat
  <2>1. {t \in X : q[t] = i} \in SUBSET Times /\ IsFiniteSet({t \in X : q[t] = i})
    BY <1>1, FS_Subset
  <2>. QED
    BY <1>1, <2>1, TotalNat
<1>5. \A i \in Indexes : g[i] = Total(f, {t \in X : q[t] = i})
  BY <1>2 DEF BucketTotals, f
<1>6. g \in [Indexes -> Nat]
  BY <1>4, <1>2 DEF BucketTotals, f
<1>. HIDE DEF g
<1>7. Total(g, I) = Total(f, {t \in X : q[t] \in I})
  BY <1>1, <1>5, <1>6, TotalGroups
<1>. QED
  BY <1>3, <1>6, <1>7 DEF f, g

\* While no cleanup cuts into it, the counts of the buckets cover a window.
LEMMA CountsCoverWindow ==
  ASSUME LimitTypeOK, NEW k \in LimitKeys, NEW bs, BucketsTell(bs),
         NEW n \in Nat \ {0}, Covered(n)
  PROVE  AcceptedIn(k, n) <= CountIn(bs, k, n)
<1>. DEFINE W == InWindow(n)
            I == BucketsInWindow(now, n) \cap Indexes
            g == BucketTotals(k, W)
            c == Counts(bs, k)
<1>1. /\ W \in SUBSET Times /\ I \in SUBSET Indexes /\ IsFiniteSet(I)
      /\ bs \in BucketsType /\ c \in [Indexes -> Nat]
      /\ now \in Nat
  BY WindowFacts, CountsType, LimitTypes DEF BucketsTell
<1>2. {t \in W : t \div BucketSize \in I} = W
  <2>. SUFFICES ASSUME NEW t \in W
                PROVE  t \div BucketSize \in I
    OBVIOUS
  <2>1. t \in Times /\ t \in Nat /\ now - n <= t /\ t <= now /\ now - n \in Int /\ now \in Int
    BY <1>1, ClockFacts DEF InWindow
  <2>2. /\ (now - n) \div BucketSize <= t \div BucketSize
        /\ t \div BucketSize <= now \div BucketSize
        /\ (now - n) \div BucketSize \in Int /\ now \div BucketSize \in Int
        /\ t \div BucketSize \in Int
    BY <2>1, LimitConstants, DivMono, DivBounds
  <2>. QED
    BY <2>1, <2>2, ClockFacts DEF BucketsInWindow
<1>3. ASSUME NEW i \in I
      PROVE  g[i] <= c[i]
  <2>. DEFINE X == {t \in W : t \div BucketSize = i}
              Y == Ticks(i) \cap InHorizon(n)
              f == accepted[k]
  <2>1. X \in SUBSET Times /\ Y \in SUBSET Times /\ IsFiniteSet(X) /\ IsFiniteSet(Y)
    <3>1. X \in SUBSET Times
      BY <1>1
    <3>. QED
      BY <3>1, LimitTypes, ClockFacts, FS_Subset
  <2>2. f \in [Times -> Nat]
    BY LimitTypes
  <2>3. \A t \in X : t \in Y /\ f[t] <= f[t]
    <3>. SUFFICES ASSUME NEW t \in X
                  PROVE  t \in Y /\ f[t] <= f[t]
      OBVIOUS
    <3>1. t \in Times /\ t \in Nat /\ now - n < t /\ t \div BucketSize = i /\ f[t] \in Nat
      BY <2>2, ClockFacts DEF InWindow
    <3>. QED
      BY <3>1 DEF Ticks, InHorizon
  <2>4. g[i] = Total(f, X)
    BY DEF BucketTotals
  <2>5. Total(f, Y) <= c[i] /\ c[i] \in Nat
    BY <1>1, CountsType DEF BucketsTell, CountsAtLeast
  <2>. HIDE DEF X, Y, f, g, c
  <2>6. Total(f, X) <= Total(f, Y) /\ Total(f, X) \in Nat /\ Total(f, Y) \in Nat
    BY <2>1, <2>2, <2>3, TotalMonotone, TotalNat
  <2>. QED
    BY <2>4, <2>5, <2>6
<1>4. g \in [Indexes -> Nat] /\ Total(g, I) = Total(accepted[k], W)
  <2>1. W \in SUBSET Times /\ I \in SUBSET Indexes
    BY <1>1
  <2>. HIDE DEF W, I
  <2>2. g \in [Indexes -> Nat]
        /\ Total(g, I) = Total(accepted[k], {t \in W : t \div BucketSize \in I})
    BY <2>1, TotalByBucket, ZenonT(40)
  <2>. QED
    BY <1>2, <2>2
<1>5. AcceptedIn(k, n) = Total(accepted[k], W) /\ CountIn(bs, k, n) = Total(c, I)
  BY <1>1, AcceptedInIsTotal, CountInIsTotal
<1>. HIDE DEF W, I, g, c
<1>6. Total(g, I) <= Total(c, I)
  BY <1>1, <1>3, <1>4, TotalMonotone
<1>. QED
  BY <1>4, <1>5, <1>6

\* What the buckets of a window count was accepted in that window and one bucket more.
LEMMA CountsWithinWindow ==
  ASSUME LimitIInv, NEW k \in LimitKeys, NEW n \in Nat \ {0}
  PROVE  /\ CountIn(buckets, k, n) <= AcceptedIn(k, n + BucketSize)
         /\ CountIn(buckets, k, n) \in Nat /\ AcceptedIn(k, n + BucketSize) \in Nat
<1>. DEFINE W == InWindow(n + BucketSize)
            I == BucketsInWindow(now, n) \cap Indexes
            g == BucketTotals(k, W)
            c == Counts(buckets, k)
            f == accepted[k]
            V == {t \in W : t \div BucketSize \in I}
<1>1. /\ W \in SUBSET Times /\ I \in SUBSET Indexes /\ IsFiniteSet(I) /\ IsFiniteSet(W)
      /\ buckets \in BucketsType /\ c \in [Indexes -> Nat] /\ f \in [Times -> Nat]
      /\ now \in Nat /\ BucketSize \in Nat \ {0} /\ LimitTypeOK
  BY WindowFacts, CountsType, LimitTypes, LimitConstants DEF BucketsTell, LimitIInv
<1>2. ASSUME NEW i \in I
      PROVE  c[i] <= g[i]
  <2>. DEFINE X == Ticks(i)
              Y == {t \in W : t \div BucketSize = i}
  <2>1. X \in SUBSET Times /\ Y \in SUBSET Times /\ IsFiniteSet(X) /\ IsFiniteSet(Y)
    <3>1. Y \in SUBSET Times
      BY <1>1
    <3>. QED
      BY <1>1, <3>1, LimitTypes, ClockFacts, FS_Subset
  <2>2. \A t \in X : f[t] # 0 => t \in Y /\ f[t] <= f[t]
    <3>. SUFFICES ASSUME NEW t \in X, f[t] # 0
                  PROVE  t \in Y /\ f[t] <= f[t]
      OBVIOUS
    <3>1. t \in Times /\ t \in Nat /\ t \div BucketSize = i /\ f[t] \in Nat /\ t <= now
      <4>1. t \in Times /\ t \div BucketSize = i
        BY DEF Ticks
      <4>2. t \in Nat /\ f[t] \in Nat
        BY <1>1, <4>1, ClockFacts
      <4>3. ~(t > now)
        BY <4>1 DEF LimitIInv, NothingLater
      <4>. QED
        BY <1>1, <4>1, <4>2, <4>3
    <3>. DEFINE j == (now - n) \div BucketSize
    <3>2. j \in Int /\ i \in Int /\ j <= i /\ now - n < BucketSize * j + BucketSize
      <4>1. now - n \in Int /\ now \div BucketSize \in Int
        BY <1>1, DivBounds
      <4>2. j \in Int /\ now - n < BucketSize * j + BucketSize
        BY <1>1, <4>1, DivBounds
      <4>. QED
        BY <4>1, <4>2, <1>1 DEF BucketsInWindow
    <3>3. BucketSize * i <= t /\ BucketSize * i \in Int
      <4>1. t \in Int /\ BucketSize \in Nat \ {0}
        BY <1>1, <3>1
      <4>2. BucketSize * (t \div BucketSize) <= t
        BY <4>1, DivBounds
      <4>3. BucketSize * i \in Int
        BY <3>2, <4>1
      <4>. QED
        BY <3>1, <4>2, <4>3
    <3>. HIDE DEF j
    <3>4. BucketSize * j <= BucketSize * i /\ BucketSize * j \in Int
      <4>1. BucketSize * j \in Int
        BY <1>1, <3>2
      <4>2. CASE j = i
        BY <3>3, <4>2
      <4>3. CASE j < i
        <5>1. BucketSize * j + BucketSize <= BucketSize * i
          BY <1>1, <3>2, <4>3, TimesMono
        <5>. QED
          BY <1>1, <3>3, <4>1, <5>1
      <4>. QED
        BY <3>2, <4>1, <4>2, <4>3
    <3>5. now - (n + BucketSize) < t
      BY <1>1, <3>1, <3>2, <3>3, <3>4
    <3>. QED
      BY <3>1, <3>5 DEF InWindow
  <2>3. g[i] = Total(f, Y)
    BY DEF BucketTotals
  <2>4. c[i] <= Total(f, X) /\ c[i] \in Nat
    BY <1>1, CountsType DEF LimitIInv, BucketsTell, CountsAtMost
  <2>. HIDE DEF X, Y, f, g, c
  <2>5. Total(f, X) <= Total(f, Y) /\ Total(f, X) \in Nat /\ Total(f, Y) \in Nat
    BY <1>1, <2>1, <2>2, TotalMonotone, TotalNat
  <2>. QED
    BY <2>3, <2>4, <2>5
<1>3. g \in [Indexes -> Nat] /\ Total(g, I) = Total(f, V)
  <2>0. LimitTypeOK /\ W \in SUBSET Times /\ I \in SUBSET Indexes
    BY <1>1
  <2>. HIDE DEF W, I
  <2>1. /\ BucketTotals(k, W) \in [Indexes -> Nat]
        /\ Total(BucketTotals(k, W), I)
             = Total(accepted[k], {t \in W : t \div BucketSize \in I})
    BY <2>0, TotalByBucket, ZenonT(40)
  <2>. QED
    BY <2>1
<1>4. AcceptedIn(k, n + BucketSize) = Total(f, W) /\ CountIn(buckets, k, n) = Total(c, I)
  BY <1>1, AcceptedInIsTotal, CountInIsTotal
<1>5. V \in SUBSET W /\ V \in SUBSET Times /\ IsFiniteSet(V)
  <2>1. V \in SUBSET W
    OBVIOUS
  <2>. HIDE DEF V, W
  <2>. QED
    BY <1>1, <2>1, FS_Subset
<1>. HIDE DEF W, I, g, c, f, V
<1>6. Total(c, I) <= Total(g, I)
  BY <1>1, <1>2, <1>3, TotalMonotone
<1>7. \A t \in V : t \in W /\ f[t] <= f[t]
  <2>1. \A t \in V : t \in W /\ f[t] \in Nat
    BY <1>1, <1>5
  <2>. QED
    BY <2>1
<1>8. Total(f, V) <= Total(f, W)
  BY <1>1, <1>5, <1>7, TotalMonotone
<1>9. Total(f, V) \in Nat /\ Total(f, W) \in Nat /\ Total(c, I) \in Nat /\ Total(g, I) \in Nat
  BY <1>1, <1>3, <1>5, TotalNat
<1>. QED
  BY <1>3, <1>4, <1>6, <1>8, <1>9

LEMMA NextAcceptedIn ==
  ASSUME NEW k, NEW n
  PROVE  AcceptedIn(k, n)' = Total(accepted'[k], InWindow(n)')
BY DEF AcceptedIn, Total, InWindow, MapThenSumSet, MapThenFoldSet

LEMMA AcceptTypes ==
  ASSUME LimitTypeOK, NEW k \in LimitKeys, NEW cost \in Costs, NEW bs \in BucketsType,
         buckets' = [bs EXCEPT ![k][now \div BucketSize]
                       = [count |-> @.count + cost, timestamp |-> now]],
         accepted' = [accepted EXCEPT ![k][now] = @ + cost],
         lastCleanup' \in Times, now' = now
  PROVE  /\ LimitTypeOK'
         /\ \A j \in LimitKeys, i \in Indexes :
              IF j = k /\ i = now \div BucketSize
              THEN buckets'[j][i].count = bs[j][i].count + cost /\ buckets'[j][i].timestamp = now
              ELSE buckets'[j][i] = bs[j][i]
         /\ accepted'[k][now] = accepted[k][now] + cost
         /\ \A j \in LimitKeys, t \in Times :
              j # k \/ t # now => accepted'[j][t] = accepted[j][t]
<1>. DEFINE i == now \div BucketSize
<1>1. now \in Times /\ i \in Indexes /\ cost \in Nat /\ bs[k][i].count \in Nat
  BY LimitTypes, LimitConstants, CountsType
<1>2. accepted \in [LimitKeys -> [Times -> Nat]]
  BY DEF LimitTypeOK
<1>. HIDE DEF i
<1>3. buckets' = [bs EXCEPT ![k][i] = [count |-> @.count + cost, timestamp |-> now]]
  BY DEF i
<1>4. accepted' \in [LimitKeys -> [Times -> Nat]]
  BY <1>1, <1>2
<1>5. /\ accepted'[k][now] = accepted[k][now] + cost
      /\ \A j \in LimitKeys, t \in Times :
           j # k \/ t # now => accepted'[j][t] = accepted[j][t]
  BY <1>1, <1>2
<1>6. [count |-> bs[k][i].count + cost, timestamp |-> now] \in [count : Nat, timestamp : Times]
  BY <1>1
<1>7. buckets' \in BucketsType
  <2>. DEFINE r == [bs[k] EXCEPT ![i] = [count |-> @.count + cost, timestamp |-> now]]
  <2>1. bs[k] \in [Indexes -> [count : Nat, timestamp : Times]]
    BY DEF BucketsType
  <2>2. r \in [Indexes -> [count : Nat, timestamp : Times]]
    BY <1>1, <1>6, <2>1
  <2>3. buckets' = [bs EXCEPT ![k] = r]
    BY <1>3
  <2>. HIDE DEF r
  <2>. QED
    BY <2>2, <2>3 DEF BucketsType
<1>8. \A j \in LimitKeys, m \in Indexes :
        IF j = k /\ m = i
        THEN buckets'[j][m].count = bs[j][m].count + cost /\ buckets'[j][m].timestamp = now
        ELSE buckets'[j][m] = bs[j][m]
  BY <1>1, <1>3 DEF BucketsType
<1>9. LimitTypeOK'
  BY <1>1, <1>4, <1>7 DEF LimitTypeOK, BucketsType
<1>. QED
  BY <1>5, <1>8, <1>9 DEF i

\* What an accepted request adds to a sum of ticks.
LEMMA AcceptedGrows ==
  ASSUME LimitTypeOK, LimitTypeOK', NEW k \in LimitKeys, NEW cost \in Costs,
         accepted'[k][now] = accepted[k][now] + cost,
         \A j \in LimitKeys, t \in Times : j # k \/ t # now => accepted'[j][t] = accepted[j][t],
         NEW j \in LimitKeys, NEW X \in SUBSET Times
  PROVE  /\ Total(accepted'[j], X)
              = Total(accepted[j], X) + (IF j = k /\ now \in X THEN cost ELSE 0)
         /\ Total(accepted[j], X) \in Nat
<1>. DEFINE f == accepted[j]
            g == accepted'[j]
<1>1. f \in [Times -> Nat] /\ g \in [Times -> Nat] /\ IsFiniteSet(X)
      /\ now \in Times /\ cost \in Nat
  BY LimitConstants, ClockFacts, FS_Subset DEF LimitTypeOK
<1>2. CASE j = k
  <2>1. g[now] = f[now] + cost /\ \A t \in Times \ {now} : g[t] = f[t]
    BY <1>2
  <2>. HIDE DEF f, g
  <2>2. Total(g, X) = Total(f, X) + (IF now \in X THEN cost ELSE 0)
    BY <1>1, <2>1, TotalGrows
  <2>. QED
    BY <1>1, <1>2, <2>2, TotalNat DEF f, g
<1>3. CASE j # k
  <2>1. \A t \in X : f[t] = g[t]
    BY <1>3
  <2>. HIDE DEF f, g
  <2>2. Total(g, X) = Total(f, X) /\ Total(f, X) \in Nat
    BY <1>1, <2>1, TotalSame, TotalNat
  <2>. QED
    BY <1>3, <2>2 DEF f, g
<1>. QED
  BY <1>2, <1>3

\* A request that is accepted.
LEMMA AcceptStep ==
  ASSUME LimitIInv, LimitsHold, NEW k \in LimitKeys, NEW cost \in Costs,
         NEW bs, BucketsTell(bs), ~Exceeded(bs, k),
         buckets' = [bs EXCEPT ![k][now \div BucketSize]
                       = [count |-> @.count + cost, timestamp |-> now]],
         accepted' = [accepted EXCEPT ![k][now] = @ + cost],
         lastCleanup' \in Times, now' = now
  PROVE  LimitIInv' /\ LimitsHold'
<1>. DEFINE i == now \div BucketSize
            More(j, X) == IF j = k /\ now \in X THEN cost ELSE 0
            Here(j, m) == j = k /\ m = i
<1>1. bs \in BucketsType /\ LimitTypeOK
  BY DEF BucketsTell, LimitIInv
<1>2. /\ LimitTypeOK'
      /\ \A j \in LimitKeys, m \in Indexes :
           IF Here(j, m)
           THEN buckets'[j][m].count = bs[j][m].count + cost /\ buckets'[j][m].timestamp = now
           ELSE buckets'[j][m] = bs[j][m]
      /\ accepted'[k][now] = accepted[k][now] + cost
      /\ \A j \in LimitKeys, t \in Times : j # k \/ t # now => accepted'[j][t] = accepted[j][t]
  BY <1>1, AcceptTypes
<1>3. \A j \in LimitKeys, X \in SUBSET Times :
        Total(accepted'[j], X) = Total(accepted[j], X) + More(j, X) /\ Total(accepted[j], X) \in Nat
  BY <1>1, <1>2, AcceptedGrows
<1>4. /\ now \in Nat /\ now \in Times /\ i \in Indexes /\ cost \in Nat
      /\ \A m : Ticks(m) \in SUBSET Times
      /\ \A n, m : Ticks(m) \cap InHorizon(n) \in SUBSET Times
      /\ \A j \in LimitKeys, m \in Indexes : bs[j][m].count \in Nat
      /\ \A m : now \in Ticks(m) <=> m = i
      /\ \A n : InHorizon(n)' = InHorizon(n)
  BY <1>1, LimitTypes, LimitConstants, CountsType DEF Ticks, InHorizon
<1>. HIDE DEF i, Here, More
<1>5. NothingLater'
  <2>. SUFFICES ASSUME NEW j \in LimitKeys, NEW t \in Times, t > now
                PROVE  accepted'[j][t] = 0
    BY DEF NothingLater
  <2>1. t # now
    BY <1>4, ClockFacts
  <2>. QED
    BY <1>2, <2>1 DEF LimitIInv, NothingLater
<1>6. CountsAtMost(buckets)'
  <2>. SUFFICES ASSUME NEW j \in LimitKeys, NEW m \in Indexes
                PROVE  buckets'[j][m].count <= Total(accepted'[j], Ticks(m))
    BY DEF CountsAtMost
  <2>1. bs[j][m].count <= Total(accepted[j], Ticks(m))
    BY DEF BucketsTell, CountsAtMost
  <2>2. Total(accepted'[j], Ticks(m)) = Total(accepted[j], Ticks(m)) + More(j, Ticks(m))
        /\ Total(accepted[j], Ticks(m)) \in Nat
    BY <1>3, <1>4
  <2>3. bs[j][m].count \in Nat /\ cost \in Nat
    BY <1>4
  <2>4. CASE Here(j, m)
    <3>1. buckets'[j][m].count = bs[j][m].count + cost /\ More(j, Ticks(m)) = cost
      BY <1>2, <1>4, <2>4 DEF Here, More
    <3>. QED
      BY <2>1, <2>2, <2>3, <3>1
  <2>5. CASE ~Here(j, m)
    <3>1. buckets'[j][m].count = bs[j][m].count /\ More(j, Ticks(m)) = 0
      BY <1>2, <1>4, <2>5 DEF Here, More
    <3>. QED
      BY <2>1, <2>2, <2>3, <3>1
  <2>. QED
    BY <2>4, <2>5
<1>7. CountsAtLeast(buckets)'
  <2>. SUFFICES ASSUME NEW j \in LimitKeys, NEW n \in Nat, Covered(n), NEW m \in Indexes
                PROVE  Total(accepted'[j], Ticks(m) \cap InHorizon(n)') <= buckets'[j][m].count
    BY DEF CountsAtLeast
  <2>. DEFINE X == Ticks(m) \cap InHorizon(n)
  <2>0. Ticks(m) \cap InHorizon(n)' = X
    BY <1>4
  <2>1. Total(accepted[j], X) <= bs[j][m].count
    BY DEF BucketsTell, CountsAtLeast
  <2>2. Total(accepted'[j], X) = Total(accepted[j], X) + More(j, X)
        /\ Total(accepted[j], X) \in Nat
    BY <1>3, <1>4
  <2>3. bs[j][m].count \in Nat /\ cost \in Nat
    BY <1>4
  <2>4. CASE Here(j, m)
    <3>1. buckets'[j][m].count = bs[j][m].count + cost
      BY <1>2, <2>4
    <3>2. More(j, X) \in {0, cost}
      BY DEF More
    <3>. HIDE DEF X
    <3>3. Total(accepted'[j], X) <= buckets'[j][m].count
      BY <2>1, <2>2, <2>3, <3>1, <3>2
    <3>. QED
      BY <2>0, <3>3
  <2>5. CASE ~Here(j, m)
    <3>1. buckets'[j][m].count = bs[j][m].count /\ More(j, X) = 0
      BY <1>2, <1>4, <2>5 DEF Here, More
    <3>. HIDE DEF X
    <3>2. Total(accepted'[j], X) <= buckets'[j][m].count
      BY <2>1, <2>2, <2>3, <3>1
    <3>. QED
      BY <2>0, <3>2
  <2>. QED
    BY <2>4, <2>5
<1>8. Stamped(buckets)'
  <2>. SUFFICES ASSUME NEW j \in LimitKeys, NEW n \in Nat, Covered(n), NEW t \in InHorizon(n),
                       accepted'[j][t] # 0
                PROVE  buckets'[j][t \div BucketSize].timestamp >= t
    BY <1>4 DEF Stamped
  <2>1. t \in Times /\ t \in Nat /\ t \div BucketSize \in Indexes
    BY ClockFacts DEF InHorizon
  <2>2. CASE Here(j, t \div BucketSize)
    <3>1. t <= now
      <4>1. ~(t > now)
        BY <1>5, <2>1 DEF NothingLater
      <4>. QED
        BY <1>4, <2>1, <4>1
    <3>2. buckets'[j][t \div BucketSize].timestamp = now
      BY <1>2, <2>1, <2>2
    <3>. QED
      BY <1>4, <2>1, <3>1, <3>2
  <2>3. CASE ~Here(j, t \div BucketSize)
    <3>1. j # k \/ t # now
      BY <2>3 DEF Here, i
    <3>2. accepted[j][t] # 0
      BY <1>2, <2>1, <3>1
    <3>3. bs[j][t \div BucketSize].timestamp >= t
      BY <3>2 DEF BucketsTell, Stamped
    <3>. QED
      BY <1>2, <2>1, <2>3, <3>3
  <2>. QED
    BY <2>2, <2>3
<1>9. LimitIInv'
  <2>1. (buckets \in BucketsType)'
    BY <1>2 DEF LimitTypeOK, BucketsType
  <2>. QED
    BY <1>2, <1>5, <1>6, <1>7, <1>8, <2>1 DEF LimitIInv, BucketsTell
<1>10. LimitsHold'
  <2>. SUFFICES ASSUME NEW j \in LimitKeys, NEW w \in Windows(Config[j]), Covered(w.ticks)
                PROVE  AcceptedIn(j, w.ticks)' < w.limit + Max(Costs)
    BY DEF LimitsHold
  <2>. DEFINE n == w.ticks
              W == InWindow(n)
  <2>1. n \in Nat \ {0} /\ w.limit \in Nat \ {0}
    BY WindowsBounded
  <2>2. AcceptedIn(j, n) = Total(accepted[j], W)
    BY AcceptedInIsTotal
  <2>3. AcceptedIn(j, n)' = Total(accepted'[j], W)
    <3>1. InWindow(n)' = InWindow(n)
      BY DEF InWindow
    <3>. QED
      BY <3>1, NextAcceptedIn
  <2>4. Total(accepted'[j], W) = Total(accepted[j], W) + More(j, W)
        /\ Total(accepted[j], W) \in Nat
    <3>1. W \in SUBSET Times
      BY <1>1, WindowFacts
    <3>. HIDE DEF W
    <3>. QED
      BY <1>3, <3>1
  <2>5. AcceptedIn(j, n) < w.limit + Max(Costs)
    BY DEF LimitsHold
  <2>6. Max(Costs) \in Nat /\ cost <= Max(Costs)
    BY LimitConstants
  <2>7. CASE j # k
    BY <2>2, <2>3, <2>4, <2>5, <2>7 DEF More
  <2>8. CASE j = k
    <3>1. AcceptedIn(j, n) <= CountIn(bs, j, n)
      BY <1>1, <2>1, CountsCoverWindow
    <3>2. ~(CountIn(bs, j, n) >= w.limit)
      BY <2>8 DEF Exceeded
    <3>3. CountIn(bs, j, n) \in Nat
      <4>. DEFINE I == BucketsInWindow(now, n) \cap Indexes
      <4>1. I \in SUBSET Indexes /\ IsFiniteSet(I) /\ Counts(bs, j) \in [Indexes -> Nat]
        BY <1>1, WindowFacts, CountsType
      <4>2. CountIn(bs, j, n) = Total(Counts(bs, j), I)
        BY <1>1, CountInIsTotal
      <4>. HIDE DEF I
      <4>. QED
        BY <4>1, <4>2, TotalNat
    <3>4. More(j, W) \in {0, cost}
      BY DEF More
    <3>. HIDE DEF n, W
    <3>. QED
      BY <1>4, <2>1, <2>2, <2>3, <2>4, <2>6, <3>1, <3>2, <3>3, <3>4 DEF n
  <2>. QED
    BY <2>7, <2>8
<1>. QED
  BY <1>9, <1>10

LEMMA LimitStart ==
  ASSUME LimitInit
  PROVE  LimitIInv /\ LimitsHold
<1>1. 0 \in Times /\ NoBucket \in [count : Nat, timestamp : Times] /\ NoBucket.count = 0
  BY LimitConstants DEF Times, NoBucket
<1>2. /\ now = 0 /\ buckets \in BucketsType /\ LimitTypeOK
      /\ \A k \in LimitKeys, i \in Indexes : buckets[k][i].count = 0
      /\ \A k \in LimitKeys, t \in Times : accepted[k][t] = 0
  BY <1>1 DEF LimitInit, LimitTypeOK, BucketsType
<1>3. ASSUME NEW k \in LimitKeys, NEW X \in SUBSET Times
      PROVE  Total(accepted[k], X) = 0
  <2>1. \A t \in X : accepted[k][t] = 0
    BY <1>2
  <2>2. accepted[k] \in [Times -> Nat] /\ IsFiniteSet(X)
    BY <1>2, LimitTypes, ClockFacts, FS_Subset
  <2>. QED
    BY <2>1, <2>2, TotalZero
<1>4. /\ \A i : Ticks(i) \in SUBSET Times
      /\ \A n, i : Ticks(i) \cap InHorizon(n) \in SUBSET Times
      /\ \A n : InHorizon(n) \in SUBSET Times
  BY DEF Ticks, InHorizon
<1>5. LimitIInv
  <2>1. NothingLater
    BY <1>2 DEF NothingLater
  <2>2. CountsAtMost(buckets)
    <3>. SUFFICES ASSUME NEW k \in LimitKeys, NEW i \in Indexes
                  PROVE  buckets[k][i].count <= Total(accepted[k], Ticks(i))
      BY DEF CountsAtMost
    <3>1. Total(accepted[k], Ticks(i)) = 0
      BY <1>3, <1>4
    <3>. QED
      BY <1>2, <3>1
  <2>3. CountsAtLeast(buckets)
    <3>. SUFFICES ASSUME NEW k \in LimitKeys, NEW n \in Nat, NEW i \in Indexes
                  PROVE  Total(accepted[k], Ticks(i) \cap InHorizon(n)) <= buckets[k][i].count
      BY DEF CountsAtLeast
    <3>1. Total(accepted[k], Ticks(i) \cap InHorizon(n)) = 0
      BY <1>3, <1>4
    <3>. QED
      BY <1>2, <3>1
  <2>4. Stamped(buckets)
    BY <1>2, <1>4 DEF Stamped
  <2>. QED
    BY <1>2, <2>1, <2>2, <2>3, <2>4 DEF LimitIInv, BucketsTell
<1>6. LimitsHold
  <2>. SUFFICES ASSUME NEW k \in LimitKeys, NEW w \in Windows(Config[k])
                PROVE  AcceptedIn(k, w.ticks) < w.limit + Max(Costs)
    BY DEF LimitsHold
  <2>1. AcceptedIn(k, w.ticks) = 0
    BY <1>2, <1>3, WindowFacts, AcceptedInIsTotal
  <2>. QED
    BY <2>1, WindowsBounded, LimitConstants
<1>. QED
  BY <1>5, <1>6

\* Nothing but the buckets changes: a request is refused.
LEMMA RefuseStep ==
  ASSUME LimitIInv, LimitsHold, NEW bs, BucketsTell(bs),
         buckets' = bs, accepted' = accepted, lastCleanup' \in Times, now' = now
  PROVE  LimitIInv' /\ LimitsHold'
<1>1. /\ \A n : InHorizon(n)' = InHorizon(n)
      /\ \A n : InWindow(n)' = InWindow(n)
  BY DEF InHorizon, InWindow
<1>2. NothingLater'
  BY DEF LimitIInv, NothingLater
<1>3. CountsAtMost(buckets)'
  BY DEF BucketsTell, CountsAtMost
<1>4. CountsAtLeast(buckets)'
  BY <1>1 DEF BucketsTell, CountsAtLeast
<1>5. Stamped(buckets)'
  BY <1>1 DEF BucketsTell, Stamped
<1>6. LimitTypeOK' /\ (buckets \in BucketsType)'
  BY DEF LimitIInv, LimitTypeOK, BucketsTell, BucketsType
<1>7. ASSUME NEW k \in LimitKeys, NEW n
      PROVE  AcceptedIn(k, n)' = AcceptedIn(k, n)
  BY <1>1, NextAcceptedIn, AcceptedInIsTotal
<1>8. LimitsHold'
  BY <1>7 DEF LimitsHold
<1>. QED
  BY <1>2, <1>3, <1>4, <1>5, <1>6, <1>8 DEF LimitIInv, BucketsTell

\* resetLimit forgets a key altogether.
LEMMA ResetStep ==
  ASSUME LimitIInv, LimitsHold, NEW ks, ResetLimit(ks)
  PROVE  LimitIInv' /\ LimitsHold'
<1>1. /\ now' = now /\ now \in Nat /\ LimitTypeOK
      /\ buckets' = [k \in LimitKeys |->
                       IF k \in ks THEN [i \in Indexes |-> NoBucket] ELSE buckets[k]]
      /\ accepted' = [k \in LimitKeys |->
                        IF k \in ks THEN [t \in Times |-> 0] ELSE accepted[k]]
      /\ lastCleanup' = lastCleanup
  BY LimitTypes DEF ResetLimit, LimitIInv
<1>2. NoBucket \in [count : Nat, timestamp : Times] /\ NoBucket.count = 0
  BY LimitConstants DEF Times, NoBucket
<1>3. (buckets \in BucketsType)' /\ LimitTypeOK'
  BY <1>1, <1>2 DEF BucketsType, LimitTypeOK
<1>4. /\ \A n : InHorizon(n)' = InHorizon(n) /\ InHorizon(n) \in SUBSET Times
      /\ \A n : InWindow(n)' = InWindow(n) /\ InWindow(n) \in SUBSET Times
      /\ \A i : Ticks(i) \in SUBSET Times
      /\ \A n, i : Ticks(i) \cap InHorizon(n) \in SUBSET Times
  BY <1>1 DEF InHorizon, InWindow, Ticks
<1>5. ASSUME NEW k \in LimitKeys, k \in ks
      PROVE  /\ \A t \in Times : accepted'[k][t] = 0
             /\ \A i \in Indexes : buckets'[k][i].count = 0
  BY <1>1, <1>2, <1>5
<1>6. ASSUME NEW k \in LimitKeys, k \in ks, NEW X \in SUBSET Times
      PROVE  Total(accepted'[k], X) = 0
  <2>1. accepted'[k] \in [Times -> Nat] /\ IsFiniteSet(X) /\ \A t \in X : accepted'[k][t] = 0
    BY <1>3, <1>5, <1>6, ClockFacts, FS_Subset DEF LimitTypeOK
  <2>. QED
    BY <2>1, TotalZero
<1>7. ASSUME NEW k \in LimitKeys, k \notin ks
      PROVE  accepted'[k] = accepted[k] /\ buckets'[k] = buckets[k]
  BY <1>1, <1>7
<1>8. NothingLater'
  BY <1>1, <1>5, <1>7 DEF LimitIInv, NothingLater
<1>9. CountsAtMost(buckets)'
  BY <1>4, <1>5, <1>6, <1>7 DEF LimitIInv, BucketsTell, CountsAtMost
<1>10. CountsAtLeast(buckets)'
  BY <1>4, <1>5, <1>6, <1>7, SMTT(30) DEF LimitIInv, BucketsTell, CountsAtLeast
<1>11. Stamped(buckets)'
  BY <1>4, <1>5, <1>7 DEF LimitIInv, BucketsTell, Stamped
<1>12. LimitsHold'
  <2>. SUFFICES ASSUME NEW k \in LimitKeys, NEW w \in Windows(Config[k]), Covered(w.ticks)
                PROVE  AcceptedIn(k, w.ticks)' < w.limit + Max(Costs)
    BY DEF LimitsHold
  <2>1. AcceptedIn(k, w.ticks)' = Total(accepted'[k], InWindow(w.ticks))
    BY <1>4, NextAcceptedIn
  <2>2. CASE k \in ks
    <3>1. Total(accepted'[k], InWindow(w.ticks)) = 0
      BY <1>4, <1>6, <2>2
    <3>. QED
      BY <2>1, <3>1, WindowsBounded, LimitConstants
  <2>3. CASE k \notin ks
    BY <1>7, <2>1, <2>3, AcceptedInIsTotal DEF LimitsHold
  <2>. QED
    BY <2>2, <2>3
<1>. QED
  BY <1>3, <1>8, <1>9, <1>10, <1>11, <1>12 DEF LimitIInv, BucketsTell

LEMMA NextHorizon ==
  ASSUME NEW n
  PROVE  \A t : t \in InHorizon(n)' <=> t \in Times /\ now' - n < t
BY DEF InHorizon

\* Time passes: what leaves a window only makes it emptier.
LEMMA TickStep ==
  ASSUME LimitIInv, LimitsHold, Tick
  PROVE  LimitIInv' /\ LimitsHold'
<1>1. /\ now < MaxTime /\ now' = now + 1 /\ now \in Nat /\ now' \in Times /\ LimitTypeOK
      /\ buckets' = buckets /\ accepted' = accepted /\ lastCleanup' = lastCleanup
  BY LimitTypes, LimitConstants DEF Tick, LimitIInv, Times
<1>2. (buckets \in BucketsType)' /\ LimitTypeOK'
  BY <1>1 DEF LimitIInv, BucketsTell, LimitTypeOK, BucketsType
<1>3. NothingLater'
  <2>. SUFFICES ASSUME NEW k \in LimitKeys, NEW t \in Times, t > now'
                PROVE  accepted[k][t] = 0
    BY <1>1 DEF NothingLater
  <2>1. t \in Nat
    BY ClockFacts
  <2>2. t > now
    BY <1>1, <2>1
  <2>. QED
    BY <2>2 DEF LimitIInv, NothingLater
<1>4. CountsAtMost(buckets)'
  BY <1>1 DEF LimitIInv, BucketsTell, CountsAtMost
<1>5. ASSUME NEW n \in Nat
      PROVE  InHorizon(n)' \subseteq InHorizon(n)
  <2>. SUFFICES ASSUME NEW t \in InHorizon(n)'
                PROVE  t \in InHorizon(n)
    OBVIOUS
  <2>1. t \in Times /\ t \in Nat /\ now' - n < t
    BY NextHorizon, ClockFacts
  <2>2. now - n < t
    BY <1>1, <2>1
  <2>. QED
    BY <2>1, <2>2 DEF InHorizon
<1>6. Stamped(buckets)'
  BY <1>1, <1>5 DEF LimitIInv, BucketsTell, Stamped
<1>7. ASSUME NEW k \in LimitKeys, NEW X \in SUBSET Times, NEW Y \in SUBSET Times,
             \A t \in X : accepted[k][t] # 0 => t \in Y
      PROVE  /\ Total(accepted[k], X) <= Total(accepted[k], Y)
             /\ Total(accepted[k], X) \in Nat /\ Total(accepted[k], Y) \in Nat
  <2>. DEFINE f == accepted[k]
  <2>1. f \in [Times -> Nat] /\ IsFiniteSet(X) /\ IsFiniteSet(Y)
    BY <1>1, LimitTypes, ClockFacts, FS_Subset
  <2>2. \A t \in X : f[t] # 0 => t \in Y /\ f[t] <= f[t]
    <3>1. \A t \in X : f[t] \in Nat
      BY <2>1
    <3>. QED
      BY <1>7, <3>1
  <2>. HIDE DEF f
  <2>3. /\ Total(f, X) <= Total(f, Y) /\ Total(f, X) \in Nat /\ Total(f, Y) \in Nat
    BY <2>1, <2>2, TotalMonotone, TotalNat
  <2>. QED
    BY <2>3 DEF f
<1>8. CountsAtLeast(buckets)'
  <2>. SUFFICES ASSUME NEW k \in LimitKeys, NEW n \in Nat, Covered(n), NEW i \in Indexes
                PROVE  Total(accepted[k], Ticks(i) \cap InHorizon(n)') <= buckets[k][i].count
    BY <1>1 DEF CountsAtLeast
  <2>. DEFINE X == Ticks(i) \cap InHorizon(n)'
              Y == Ticks(i) \cap InHorizon(n)
  <2>1. X \in SUBSET Times /\ Y \in SUBSET Times /\ X \subseteq Y
    BY <1>5 DEF Ticks
  <2>2. Total(accepted[k], Y) <= buckets[k][i].count /\ buckets[k][i].count \in Nat
    BY CountsType DEF LimitIInv, BucketsTell, CountsAtLeast
  <2>. HIDE DEF X, Y
  <2>3. /\ Total(accepted[k], X) <= Total(accepted[k], Y)
        /\ Total(accepted[k], X) \in Nat /\ Total(accepted[k], Y) \in Nat
    BY <1>7, <2>1
  <2>4. Total(accepted[k], X) <= buckets[k][i].count
    BY <2>2, <2>3
  <2>. QED
    BY <2>4 DEF X
<1>9. LimitsHold'
  <2>. SUFFICES ASSUME NEW k \in LimitKeys, NEW w \in Windows(Config[k]), Covered(w.ticks)
                PROVE  AcceptedIn(k, w.ticks)' < w.limit + Max(Costs)
    BY DEF LimitsHold
  <2>. DEFINE n == w.ticks
              X == InWindow(n)'
              Y == InWindow(n)
  <2>1. n \in Nat \ {0} /\ w.limit \in Nat \ {0} /\ Max(Costs) \in Nat
    BY WindowsBounded, LimitConstants
  <2>2. X = {t \in Times : now' - n < t /\ t <= now'} /\ Y = {t \in Times : now - n < t /\ t <= now}
    BY DEF InWindow
  <2>3. \A t \in X : accepted[k][t] # 0 => t \in Y
    <3>. SUFFICES ASSUME NEW t \in X, accepted[k][t] # 0
                  PROVE  t \in Y
      OBVIOUS
    <3>1. t \in Times /\ t \in Nat /\ now' - n < t
      BY <2>2, ClockFacts
    <3>2. ~(t > now)
      BY <3>1 DEF LimitIInv, NothingLater
    <3>3. now - n < t /\ t <= now
      BY <1>1, <2>1, <3>1, <3>2
    <3>. QED
      BY <2>2, <3>1, <3>3
  <2>4. AcceptedIn(k, n)' = Total(accepted[k], X) /\ AcceptedIn(k, n) = Total(accepted[k], Y)
    BY <1>1, NextAcceptedIn, AcceptedInIsTotal
  <2>5. X \in SUBSET Times /\ Y \in SUBSET Times
    BY <2>2
  <2>6. AcceptedIn(k, n) < w.limit + Max(Costs)
    BY DEF LimitsHold
  <2>. HIDE DEF X, Y, n
  <2>7. /\ Total(accepted[k], X) <= Total(accepted[k], Y)
        /\ Total(accepted[k], X) \in Nat /\ Total(accepted[k], Y) \in Nat
    BY <1>7, <2>3, <2>5
  <2>8. AcceptedIn(k, n)' < w.limit + Max(Costs)
    BY <2>1, <2>4, <2>6, <2>7
  <2>. QED
    BY <2>8 DEF n
<1>. QED
  BY <1>2, <1>3, <1>4, <1>6, <1>8, <1>9 DEF LimitIInv, BucketsTell

LEMMA LimitStep ==
  ASSUME LimitIInv, LimitsHold, [LimitNext]_limitVars
  PROVE  LimitIInv' /\ LimitsHold'
<1>1. ASSUME NEW k \in LimitKeys, NEW cost \in Costs, Increment(k, cost)
      PROVE  LimitIInv' /\ LimitsHold'
  <2>. DEFINE bs == AfterCleanup(k)
  <2>1. BucketsTell(bs)
    BY CleanupKeeps
  <2>2. lastCleanup' \in Times /\ now' = now
    BY <1>1, LimitTypes DEF Increment, LimitIInv, LimitTypeOK
  <2>3. CASE /\ Exceeded(bs, k)
             /\ buckets' = bs
             /\ UNCHANGED accepted
    <3>. HIDE DEF bs
    <3>. QED
      BY <2>1, <2>2, <2>3, RefuseStep
  <2>4. CASE /\ ~Exceeded(bs, k)
             /\ buckets' = [bs EXCEPT ![k][now \div BucketSize]
                              = [count |-> @.count + cost, timestamp |-> now]]
             /\ accepted' = [accepted EXCEPT ![k][now] = @ + cost]
    <3>. HIDE DEF bs
    <3>. QED
      BY <2>1, <2>2, <2>4, AcceptStep
  <2>. QED
    BY <1>1, <2>3, <2>4 DEF Increment
<1>2. ASSUME UNCHANGED limitVars
      PROVE  LimitIInv' /\ LimitsHold'
  <2>1. /\ buckets' = buckets /\ accepted' = accepted /\ now' = now
        /\ lastCleanup' \in Times /\ BucketsTell(buckets)
    BY <1>2 DEF limitVars, LimitIInv, LimitTypeOK
  <2>. QED
    BY <2>1, RefuseStep
<1>. QED
  BY <1>1, <1>2, ResetStep, TickStep DEF LimitNext

LEMMA LimitInvariant == LimitSpec => [](LimitIInv /\ LimitsHold)
<1>1. LimitInit => LimitIInv /\ LimitsHold
  BY LimitStart
<1>2. (LimitIInv /\ LimitsHold) /\ [LimitNext]_limitVars => (LimitIInv /\ LimitsHold)'
  BY LimitStep
<1>. QED
  BY <1>1, <1>2, PTL DEF LimitSpec

\* With any keys, limits and costs, free requests and fractions of a credit included, and a bucket
\* and a clock of any length: what a window of a key holds, wherever it begins, exceeds its limit by
\* less than what one request counts for, as long as no key of the object cleans up what the window
\* covers (increment, cleanup).
THEOREM LimitsAlwaysHold == LimitSpec => []LimitsHold
BY LimitInvariant, PTL

\* Likewise nothing is refused for what is longer ago than its window and one bucket more,
\* whichever key cleans up (getBucketsInWindow, increment).
THEOREM RefusalsAlwaysJustified == LimitSpec => []RefusalsAreJustified
<1>1. ASSUME LimitIInv
      PROVE  RefusalsAreJustified
  <2>. SUFFICES ASSUME NEW k \in LimitKeys, Exceeded(buckets, k)
                PROVE  \E w \in Windows(Config[k]) : AcceptedIn(k, w.ticks + BucketSize) >= w.limit
    BY DEF RefusalsAreJustified
  <2>1. PICK w \in Windows(Config[k]) : CountIn(buckets, k, w.ticks) >= w.limit
    BY DEF Exceeded
  <2>. DEFINE counted == CountIn(buckets, k, w.ticks)
              within == AcceptedIn(k, w.ticks + BucketSize)
  <2>2. w.ticks \in Nat \ {0} /\ w.limit \in Nat
    BY WindowsBounded
  <2>3. counted <= within /\ counted \in Nat /\ within \in Nat
    BY <1>1, <2>2, CountsWithinWindow
  <2>. HIDE DEF counted, within
  <2>4. within >= w.limit
    BY <2>1, <2>2, <2>3 DEF counted
  <2>. QED
    BY <2>4 DEF within
<1>. QED
  BY <1>1, LimitInvariant, PTL

-----------------------------------------------------------------------------
(* The four parts together *)

\* A behaviour of the four together is one of each: what is proved of a part holds of the whole
\* that the run MCServices checks.
THEOREM ServicesAreTheirParts ==
  ServicesSpec => ClientSpec /\ LimitSpec /\ SdkSpec /\ AgenticSpec /\ AgenticFairness
<1>1. ServicesInit => ClientInit /\ LimitInit /\ SdkInit /\ AgenticInit
  BY DEF ServicesInit
<1>2. [ServicesNext]_<<clientVars, limitVars, sdkVars, agenticVars, service>>
        => /\ [ClientNext]_clientVars /\ [LimitNext]_limitVars
           /\ [SdkNext]_sdkVars /\ [AgenticNext]_agenticVars
  BY DEF ServicesNext
<1>. QED
  BY <1>1, <1>2, PTL DEF ServicesSpec, ClientSpec, LimitSpec, SdkSpec, AgenticSpec

\* Whatever a step of any part does, the state of every part keeps its type.
THEOREM ServicesTyped == ServicesSpec => []ServicesTypeOK
<1>1. LimitIInv => LimitTypeOK
  BY DEF LimitIInv
<1>2. SdkIInv => SdkTypeOK
  BY DEF SdkIInv
<1>3. ClientTypeOK /\ LimitTypeOK /\ SdkTypeOK /\ AgenticTypeOK => ServicesTypeOK
  BY DEF ServicesTypeOK
<1>. QED
  BY <1>1, <1>2, <1>3, ServicesAreTheirParts, ClientInvariant, LimitInvariant, SdkInvariant,
     AgenticTyped, PTL
=============================================================================
