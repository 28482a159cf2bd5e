--------------------------- MODULE SdkConnection ---------------------------
(***************************************************************************)
(* The connection of the client SDK to an agent: createAgentConnection     *)
(* (packages/sdk/src/ws.ts) as BuildSession (session.ts) uses it.  A URL   *)
(* with a fresh ticket is fetched for every attempt, a socket is opened,   *)
(* messages sent while there is no open socket are queued, and a closed    *)
(* socket is replaced after a delay.  Between the opening of a socket and  *)
(* the flush of the queue the caller's listeners run, which may send,      *)
(* close or throw.  A socket may be dead before its close event says so.   *)
(* The agent's side of each socket is what it has received on it.          *)
(***************************************************************************)
EXTENDS Integers, Sequences, FiniteSets, SequencesExt

CONSTANTS
    Sockets,         \* the sockets that may be opened, one after the other
    NoSocket,        \* ws = null
    Msgs,            \* the messages of the caller, each sent once
    Hello,           \* session_init, which the session sends on every open
    MaxPendingSends, \* maxPendingSends
    MaxRetries       \* retryCfg.maxRetries

ASSUME SdkAssumption ==
    /\ NoSocket \notin Sockets
    /\ Hello \notin Msgs
    /\ MaxPendingSends \in Nat \ {0}
    /\ MaxRetries \in Nat

VARIABLES
    fetching,          \* calls of connectNow at the await of getUrl
    reconnectTimer,    \* reconnectTimer is set
    reconnectAttempts, \* reconnectAttempts
    ws,                \* ws
    sockets,           \* the sockets as the network sees them
    isOpen,            \* isOpen
    opening,           \* how far onOpen is: "any" in the listeners before the session's, "open" in
                       \* those after it; "threw" when one of them threw, and "no" otherwise
    closedByUser,      \* closedByUser
    pendingSends,      \* pendingSends
    said,              \* history: what the caller sent, in order
    heard,             \* history: what the agent received, in order
    ahead,             \* history: sent on an open socket before the flush of the queue
    lost,              \* history: sent on a socket that was dead
    dropped,           \* history: a message was dropped by an overflow or by close()
    lateUrl            \* history: close() came while a URL was being fetched

sdkVars == <<fetching, reconnectTimer, reconnectAttempts, ws, sockets, isOpen, opening, closedByUser,
             pendingSends, said, heard, ahead, lost, dropped, lateUrl>>

connectVars == <<fetching, reconnectTimer, reconnectAttempts>>
socketVars == <<ws, sockets, isOpen, opening>>
historyVars == <<said, heard, ahead, lost, dropped, lateUrl>>

\* A socket is "dead" from the point after which what is sent on it does not arrive.
Live == {"connecting", "open", "dead"}

\* The shape of the state; the queue keeps its limit.
SdkTypeOK ==
    /\ fetching \in Nat
    /\ reconnectTimer \in BOOLEAN
    /\ reconnectAttempts \in 0..MaxRetries
    /\ ws \in Sockets \cup {NoSocket}
    /\ sockets \in [Sockets -> {"unborn", "connecting", "open", "dead", "closed"}]
    /\ isOpen \in BOOLEAN
    /\ opening \in {"no", "any", "open", "threw"}
    /\ closedByUser \in BOOLEAN
    /\ pendingSends \in Seq(Msgs) /\ Len(pendingSends) <= MaxPendingSends
    /\ said \in Seq(Msgs)
    /\ heard \in Seq([on : Sockets, msg : Msgs \cup {Hello}])
    /\ ahead \subseteq Msgs /\ lost \subseteq Msgs
    /\ dropped \in BOOLEAN
    /\ lateUrl \in BOOLEAN

SdkInit ==
    /\ fetching = 1
    /\ reconnectTimer = FALSE
    /\ reconnectAttempts = 0
    /\ ws = NoSocket
    /\ sockets = [s \in Sockets |-> "unborn"]
    /\ isOpen = FALSE
    /\ opening = "no"
    /\ closedByUser = FALSE
    /\ pendingSends = <<>>
    /\ said = <<>>
    /\ heard = <<>>
    /\ ahead = {} /\ lost = {}
    /\ dropped = FALSE
    /\ lateUrl = FALSE

On(s, msgs) == [i \in 1..Len(msgs) |-> [on |-> s, msg |-> msgs[i]]]

\* ws.send of msgs: they arrive, or are lost on a socket that is dead.
HandOver(msgs) ==
    IF sockets[ws] = "dead"
    THEN lost' = lost \cup (ToSet(msgs) \ {Hello}) /\ UNCHANGED heard
    ELSE heard' = heard \o On(ws, msgs) /\ UNCHANGED lost

-----------------------------------------------------------------------------
\* scheduleReconnect; of the error and the close of one failure only the first counts.
ScheduleReconnect ==
    IF closedByUser \/ reconnectAttempts >= MaxRetries \/ reconnectTimer
    THEN UNCHANGED <<reconnectTimer, reconnectAttempts>>
    ELSE reconnectTimer' = TRUE /\ reconnectAttempts' = reconnectAttempts + 1

\* The timer: connectNow fetches a URL, unless the caller has closed.
TimerConnects ==
    /\ reconnectTimer
    /\ reconnectTimer' = FALSE
    /\ fetching' = IF closedByUser THEN fetching ELSE fetching + 1
    /\ UNCHANGED <<reconnectAttempts, socketVars, closedByUser, pendingSends, historyVars>>

\* The URL is there and the socket is made; closedByUser is not looked at again.
UrlFetched(s) ==
    /\ fetching > 0
    /\ sockets[s] = "unborn" /\ s = CHOOSE t \in Sockets : sockets[t] = "unborn"
    /\ fetching' = fetching - 1
    /\ sockets' = [sockets EXCEPT ![s] = "connecting"]
    /\ ws' = s
    /\ UNCHANGED <<reconnectTimer, reconnectAttempts, isOpen, opening, closedByUser, pendingSends,
                   historyVars>>

\* A listener of ws:error that throws ends the handler before the reconnect.
UrlFails ==
    /\ fetching > 0
    /\ fetching' = fetching - 1
    /\ ScheduleReconnect \/ UNCHANGED <<reconnectTimer, reconnectAttempts>>
    /\ UNCHANGED <<socketVars, closedByUser, pendingSends, historyVars>>

-----------------------------------------------------------------------------
\* onOpen begins: the listeners of ws:open run before the flush.  A session that was closed has let
\* go of the connection and its listeners send nothing.
Opens(s) ==
    /\ sockets[s] = "connecting"
    /\ sockets' = [sockets EXCEPT ![s] = "open"]
    /\ isOpen' = TRUE
    /\ opening' = IF closedByUser THEN "no" ELSE "any"
    /\ reconnectAttempts' = 0
    /\ UNCHANGED <<fetching, reconnectTimer, ws, closedByUser, pendingSends, historyVars>>

\* The session's own listener, after those of onAny and before the others of on.
SaysHello ==
    /\ opening = "any"
    /\ opening' = "open"
    /\ HandOver(<<Hello>>)
    /\ UNCHANGED <<connectVars, ws, sockets, isOpen, closedByUser, pendingSends, said, ahead, dropped,
                   lateUrl>>

\* Mutant: the queue is sent but not emptied.
FlushesKeepingQueue ==
    /\ opening = "open"
    /\ opening' = "no"
    /\ HandOver(pendingSends)
    /\ UNCHANGED <<connectVars, ws, sockets, isOpen, closedByUser, pendingSends, said, ahead, dropped,
                   lateUrl>>

\* flushPendingSends, when all listeners have returned.
Flushes ==
    /\ opening = "open"
    /\ opening' = "no"
    /\ HandOver(pendingSends)
    /\ pendingSends' = <<>>
    /\ UNCHANGED <<connectVars, ws, sockets, isOpen, closedByUser, said, ahead, dropped, lateUrl>>

\* A listener of ws:open throws: the rest of onOpen is skipped, and the queue waits for the next socket.
ListenerThrows ==
    /\ opening \in {"any", "open"}
    /\ opening' = "threw"
    /\ UNCHANGED <<connectVars, ws, sockets, isOpen, closedByUser, pendingSends, historyVars>>

\* The connection breaks; the client does not know it yet.
Dies(s) ==
    /\ sockets[s] = "open"
    /\ sockets' = [sockets EXCEPT ![s] = "dead"]
    /\ UNCHANGED <<connectVars, ws, isOpen, opening, closedByUser, pendingSends, historyVars>>

\* onError and onClose of a socket that fails, or onClose of one that the agent closes; not within
\* onOpen, and without a reconnect if a listener of theirs throws.
Fails(s) ==
    /\ sockets[s] \in Live
    /\ opening \notin {"any", "open"}
    /\ sockets' = [sockets EXCEPT ![s] = "closed"]
    /\ isOpen' = FALSE
    /\ opening' = "no"
    /\ ScheduleReconnect \/ UNCHANGED <<reconnectTimer, reconnectAttempts>>
    /\ UNCHANGED <<fetching, ws, closedByUser, pendingSends, historyVars>>

-----------------------------------------------------------------------------
\* Mutant: the limit of the queue is not looked at.
SendGrows(m) ==
    /\ ~closedByUser
    /\ ~Contains(said, m)
    /\ said' = Append(said, m)
    /\ IF isOpen
       THEN HandOver(<<m>>) /\ UNCHANGED pendingSends
       ELSE pendingSends' = Append(pendingSends, m) /\ UNCHANGED <<heard, lost>>
    /\ ahead' = IF opening = "no" THEN ahead ELSE ahead \cup {m}
    /\ UNCHANGED dropped
    /\ UNCHANGED <<connectVars, socketVars, closedByUser, lateUrl>>

\* send(), also by a listener: at once on a socket that is taken to be open, else into the queue,
\* whose oldest message makes room.
Send(m) ==
    /\ ~closedByUser
    /\ ~Contains(said, m)
    /\ said' = Append(said, m)
    /\ ahead' = IF opening = "no" THEN ahead ELSE ahead \cup {m}
    /\ IF isOpen
       THEN HandOver(<<m>>) /\ UNCHANGED <<pendingSends, dropped>>
       ELSE LET queue == Append(pendingSends, m)
            IN  /\ pendingSends' = IF Len(queue) > MaxPendingSends THEN Tail(queue) ELSE queue
                /\ dropped' = (dropped \/ Len(queue) > MaxPendingSends)
                /\ UNCHANGED <<heard, lost>>
    /\ UNCHANGED <<connectVars, socketVars, closedByUser, lateUrl>>

\* Mutant: close() forgets the socket without closing it.
CloseKeepsSocket ==
    /\ ~closedByUser
    /\ closedByUser' = TRUE
    /\ isOpen' = FALSE
    /\ opening' = "no"
    /\ dropped' = (dropped \/ pendingSends # <<>>)
    /\ pendingSends' = <<>>
    /\ reconnectTimer' = FALSE
    /\ lateUrl' = (fetching > 0)
    /\ ws' = NoSocket
    /\ UNCHANGED <<fetching, reconnectAttempts, sockets, said, heard, ahead, lost>>

\* close() of the session and of its connection, also by a listener; flushPendingSends then returns.
Close ==
    /\ ~closedByUser
    /\ closedByUser' = TRUE
    /\ isOpen' = FALSE
    /\ opening' = "no"
    /\ dropped' = (dropped \/ pendingSends # <<>>)
    /\ pendingSends' = <<>>
    /\ reconnectTimer' = FALSE
    /\ lateUrl' = (fetching > 0)
    /\ sockets' = [s \in Sockets |-> IF s = ws /\ sockets[s] \in Live THEN "closed" ELSE sockets[s]]
    /\ ws' = NoSocket
    /\ UNCHANGED <<fetching, reconnectAttempts, said, heard, ahead, lost>>

SdkNext ==
    \/ TimerConnects
    \/ \E s \in Sockets : UrlFetched(s) \/ Opens(s) \/ Dies(s) \/ Fails(s)
    \/ UrlFails
    \/ SaysHello
    \/ Flushes
    \/ ListenerThrows
    \/ \E m \in Msgs : Send(m)
    \/ Close

SdkSpec == SdkInit /\ [][SdkNext]_sdkVars

-----------------------------------------------------------------------------
(* Properties *)

\* At most one socket is up, it is the one that messages go to, and nothing is on its way to a
\* second: neither a timer nor a URL.  After close() a socket comes up only if close() came while
\* a URL was being fetched.
OneSocket ==
    /\ \A s \in Sockets : sockets[s] \in Live =>
           /\ ws = s
           /\ fetching = 0 /\ ~reconnectTimer
           /\ closedByUser => lateUrl
    /\ fetching + (IF reconnectTimer THEN 1 ELSE 0) <= 1
    /\ isOpen => ws # NoSocket /\ sockets[ws] \in {"open", "dead"}

\* Where heard has the caller's messages; and m comes before n in s.
Arrived == {i \in 1..Len(heard) : heard[i].msg # Hello}
Precedes(s, m, n) == \E k, l \in 1..Len(s) : k < l /\ s[k] = m /\ s[l] = n

Overtakes(m, n) == ~Precedes(said, m, n)

\* Over all the sockets of a connection, the agent receives what the caller sent and nothing twice.
\* A message overtakes one that was sent before it only if it was sent between the opening of a
\* socket and the flush of the queue (by a listener of ws:open, or after one threw), and only such a
\* message may come on a socket before the session's.  What still waits is in order.  Nothing is
\* missing unless the queue overflowed or was closed, or the message was sent on a dead socket.
HeardInOrder ==
    /\ \A i \in Arrived : Contains(said, heard[i].msg)
    /\ \A i, j \in Arrived : i < j =>
           /\ heard[i].msg # heard[j].msg
           /\ Overtakes(heard[i].msg, heard[j].msg) => heard[i].msg \in ahead
    /\ \A i \in Arrived, k \in 1..Len(pendingSends) :
           /\ heard[i].msg # pendingSends[k]
           /\ Overtakes(heard[i].msg, pendingSends[k]) => heard[i].msg \in ahead
    /\ \A k, l \in 1..Len(pendingSends) : k < l =>
           /\ pendingSends[k] # pendingSends[l]
           /\ Precedes(said, pendingSends[k], pendingSends[l])
    /\ ~dropped => \A n \in 1..Len(said) :
           \/ \E i \in Arrived : heard[i].msg = said[n]
           \/ Contains(pendingSends, said[n])
           \/ said[n] \in lost
    /\ \A i \in 1..Len(heard) :
           (i = 1 \/ heard[i - 1].on # heard[i].on) => heard[i].msg \in ahead \cup {Hello}
=============================================================================
