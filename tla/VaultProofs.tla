---------------------------- MODULE VaultProofs ----------------------------
(* Proofs about Vault, for any number of tabs and any bounds, and about MCUser, which puts it
   together with Conversation. *)
EXTENDS MCUser, ConversationProofs, SequenceTheorems, TLAPS

Connections == [tab : Tabs, inbox : Seq(Message), ready : BOOLEAN, open : BOOLEAN,
                late : BOOLEAN]

-----------------------------------------------------------------------------
(* The inductive invariant                                                 *)

\* A message that carries a key carries v, which is a key.
Fits(m, v) == m.type \in {"init", "store"} => m.key = v /\ v # 0

AllFit(ss, v) == \A s \in DOMAIN ss : \A i \in DOMAIN ss[s].inbox : Fits(ss[s].inbox[i], v)

SessionFits == session # NoSession => session.key = vault /\ vault # 0

RowsFit == \A i \in DOMAIN secrets : secrets[i].key = vault /\ vault # 0

TabFits(t) ==
  /\ tabs[t].vmk \in {0, vault}
  /\ tabs[t].pending \in {0, vault}
  /\ tabs[t].step \in {"deriving", "connecting"} => tabs[t].pending # 0

\* KeysAgree, and where the keys of the session and of the rows come from: what
\* the tabs hold and what is on its way.
KeysFollow ==
  ~resetUnder =>
    /\ SessionFits
    /\ RowsFit
    /\ \A t \in Tabs : TabFits(t)
    /\ AllFit(sockets, vault)

-----------------------------------------------------------------------------
(* Connections                                                             *)

LEMMA ConnectionChanged ==
  ASSUME VaultTypeOK, NEW v, NEW s, NEW e,
         s \in DOMAIN sockets => e \in Connections
  PROVE  LET ss == [sockets EXCEPT ![s] = e]
         IN  /\ ss \in Seq(Connections)
             /\ (/\ AllFit(sockets, v)
                 /\ s \in DOMAIN sockets => \A i \in DOMAIN e.inbox : Fits(e.inbox[i], v))
                   => AllFit(ss, v)
<1>. DEFINE ss == [sockets EXCEPT ![s] = e]
<1>1. sockets \in Seq(Connections) /\ DOMAIN sockets = 1..Len(sockets)
  BY LenProperties DEF VaultTypeOK, Connections
<1>2. DOMAIN ss = DOMAIN sockets /\ \A r \in DOMAIN sockets : ss[r] = IF r = s THEN e ELSE sockets[r]
  BY <1>1
<1>3. ss \in Seq(Connections)
  <2>1. CASE s \in DOMAIN sockets
    BY <1>1, <2>1, ExceptSeq
  <2>2. CASE s \notin DOMAIN sockets
    <3>1. ss = sockets
      BY <1>1, <2>2
    <3>. QED
      BY <1>1, <3>1
  <2>. QED
    BY <2>1, <2>2
<1>4. ASSUME AllFit(sockets, v),
             s \in DOMAIN sockets => \A i \in DOMAIN e.inbox : Fits(e.inbox[i], v)
      PROVE  AllFit(ss, v)
  BY <1>2, <1>4 DEF AllFit
<1>. QED
  BY <1>3, <1>4

LEMMA ConnectionType ==
  ASSUME VaultTypeOK, NEW s \in DOMAIN sockets
  PROVE  /\ sockets[s] \in Connections
         /\ sockets[s].inbox \in Seq(Message)
<1>1. sockets \in Seq(Connections)
  BY DEF VaultTypeOK, Connections
<1>2. s \in 1..Len(sockets)
  BY <1>1, LenProperties
<1>3. sockets[s] \in Connections
  BY <1>1, <1>2, ElementOfSeq
<1>. QED
  BY <1>3 DEF Connections

\* Sending puts messages at the end of an inbox.
LEMMA SentType ==
  ASSUME VaultTypeOK, NEW v, NEW s, NEW ms \in Seq(Message)
  PROVE  /\ Sent(sockets, s, ms) \in Seq(Connections)
         /\ AllFit(sockets, v) /\ (\A i \in DOMAIN ms : Fits(ms[i], v))
              => AllFit(Sent(sockets, s, ms), v)
<1>1. CASE s = 0
  BY <1>1 DEF Sent, VaultTypeOK, Connections
<1>2. CASE s # 0
  <2>. DEFINE e == [sockets[s] EXCEPT !.inbox = @ \o ms]
  <2>1. Sent(sockets, s, ms) = [sockets EXCEPT ![s] = e]
    BY <1>2 DEF Sent
  <2>2. ASSUME s \in DOMAIN sockets
        PROVE  /\ e \in Connections /\ e.inbox = sockets[s].inbox \o ms
               /\ sockets[s].inbox \o ms \in Seq(Message)
    BY <2>2, ConnectionType, ConcatProperties DEF Connections
  <2>3. ASSUME s \in DOMAIN sockets, AllFit(sockets, v), \A i \in DOMAIN ms : Fits(ms[i], v)
        PROVE  \A i \in DOMAIN e.inbox : Fits(e.inbox[i], v)
    <3>. DEFINE q == sockets[s].inbox
    <3>1. /\ q \in Seq(Message) /\ DOMAIN q = 1..Len(q) /\ Len(q) \in Nat
          /\ DOMAIN ms = 1..Len(ms) /\ Len(ms) \in Nat
          /\ DOMAIN (q \o ms) = 1..(Len(q) + Len(ms))
          /\ \A i \in 1..(Len(q) + Len(ms)) :
                (q \o ms)[i] = IF i <= Len(q) THEN q[i] ELSE ms[i - Len(q)]
      BY <2>3, ConnectionType, LenProperties, ConcatProperties
    <3>2. \A i \in DOMAIN q : Fits(q[i], v)
      BY <2>3 DEF AllFit
    <3>3. ASSUME NEW i \in DOMAIN (q \o ms)
          PROVE  Fits((q \o ms)[i], v)
      <4>1. CASE i <= Len(q)
        BY <3>1, <3>2, <4>1
      <4>2. CASE i > Len(q)
        <5>1. i - Len(q) \in DOMAIN ms /\ (q \o ms)[i] = ms[i - Len(q)]
          BY <3>1, <4>2, SMTT(30)
        <5>. QED
          BY <2>3, <5>1
      <4>. QED
        BY <3>1, <4>1, <4>2
    <3>. QED
      BY <2>2, <2>3, <3>3
  <2>. QED
    <3>. HIDE DEF e
    <3>1. s \in DOMAIN sockets => e \in Connections
      BY <2>2
    <3>2. /\ [sockets EXCEPT ![s] = e] \in Seq(Connections)
          /\ (/\ AllFit(sockets, v)
              /\ s \in DOMAIN sockets => \A i \in DOMAIN e.inbox : Fits(e.inbox[i], v))
                => AllFit([sockets EXCEPT ![s] = e], v)
      BY <3>1, ConnectionChanged
    <3>. QED
      BY <2>1, <2>3, <3>2
<1>. QED
  BY <1>1, <1>2

LEMMA GoodbyeType ==
  ASSUME VaultTypeOK, NEW v, NEW s
  PROVE  /\ Goodbye(sockets, s) \in Seq(Connections)
         /\ AllFit(sockets, v) => AllFit(Goodbye(sockets, s), v)
<1>. DEFINE ms == <<[type |-> "close"], [type |-> "closed"]>>
<1>1. ms \in Seq(Message)
  BY DEF Message
<1>2. \A i \in DOMAIN ms : Fits(ms[i], v)
  BY DEF Fits
<1>. QED
  BY <1>1, <1>2, SentType DEF Goodbye

-----------------------------------------------------------------------------
(* What each action does to the connections                                *)

LEMMA FlagType ==
  ASSUME VaultTypeOK, NEW v, NEW s, NEW e,
         s \in DOMAIN sockets => e \in Connections /\ e.inbox = sockets[s].inbox
  PROVE  /\ [sockets EXCEPT ![s] = e] \in Seq(Connections)
         /\ AllFit(sockets, v) => AllFit([sockets EXCEPT ![s] = e], v)
<1>1. ASSUME AllFit(sockets, v), s \in DOMAIN sockets
      PROVE  \A i \in DOMAIN e.inbox : Fits(e.inbox[i], v)
  BY <1>1 DEF AllFit
<1>. QED
  BY <1>1, ConnectionChanged

LEMMA ConnectWires ==
  ASSUME VaultTypeOK, NEW t \in Tabs, Connect(t), NEW v
  PROVE  /\ sockets' \in Seq(Connections)
         /\ AllFit(sockets, v) /\ tabs[t].pending = v /\ v # 0 => AllFit(sockets', v)
<1>. DEFINE m == [type |-> "init", key |-> tabs[t].pending]
            e == [tab |-> t, inbox |-> <<m>>, ready |-> FALSE, open |-> TRUE, late |-> FALSE]
<1>1. tabs[t].pending \in Keys
  BY DEF VaultTypeOK, Tab
<1>2. m \in Message
  BY <1>1 DEF Message
<1>3. e \in Connections
  BY <1>2 DEF Connections
<1>4. sockets \in Seq(Connections) /\ sockets' = Append(sockets, e)
  BY DEF Connect, VaultTypeOK, Connections
<1>5. /\ sockets' \in Seq(Connections)
      /\ DOMAIN sockets' = 1..(Len(sockets) + 1) /\ DOMAIN sockets = 1..Len(sockets)
      /\ Len(sockets) \in Nat
      /\ \A s \in 1..Len(sockets) : sockets'[s] = sockets[s]
      /\ sockets'[Len(sockets) + 1] = e
  BY <1>3, <1>4, AppendProperties, LenProperties
<1>6. ASSUME AllFit(sockets, v), tabs[t].pending = v, v # 0, NEW s \in DOMAIN sockets',
             NEW i \in DOMAIN sockets'[s].inbox
      PROVE  Fits(sockets'[s].inbox[i], v)
  <2>1. CASE s \in DOMAIN sockets
    BY <1>5, <1>6, <2>1 DEF AllFit
  <2>2. CASE s \notin DOMAIN sockets
    <3>1. s = Len(sockets) + 1
      BY <1>5, <2>2
    <3>2. sockets'[s].inbox = <<m>>
      BY <1>5, <3>1
    <3>3. sockets'[s].inbox[i] = m
      BY <1>6, <3>2
    <3>. QED
      BY <1>6, <3>3 DEF Fits
  <2>. QED
    BY <2>1, <2>2
<1>. QED
  BY <1>5, <1>6 DEF AllFit

LEMMA ReadyWires ==
  ASSUME VaultTypeOK, NEW t \in Tabs, NEW s \in DOMAIN sockets, Ready(t, s), NEW v
  PROVE  sockets' \in Seq(Connections) /\ (AllFit(sockets, v) => AllFit(sockets', v))
<1>. DEFINE e == [sockets[s] EXCEPT !.ready = FALSE]
<1>1. sockets' = [sockets EXCEPT ![s] = e]
  BY DEF Ready
<1>2. e \in Connections /\ e.inbox = sockets[s].inbox
  BY ConnectionType DEF Connections
<1>. HIDE DEF e
<1>. QED
  BY <1>1, <1>2, FlagType

LEMMA TimesOutWires ==
  ASSUME VaultTypeOK, NEW t \in Tabs, ConnectTimesOut(t), NEW v
  PROVE  sockets' \in Seq(Connections) /\ (AllFit(sockets, v) => AllFit(sockets', v))
<1>. DEFINE s == tabs[t].conn
            e == [sockets[s] EXCEPT !.late = TRUE]
<1>1. sockets' = [sockets EXCEPT ![s] = e]
  BY DEF ConnectTimesOut
<1>2. s \in DOMAIN sockets => e \in Connections /\ e.inbox = sockets[s].inbox
  BY ConnectionType DEF Connections
<1>. HIDE DEF e, s
<1>. QED
  BY <1>1, <1>2, FlagType

LEMMA TabLeavesWires ==
  ASSUME VaultTypeOK, NEW t \in Tabs, NEW unload \in BOOLEAN, TabLeaves(t, unload), NEW v
  PROVE  sockets' \in Seq(Connections) /\ (AllFit(sockets, v) => AllFit(sockets', v))
<1>. DEFINE closed == [type |-> "closed"]
            shut(s) == [sockets[s] EXCEPT !.inbox = Append(@, closed)]
<1>1. /\ DOMAIN sockets' = DOMAIN sockets
      /\ \A s \in DOMAIN sockets : sockets'[s] = sockets[s] \/ sockets'[s] = shut(s)
      /\ sockets' = [s \in DOMAIN sockets |-> sockets'[s]]
  BY DEF TabLeaves
<1>2. sockets \in Seq(Connections) /\ DOMAIN sockets = 1..Len(sockets) /\ Len(sockets) \in Nat
  BY LenProperties DEF VaultTypeOK, Connections
<1>3. closed \in Message
  BY DEF Message
<1>4. ASSUME NEW s \in DOMAIN sockets
      PROVE  /\ shut(s) \in Connections
             /\ DOMAIN shut(s).inbox = 1..(Len(sockets[s].inbox) + 1)
             /\ \A i \in 1..Len(sockets[s].inbox) : shut(s).inbox[i] = sockets[s].inbox[i]
             /\ shut(s).inbox[Len(sockets[s].inbox) + 1] = closed
  <2>1. sockets[s] \in Connections /\ sockets[s].inbox \in Seq(Message)
    BY ConnectionType
  <2>2. shut(s).inbox = Append(sockets[s].inbox, closed)
    BY <2>1 DEF Connections
  <2>3. /\ Append(sockets[s].inbox, closed) \in Seq(Message)
        /\ DOMAIN Append(sockets[s].inbox, closed) = 1..(Len(sockets[s].inbox) + 1)
        /\ \A i \in 1..Len(sockets[s].inbox) :
             Append(sockets[s].inbox, closed)[i] = sockets[s].inbox[i]
        /\ Append(sockets[s].inbox, closed)[Len(sockets[s].inbox) + 1] = closed
    BY <1>3, <2>1, AppendProperties, LenProperties
  <2>4. shut(s) \in Connections
    BY <2>1, <2>3 DEF Connections
  <2>. QED
    BY <2>2, <2>3, <2>4
<1>5. \A s \in DOMAIN sockets : sockets'[s] \in Connections
  BY <1>1, <1>4, ConnectionType
<1>6. sockets' \in Seq(Connections)
  BY <1>1, <1>2, <1>5
<1>7. ASSUME AllFit(sockets, v), NEW s \in DOMAIN sockets', NEW i \in DOMAIN sockets'[s].inbox
      PROVE  Fits(sockets'[s].inbox[i], v)
  <2>1. s \in DOMAIN sockets
    BY <1>1
  <2>2. CASE sockets'[s] = sockets[s]
    BY <1>7, <2>1, <2>2 DEF AllFit
  <2>3. CASE sockets'[s] = shut(s)
    <3>1. /\ DOMAIN sockets[s].inbox = 1..Len(sockets[s].inbox)
          /\ Len(sockets[s].inbox) \in Nat
      BY <2>1, ConnectionType, LenProperties
    <3>. HIDE DEF shut
    <3>2. CASE i \in DOMAIN sockets[s].inbox
      BY <1>4, <1>7, <2>1, <2>3, <3>1, <3>2 DEF AllFit
    <3>3. CASE i \notin DOMAIN sockets[s].inbox
      <4>1. sockets'[s].inbox[i] = closed
        BY <1>4, <1>7, <2>1, <2>3, <3>1, <3>3
      <4>. QED
        BY <4>1 DEF Fits
    <3>. QED
      BY <3>2, <3>3
  <2>. QED
    BY <1>1, <2>1, <2>2, <2>3
<1>. QED
  BY <1>6, <1>7 DEF AllFit

LEMMA DropsWires ==
  ASSUME VaultTypeOK, NEW s \in DOMAIN sockets, NEW remaining \in 0..Len(sockets[s].inbox),
         SocketDrops(s, remaining), NEW v
  PROVE  sockets' \in Seq(Connections) /\ (AllFit(sockets, v) => AllFit(sockets', v))
<1>. DEFINE closed == [type |-> "closed"]
            q == sockets[s].inbox
            cut == SubSeq(q, 1, remaining)
            e == [sockets[s] EXCEPT !.inbox = Append(cut, closed)]
<1>1. sockets' = [sockets EXCEPT ![s] = e]
  BY DEF SocketDrops
<1>2. /\ sockets[s] \in Connections /\ q \in Seq(Message)
      /\ DOMAIN q = 1..Len(q) /\ Len(q) \in Nat /\ remaining \in Int
      /\ closed \in Message
  BY ConnectionType, LenProperties DEF Message
<1>3. \A i \in 1..remaining : q[i] \in Message
  BY <1>2, ElementOfSeq
<1>4. cut \in Seq(Message) /\ Len(cut) = remaining /\ \A i \in 1..remaining : cut[i] = q[i]
  <2>1. /\ cut \in Seq(Message)
        /\ Len(cut) = IF 1 <= remaining THEN remaining - 1 + 1 ELSE 0
        /\ \A i \in 1..remaining - 1 + 1 : cut[i] = q[1 + i - 1]
    BY <1>2, <1>3, SubSeqProperties
  <2>2. remaining = 0 \/ 1 <= remaining
    OBVIOUS
  <2>. QED
    BY <2>1, <2>2
<1>5. /\ Append(cut, closed) \in Seq(Message)
      /\ DOMAIN Append(cut, closed) = 1..(remaining + 1)
      /\ \A i \in 1..remaining : Append(cut, closed)[i] = q[i]
      /\ Append(cut, closed)[remaining + 1] = closed
  BY <1>2, <1>4, AppendProperties, LenProperties
<1>6. e \in Connections /\ e.inbox = Append(cut, closed)
  BY <1>2, <1>5 DEF Connections
<1>7. ASSUME AllFit(sockets, v), NEW i \in DOMAIN e.inbox
      PROVE  Fits(e.inbox[i], v)
  <2>1. CASE i \in 1..remaining
    <3>1. e.inbox[i] = q[i] /\ i \in DOMAIN q
      BY <1>2, <1>5, <1>6, <2>1
    <3>. QED
      BY <1>7, <3>1 DEF AllFit
  <2>2. CASE i \notin 1..remaining
    <3>1. i = remaining + 1
      BY <1>5, <1>6, <1>7, <2>2
    <3>. QED
      BY <1>5, <1>6, <3>1 DEF Fits
  <2>. QED
    BY <2>1, <2>2
<1>. HIDE DEF e
<1>. QED
  BY <1>1, <1>6, <1>7, ConnectionChanged

LEMMA DeliverWires ==
  ASSUME VaultTypeOK, NEW s \in DOMAIN sockets, Deliver(s), NEW v
  PROVE  /\ sockets' \in Seq(Connections)
         /\ AllFit(sockets, v) => AllFit(sockets', v)
         /\ Head(sockets[s].inbox) \in Message
         /\ AllFit(sockets, v) => Fits(Head(sockets[s].inbox), v)
<1>. DEFINE q == sockets[s].inbox
            m == Head(q)
            e == IF m.type = "closed" THEN ClosedSocketOf(sockets[s].tab)
                 ELSE [sockets[s] EXCEPT !.inbox = Tail(q), !.ready = @ \/ m.type = "init"]
<1>1. sockets' = [sockets EXCEPT ![s] = e]
  BY DEF Deliver
<1>2. /\ sockets[s] \in Connections /\ q \in Seq(Message)
      /\ DOMAIN q = 1..Len(q) /\ Len(q) \in Nat /\ q # <<>> /\ Len(q) # 0
  BY ConnectionType, LenProperties, EmptySeq DEF Deliver
<1>3. /\ m \in Message /\ m = q[1] /\ 1 \in DOMAIN q
      /\ Tail(q) \in Seq(Message)
      /\ DOMAIN Tail(q) = 1..(Len(q) - 1)
      /\ \A i \in 1..(Len(q) - 1) : Tail(q)[i] = q[i + 1]
  BY <1>2, HeadTailProperties, LenProperties
<1>4. AllFit(sockets, v) => Fits(m, v)
  BY <1>3 DEF AllFit
<1>5. CASE m.type = "closed"
  <2>1. e \in Connections /\ e.inbox = <<>>
    BY <1>2, <1>5 DEF ClosedSocketOf, Connections
  <2>. HIDE DEF e
  <2>2. \A i \in DOMAIN e.inbox : Fits(e.inbox[i], v)
    BY <2>1
  <2>. QED
    BY <1>1, <1>3, <1>4, <2>1, <2>2, ConnectionChanged
<1>6. CASE m.type # "closed"
  <2>1. e \in Connections /\ e.inbox = Tail(q)
    BY <1>2, <1>3, <1>6 DEF Connections
  <2>. HIDE DEF e
  <2>2. ASSUME AllFit(sockets, v), NEW i \in DOMAIN e.inbox
        PROVE  Fits(e.inbox[i], v)
    <3>1. e.inbox[i] = q[i + 1] /\ i + 1 \in DOMAIN q
      BY <1>2, <1>3, <2>1, <2>2
    <3>. QED
      BY <2>2, <3>1 DEF AllFit
  <2>. QED
    BY <1>1, <1>3, <1>4, <2>1, <2>2, ConnectionChanged
<1>. QED
  BY <1>5, <1>6

-----------------------------------------------------------------------------
(* Types                                                                   *)

\* What the wires and the tabs carry is all that the other conjuncts need.
RestTyped ==
  /\ vault \in Keys
  /\ keys \in 0..MaxKeys
  /\ secrets \in Seq([key : Keys, deleted : BOOLEAN])
  /\ session \in [key : Keys, socket : Nat, expired : BOOLEAN]
  /\ resetUnder \in BOOLEAN

LEMMA TypeParts ==
  VaultTypeOK <=> RestTyped /\ sockets \in Seq(Connections) /\ tabs \in [Tabs -> Tab]
BY DEF VaultTypeOK, RestTyped, Connections

LEMMA NoSessionType == NoSession \in [key : Keys, socket : Nat, expired : BOOLEAN]
BY VaultAssumption DEF NoSession, Keys

LEMMA TabChanged ==
  ASSUME tabs \in [Tabs -> Tab], NEW t \in Tabs, NEW e \in Tab
  PROVE  [tabs EXCEPT ![t] = e] \in [Tabs -> Tab]
OBVIOUS

LEMMA TabMoves ==
  ASSUME VaultTypeOK, NEW t \in Tabs, TabStep(t)
  PROVE  tabs' \in [Tabs -> Tab]
<1>0. /\ tabs \in [Tabs -> Tab] /\ tabs[t] \in Tab
      /\ vault \in Keys /\ keys \in 0..MaxKeys
      /\ sockets \in Seq(Connections)
      /\ 0 \in Keys
  BY TypeParts, VaultAssumption DEF RestTyped, Keys
<1>. DEFINE Moves == \E e \in Tab : tabs' = [tabs EXCEPT ![t] = e]
<1>. SUFFICES ASSUME ~UNCHANGED tabs PROVE Moves
  BY <1>0, TabChanged
<1>1. CASE SetupVault(t)
  <2>1. keys < MaxKeys => keys + 1 \in Keys
    BY <1>0, VaultAssumption DEF Keys
  <2>2. CASE vault = 0 /\ keys < MaxKeys
    <3>. DEFINE e == [tabs[t] EXCEPT !.step = "deriving", !.pending = keys + 1,
                                     !.codeRefused = FALSE]
    <3>1. tabs' = [tabs EXCEPT ![t] = e]
      BY <1>0, <1>1, <2>2 DEF SetupVault
    <3>2. e \in Tab
      BY <1>0, <2>1, <2>2 DEF Tab
    <3>. QED
      BY <3>1, <3>2
  <2>3. CASE ~(vault = 0 /\ keys < MaxKeys)
    <3>. DEFINE e == [tabs[t] EXCEPT !.codeRefused = FALSE]
    <3>1. tabs' = [tabs EXCEPT ![t] = e]
      BY <1>0, <1>1, <2>3 DEF SetupVault
    <3>2. e \in Tab
      BY <1>0 DEF Tab
    <3>. QED
      BY <3>1, <3>2
  <2>. QED
    BY <2>2, <2>3
<1>2. ASSUME NEW method \in {"password", "recovery"}, UnlockDerives(t, method)
      PROVE  Moves
  <2>. DEFINE k == DerivedKey(vault, method)
              opened == [tabs[t] EXCEPT !.step = "deriving", !.pending = k, !.codeRefused = FALSE]
              refused == [tabs[t] EXCEPT !.codeRefused = TRUE]
  <2>1. \/ k = vault /\ tabs' = [tabs EXCEPT ![t] = opened]
        \/ tabs' = [tabs EXCEPT ![t] = refused]
    BY <1>0, <1>2 DEF UnlockDerives, Verifies
  <2>2. (k = vault => opened \in Tab) /\ refused \in Tab
    BY <1>0 DEF Tab
  <2>. QED
    BY <2>1, <2>2
<1>3. CASE Connect(t)
  <2>1. Len(sockets) + 1 \in Nat
    BY <1>0, LenProperties
  <2>. DEFINE e == [tabs[t] EXCEPT !.step = "connecting", !.conn = Len(sockets) + 1]
  <2>2. tabs' = [tabs EXCEPT ![t] = e]
    BY <1>0, <1>3 DEF Connect
  <2>3. e \in Tab
    BY <1>0, <2>1 DEF Tab
  <2>. QED
    BY <2>2, <2>3
<1>4. ASSUME NEW s \in DOMAIN sockets, Ready(t, s)
      PROVE  Moves
  <2>1. s \in Nat
    BY <1>0, LenProperties
  <2>. DEFINE e == [tabs[t] EXCEPT !.ws = s, !.step = "idle", !.status = "unlocked",
                                   !.vmk = tabs[t].pending, !.pending = 0, !.conn = 0]
              late == [tabs[t] EXCEPT !.ws = s]
  <2>2. tabs' = [tabs EXCEPT ![t] = e] \/ tabs' = [tabs EXCEPT ![t] = late]
    BY <1>0, <1>4 DEF Ready
  <2>3. e \in Tab /\ late \in Tab
    BY <1>0, <2>1 DEF Tab
  <2>. QED
    BY <2>2, <2>3
<1>5. CASE ConnectTimesOut(t)
  <2>. DEFINE e == [tabs[t] EXCEPT !.step = "idle", !.pending = 0, !.conn = 0]
  <2>1. tabs' = [tabs EXCEPT ![t] = e]
    BY <1>0, <1>5 DEF ConnectTimesOut
  <2>2. e \in Tab
    BY <1>0 DEF Tab
  <2>. QED
    BY <2>1, <2>2
<1>6. CASE LockVault(t)
  <2>. DEFINE e == [tabs[t] EXCEPT !.ws = 0, !.vmk = 0, !.status = "locked"]
  <2>1. tabs' = [tabs EXCEPT ![t] = e]
    BY <1>0, <1>6 DEF LockVault
  <2>2. e \in Tab
    BY <1>0 DEF Tab
  <2>. QED
    BY <2>1, <2>2
<1>7. CASE ResetBegins(t)
  <2>. DEFINE e == [tabs[t] EXCEPT !.ws = 0, !.vmk = 0, !.step = "resetting",
                                   !.codeRefused = FALSE]
  <2>1. tabs' = [tabs EXCEPT ![t] = e]
    BY <1>0, <1>7 DEF ResetBegins
  <2>2. e \in Tab
    BY <1>0 DEF Tab
  <2>. QED
    BY <2>1, <2>2
<1>8. CASE ResetFails(t) \/ ResetVault(t)
  <2>. DEFINE failed == [tabs[t] EXCEPT !.step = "idle"]
              done == [tabs[t] EXCEPT !.step = "refreshing"]
  <2>1. tabs' = [tabs EXCEPT ![t] = failed] \/ tabs' = [tabs EXCEPT ![t] = done]
    BY <1>0, <1>8 DEF ResetFails, ResetVault
  <2>2. failed \in Tab /\ done \in Tab
    BY <1>0 DEF Tab
  <2>. QED
    BY <2>1, <2>2
<1>9. CASE RefreshStatus(t)
  <2>. DEFINE status == IF vault = 0 THEN "not_setup"
                        ELSE IF tabs[t].vmk # 0 /\ tabs[t].ws # 0 THEN "unlocked" ELSE "locked"
              vmk == IF vault # 0 /\ tabs[t].ws = 0 THEN 0 ELSE tabs[t].vmk
              e == [tabs[t] EXCEPT !.step = "idle", !.codeRefused = FALSE, !.status = status,
                                   !.vmk = vmk]
  <2>1. tabs' = [tabs EXCEPT ![t] = e]
    BY <1>0, <1>9 DEF RefreshStatus
  <2>2. status \in {"unknown", "not_setup", "locked", "unlocked"} /\ vmk \in Keys
    BY <1>0 DEF Tab
  <2>. HIDE DEF status, vmk
  <2>3. e \in Tab
    BY <1>0, <2>2 DEF Tab
  <2>. QED
    BY <2>1, <2>3
<1>12. CASE RefreshFails(t)
  <2>. DEFINE e == [tabs[t] EXCEPT !.step = "idle", !.status = "unknown"]
  <2>1. tabs' = [tabs EXCEPT ![t] = e] /\ e \in Tab
    BY <1>0, <1>12 DEF RefreshFails, Tab
  <2>. QED
    BY <2>1
<1>10. CASE SendStore(t) \/ \E row \in DOMAIN secrets : SendDelete(t, row)
  BY <1>10 DEF SendStore, SendDelete
<1>11. ASSUME NEW unload \in BOOLEAN, TabLeaves(t, unload)
       PROVE  Moves
  <2>1. NewTab \in Tab
    BY <1>0 DEF NewTab, Tab
  <2>. QED
    BY <1>11, <2>1 DEF TabLeaves
<1>. QED
  BY <1>1, <1>2, <1>3, <1>4, <1>5, <1>6, <1>7, <1>8, <1>9, <1>10, <1>11, <1>12 DEF TabStep

LEMMA VaultTypeStep ==
  ASSUME VaultTypeOK, [VaultNext]_vaultVars
  PROVE  VaultTypeOK'
<1>. SUFFICES RestTyped' /\ sockets' \in Seq(Connections) /\ tabs' \in [Tabs -> Tab]
  BY DEF VaultTypeOK, RestTyped, Connections
<1>0. RestTyped /\ sockets \in Seq(Connections) /\ tabs \in [Tabs -> Tab]
  BY TypeParts
<1>1. ASSUME NEW t \in Tabs, TabStep(t)
      PROVE  RestTyped' /\ sockets' \in Seq(Connections)
  <2>1. CASE SetupVault(t)
    BY <1>0, <2>1, VaultAssumption, SMTT(30) DEF SetupVault, RestTyped, Keys
  <2>2. ASSUME NEW method \in {"password", "recovery"}, UnlockDerives(t, method)
        PROVE  RestTyped' /\ sockets' \in Seq(Connections)
    BY <1>0, <2>2 DEF UnlockDerives, RestTyped
  <2>3. CASE Connect(t)
    BY <1>0, <2>3, ConnectWires DEF Connect, RestTyped
  <2>4. ASSUME NEW s \in DOMAIN sockets, Ready(t, s)
        PROVE  RestTyped' /\ sockets' \in Seq(Connections)
    BY <1>0, <2>4, ReadyWires, ZenonT(40) DEF Ready, RestTyped
  <2>5. CASE ConnectTimesOut(t)
    BY <1>0, <2>5, TimesOutWires DEF ConnectTimesOut, RestTyped
  <2>6. CASE LockVault(t) \/ ResetBegins(t)
    <3>1. sockets' = Goodbye(sockets, tabs[t].ws)
      BY <2>6 DEF LockVault, ResetBegins
    <3>2. UNCHANGED <<vault, keys, secrets, session, resetUnder>>
      BY <2>6 DEF LockVault, ResetBegins
    <3>. QED
      BY <1>0, <3>1, <3>2, GoodbyeType DEF RestTyped
  <2>7. CASE ResetFails(t) \/ RefreshStatus(t) \/ RefreshFails(t)
    BY <1>0, <2>7 DEF ResetFails, RefreshStatus, RefreshFails, RestTyped
  <2>8. CASE ResetVault(t)
    <3>1. resetUnder' \in BOOLEAN
      BY <2>8 DEF ResetVault
    <3>2. vault' \in Keys /\ keys' \in 0..MaxKeys /\ secrets' = <<>>
      BY <1>0, <2>8, VaultAssumption DEF ResetVault, RestTyped, Keys
    <3>. QED
      BY <1>0, <2>8, <3>1, <3>2, NoSessionType DEF ResetVault, RestTyped
  <2>9. CASE SendStore(t)
    <3>1. <<[type |-> "store", key |-> tabs[t].vmk]>> \in Seq(Message)
      BY <1>0 DEF Tab, Message
    <3>. QED
      BY <1>0, <2>9, <3>1, SentType DEF SendStore, RestTyped
  <2>10. ASSUME NEW row \in DOMAIN secrets, SendDelete(t, row)
         PROVE  RestTyped' /\ sockets' \in Seq(Connections)
    <3>1. row \in Nat
      BY <1>0, LenProperties DEF RestTyped
    <3>2. <<[type |-> "delete", row |-> row]>> \in Seq(Message)
      BY <3>1 DEF Message
    <3>. QED
      BY <1>0, <2>10, <3>2, SentType DEF SendDelete, RestTyped
  <2>11. ASSUME NEW unload \in BOOLEAN, TabLeaves(t, unload)
         PROVE  RestTyped' /\ sockets' \in Seq(Connections)
    <3>1. sockets' \in Seq(Connections)
      BY <2>11, TabLeavesWires
    <3>2. UNCHANGED <<vault, keys, secrets, session, resetUnder>>
      BY <2>11 DEF TabLeaves
    <3>. QED
      BY <1>0, <3>1, <3>2 DEF RestTyped
  <2>. QED
    BY <1>1, <2>1, <2>2, <2>3, <2>4, <2>5, <2>6, <2>7, <2>8, <2>9, <2>10, <2>11 DEF TabStep
<1>2. ASSUME NEW s \in DOMAIN sockets, Deliver(s)
      PROVE  RestTyped' /\ sockets' \in Seq(Connections) /\ tabs' \in [Tabs -> Tab]
  <2>. DEFINE m == Head(sockets[s].inbox)
              Rows == [key : Keys, deleted : BOOLEAN]
  <2>1. m \in Message /\ sockets' \in Seq(Connections)
    BY <1>2, DeliverWires
  <2>2. UNCHANGED <<vault, keys, tabs, resetUnder>>
    BY <1>2 DEF Deliver
  <2>3. s \in Nat
    BY <1>0, LenProperties
  <2>4. AfterValidation \in [key : Keys, socket : Nat, expired : BOOLEAN]
    BY <1>0, NoSessionType DEF AfterValidation, RestTyped
  <2>5. session' \in [key : Keys, socket : Nat, expired : BOOLEAN] /\ secrets' \in Seq(Rows)
    <3>1. CASE m.type = "init"
      <4>1. m.key \in Keys
        BY <2>1, <3>1 DEF Message
      <4>2. HandleSessionInit(s, m.key)
        BY <1>2, <3>1 DEF Deliver
      <4>. QED
        BY <1>0, <2>3, <4>1, <4>2 DEF HandleSessionInit, RestTyped
    <3>2. CASE m.type \in {"close", "closed"}
      <4>1. ClearSession
        BY <1>2, <3>2 DEF Deliver
      <4>. QED
        BY <1>0, <4>1, NoSessionType DEF ClearSession, RestTyped
    <3>3. CASE m.type = "store"
      <4>1. m.key \in Keys
        BY <2>1, <3>3 DEF Message
      <4>2. HandleStoreSecret(m.key)
        BY <1>2, <3>3 DEF Deliver
      <4>3. Append(secrets, [key |-> m.key, deleted |-> FALSE]) \in Seq(Rows)
        BY <1>0, <4>1, AppendProperties DEF RestTyped
      <4>. QED
        BY <1>0, <2>4, <4>2, <4>3 DEF HandleStoreSecret, RestTyped
    <3>4. CASE m.type = "delete"
      <4>1. HandleDeleteSecret(m.row)
        BY <1>2, <3>4 DEF Deliver
      <4>2. ASSUME m.row \in DOMAIN secrets
            PROVE  [secrets EXCEPT ![m.row].deleted = TRUE] \in Seq(Rows)
        <5>1. m.row \in 1..Len(secrets) /\ secrets \in Seq(Rows)
          BY <1>0, <4>2, LenProperties DEF RestTyped
        <5>2. secrets[m.row] \in Rows
          BY <5>1, ElementOfSeq
        <5>3. [secrets[m.row] EXCEPT !.deleted = TRUE] \in Rows
          BY <5>2
        <5>. QED
          BY <5>1, <5>3, ExceptSeq
      <4>. QED
        BY <1>0, <2>4, <4>1, <4>2 DEF HandleDeleteSecret, RestTyped
    <3>. QED
      BY <2>1, <3>1, <3>2, <3>3, <3>4 DEF Message
  <2>. QED
    BY <1>0, <2>1, <2>2, <2>5 DEF RestTyped
<1>3. ASSUME NEW s \in DOMAIN sockets, NEW remaining \in 0..Len(sockets[s].inbox),
             SocketDrops(s, remaining)
      PROVE  RestTyped' /\ sockets' \in Seq(Connections) /\ tabs' \in [Tabs -> Tab]
  <2>1. sockets[s].tab \in Tabs
    BY ConnectionType DEF Connections
  <2>2. tabs' \in [Tabs -> Tab]
    <3>. DEFINE t == sockets[s].tab
                left == IF tabs[t].ws = s THEN 0 ELSE tabs[t].ws
                e == [tabs[t] EXCEPT !.ws = left]
    <3>1. tabs' = [tabs EXCEPT ![t] = e]
      BY <1>0, <1>3, <2>1 DEF SocketDrops
    <3>2. e \in Tab
      <4>1. tabs[t] \in Tab
        BY <1>0, <2>1
      <4>2. left \in Nat
        BY <4>1 DEF Tab
      <4>. HIDE DEF left, t
      <4>. QED
        BY <4>1, <4>2 DEF Tab
    <3>. HIDE DEF e, t
    <3>. QED
      BY <1>0, <2>1, <3>1, <3>2, TabChanged DEF t
  <2>. QED
    BY <1>0, <1>3, <2>2, DropsWires DEF SocketDrops, RestTyped
<1>4. CASE SessionExpires
  BY <1>0, <1>4 DEF SessionExpires, RestTyped
<1>5. CASE Cleanup \/ Evict
  BY <1>0, <1>5, NoSessionType DEF Cleanup, Evict, RestTyped
<1>6. CASE UNCHANGED vaultVars
  BY <1>0, <1>6 DEF vaultVars, RestTyped
<1>. QED
  BY <1>1, <1>2, <1>3, <1>4, <1>5, <1>6, TabMoves DEF VaultNext

\* Types, for any number of tabs, keys, sockets, rows and messages on their way.
THEOREM VaultTyped == VaultSpec => []VaultTypeOK
<1>1. VaultInit => VaultTypeOK
  <2>. SUFFICES ASSUME VaultInit PROVE VaultTypeOK
    OBVIOUS
  <2>1. 0 \in Keys /\ 0 \in 0..MaxKeys
    BY VaultAssumption DEF Keys
  <2>2. NewTab \in Tab
    BY <2>1 DEF NewTab, Tab
  <2>3. secrets \in Seq([key : Keys, deleted : BOOLEAN]) /\ sockets \in Seq(Connections)
    BY DEF VaultInit
  <2>. QED
    BY <2>1, <2>2, <2>3, NoSessionType DEF VaultInit, VaultTypeOK, Connections
<1>2. VaultTypeOK /\ [VaultNext]_vaultVars => VaultTypeOK'
  BY VaultTypeStep
<1>. QED
  BY <1>1, <1>2, PTL DEF VaultSpec

-----------------------------------------------------------------------------
(* Keys                                                                    *)

LEMMA EmptyVault ==
  ASSUME VaultTypeOK, KeysFollow, ~resetUnder, vault = 0
  PROVE  /\ session = NoSession /\ DOMAIN secrets = {}
         /\ \A t \in Tabs : tabs[t].vmk = 0 /\ tabs[t].pending = 0
                            /\ tabs[t].step \notin {"deriving", "connecting"}
         /\ \A v : AllFit(sockets, v)
<1>1. session = NoSession /\ DOMAIN secrets = {}
  BY DEF KeysFollow, SessionFits, RowsFit
<1>2. \A t \in Tabs : tabs[t].vmk = 0 /\ tabs[t].pending = 0
                      /\ tabs[t].step \notin {"deriving", "connecting"}
  BY DEF KeysFollow, TabFits
<1>3. \A v : AllFit(sockets, v)
  BY DEF KeysFollow, AllFit, Fits
<1>. QED
  BY <1>1, <1>2, <1>3

\* One tab moves, and what it keeps fits.
LEMMA OneTabFits ==
  ASSUME KeysFollow, vault' = vault, resetUnder' = resetUnder,
         NEW t \in Tabs, \A u \in Tabs : u # t => tabs'[u] = tabs[u],
         ~resetUnder /\ TabFits(t) => TabFits(t)'
  PROVE  ~resetUnder' => \A u \in Tabs : TabFits(u)'
<1>1. ASSUME ~resetUnder, NEW u \in Tabs, u # t
      PROVE  TabFits(u)'
  BY <1>1 DEF KeysFollow, TabFits
<1>2. ASSUME ~resetUnder
      PROVE  TabFits(t)'
  BY <1>2 DEF KeysFollow
<1>. QED
  BY <1>1, <1>2

LEMMA Together ==
  ASSUME ~resetUnder' => /\ SessionFits' /\ RowsFit'
                         /\ \A t \in Tabs : TabFits(t)'
                         /\ AllFit(sockets', vault')
  PROVE  KeysFollow'
BY DEF KeysFollow, SessionFits, RowsFit, TabFits, AllFit, Fits

\* Only the tab and its connections change.
LEMMA TabOnly ==
  ASSUME KeysFollow, UNCHANGED <<vault, secrets, session, resetUnder>>,
         NEW t \in Tabs, \A u \in Tabs : u # t => tabs'[u] = tabs[u],
         ~resetUnder /\ TabFits(t) => TabFits(t)',
         ~resetUnder /\ AllFit(sockets, vault) /\ TabFits(t) => AllFit(sockets', vault)
  PROVE  KeysFollow'
<1>1. ~resetUnder' => SessionFits' /\ RowsFit'
  BY DEF KeysFollow, SessionFits, RowsFit
<1>2. ~resetUnder' => \A u \in Tabs : TabFits(u)'
  BY OneTabFits
<1>3. ~resetUnder' => AllFit(sockets', vault')
  BY DEF KeysFollow
<1>. QED
  BY <1>1, <1>2, <1>3, Together

LEMMA SetupFits ==
  ASSUME VaultTypeOK, KeysFollow, NEW t \in Tabs, SetupVault(t)
  PROVE  KeysFollow'
<1>0. tabs \in [Tabs -> Tab] /\ keys \in Nat
  BY TypeParts, VaultAssumption DEF RestTyped
<1>1. CASE vault # 0
  <2>1. /\ tabs' = [tabs EXCEPT ![t].codeRefused = FALSE]
        /\ UNCHANGED <<vault, secrets, session, sockets, resetUnder>>
    BY <1>1 DEF SetupVault
  <2>2. /\ \A u \in Tabs : u # t => tabs'[u] = tabs[u]
        /\ tabs'[t].vmk = tabs[t].vmk /\ tabs'[t].pending = tabs[t].pending
        /\ tabs'[t].step = tabs[t].step
    BY <1>0, <2>1 DEF Tab
  <2>3. TabFits(t) => TabFits(t)'
    BY <2>1, <2>2 DEF TabFits
  <2>. QED
    BY <2>1, <2>2, <2>3, TabOnly
<1>2. CASE vault = 0
  <2>1. /\ vault' = keys + 1
        /\ tabs' = [tabs EXCEPT ![t].step = "deriving", ![t].pending = keys + 1,
                                ![t].codeRefused = FALSE]
        /\ UNCHANGED <<secrets, session, sockets, resetUnder>>
    BY <1>2 DEF SetupVault
  <2>2. /\ \A u \in Tabs : u # t => tabs'[u] = tabs[u]
        /\ tabs'[t].vmk = tabs[t].vmk /\ tabs'[t].pending = keys + 1
    BY <1>0, <2>1 DEF Tab
  <2>. SUFFICES ASSUME ~resetUnder' PROVE KeysFollow'
    BY DEF KeysFollow
  <2>3. ~resetUnder
    BY <2>1
  <2>4. /\ session = NoSession /\ DOMAIN secrets = {}
        /\ \A u \in Tabs : tabs[u].vmk = 0 /\ tabs[u].pending = 0
                           /\ tabs[u].step \notin {"deriving", "connecting"}
        /\ \A v : AllFit(sockets, v)
    BY <1>2, <2>3, EmptyVault
  <2>5. SessionFits' /\ RowsFit'
    BY <2>1, <2>4 DEF SessionFits, RowsFit
  <2>6. ASSUME NEW u \in Tabs
        PROVE  TabFits(u)'
    <3>1. CASE u = t
      BY <1>0, <2>1, <2>2, <2>4, <3>1 DEF TabFits
    <3>2. CASE u # t
      BY <2>2, <2>4, <3>2 DEF TabFits
    <3>. QED
      BY <3>1, <3>2
  <2>7. AllFit(sockets', vault')
    BY <2>1, <2>4
  <2>. QED
    BY <2>5, <2>6, <2>7, Together
<1>. QED
  BY <1>1, <1>2

LEMMA ResetFits ==
  ASSUME VaultTypeOK, KeysFollow, NEW t \in Tabs, ResetVault(t)
  PROVE  KeysFollow'
<1>0. tabs \in [Tabs -> Tab]
  BY TypeParts
<1>. SUFFICES ASSUME ~resetUnder' PROVE KeysFollow'
  BY DEF KeysFollow
<1>1. /\ session' = NoSession /\ secrets' = <<>> /\ vault' = 0
      /\ tabs' = [tabs EXCEPT ![t].step = "refreshing"]
      /\ sockets' = sockets
  BY DEF ResetVault
<1>2. ~resetUnder /\ \A k \in Keys \ {0} : ~KeyHeld(k)
  BY DEF ResetVault
<1>3. SessionFits' /\ RowsFit'
  BY <1>1 DEF SessionFits, RowsFit
<1>4. ASSUME NEW u \in Tabs
      PROVE  TabFits(u)'
  <2>1. tabs[u].vmk \in Keys /\ tabs[u].pending \in Keys
    BY <1>0 DEF Tab
  <2>2. tabs[u].vmk = 0 /\ tabs[u].pending = 0
    BY <1>2, <2>1 DEF KeyHeld
  <2>3. TabFits(u)
    BY <1>2 DEF KeysFollow
  <2>4. /\ tabs'[u].vmk = 0 /\ tabs'[u].pending = 0
        /\ tabs'[u].step \in {tabs[u].step, "refreshing"}
    BY <1>0, <1>1, <2>2 DEF Tab
  <2>. QED
    BY <1>1, <2>2, <2>3, <2>4 DEF TabFits
<1>5. ASSUME NEW s \in DOMAIN sockets, NEW i \in DOMAIN sockets[s].inbox
      PROVE  Fits(sockets[s].inbox[i], 0)
  <2>. DEFINE m == sockets[s].inbox[i]
  <2>1. m \in Message
    BY ConnectionType, ElementOfSeq, LenProperties
  <2>2. Fits(m, vault)
    BY <1>2 DEF KeysFollow, AllFit
  <2>3. CASE m.type \in {"init", "store"}
    <3>1. m.key \in Keys \ {0}
      BY <2>1, <2>2, <2>3 DEF Message, Fits
    <3>2. KeyHeld(m.key)
      BY <2>3 DEF KeyHeld
    <3>. QED
      BY <1>2, <3>1, <3>2
  <2>4. CASE m.type \notin {"init", "store"}
    BY <2>4 DEF Fits
  <2>. QED
    BY <2>3, <2>4
<1>6. AllFit(sockets', vault')
  BY <1>1, <1>5 DEF AllFit
<1>. QED
  BY <1>3, <1>4, <1>6, Together

\* The steps of a tab that neither set the vault up nor reset it.
LEMMA TabFitsStep ==
  ASSUME VaultTypeOK, KeysFollow, NEW t \in Tabs, TabStep(t),
         ~SetupVault(t), ~ResetVault(t)
  PROVE  KeysFollow'
<1>0. tabs \in [Tabs -> Tab] /\ tabs[t] \in Tab
  BY TypeParts
<1>. DEFINE Quiet == UNCHANGED <<vault, secrets, session, resetUnder>>
            Others == \A u \in Tabs : u # t => tabs'[u] = tabs[u]
            Keeps == tabs'[t].vmk \in {0, tabs[t].vmk} /\ tabs'[t].pending \in {0, tabs[t].pending}
            Rests == tabs'[t].step \notin {"deriving", "connecting"}
<1>10. ASSUME Quiet, Keeps, Rests
      PROVE  TabFits(t) => TabFits(t)'
  BY <1>10 DEF TabFits
<1>1. ASSUME NEW method \in {"password", "recovery"}, UnlockDerives(t, method)
      PROVE  KeysFollow'
  <2>1. Quiet /\ UNCHANGED sockets /\ vault # 0 /\ Others
    BY <1>0, <1>1 DEF UnlockDerives
  <2>2. \/ /\ tabs'[t].vmk = tabs[t].vmk /\ tabs'[t].pending = vault
        \/ /\ tabs'[t].vmk = tabs[t].vmk /\ tabs'[t].pending = tabs[t].pending
           /\ tabs'[t].step = tabs[t].step
    BY <1>0, <1>1 DEF UnlockDerives, Verifies, Tab
  <2>3. TabFits(t) => TabFits(t)'
    BY <2>1, <2>2 DEF TabFits
  <2>. QED
    BY <2>1, <2>3, TabOnly
<1>2. CASE Connect(t)
  <2>1. Quiet /\ Others /\ tabs[t].step = "deriving"
    BY <1>0, <1>2 DEF Connect
  <2>2. tabs'[t].vmk = tabs[t].vmk /\ tabs'[t].pending = tabs[t].pending
    BY <1>0, <1>2 DEF Connect, Tab
  <2>3. TabFits(t) => TabFits(t)'
    BY <2>1, <2>2 DEF TabFits
  <2>4. AllFit(sockets, vault) /\ TabFits(t) => AllFit(sockets', vault)
    BY <1>2, <2>1, ConnectWires DEF TabFits
  <2>. QED
    BY <2>1, <2>3, <2>4, TabOnly
<1>3. ASSUME NEW s \in DOMAIN sockets, Ready(t, s)
      PROVE  KeysFollow'
  <2>1. Quiet /\ Others
    BY <1>0, <1>3 DEF Ready
  <2>2. \/ tabs'[t].vmk = tabs[t].pending /\ tabs'[t].pending = 0 /\ tabs'[t].step = "idle"
        \/ /\ tabs'[t].vmk = tabs[t].vmk /\ tabs'[t].pending = tabs[t].pending
           /\ tabs'[t].step = tabs[t].step
    BY <1>0, <1>3 DEF Ready, Tab
  <2>3. TabFits(t) => TabFits(t)'
    BY <2>1, <2>2 DEF TabFits
  <2>. QED
    BY <1>3, <2>1, <2>3, ReadyWires, TabOnly
<1>4. CASE ConnectTimesOut(t)
  <2>1. Quiet /\ Others
    BY <1>0, <1>4 DEF ConnectTimesOut
  <2>2. Keeps /\ Rests
    BY <1>0, <1>4 DEF ConnectTimesOut, Tab
  <2>. QED
    BY <1>4, <1>10, <2>1, <2>2, TimesOutWires, TabOnly
<1>5. CASE LockVault(t) \/ ResetBegins(t)
  <2>1. Quiet /\ Others /\ sockets' = Goodbye(sockets, tabs[t].ws)
    BY <1>0, <1>5 DEF LockVault, ResetBegins
  <2>2. Keeps /\ Rests
    BY <1>0, <1>5 DEF LockVault, ResetBegins, Tab
  <2>. QED
    BY <1>10, <2>1, <2>2, GoodbyeType, TabOnly
<1>6. CASE ResetFails(t) \/ RefreshStatus(t) \/ RefreshFails(t)
  <2>1. Quiet /\ Others /\ UNCHANGED sockets
    BY <1>0, <1>6 DEF ResetFails, RefreshStatus, RefreshFails
  <2>2. Keeps /\ Rests
    BY <1>0, <1>6 DEF ResetFails, RefreshStatus, RefreshFails, Tab
  <2>. QED
    BY <1>10, <2>1, <2>2, TabOnly
<1>7. CASE SendStore(t)
  <2>. DEFINE ms == <<[type |-> "store", key |-> tabs[t].vmk]>>
  <2>1. /\ Quiet /\ UNCHANGED tabs
        /\ sockets' = Sent(sockets, tabs[t].ws, ms) /\ tabs[t].vmk # 0
    BY <1>7 DEF SendStore
  <2>2. ms \in Seq(Message)
    BY <1>0 DEF Tab, Message
  <2>3. TabFits(t) => \A i \in DOMAIN ms : Fits(ms[i], vault)
    BY <2>1 DEF TabFits, Fits
  <2>4. AllFit(sockets, vault) /\ TabFits(t) => AllFit(sockets', vault)
    BY <2>1, <2>2, <2>3, SentType
  <2>5. TabFits(t) => TabFits(t)'
    BY <2>1 DEF TabFits
  <2>. QED
    BY <2>1, <2>4, <2>5, TabOnly
<1>8. ASSUME NEW row \in DOMAIN secrets, SendDelete(t, row)
      PROVE  KeysFollow'
  <2>. DEFINE ms == <<[type |-> "delete", row |-> row]>>
  <2>1. Quiet /\ UNCHANGED tabs /\ sockets' = Sent(sockets, tabs[t].ws, ms)
    BY <1>8 DEF SendDelete
  <2>2. ms \in Seq(Message)
    <3>1. row \in Nat
      BY LenProperties, TypeParts DEF RestTyped
    <3>. QED
      BY <3>1 DEF Message
  <2>3. \A i \in DOMAIN ms : Fits(ms[i], vault)
    BY DEF Fits
  <2>4. AllFit(sockets, vault) => AllFit(sockets', vault)
    BY <2>1, <2>2, <2>3, SentType
  <2>5. TabFits(t) => TabFits(t)'
    BY <2>1 DEF TabFits
  <2>. QED
    BY <2>1, <2>4, <2>5, TabOnly
<1>9. ASSUME NEW unload \in BOOLEAN, TabLeaves(t, unload)
      PROVE  KeysFollow'
  <2>1. Quiet /\ Others
    BY <1>0, <1>9 DEF TabLeaves
  <2>2. Keeps /\ Rests
    <3>1. tabs'[t] = NewTab
      BY <1>0, <1>9 DEF TabLeaves
    <3>. QED
      BY <3>1 DEF NewTab
  <2>. QED
    BY <1>9, <1>10, <2>1, <2>2, TabLeavesWires, TabOnly
<1>. QED
  BY <1>1, <1>2, <1>3, <1>4, <1>5, <1>6, <1>7, <1>8, <1>9 DEF TabStep

\* The store takes a message: the key of an init, or of a row, came with it.
LEMMA DeliverFits ==
  ASSUME VaultTypeOK, KeysFollow, NEW s \in DOMAIN sockets, Deliver(s)
  PROVE  KeysFollow'
<1>. DEFINE m == Head(sockets[s].inbox)
<1>. SUFFICES ASSUME ~resetUnder' PROVE KeysFollow'
  BY DEF KeysFollow
<1>1. UNCHANGED <<vault, keys, tabs, resetUnder>>
  BY DEF Deliver
<1>2. SessionFits /\ RowsFit /\ (\A t \in Tabs : TabFits(t)) /\ AllFit(sockets, vault)
  BY <1>1 DEF KeysFollow
<1>3. m \in Message /\ Fits(m, vault) /\ AllFit(sockets', vault')
  BY <1>1, <1>2, DeliverWires
<1>4. \A t \in Tabs : TabFits(t)'
  BY <1>1, <1>2 DEF TabFits
<1>5. AfterValidation \in {session, NoSession}
  BY DEF AfterValidation
<1>6. secrets \in Seq([key : Keys, deleted : BOOLEAN])
  BY TypeParts DEF RestTyped
<1>7. SessionFits' /\ RowsFit'
  <2>1. CASE m.type = "init"
    <3>1. HandleSessionInit(s, m.key)
      BY <2>1 DEF Deliver
    <3>2. session'.key = m.key /\ secrets' = secrets
      BY <3>1 DEF HandleSessionInit
    <3>. QED
      BY <1>1, <1>2, <1>3, <2>1, <3>2 DEF SessionFits, RowsFit, Fits
  <2>2. CASE m.type \in {"close", "closed"}
    <3>1. ClearSession
      BY <2>2 DEF Deliver
    <3>. QED
      BY <1>1, <1>2, <3>1 DEF ClearSession, SessionFits, RowsFit
  <2>3. CASE m.type = "store"
    <3>. DEFINE row == [key |-> m.key, deleted |-> FALSE]
    <3>1. HandleStoreSecret(m.key)
      BY <2>3 DEF Deliver
    <3>2. SessionFits'
      BY <1>1, <1>2, <1>5, <3>1 DEF HandleStoreSecret, SessionFits
    <3>3. secrets' = secrets \/ secrets' = Append(secrets, row)
      BY <3>1 DEF HandleStoreSecret
    <3>4. /\ DOMAIN Append(secrets, row) = 1..(Len(secrets) + 1)
          /\ DOMAIN secrets = 1..Len(secrets) /\ Len(secrets) \in Nat
          /\ \A i \in 1..Len(secrets) : Append(secrets, row)[i] = secrets[i]
          /\ Append(secrets, row)[Len(secrets) + 1] = row
      <4>1. m.key \in Keys
        BY <1>3, <2>3 DEF Message
      <4>2. row \in [key : Keys, deleted : BOOLEAN]
        BY <4>1
      <4>. QED
        BY <1>6, <4>2, AppendProperties, LenProperties
    <3>5. row.key = vault /\ vault # 0
      BY <1>3, <2>3 DEF Fits
    <3>6. \A i \in DOMAIN Append(secrets, row) : i \in DOMAIN secrets \/ i = Len(secrets) + 1
      BY <3>4
    <3>. HIDE DEF row
    <3>7. RowsFit'
      BY <1>1, <1>2, <3>3, <3>4, <3>5, <3>6 DEF RowsFit
    <3>. QED
      BY <3>2, <3>7
  <2>4. CASE m.type = "delete"
    <3>1. HandleDeleteSecret(m.row)
      BY <2>4 DEF Deliver
    <3>2. SessionFits'
      BY <1>1, <1>2, <1>5, <3>1 DEF HandleDeleteSecret, SessionFits
    <3>3. /\ DOMAIN secrets' = DOMAIN secrets
          /\ \A i \in DOMAIN secrets : secrets'[i].key = secrets[i].key
      <4>1. CASE secrets' = secrets
        BY <4>1
      <4>2. CASE m.row \in DOMAIN secrets /\ secrets' = [secrets EXCEPT ![m.row].deleted = TRUE]
        <5>1. \A i \in DOMAIN secrets : secrets[i] \in [key : Keys, deleted : BOOLEAN]
          BY <1>6, ElementOfSeq, LenProperties
        <5>. QED
          BY <4>2, <5>1
      <4>. QED
        BY <3>1, <4>1, <4>2 DEF HandleDeleteSecret
    <3>4. RowsFit'
      BY <1>1, <1>2, <3>3 DEF RowsFit
    <3>. QED
      BY <3>2, <3>4
  <2>. QED
    BY <1>3, <2>1, <2>2, <2>3, <2>4 DEF Message
<1>. QED
  BY <1>3, <1>4, <1>7, Together

LEMMA DropFits ==
  ASSUME VaultTypeOK, KeysFollow, NEW s \in DOMAIN sockets,
         NEW remaining \in 0..Len(sockets[s].inbox), SocketDrops(s, remaining)
  PROVE  KeysFollow'
<1>1. PICK t \in Tabs : t = sockets[s].tab
  BY ConnectionType DEF Connections
<1>2. tabs \in [Tabs -> Tab]
  BY TypeParts
<1>3. UNCHANGED <<vault, secrets, session, resetUnder>>
  BY DEF SocketDrops
<1>4. tabs' = [tabs EXCEPT ![t].ws = IF @ = s THEN 0 ELSE @]
  BY <1>1 DEF SocketDrops
<1>5. \A u \in Tabs : u # t => tabs'[u] = tabs[u]
  BY <1>2, <1>4
<1>6. /\ tabs'[t].vmk = tabs[t].vmk /\ tabs'[t].pending = tabs[t].pending
      /\ tabs'[t].step = tabs[t].step
  BY <1>2, <1>4 DEF Tab
<1>7. TabFits(t) => TabFits(t)'
  BY <1>3, <1>6 DEF TabFits
<1>. QED
  BY <1>3, <1>5, <1>7, DropsWires, TabOnly

LEMMA KeysFollowStep ==
  ASSUME VaultTypeOK, KeysFollow, [VaultNext]_vaultVars
  PROVE  KeysFollow'
<1>1. ASSUME NEW t \in Tabs, TabStep(t)
      PROVE  KeysFollow'
  BY <1>1, SetupFits, ResetFits, TabFitsStep
<1>2. ASSUME NEW s \in DOMAIN sockets, Deliver(s)
      PROVE  KeysFollow'
  BY <1>2, DeliverFits
<1>3. ASSUME NEW s \in DOMAIN sockets, NEW remaining \in 0..Len(sockets[s].inbox),
             SocketDrops(s, remaining)
      PROVE  KeysFollow'
  BY <1>3, DropFits
<1>4. CASE SessionExpires \/ Cleanup \/ Evict
  <2>1. UNCHANGED <<vault, secrets, sockets, tabs, resetUnder>>
    BY <1>4 DEF SessionExpires, Cleanup, Evict
  <2>2. session # NoSession /\ (session' = NoSession \/ session'.key = session.key)
    <3>1. session \in [key : Keys, socket : Nat, expired : BOOLEAN]
      BY TypeParts DEF RestTyped
    <3>. QED
      BY <1>4, <3>1 DEF SessionExpires, Cleanup, Evict
  <2>3. SessionFits => SessionFits'
    BY <2>1, <2>2 DEF SessionFits
  <2>. QED
    BY <2>1, <2>3 DEF KeysFollow, RowsFit, TabFits
<1>5. CASE UNCHANGED vaultVars
  BY <1>5 DEF vaultVars, KeysFollow, SessionFits, RowsFit, TabFits
<1>. QED
  BY <1>1, <1>2, <1>3, <1>4, <1>5 DEF VaultNext

\* However the tabs set the vault up, unlock it, lock it, lose connections and
\* send over several sockets at once, and whenever the session expires or the
\* store is evicted: unless a reset came while a key was held elsewhere, every
\* row and the session are of the key that the vault verifies.
THEOREM KeysAlwaysAgree == VaultSpec => []KeysAgree
<1>1. VaultInit => KeysFollow
  BY DEF VaultInit, KeysFollow, SessionFits, RowsFit, TabFits, AllFit, NewTab
<1>2. VaultTypeOK /\ KeysFollow /\ [VaultNext]_vaultVars => KeysFollow'
  BY KeysFollowStep
<1>3. KeysFollow => KeysAgree
  BY DEF KeysFollow, KeysAgree, SessionFits, RowsFit
<1>. QED
  BY <1>1, <1>2, <1>3, VaultTyped, PTL DEF VaultSpec

-----------------------------------------------------------------------------
(* Who holds the session                                                   *)

Shut(q) == \E i \in DOMAIN q : q[i].type = "closed"
Fresh(q) == \E i \in DOMAIN q : q[i].type = "init"

\* An init is the first message of its socket, and 'ready' answers it.
InitLeads(s) ==
  /\ \A i \in DOMAIN sockets[s].inbox : sockets[s].inbox[i].type = "init" => i = 1
  /\ sockets[s].ready => ~Fresh(sockets[s].inbox)

\* A socket that may still bring an init, or whose ready is on its way, is the one its
\* tab is opening, unless it closes or was given up.
Opening(s) ==
  /\ sockets[s].open /\ ~Shut(sockets[s].inbox) /\ ~sockets[s].late
  /\ sockets[s].ready \/ Fresh(sockets[s].inbox)
  => tabs[sockets[s].tab].conn = s

ConnOf(t) ==
  /\ tabs[t].conn # 0 <=> tabs[t].step = "connecting"
  /\ tabs[t].conn # 0 => /\ tabs[t].conn \in DOMAIN sockets
                         /\ sockets[tabs[t].conn].tab = t

\* The socket a tab works with is its own and open; unless it was given up before it
\* was ready, the tab is unlocked and idle.
SocketOf(t) ==
  tabs[t].ws # 0 =>
    /\ tabs[t].ws \in DOMAIN sockets
    /\ sockets[tabs[t].ws].tab = t
    /\ sockets[tabs[t].ws].open /\ ~Shut(sockets[tabs[t].ws].inbox)
    /\ sockets[tabs[t].ws].late \/ (tabs[t].status = "unlocked" /\ tabs[t].step = "idle")

HolderInv ==
  /\ \A s \in DOMAIN sockets : InitLeads(s) /\ Opening(s)
  /\ \A t \in Tabs : ConnOf(t) /\ SocketOf(t)
  /\ SessionHasAHolder

-----------------------------------------------------------------------------
\* What a tab sends: no init, and a close if there is one among it.
LEMMA InboxGrows ==
  ASSUME NEW q \in Seq(Message), NEW ms \in Seq(Message),
         \A i \in DOMAIN ms : ms[i].type # "init"
  PROVE  /\ Fresh(q \o ms) <=> Fresh(q)
         /\ Shut(q \o ms) <=> Shut(q) \/ Shut(ms)
         /\ (\A i \in DOMAIN q : q[i].type = "init" => i = 1)
              => (\A i \in DOMAIN (q \o ms) : (q \o ms)[i].type = "init" => i = 1)
<1>1. /\ DOMAIN q = 1..Len(q) /\ Len(q) \in Nat
      /\ DOMAIN ms = 1..Len(ms) /\ Len(ms) \in Nat
      /\ DOMAIN (q \o ms) = 1..(Len(q) + Len(ms))
      /\ \A i \in 1..(Len(q) + Len(ms)) :
            (q \o ms)[i] = IF i <= Len(q) THEN q[i] ELSE ms[i - Len(q)]
  BY LenProperties, ConcatProperties
<1>2. \A i \in DOMAIN q : i \in DOMAIN (q \o ms) /\ (q \o ms)[i] = q[i]
  BY <1>1
<1>3. \A i \in DOMAIN ms : i + Len(q) \in DOMAIN (q \o ms) /\ (q \o ms)[i + Len(q)] = ms[i]
  BY <1>1
<1>4. \A i \in DOMAIN (q \o ms) :
        \/ i \in DOMAIN q /\ (q \o ms)[i] = q[i]
        \/ i - Len(q) \in DOMAIN ms /\ (q \o ms)[i] = ms[i - Len(q)]
  BY <1>1
<1>. HIDE DEF Message
<1>5. Fresh(q \o ms) <=> Fresh(q)
  BY <1>2, <1>4 DEF Fresh
<1>6. Shut(q \o ms) <=> Shut(q) \/ Shut(ms)
  <2>1. ASSUME NEW i \in DOMAIN (q \o ms), (q \o ms)[i].type = "closed"
        PROVE  Shut(q) \/ Shut(ms)
    BY <1>4, <2>1 DEF Shut
  <2>2. ASSUME NEW i \in DOMAIN q, q[i].type = "closed"
        PROVE  Shut(q \o ms)
    BY <1>2, <2>2 DEF Shut
  <2>3. ASSUME NEW i \in DOMAIN ms, ms[i].type = "closed"
        PROVE  Shut(q \o ms)
    BY <1>3, <2>3 DEF Shut
  <2>4. Shut(q \o ms) => Shut(q) \/ Shut(ms)
    BY <2>1 DEF Shut
  <2>. QED
    BY <2>2, <2>3, <2>4 DEF Shut
<1>7. (\A i \in DOMAIN q : q[i].type = "init" => i = 1)
        => (\A i \in DOMAIN (q \o ms) : (q \o ms)[i].type = "init" => i = 1)
  BY <1>4
<1>. QED
  BY <1>5, <1>6, <1>7

\* A connection that drops: what is left of its inbox, and a close.
LEMMA InboxCut ==
  ASSUME NEW q \in Seq(Message), NEW remaining \in 0..Len(q)
  PROVE  LET cut == Append(SubSeq(q, 1, remaining), [type |-> "closed"])
         IN  /\ Shut(cut)
             /\ Fresh(cut) => Fresh(q)
             /\ (\A i \in DOMAIN q : q[i].type = "init" => i = 1)
                  => (\A i \in DOMAIN cut : cut[i].type = "init" => i = 1)
<1>. DEFINE closed == [type |-> "closed"]
            head == SubSeq(q, 1, remaining)
            cut == Append(head, closed)
<1>1. DOMAIN q = 1..Len(q) /\ Len(q) \in Nat /\ remaining \in Int /\ closed \in Message
  BY LenProperties DEF Message
<1>2. \A i \in 1..remaining : q[i] \in Message
  BY <1>1, ElementOfSeq
<1>3. head \in Seq(Message) /\ Len(head) = remaining /\ \A i \in 1..remaining : head[i] = q[i]
  <2>1. /\ head \in Seq(Message)
        /\ Len(head) = IF 1 <= remaining THEN remaining - 1 + 1 ELSE 0
        /\ \A i \in 1..remaining - 1 + 1 : head[i] = q[1 + i - 1]
    BY <1>1, <1>2, SubSeqProperties
  <2>2. remaining = 0 \/ 1 <= remaining
    OBVIOUS
  <2>. QED
    BY <2>1, <2>2
<1>4. /\ DOMAIN cut = 1..(remaining + 1)
      /\ \A i \in 1..remaining : cut[i] = q[i] /\ i \in DOMAIN q
      /\ cut[remaining + 1] = closed
  BY <1>1, <1>3, AppendProperties, LenProperties
<1>. HIDE DEF cut
<1>5. Shut(cut)
  BY <1>1, <1>4 DEF Shut
<1>6. \A i \in DOMAIN cut : cut[i].type = "init" => i \in DOMAIN q /\ cut[i] = q[i]
  <2>1. \A i \in DOMAIN cut : i \in 1..remaining \/ i = remaining + 1
    BY <1>1, <1>4
  <2>. QED
    BY <1>4, <2>1
<1>7. Fresh(cut) => Fresh(q)
  BY <1>6 DEF Fresh
<1>. QED
  BY <1>5, <1>6, <1>7 DEF cut

\* The store takes the first message.
LEMMA InboxTail ==
  ASSUME NEW q \in Seq(Message), q # <<>>,
         \A i \in DOMAIN q : q[i].type = "init" => i = 1
  PROVE  /\ ~Fresh(Tail(q))
         /\ Head(q).type # "closed" => (Shut(Tail(q)) <=> Shut(q))
         /\ Head(q).type = "closed" => Shut(q)
         /\ Head(q).type = "init" => Fresh(q)
<1>1. /\ DOMAIN q = 1..Len(q) /\ Len(q) \in Nat /\ Len(q) # 0
      /\ Head(q) = q[1]
      /\ DOMAIN Tail(q) = 1..(Len(q) - 1)
      /\ \A i \in 1..(Len(q) - 1) : Tail(q)[i] = q[i + 1]
  <2>1. /\ Tail(q) \in Seq(Message) /\ Len(Tail(q)) = Len(q) - 1
        /\ \A i \in 1..Len(Tail(q)) : Tail(q)[i] = q[i + 1]
    BY HeadTailProperties
  <2>2. Len(q) \in Nat \ {0}
    BY EmptySeq
  <2>3. DOMAIN Tail(q) = 1..Len(Tail(q)) /\ DOMAIN q = 1..Len(q)
    BY <2>1, LenProperties
  <2>. QED
    BY <2>1, <2>2, <2>3
<1>2. \A i \in DOMAIN Tail(q) : i + 1 \in DOMAIN q /\ i + 1 # 1 /\ Tail(q)[i] = q[i + 1]
  BY <1>1
<1>3. \A i \in DOMAIN q : i = 1 \/ (i - 1 \in DOMAIN Tail(q) /\ Tail(q)[i - 1] = q[i])
  BY <1>1
<1>4. 1 \in DOMAIN q
  BY <1>1
<1>. QED
  BY <1>1, <1>2, <1>3, <1>4, ZenonT(40) DEF Fresh, Shut

-----------------------------------------------------------------------------
\* The connection c became d: nothing but messages came on or off, none an init, and
\* a close that was on its way still is.
Stays(c, d) ==
  /\ d.tab = c.tab /\ d.open = c.open /\ d.late = c.late /\ d.ready = c.ready
  /\ Fresh(d.inbox) => Fresh(c.inbox)
  /\ Shut(c.inbox) => Shut(d.inbox)
  /\ (\A i \in DOMAIN c.inbox : c.inbox[i].type = "init" => i = 1)
       => (\A i \in DOMAIN d.inbox : d.inbox[i].type = "init" => i = 1)

\* A tab lets go of an open socket only when its close is on the way.
LetsGo(t) ==
  \A s \in DOMAIN sockets :
    /\ sockets[s].open
    /\ \/ tabs[t].ws = s /\ tabs'[t].ws # s
       \/ tabs[t].conn = s /\ tabs'[t].conn # s
    => Shut(sockets'[s].inbox)

LEMMA NothingTakenOver ==
  ASSUME VaultTypeOK, HolderInv,
         DOMAIN sockets' = DOMAIN sockets,
         \A s \in DOMAIN sockets : Stays(sockets[s], sockets'[s]),
         \/ session' = NoSession
         \/ session # NoSession /\ session'.socket = session.socket
         \/ session' = session,
         \A t \in Tabs : ConnOf(t)' /\ SocketOf(t)' /\ LetsGo(t)
  PROVE  HolderInv'
<1>0. \A s \in DOMAIN sockets : sockets[s].tab \in Tabs
  BY ConnectionType DEF Connections
<1>1. ASSUME NEW s \in DOMAIN sockets
      PROVE  InitLeads(s)'
  BY <1>1 DEF HolderInv, InitLeads, Stays
<1>2. ASSUME NEW s \in DOMAIN sockets
      PROVE  Opening(s)'
  <2>1. sockets[s].tab \in Tabs /\ Opening(s)
    BY <1>0 DEF HolderInv
  <2>. QED
    BY <2>1 DEF Opening, Stays, LetsGo
<1>3. SessionHasAHolder'
  <2>. SUFFICES ASSUME session' # NoSession PROVE SessionHasAHolder'
    BY DEF SessionHasAHolder, NoSession
  <2>0. PICK s : s = session.socket
    OBVIOUS
  <2>9. PICK t : t = sockets[s].tab
    OBVIOUS
  <2>1. session'.socket = s /\ session # NoSession
    BY <2>0
  <2>2. /\ s \in DOMAIN sockets /\ sockets[s].open
        /\ Closing(s) \/ GaveUp(t) \/ tabs[t].ws = s \/ tabs[t].conn = s
    BY <2>0, <2>9, <2>1 DEF HolderInv, SessionHasAHolder
  <2>3. t \in Tabs /\ sockets'[s].tab = t /\ sockets'[s].open
    BY <1>0, <2>9, <2>2 DEF Stays
  <2>4. Closing(s) => Closing(s)'
    BY <2>2 DEF Closing, Shut, Stays
  <2>5. GaveUp(t) => GaveUp(t)'
    BY DEF GaveUp, Stays
  <2>6. tabs[t].ws = s => tabs'[t].ws = s \/ Closing(s)'
    BY <2>2, <2>3 DEF LetsGo, Closing, Shut
  <2>7. tabs[t].conn = s => tabs'[t].conn = s \/ Closing(s)'
    BY <2>2, <2>3 DEF LetsGo, Closing, Shut
  <2>8. /\ s \in DOMAIN sockets' /\ sockets'[s].open /\ sockets'[s].tab = t
        /\ Closing(s)' \/ GaveUp(t)' \/ tabs'[t].ws = s \/ tabs'[t].conn = s
    BY <2>2, <2>3, <2>4, <2>5, <2>6, <2>7
  <2>. QED
    BY <2>1, <2>8 DEF SessionHasAHolder
<1>. QED
  BY <1>1, <1>2, <1>3 DEF HolderInv

LEMMA NoSocketZero ==
  ASSUME VaultTypeOK
  PROVE  0 \notin DOMAIN sockets
BY LenProperties DEF VaultTypeOK

LEMMA StaysSelf == \A c : Stays(c, c)
BY DEF Stays

\* A step of the tab alone, between other states than unlocked and connecting.
LEMMA TabTurns ==
  ASSUME VaultTypeOK, HolderInv, NEW t \in Tabs,
         UNCHANGED sockets, session' \in {session, NoSession},
         \A u \in Tabs : u # t => tabs'[u] = tabs[u],
         tabs'[t].ws = tabs[t].ws, tabs'[t].conn = tabs[t].conn,
         tabs[t].step # "connecting", tabs'[t].step # "connecting",
         tabs[t].status # "unlocked" \/ tabs[t].step # "idle"
  PROVE  HolderInv'
<1>1. \A u \in Tabs : ConnOf(u) /\ SocketOf(u)
  BY DEF HolderInv
<1>2. \A u \in Tabs : ConnOf(u)'
  BY <1>1 DEF ConnOf
<1>3. \A u \in Tabs : SocketOf(u)'
  BY <1>1 DEF SocketOf, Shut
<1>4. \A u \in Tabs : LetsGo(u)
  BY DEF LetsGo
<1>. QED
  BY <1>2, <1>3, <1>4, StaysSelf, NothingTakenOver

\* Messages sent over an open socket.
LEMMA SentStays ==
  ASSUME VaultTypeOK, NEW s \in DOMAIN sockets, NEW ms \in Seq(Message),
         \A i \in DOMAIN ms : ms[i].type # "init"
  PROVE  LET ss == Sent(sockets, s, ms)
         IN  /\ DOMAIN ss = DOMAIN sockets
             /\ \A r \in DOMAIN sockets : Stays(sockets[r], ss[r])
             /\ \A r \in DOMAIN sockets : r # s => ss[r] = sockets[r]
             /\ Shut(ss[s].inbox) <=> Shut(sockets[s].inbox) \/ Shut(ms)
<1>. DEFINE q == sockets[s].inbox
            e == [sockets[s] EXCEPT !.inbox = q \o ms]
            ss == [sockets EXCEPT ![s] = e]
<1>1. sockets[s] \in Connections /\ q \in Seq(Message)
  BY ConnectionType
<1>2. s # 0
  BY NoSocketZero
<1>3. Sent(sockets, s, ms) = ss
  BY <1>2 DEF Sent
<1>4. DOMAIN ss = DOMAIN sockets /\ ss[s] = e /\ \A r \in DOMAIN sockets : r # s => ss[r] = sockets[r]
  OBVIOUS
<1>5. /\ e.inbox = q \o ms /\ e.tab = sockets[s].tab /\ e.open = sockets[s].open
      /\ e.late = sockets[s].late /\ e.ready = sockets[s].ready
  BY <1>1 DEF Connections
<1>. HIDE DEF e, q
<1>6. /\ Fresh(q \o ms) <=> Fresh(q)
      /\ Shut(q \o ms) <=> Shut(q) \/ Shut(ms)
      /\ (\A i \in DOMAIN q : q[i].type = "init" => i = 1)
           => (\A i \in DOMAIN (q \o ms) : (q \o ms)[i].type = "init" => i = 1)
  BY <1>1, InboxGrows
<1>7. Stays(sockets[s], e)
  BY <1>5, <1>6 DEF Stays, q
<1>8. \A r \in DOMAIN sockets : Stays(sockets[r], ss[r])
  BY <1>4, <1>7, StaysSelf
<1>9. Shut(ss[s].inbox) <=> Shut(q) \/ Shut(ms)
  BY <1>4, <1>5, <1>6
<1>. HIDE DEF ss
<1>. QED
  BY <1>3, <1>4, <1>8, <1>9 DEF q

LEMMA RowsAreSent ==
  ASSUME VaultTypeOK, HolderInv, NEW t \in Tabs, NEW ms \in Seq(Message),
         \A i \in DOMAIN ms : ms[i].type \notin {"init", "closed"},
         tabs[t].ws # 0, sockets' = Sent(sockets, tabs[t].ws, ms), UNCHANGED <<session, tabs>>
  PROVE  HolderInv'
<1>1. PICK s : s = tabs[t].ws
  OBVIOUS
<1>2. \A u \in Tabs : ConnOf(u) /\ SocketOf(u)
  BY DEF HolderInv
<1>3. s \in DOMAIN sockets
  BY <1>1, <1>2 DEF SocketOf
<1>4. ~Shut(ms)
  BY DEF Shut
<1>5. /\ DOMAIN sockets' = DOMAIN sockets
      /\ \A r \in DOMAIN sockets : Stays(sockets[r], sockets'[r])
      /\ \A r \in DOMAIN sockets : r # s => sockets'[r] = sockets[r]
      /\ Shut(sockets'[s].inbox) <=> Shut(sockets[s].inbox)
  BY <1>1, <1>3, <1>4, SentStays
<1>6. \A u \in Tabs : ConnOf(u)'
  BY <1>2, <1>5 DEF ConnOf, Stays
<1>7. ASSUME NEW u \in Tabs PROVE SocketOf(u)'
  <2>1. SocketOf(u)
    BY <1>2
  <2>2. \A r \in DOMAIN sockets : Shut(sockets'[r].inbox) <=> Shut(sockets[r].inbox)
    BY <1>5
  <2>. QED
    BY <1>5, <2>1, <2>2 DEF SocketOf, Stays
<1>8. \A u \in Tabs : LetsGo(u)
  BY DEF LetsGo
<1>. QED
  BY <1>5, <1>6, <1>7, <1>8, NothingTakenOver

\* Locking, and forgetting a key before a reset.
LEMMA SaysGoodbye ==
  ASSUME VaultTypeOK, HolderInv, NEW t \in Tabs, LockVault(t) \/ ResetBegins(t)
  PROVE  HolderInv'
<1>. DEFINE ms == <<[type |-> "close"], [type |-> "closed"]>>
<1>0. tabs \in [Tabs -> Tab]
  BY TypeParts
<1>1. PICK s : s = tabs[t].ws
  OBVIOUS
<1>2. \A u \in Tabs : ConnOf(u) /\ SocketOf(u)
  BY DEF HolderInv
<1>3. /\ sockets' = Sent(sockets, s, ms) /\ UNCHANGED session
      /\ tabs[t].step = "idle"
  BY <1>1 DEF LockVault, ResetBegins, Goodbye
<1>4. /\ \A u \in Tabs : u # t => tabs'[u] = tabs[u]
      /\ tabs'[t].ws = 0 /\ tabs'[t].conn = tabs[t].conn /\ tabs'[t].step # "connecting"
  BY <1>0 DEF LockVault, ResetBegins, Tab
<1>5. /\ ms \in Seq(Message) /\ \A i \in DOMAIN ms : ms[i].type # "init"
      /\ Shut(ms)
  <2>1. ms \in Seq(Message) /\ DOMAIN ms = 1..2 /\ ms[1].type = "close" /\ ms[2].type = "closed"
    BY DEF Message
  <2>. QED
    BY <2>1 DEF Shut
<1>6. /\ DOMAIN sockets' = DOMAIN sockets
      /\ \A r \in DOMAIN sockets : Stays(sockets[r], sockets'[r])
      /\ \A r \in DOMAIN sockets : r # s => sockets'[r] = sockets[r]
      /\ s \in DOMAIN sockets => Shut(sockets'[s].inbox)
  <2>1. CASE s = 0
    <3>1. sockets' = sockets
      BY <1>3, <2>1 DEF Sent
    <3>2. s \notin DOMAIN sockets
      BY <2>1, NoSocketZero
    <3>. QED
      BY <3>1, <3>2, StaysSelf
  <2>2. CASE s # 0
    <3>1. s \in DOMAIN sockets
      BY <1>1, <1>2, <2>2 DEF SocketOf
    <3>. HIDE DEF ms
    <3>. QED
      BY <1>3, <1>5, <3>1, SentStays
  <2>. QED
    BY <2>1, <2>2
<1>7. \A u \in Tabs : ConnOf(u)'
  <2>1. tabs[t].conn = 0 /\ tabs[t].step # "connecting"
    BY <1>2, <1>3 DEF ConnOf
  <2>. QED
    BY <1>2, <1>4, <1>6, <2>1 DEF ConnOf, Stays
<1>8. ASSUME NEW u \in Tabs PROVE SocketOf(u)'
  <2>1. CASE u = t
    BY <1>4, <2>1 DEF SocketOf
  <2>2. CASE u # t /\ tabs[u].ws # 0
    <3>1. tabs[u].ws # s
      BY <1>1, <1>2, <2>2 DEF SocketOf
    <3>2. SocketOf(u) /\ tabs'[u] = tabs[u] /\ tabs[u].ws \in DOMAIN sockets
      BY <1>2, <1>4, <2>2 DEF SocketOf
    <3>3. sockets'[tabs[u].ws] = sockets[tabs[u].ws]
      BY <1>6, <3>1, <3>2
    <3>. QED
      BY <1>6, <3>2, <3>3 DEF SocketOf
  <2>3. CASE u # t /\ tabs[u].ws = 0
    BY <1>4, <2>3 DEF SocketOf
  <2>. QED
    BY <2>1, <2>2, <2>3
<1>9. \A u \in Tabs : LetsGo(u)
  BY <1>1, <1>4, <1>6 DEF LetsGo
<1>. QED
  BY <1>3, <1>6, <1>7, <1>8, <1>9, NothingTakenOver

\* A logout or an unload closes the socket of the tab, an unload the one it opens too.
LEMMA LeavesNothingBehind ==
  ASSUME VaultTypeOK, HolderInv, NEW t \in Tabs, NEW unload \in BOOLEAN, TabLeaves(t, unload)
  PROVE  HolderInv'
<1>. DEFINE closed == [type |-> "closed"]
            shut(s) == [sockets[s] EXCEPT !.inbox = Append(@, closed)]
<1>0. tabs \in [Tabs -> Tab]
  BY TypeParts
<1>1. \A u \in Tabs : ConnOf(u) /\ SocketOf(u)
  BY DEF HolderInv
<1>2. ASSUME NEW s \in DOMAIN sockets
      PROVE  Stays(sockets[s], shut(s)) /\ Shut(shut(s).inbox)
  <2>. DEFINE q == sockets[s].inbox
              ms == <<closed>>
  <2>1. sockets[s] \in Connections /\ q \in Seq(Message) /\ ms \in Seq(Message)
    BY ConnectionType DEF Message
  <2>2. /\ \A i \in DOMAIN ms : ms[i].type # "init"
        /\ Shut(ms)
    BY DEF Shut
  <2>3. Append(q, closed) = q \o ms
    BY <2>1, AppendIsConcat, SMTT(30) DEF Message
  <2>4. /\ shut(s).inbox = q \o ms /\ shut(s).tab = sockets[s].tab
        /\ shut(s).open = sockets[s].open /\ shut(s).late = sockets[s].late
        /\ shut(s).ready = sockets[s].ready
    BY <2>1, <2>3 DEF Connections
  <2>. HIDE DEF ms, q, shut
  <2>5. /\ Fresh(q \o ms) <=> Fresh(q)
        /\ Shut(q \o ms)
        /\ (\A i \in DOMAIN q : q[i].type = "init" => i = 1)
             => (\A i \in DOMAIN (q \o ms) : (q \o ms)[i].type = "init" => i = 1)
    BY <2>1, <2>2, InboxGrows
  <2>. QED
    BY <2>4, <2>5 DEF Stays, q
<1>. DEFINE closes(s) == /\ sockets[s].tab = t /\ sockets[s].open /\ ~Closing(s)
                         /\ unload \/ s = tabs[t].ws
<1>3. /\ DOMAIN sockets' = DOMAIN sockets
      /\ \A s \in DOMAIN sockets : sockets'[s] = IF closes(s) THEN shut(s) ELSE sockets[s]
      /\ UNCHANGED session
      /\ tabs[t].step = "connecting" => unload
  BY DEF TabLeaves
<1>4. /\ \A u \in Tabs : u # t => tabs'[u] = tabs[u]
      /\ tabs'[t].ws = 0 /\ tabs'[t].conn = 0 /\ tabs'[t].step # "connecting"
  BY <1>0 DEF TabLeaves, NewTab
<1>. HIDE DEF shut
<1>5. \A s \in DOMAIN sockets : Stays(sockets[s], sockets'[s])
  BY <1>2, <1>3, StaysSelf
<1>6. \A u \in Tabs : ConnOf(u)'
  BY <1>1, <1>3, <1>4, <1>5 DEF ConnOf, Stays
<1>7. ASSUME NEW u \in Tabs PROVE SocketOf(u)'
  <2>1. CASE u = t
    BY <1>4, <2>1 DEF SocketOf
  <2>2. CASE u # t /\ tabs[u].ws # 0
    <3>1. SocketOf(u) /\ tabs'[u] = tabs[u] /\ tabs[u].ws \in DOMAIN sockets
      BY <1>1, <1>4, <2>2 DEF SocketOf
    <3>2. sockets'[tabs[u].ws] = sockets[tabs[u].ws]
      BY <1>3, <2>2, <3>1 DEF SocketOf
    <3>. QED
      BY <1>3, <3>1, <3>2 DEF SocketOf
  <2>3. CASE u # t /\ tabs[u].ws = 0
    BY <1>4, <2>3 DEF SocketOf
  <2>. QED
    BY <2>1, <2>2, <2>3
<1>. QED
  <2>1. ASSUME NEW s \in DOMAIN sockets, sockets[s].tab = t, sockets[s].open,
               s = tabs[t].ws \/ unload
        PROVE  Shut(sockets'[s].inbox)
    <3>1. CASE Closing(s)
      BY <1>5, <2>1, <3>1 DEF Closing, Shut, Stays
    <3>2. CASE ~Closing(s)
      BY <1>2, <1>3, <2>1, <3>2
    <3>. QED
      BY <3>1, <3>2
  <2>2. ASSUME NEW s \in DOMAIN sockets, sockets[s].open, tabs[t].ws = s \/ tabs[t].conn = s
        PROVE  Shut(sockets'[s].inbox)
    <3>1. CASE tabs[t].ws = s
      <4>1. sockets[s].tab = t
        BY <1>1, <2>2, <3>1, NoSocketZero DEF SocketOf
      <4>. QED
        BY <2>1, <2>2, <3>1, <4>1
    <3>2. CASE tabs[t].conn = s
      <4>1. sockets[s].tab = t /\ tabs[t].step = "connecting"
        BY <1>1, <2>2, <3>2, NoSocketZero DEF ConnOf
      <4>. QED
        BY <1>3, <2>1, <2>2, <4>1
    <3>. QED
      BY <2>2, <3>1, <3>2
  <2>3. \A u \in Tabs : LetsGo(u)
    BY <1>4, <2>2 DEF LetsGo
  <2>. QED
    BY <1>3, <1>5, <1>6, <1>7, <2>3, NothingTakenOver

LEMMA DropCloses ==
  ASSUME VaultTypeOK, HolderInv, NEW s \in DOMAIN sockets,
         NEW remaining \in 0..Len(sockets[s].inbox), SocketDrops(s, remaining)
  PROVE  HolderInv'
<1>. DEFINE q == sockets[s].inbox
            cut == Append(SubSeq(q, 1, remaining), [type |-> "closed"])
            e == [sockets[s] EXCEPT !.inbox = cut]
<1>0. tabs \in [Tabs -> Tab]
  BY TypeParts
<1>1. PICK t \in Tabs : t = sockets[s].tab
  BY ConnectionType DEF Connections
<1>2. \A u \in Tabs : ConnOf(u) /\ SocketOf(u)
  BY DEF HolderInv
<1>3. sockets' = [sockets EXCEPT ![s] = e] /\ UNCHANGED session
  BY DEF SocketDrops
<1>4. tabs' = [tabs EXCEPT ![t].ws = IF @ = s THEN 0 ELSE @]
  BY <1>1 DEF SocketDrops
<1>5. /\ \A u \in Tabs : u # t => tabs'[u] = tabs[u]
      /\ tabs'[t].ws = IF tabs[t].ws = s THEN 0 ELSE tabs[t].ws
      /\ tabs'[t].conn = tabs[t].conn /\ tabs'[t].step = tabs[t].step
      /\ tabs'[t].status = tabs[t].status
  BY <1>0, <1>4 DEF Tab
<1>6. Stays(sockets[s], e) /\ Shut(e.inbox)
  <2>1. sockets[s] \in Connections /\ q \in Seq(Message)
    BY ConnectionType
  <2>2. /\ e.inbox = cut /\ e.tab = sockets[s].tab /\ e.open = sockets[s].open
        /\ e.late = sockets[s].late /\ e.ready = sockets[s].ready
    BY <2>1 DEF Connections
  <2>. HIDE DEF e
  <2>3. /\ Shut(cut)
        /\ Fresh(cut) => Fresh(q)
        /\ (\A i \in DOMAIN q : q[i].type = "init" => i = 1)
             => (\A i \in DOMAIN cut : cut[i].type = "init" => i = 1)
    BY <2>1, InboxCut
  <2>. HIDE DEF cut
  <2>. QED
    BY <2>2, <2>3 DEF Stays
<1>. HIDE DEF e
<1>7. /\ DOMAIN sockets' = DOMAIN sockets /\ sockets'[s] = e
      /\ \A r \in DOMAIN sockets : r # s => sockets'[r] = sockets[r]
  BY <1>3
<1>8. \A r \in DOMAIN sockets : Stays(sockets[r], sockets'[r])
  BY <1>6, <1>7, StaysSelf
<1>9. \A u \in Tabs : ConnOf(u)'
  BY <1>2, <1>5, <1>7, <1>8 DEF ConnOf, Stays
<1>10. ASSUME NEW u \in Tabs PROVE SocketOf(u)'
  <2>1. CASE tabs'[u].ws = 0
    BY <2>1 DEF SocketOf
  <2>2. CASE tabs'[u].ws # 0
    <3>1. /\ tabs'[u].ws = tabs[u].ws /\ tabs'[u].step = tabs[u].step
          /\ tabs'[u].status = tabs[u].status
      BY <1>5, <2>2
    <3>2. SocketOf(u) /\ tabs[u].ws \in DOMAIN sockets /\ sockets[tabs[u].ws].tab = u
      BY <1>2, <2>2, <3>1 DEF SocketOf
    <3>3. tabs[u].ws # s
      BY <1>1, <1>5, <2>2, <3>2
    <3>4. sockets'[tabs[u].ws] = sockets[tabs[u].ws]
      BY <1>7, <3>2, <3>3
    <3>. QED
      BY <1>7, <3>1, <3>2, <3>4 DEF SocketOf
  <2>. QED
    BY <2>1, <2>2
<1>11. \A u \in Tabs : LetsGo(u)
  BY <1>5, <1>6, <1>7 DEF LetsGo
<1>. QED
  BY <1>3, <1>7, <1>8, <1>9, <1>10, <1>11, NothingTakenOver

\* A tab opens a socket, which is the one it waits for.
LEMMA ConnectOpens ==
  ASSUME VaultTypeOK, HolderInv, NEW t \in Tabs, Connect(t)
  PROVE  HolderInv'
<1>. DEFINE m == [type |-> "init", key |-> tabs[t].pending]
            e == [tab |-> t, inbox |-> <<m>>, ready |-> FALSE, open |-> TRUE, late |-> FALSE]
<1>0. tabs \in [Tabs -> Tab]
  BY TypeParts
<1>1. \A u \in Tabs : ConnOf(u) /\ SocketOf(u)
  BY DEF HolderInv
<1>2. tabs[t].step = "deriving" /\ tabs[t].conn = 0 /\ UNCHANGED session
  BY <1>1 DEF Connect, ConnOf
<1>3. PICK n : n = Len(sockets) + 1
  OBVIOUS
<1>4. /\ \A u \in Tabs : u # t => tabs'[u] = tabs[u]
      /\ tabs'[t].ws = tabs[t].ws /\ tabs'[t].conn = n /\ tabs'[t].step = "connecting"
      /\ tabs'[t].status = tabs[t].status
  BY <1>0, <1>3 DEF Connect, Tab
<1>5. /\ DOMAIN sockets' = DOMAIN sockets \cup {n} /\ n \notin DOMAIN sockets /\ n # 0
      /\ \A s \in DOMAIN sockets : sockets'[s] = sockets[s]
      /\ sockets'[n] = e
  <2>1. sockets \in Seq(Connections) /\ sockets' = Append(sockets, e)
    BY DEF Connect, VaultTypeOK, Connections
  <2>2. e \in Connections
    <3>1. tabs[t].pending \in Keys
      BY <1>0 DEF Tab
    <3>2. m \in Message
      BY <3>1 DEF Message
    <3>. QED
      BY <3>2 DEF Connections
  <2>3. /\ DOMAIN sockets' = 1..(Len(sockets) + 1) /\ DOMAIN sockets = 1..Len(sockets)
        /\ Len(sockets) \in Nat
        /\ \A s \in 1..Len(sockets) : sockets'[s] = sockets[s]
        /\ sockets'[Len(sockets) + 1] = e
    <3>. HIDE DEF e
    <3>. QED
      BY <2>1, <2>2, AppendProperties, LenProperties
  <2>. HIDE DEF e
  <2>. QED
    BY <1>3, <2>3
<1>6. /\ e.tab = t /\ e.ready = FALSE
      /\ \A i \in DOMAIN e.inbox : e.inbox[i].type = "init" => i = 1
  OBVIOUS
<1>. HIDE DEF e
<1>7. ASSUME NEW s \in DOMAIN sockets'
      PROVE  InitLeads(s)' /\ Opening(s)'
  <2>1. CASE s = n
    BY <1>4, <1>5, <1>6, <2>1 DEF InitLeads, Opening
  <2>2. CASE s \in DOMAIN sockets
    <3>1. InitLeads(s) /\ Opening(s) /\ s # 0 /\ sockets[s].tab \in Tabs
      BY <2>2, NoSocketZero, ConnectionType DEF HolderInv, Connections
    <3>. QED
      BY <1>2, <1>4, <1>5, <2>2, <3>1 DEF InitLeads, Opening
  <2>. QED
    BY <1>5, <2>1, <2>2
<1>8. ASSUME NEW u \in Tabs
      PROVE  ConnOf(u)' /\ SocketOf(u)'
  <2>1. ConnOf(u) /\ SocketOf(u)
    BY <1>1
  <2>2. ConnOf(u)'
    BY <1>4, <1>5, <1>6, <2>1 DEF ConnOf
  <2>3. SocketOf(u)'
    BY <1>2, <1>4, <1>5, <2>1 DEF SocketOf
  <2>. QED
    BY <2>2, <2>3
<1>9. SessionHasAHolder'
  <2>. SUFFICES ASSUME session # NoSession PROVE SessionHasAHolder'
    BY <1>2 DEF SessionHasAHolder, NoSession
  <2>1. PICK s : s = session.socket
    OBVIOUS
  <2>2. PICK u : u = sockets[s].tab
    OBVIOUS
  <2>3. /\ s \in DOMAIN sockets /\ sockets[s].open
        /\ Closing(s) \/ GaveUp(u) \/ tabs[u].ws = s \/ tabs[u].conn = s
    BY <2>1, <2>2 DEF HolderInv, SessionHasAHolder
  <2>4. u \in Tabs /\ s # 0
    BY <2>2, <2>3, ConnectionType, NoSocketZero DEF Connections
  <2>5. sockets'[s] = sockets[s] /\ s \in DOMAIN sockets'
    BY <1>5, <2>3
  <2>6. Closing(s) => Closing(s)'
    BY <2>5 DEF Closing
  <2>7. GaveUp(u) => GaveUp(u)'
    BY <1>5 DEF GaveUp
  <2>8. tabs[u].ws = s \/ tabs[u].conn = s => tabs'[u].ws = s \/ tabs'[u].conn = s
    BY <1>2, <1>4, <2>4
  <2>9. session'.socket = s /\ sockets'[s].tab = u /\ sockets'[s].open
    BY <1>2, <2>1, <2>2, <2>3, <2>5
  <2>. QED
    BY <2>3, <2>5, <2>6, <2>7, <2>8, <2>9 DEF SessionHasAHolder
<1>. QED
  BY <1>7, <1>8, <1>9 DEF HolderInv

\* A flag of one connection changes; its messages do not.
LEMMA ConnectTimeout ==
  ASSUME VaultTypeOK, HolderInv, NEW t \in Tabs, ConnectTimesOut(t)
  PROVE  HolderInv'
<1>0. tabs \in [Tabs -> Tab]
  BY TypeParts
<1>1. \A u \in Tabs : ConnOf(u) /\ SocketOf(u)
  BY DEF HolderInv
<1>2. PICK n : n = tabs[t].conn
  OBVIOUS
<1>3. n \in DOMAIN sockets /\ sockets[n].tab = t /\ tabs[t].step = "connecting" /\ n # 0
  BY <1>1, <1>2 DEF ConnectTimesOut, ConnOf
<1>. DEFINE e == [sockets[n] EXCEPT !.late = TRUE]
<1>4. sockets' = [sockets EXCEPT ![n] = e] /\ UNCHANGED session
  BY <1>2 DEF ConnectTimesOut
<1>5. /\ \A u \in Tabs : u # t => tabs'[u] = tabs[u]
      /\ tabs'[t].ws = tabs[t].ws /\ tabs'[t].conn = 0 /\ tabs'[t].step = "idle"
  BY <1>0 DEF ConnectTimesOut, Tab
<1>6. /\ e.tab = sockets[n].tab /\ e.inbox = sockets[n].inbox /\ e.open = sockets[n].open
      /\ e.ready = sockets[n].ready /\ e.late
  BY <1>3, ConnectionType DEF Connections
<1>. HIDE DEF e
<1>7. /\ DOMAIN sockets' = DOMAIN sockets /\ sockets'[n] = e
      /\ \A r \in DOMAIN sockets : r # n => sockets'[r] = sockets[r]
  BY <1>3, <1>4
<1>8. /\ \A r \in DOMAIN sockets :
           /\ sockets'[r].tab = sockets[r].tab /\ sockets'[r].inbox = sockets[r].inbox
           /\ sockets'[r].open = sockets[r].open /\ sockets'[r].ready = sockets[r].ready
           /\ sockets[r].late => sockets'[r].late
      /\ sockets'[n].late
  BY <1>6, <1>7
<1>9. ASSUME NEW s \in DOMAIN sockets'
      PROVE  InitLeads(s)' /\ Opening(s)'
  <2>1. InitLeads(s) /\ Opening(s) /\ sockets[s].tab \in Tabs
    BY <1>7, ConnectionType DEF HolderInv, Connections
  <2>2. InitLeads(s)'
    BY <1>7, <1>8, <2>1 DEF InitLeads
  <2>3. Opening(s)'
    BY <1>2, <1>3, <1>5, <1>7, <1>8, <2>1 DEF Opening
  <2>. QED
    BY <2>2, <2>3
<1>10. ASSUME NEW u \in Tabs
       PROVE  ConnOf(u)' /\ SocketOf(u)'
  <2>1. ConnOf(u) /\ SocketOf(u)
    BY <1>1
  <2>2. ConnOf(u)'
    BY <1>5, <1>7, <1>8, <2>1 DEF ConnOf
  <2>3. SocketOf(u)'
    BY <1>3, <1>5, <1>7, <1>8, <2>1 DEF SocketOf
  <2>. QED
    BY <2>2, <2>3
<1>11. SessionHasAHolder'
  <2>. SUFFICES ASSUME session # NoSession PROVE SessionHasAHolder'
    BY <1>4 DEF SessionHasAHolder, NoSession
  <2>1. PICK s : s = session.socket
    OBVIOUS
  <2>2. PICK u : u = sockets[s].tab
    OBVIOUS
  <2>3. /\ s \in DOMAIN sockets /\ sockets[s].open
        /\ Closing(s) \/ GaveUp(u) \/ tabs[u].ws = s \/ tabs[u].conn = s
    BY <2>1, <2>2 DEF HolderInv, SessionHasAHolder
  <2>4. Closing(s) => Closing(s)'
    BY <1>8, <2>3 DEF Closing
  <2>5. GaveUp(u) => GaveUp(u)'
    BY <1>7, <1>8 DEF GaveUp
  <2>6. u = t => GaveUp(u)'
    BY <1>3, <1>7, <1>8 DEF GaveUp
  <2>7. u \in Tabs
    BY <2>2, <2>3, ConnectionType DEF Connections
  <2>8. u # t => tabs'[u].ws = tabs[u].ws /\ tabs'[u].conn = tabs[u].conn
    BY <1>5, <2>7
  <2>9. /\ session'.socket = s /\ s \in DOMAIN sockets'
        /\ sockets'[s].tab = u /\ sockets'[s].open
    BY <1>4, <1>7, <1>8, <2>1, <2>2, <2>3
  <2>. QED
    BY <2>3, <2>4, <2>5, <2>6, <2>8, <2>9 DEF SessionHasAHolder
<1>. QED
  BY <1>7, <1>9, <1>10, <1>11 DEF HolderInv

\* 'ready' arrives: on the socket the tab is opening, or on one that it gave up.
LEMMA ReadyHolds ==
  ASSUME VaultTypeOK, HolderInv, NEW t \in Tabs, NEW n \in DOMAIN sockets, Ready(t, n)
  PROVE  HolderInv'
<1>. DEFINE e == [sockets[n] EXCEPT !.ready = FALSE]
<1>0. tabs \in [Tabs -> Tab]
  BY TypeParts
<1>1. \A u \in Tabs : ConnOf(u) /\ SocketOf(u)
  BY DEF HolderInv
<1>2. /\ sockets[n].tab = t /\ sockets[n].ready /\ sockets[n].open /\ ~Shut(sockets[n].inbox)
      /\ sockets' = [sockets EXCEPT ![n] = e] /\ UNCHANGED session
  BY DEF Ready, Closing, Shut
<1>3. /\ \A u \in Tabs : u # t => tabs'[u] = tabs[u]
      /\ tabs'[t].ws = n
      /\ \/ /\ tabs[t].step = "connecting" /\ tabs[t].conn = n
            /\ tabs'[t].conn = 0 /\ tabs'[t].step = "idle" /\ tabs'[t].status = "unlocked"
         \/ /\ tabs[t].step # "connecting" \/ tabs[t].conn # n
            /\ tabs'[t].conn = tabs[t].conn /\ tabs'[t].step = tabs[t].step
            /\ tabs'[t].status = tabs[t].status
  BY <1>0 DEF Ready, Tab
<1>4. /\ e.tab = sockets[n].tab /\ e.inbox = sockets[n].inbox /\ e.open = sockets[n].open
      /\ e.late = sockets[n].late /\ ~e.ready
  BY ConnectionType DEF Connections
<1>. HIDE DEF e
<1>5. /\ DOMAIN sockets' = DOMAIN sockets /\ sockets'[n] = e
      /\ \A r \in DOMAIN sockets : r # n => sockets'[r] = sockets[r]
  BY <1>2
<1>6. /\ \A r \in DOMAIN sockets :
           /\ sockets'[r].tab = sockets[r].tab /\ sockets'[r].inbox = sockets[r].inbox
           /\ sockets'[r].open = sockets[r].open /\ sockets'[r].late = sockets[r].late
           /\ sockets'[r].ready => sockets[r].ready
      /\ ~sockets'[n].ready
  BY <1>4, <1>5
<1>7. n # 0 /\ InitLeads(n) /\ Opening(n) /\ ~Fresh(sockets[n].inbox)
  BY <1>2, NoSocketZero DEF HolderInv, InitLeads
<1>8. sockets[n].late \/ (tabs[t].conn = n /\ tabs[t].step = "connecting")
  BY <1>1, <1>2, <1>7 DEF Opening, ConnOf
<1>9. ASSUME NEW s \in DOMAIN sockets'
      PROVE  InitLeads(s)' /\ Opening(s)'
  <2>1. InitLeads(s) /\ Opening(s) /\ sockets[s].tab \in Tabs
    BY <1>5, ConnectionType DEF HolderInv, Connections
  <2>2. InitLeads(s)'
    BY <1>5, <1>6, <2>1 DEF InitLeads
  <2>3. CASE s = n
    BY <1>6, <1>7, <2>2, <2>3 DEF Opening
  <2>4. CASE s # n
    BY <1>3, <1>5, <1>6, <2>1, <2>2, <2>4 DEF Opening
  <2>. QED
    BY <2>3, <2>4
<1>10. ASSUME NEW u \in Tabs
       PROVE  ConnOf(u)' /\ SocketOf(u)'
  <2>1. ConnOf(u) /\ SocketOf(u)
    BY <1>1
  <2>2. ConnOf(u)'
    BY <1>3, <1>5, <1>6, <1>7, <2>1 DEF ConnOf
  <2>3. CASE u = t
    BY <1>2, <1>3, <1>5, <1>6, <1>8, <2>2, <2>3 DEF SocketOf
  <2>4. CASE u # t
    BY <1>3, <1>5, <1>6, <2>1, <2>2, <2>4 DEF SocketOf
  <2>. QED
    BY <2>3, <2>4
<1>11. SessionHasAHolder'
  <2>. SUFFICES ASSUME session # NoSession PROVE SessionHasAHolder'
    BY <1>2 DEF SessionHasAHolder, NoSession
  <2>1. PICK s : s = session.socket
    OBVIOUS
  <2>2. PICK u : u = sockets[s].tab
    OBVIOUS
  <2>3. /\ s \in DOMAIN sockets /\ sockets[s].open
        /\ Closing(s) \/ GaveUp(u) \/ tabs[u].ws = s \/ tabs[u].conn = s
    BY <2>1, <2>2 DEF HolderInv, SessionHasAHolder
  <2>4. Closing(s) => Closing(s)'
    BY <1>6, <2>3 DEF Closing
  <2>5. GaveUp(u) => GaveUp(u)'
    BY <1>5, <1>6 DEF GaveUp
  <2>6. u \in Tabs /\ s # 0
    BY <2>2, <2>3, ConnectionType, NoSocketZero DEF Connections
  <2>7. /\ session'.socket = s /\ s \in DOMAIN sockets'
        /\ sockets'[s].tab = u /\ sockets'[s].open
    BY <1>2, <1>5, <1>6, <2>1, <2>2, <2>3
  <2>8. CASE u # t
    <3>1. tabs'[u] = tabs[u]
      BY <1>3, <2>6, <2>8
    <3>. QED
      BY <2>3, <2>4, <2>5, <2>7, <3>1 DEF SessionHasAHolder
  <2>9. CASE u = t /\ ~GaveUp(t) /\ ~Closing(s)
    <3>1. ~sockets[n].late /\ tabs[t].conn = n /\ tabs[t].step = "connecting"
      BY <1>2, <1>8, <2>9 DEF GaveUp
    <3>2. tabs[t].ws = 0
      BY <1>1, <2>9, <3>1 DEF SocketOf, GaveUp
    <3>3. s = n
      BY <2>3, <2>6, <2>9, <3>1, <3>2
    <3>. QED
      BY <1>3, <2>7, <2>9, <3>3 DEF SessionHasAHolder
  <2>. QED
    BY <2>3, <2>4, <2>5, <2>7, <2>8, <2>9 DEF SessionHasAHolder
<1>. QED
  BY <1>5, <1>9, <1>10, <1>11 DEF HolderInv

\* The store takes the first message of a socket that stays open.
LEMMA TailHolds ==
  ASSUME VaultTypeOK, HolderInv, NEW n \in DOMAIN sockets, Deliver(n),
         Head(sockets[n].inbox).type # "closed"
  PROVE  HolderInv'
<1>. DEFINE q == sockets[n].inbox
            m == Head(q)
            e == [sockets[n] EXCEPT !.inbox = Tail(q), !.ready = @ \/ m.type = "init"]
<1>1. \A u \in Tabs : ConnOf(u) /\ SocketOf(u)
  BY DEF HolderInv
<1>2. /\ sockets' = [sockets EXCEPT ![n] = e] /\ UNCHANGED tabs
      /\ sockets[n].open /\ q # <<>>
  BY DEF Deliver
<1>3. sockets[n] \in Connections /\ q \in Seq(Message) /\ sockets[n].tab \in Tabs
  BY ConnectionType DEF Connections
<1>4. InitLeads(n) /\ Opening(n)
  BY DEF HolderInv
<1>5. /\ ~Fresh(Tail(q))
      /\ Shut(Tail(q)) <=> Shut(q)
      /\ m.type = "init" => Fresh(q)
  BY <1>2, <1>3, <1>4, InboxTail DEF InitLeads
<1>6. /\ e.tab = sockets[n].tab /\ e.inbox = Tail(q) /\ e.open = sockets[n].open
      /\ e.late = sockets[n].late /\ (e.ready => sockets[n].ready \/ m.type = "init")
  BY <1>3 DEF Connections
<1>. HIDE DEF e
<1>7. /\ DOMAIN sockets' = DOMAIN sockets /\ sockets'[n] = e
      /\ \A r \in DOMAIN sockets : r # n => sockets'[r] = sockets[r]
  BY <1>2
<1>8. \A r \in DOMAIN sockets :
        /\ sockets'[r].tab = sockets[r].tab /\ sockets'[r].open = sockets[r].open
        /\ sockets'[r].late = sockets[r].late
        /\ Shut(sockets'[r].inbox) <=> Shut(sockets[r].inbox)
        /\ sockets'[r].ready \/ Fresh(sockets'[r].inbox)
             => sockets[r].ready \/ Fresh(sockets[r].inbox)
  BY <1>5, <1>6, <1>7
<1>9. ASSUME NEW s \in DOMAIN sockets'
      PROVE  InitLeads(s)' /\ Opening(s)'
  <2>1. InitLeads(s) /\ Opening(s)
    BY <1>7 DEF HolderInv
  <2>2. Opening(s)'
    BY <1>2, <1>7, <1>8, <2>1 DEF Opening
  <2>3. InitLeads(s)'
    BY <1>5, <1>6, <1>7, <2>1, ZenonT(40) DEF InitLeads, Fresh
  <2>. QED
    BY <2>2, <2>3
<1>10. \A u \in Tabs : ConnOf(u)' /\ SocketOf(u)'
  BY <1>1, <1>2, <1>7, <1>8 DEF ConnOf, SocketOf
<1>11. session' \in {session, NoSession} \/ (session'.socket = n /\ m.type = "init")
  <2>1. CASE m.type = "init"
    <3>1. HandleSessionInit(n, m.key)
      BY <2>1 DEF Deliver
    <3>. QED
      BY <2>1, <3>1 DEF HandleSessionInit
  <2>2. CASE m.type = "close"
    BY <2>2 DEF Deliver, ClearSession
  <2>3. CASE m.type = "store"
    <3>1. HandleStoreSecret(m.key)
      BY <2>3 DEF Deliver
    <3>. QED
      BY <3>1 DEF HandleStoreSecret, AfterValidation
  <2>4. CASE m.type = "delete"
    <3>1. HandleDeleteSecret(m.row)
      BY <2>4 DEF Deliver
    <3>. QED
      BY <3>1 DEF HandleDeleteSecret, AfterValidation
  <2>5. m \in Message
    BY <1>2, <1>3, HeadTailProperties
  <2>. QED
    BY <2>1, <2>2, <2>3, <2>4, <2>5 DEF Message
<1>12. SessionHasAHolder'
  <2>. SUFFICES ASSUME session' # NoSession PROVE SessionHasAHolder'
    BY DEF SessionHasAHolder, NoSession
  <2>1. PICK s : s = session'.socket
    OBVIOUS
  <2>2. PICK u : u = sockets[s].tab
    OBVIOUS
  <2>3. /\ s \in DOMAIN sockets /\ sockets[s].open
        /\ Shut(sockets[s].inbox) \/ GaveUp(u) \/ tabs[u].ws = s \/ tabs[u].conn = s
    <3>1. CASE session' = session
      BY <2>1, <2>2, <3>1 DEF HolderInv, SessionHasAHolder, Closing, Shut
    <3>2. CASE session' # session
      <4>1. s = n /\ Fresh(q)
        BY <1>5, <1>11, <2>1, <3>2
      <4>. QED
        BY <1>2, <1>4, <2>2, <4>1 DEF Opening, GaveUp
    <3>. QED
      BY <3>1, <3>2
  <2>4. GaveUp(u) => GaveUp(u)'
    BY <1>7, <1>8 DEF GaveUp
  <2>5. Shut(sockets[s].inbox) => Closing(s)'
    BY <1>8, <2>3 DEF Closing, Shut
  <2>6. /\ s \in DOMAIN sockets' /\ sockets'[s].tab = u /\ sockets'[s].open
    BY <1>7, <1>8, <2>2, <2>3
  <2>. QED
    BY <1>2, <2>1, <2>3, <2>4, <2>5, <2>6 DEF SessionHasAHolder
<1>. QED
  BY <1>7, <1>9, <1>10, <1>12 DEF HolderInv

\* It hears of a close: whoever's session there was is gone.
LEMMA CloseHolds ==
  ASSUME VaultTypeOK, HolderInv, NEW n \in DOMAIN sockets, Deliver(n),
         Head(sockets[n].inbox).type = "closed"
  PROVE  HolderInv'
<1>. DEFINE e == ClosedSocketOf(sockets[n].tab)
<1>1. \A u \in Tabs : ConnOf(u) /\ SocketOf(u)
  BY DEF HolderInv
<1>2. /\ sockets' = [sockets EXCEPT ![n] = e] /\ UNCHANGED tabs
      /\ session' = NoSession /\ sockets[n].inbox # <<>>
  BY DEF Deliver, ClearSession
<1>3. Shut(sockets[n].inbox)
  <2>1. InitLeads(n)
    BY DEF HolderInv
  <2>. QED
    BY <1>2, <2>1, ConnectionType, InboxTail DEF InitLeads
<1>4. e.tab = sockets[n].tab /\ ~e.open /\ ~e.ready /\ e.inbox = <<>>
  BY DEF ClosedSocketOf
<1>. HIDE DEF e
<1>5. /\ DOMAIN sockets' = DOMAIN sockets /\ sockets'[n] = e
      /\ \A r \in DOMAIN sockets : r # n => sockets'[r] = sockets[r]
  BY <1>2
<1>6. ASSUME NEW s \in DOMAIN sockets'
      PROVE  InitLeads(s)' /\ Opening(s)'
  <2>1. InitLeads(s) /\ Opening(s)
    BY <1>5 DEF HolderInv
  <2>2. Opening(s)'
    BY <1>2, <1>4, <1>5, <2>1 DEF Opening
  <2>3. InitLeads(s)'
    BY <1>4, <1>5, <2>1 DEF InitLeads
  <2>. QED
    BY <2>2, <2>3
<1>7. ASSUME NEW u \in Tabs
      PROVE  ConnOf(u)' /\ SocketOf(u)'
  <2>1. ConnOf(u) /\ SocketOf(u)
    BY <1>1
  <2>2. ConnOf(u)'
    BY <1>2, <1>4, <1>5, <2>1 DEF ConnOf
  <2>3. tabs[u].ws # n \/ tabs[u].ws = 0
    BY <1>3, <2>1 DEF SocketOf
  <2>4. SocketOf(u)'
    BY <1>2, <1>5, <2>1, <2>3 DEF SocketOf
  <2>. QED
    BY <2>2, <2>4
<1>8. SessionHasAHolder'
  BY <1>2 DEF SessionHasAHolder, NoSession
<1>. QED
  BY <1>5, <1>6, <1>7, <1>8 DEF HolderInv

LEMMA HolderTabStep ==
  ASSUME VaultTypeOK, HolderInv, NEW t \in Tabs, TabStep(t)
  PROVE  HolderInv'
<1>0. tabs \in [Tabs -> Tab]
  BY TypeParts
<1>1. CASE \/ SetupVault(t) \/ ResetFails(t) \/ RefreshStatus(t) \/ RefreshFails(t)
           \/ ResetVault(t)
           \/ \E method \in {"password", "recovery"} : UnlockDerives(t, method)
  <2>1. UNCHANGED sockets /\ session' \in {session, NoSession}
    BY <1>1 DEF SetupVault, ResetFails, RefreshStatus, RefreshFails, ResetVault, UnlockDerives
  <2>2. /\ \A u \in Tabs : u # t => tabs'[u] = tabs[u]
        /\ tabs'[t].ws = tabs[t].ws /\ tabs'[t].conn = tabs[t].conn
        /\ tabs[t].step # "connecting" /\ tabs'[t].step # "connecting"
        /\ tabs[t].status # "unlocked" \/ tabs[t].step # "idle"
    BY <1>0, <1>1 DEF SetupVault, ResetFails, RefreshStatus, RefreshFails, ResetVault, UnlockDerives, Tab
  <2>. QED
    BY <2>1, <2>2, TabTurns
<1>2. CASE SendStore(t)
  <2>. DEFINE ms == <<[type |-> "store", key |-> tabs[t].vmk]>>
  <2>1. /\ tabs[t].ws # 0 /\ UNCHANGED <<session, tabs>>
        /\ sockets' = Sent(sockets, tabs[t].ws, ms)
    BY <1>2 DEF SendStore
  <2>2. ms \in Seq(Message) /\ \A i \in DOMAIN ms : ms[i].type \notin {"init", "closed"}
    BY <1>0 DEF Tab, Message
  <2>. HIDE DEF ms
  <2>. QED
    BY <2>1, <2>2, RowsAreSent
<1>3. ASSUME NEW row \in DOMAIN secrets, SendDelete(t, row)
      PROVE  HolderInv'
  <2>. DEFINE ms == <<[type |-> "delete", row |-> row]>>
  <2>1. /\ tabs[t].ws # 0 /\ UNCHANGED <<session, tabs>>
        /\ sockets' = Sent(sockets, tabs[t].ws, ms)
    BY <1>3 DEF SendDelete
  <2>2. ms \in Seq(Message) /\ \A i \in DOMAIN ms : ms[i].type \notin {"init", "closed"}
    <3>1. row \in Nat
      BY LenProperties, TypeParts DEF RestTyped
    <3>. QED
      BY <3>1 DEF Message
  <2>. HIDE DEF ms
  <2>. QED
    BY <2>1, <2>2, RowsAreSent
<1>. QED
  BY <1>1, <1>2, <1>3, ConnectOpens, ReadyHolds, ConnectTimeout, SaysGoodbye,
     LeavesNothingBehind DEF TabStep

LEMMA HolderStep ==
  ASSUME VaultTypeOK, HolderInv, [VaultNext]_vaultVars
  PROVE  HolderInv'
<1>1. CASE SessionExpires \/ Cleanup \/ Evict \/ UNCHANGED vaultVars
  <2>1. UNCHANGED <<sockets, tabs>>
    BY <1>1 DEF SessionExpires, Cleanup, Evict, vaultVars
  <2>2. \/ session' = NoSession
        \/ session # NoSession /\ session'.socket = session.socket
        \/ session' = session
    <3>1. session \in [key : Keys, socket : Nat, expired : BOOLEAN]
      BY TypeParts DEF RestTyped
    <3>. QED
      BY <1>1, <3>1 DEF SessionExpires, Cleanup, Evict, vaultVars
  <2>3. \A u \in Tabs : ConnOf(u) /\ SocketOf(u)
    BY DEF HolderInv
  <2>4. \A u \in Tabs : ConnOf(u)' /\ SocketOf(u)'
    BY <2>1, <2>3 DEF ConnOf, SocketOf, Shut
  <2>5. \A u \in Tabs : LetsGo(u)
    BY <2>1 DEF LetsGo
  <2>6. \A s \in DOMAIN sockets : Stays(sockets[s], sockets'[s])
    BY <2>1, StaysSelf
  <2>. QED
    BY <2>1, <2>2, <2>4, <2>5, <2>6, NothingTakenOver
<1>2. CASE \E t \in Tabs : TabStep(t)
  BY <1>2, HolderTabStep
<1>3. ASSUME NEW s \in DOMAIN sockets, Deliver(s)
      PROVE  HolderInv'
  BY <1>3, TailHolds, CloseHolds
<1>4. ASSUME NEW s \in DOMAIN sockets, NEW remaining \in 0..Len(sockets[s].inbox),
             SocketDrops(s, remaining)
      PROVE  HolderInv'
  BY <1>4, DropCloses
<1>. QED
  BY <1>1, <1>2, <1>3, <1>4 DEF VaultNext

\* However many tabs and sockets there are, and whichever are locked, closed, dropped
\* or left: the session of the store is that of a socket that its tab works with or is
\* opening, or whose close is on the way, unless the tab gave a connection up.
THEOREM SessionIsHeld == VaultSpec => []SessionHasAHolder
<1>1. VaultInit => HolderInv
  BY DEF VaultInit, HolderInv, ConnOf, SocketOf, SessionHasAHolder, NewTab, NoSession
<1>2. VaultTypeOK /\ HolderInv /\ [VaultNext]_vaultVars => HolderInv'
  BY HolderStep
<1>3. HolderInv => SessionHasAHolder
  BY DEF HolderInv
<1>. QED
  BY <1>1, <1>2, <1>3, VaultTyped, PTL DEF VaultSpec

-----------------------------------------------------------------------------
(* The conversation and the vault together *)

\* A behaviour of the two together is one of each: what is proved of a part, here or in
\* ConversationProofs, holds of the whole that the run MCUser checks.
THEOREM UserIsItsParts == UserSpec => Spec /\ VaultSpec
<1>1. UserInit => Init /\ VaultInit
  BY DEF UserInit
<1>2. [UserNext]_<<vars, vaultVars, kept>> => [Next]_vars /\ [VaultNext]_vaultVars
  BY DEF UserNext
<1>. QED
  BY <1>1, <1>2, PTL DEF UserSpec, Spec, VaultSpec

\* Whatever a step of either does, the state of both keeps its type.
THEOREM UserTyped == UserSpec => []UserTypeOK
<1>1. TypeOK /\ VaultTypeOK => UserTypeOK
  BY DEF UserTypeOK
<1>. QED
  BY <1>1, UserIsItsParts, TypeCorrect, VaultTyped, PTL
=============================================================================
