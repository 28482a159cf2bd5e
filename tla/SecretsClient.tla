---------------------------- MODULE SecretsClient ----------------------------
(***************************************************************************)
(* How the agent waits for the vault: SecretsClient and the handlers of    *)
(* codingAgent.ts around it.  A get asks the store; told that the vault is *)
(* locked it waits on a promise that all gets of that client share, until  *)
(* a tab says it unlocked, a tab says it locked (or any socket of the      *)
(* agent closes), or 120 seconds pass; then it asks once more.  The store  *)
(* of module Vault is seen here as its session only: open, expired, or     *)
(* locked; it changes under the agent in every way Vault allows.           *)
(***************************************************************************)
EXTENDS Naturals, FiniteSets

CONSTANTS
  Gets,     \* the calls of getDecryptedSecret that overlap
  Clients,  \* identities of SecretsClient objects
  NoClient  \* secretsClient = null

ASSUME ClientAssumption == NoClient \notin Clients

VARIABLES
  store,     \* the session of the store
  notices,   \* vault_unlocked and vault_locked on their way from the tabs
  client,    \* this.secretsClient of the agent
  prompting, \* the clients whose unlockPromise is pending
  gets       \* for each get: where it is, and the client it runs on

clientVars == <<store, notices, client, prompting, gets>>

Idle == [pc |-> "idle", on |-> NoClient]

\* Types of the state.
ClientTypeOK ==
  /\ store \in {"locked", "open", "expired"}
  /\ notices \subseteq {"unlocked", "locked"}
  /\ client \in Clients \cup {NoClient}
  /\ prompting \subseteq Clients
  /\ gets \in [Gets -> {Idle} \cup
        [pc : {"asked", "told_locked", "told", "waiting", "again"}, on : Clients]]

ClientInit ==
  /\ store = "locked"
  /\ notices = {}
  /\ client = NoClient
  /\ prompting = {}
  /\ gets = [g \in Gets |-> Idle]

WaitingOn(c) == {g \in Gets : gets[g].pc = "waiting" /\ gets[g].on = c}

\* The promise of client c settles: everyone who waits on it goes on.
Settled(c, next) ==
  [g \in Gets |-> IF g \in WaitingOn(c)
                    THEN IF next = "idle" THEN Idle ELSE [gets[g] EXCEPT !.pc = next]
                    ELSE gets[g]]

-----------------------------------------------------------------------------
(* get                                                                     *)

\* getDecryptedSecret and getSecretsClient: a client is made when there is none.
GetBegins(g) ==
  /\ gets[g] = Idle
  /\ \E c \in Clients :
       /\ IF client = NoClient THEN \A h \in Gets : gets[h].on # c ELSE c = client
       /\ client' = c
       /\ gets' = [gets EXCEPT ![g] = [pc |-> "asked", on |-> c]]
  /\ UNCHANGED <<store, notices, prompting>>

\* Mutant: a get waits again whenever the vault is locked.
StoreAnswersEachTime(g) ==
  /\ gets[g].pc \in {"asked", "again"}
  /\ store' = IF store = "expired" THEN "locked" ELSE store
  /\ gets' = [gets EXCEPT ![g].pc = IF store = "locked" THEN "told_locked" ELSE "told"]
  /\ UNCHANGED <<notices, client, prompting>>

\* requestSecret of the store: an expired session is cleared and answered with
\* session_expired, which get does not wait for.
StoreAnswers(g) ==
  /\ gets[g].pc \in {"asked", "again"}
  /\ store' = IF store = "expired" THEN "locked" ELSE store
  /\ gets' = [gets EXCEPT ![g].pc =
                IF gets[g].pc = "asked" /\ store = "locked" THEN "told_locked" ELSE "told"]
  /\ UNCHANGED <<notices, client, prompting>>

\* The call of the store throws; getDecryptedSecret returns null.
StoreThrows(g) ==
  /\ gets[g].pc \in {"asked", "again"}
  /\ gets' = [gets EXCEPT ![g] = Idle]
  /\ UNCHANGED <<store, notices, client, prompting>>

GetReturns(g) ==
  /\ gets[g].pc = "told"
  /\ gets' = [gets EXCEPT ![g] = Idle]
  /\ UNCHANGED <<store, notices, client, prompting>>

\* requestUnlock: the first to wait makes the promise and prompts the tabs.
RequestUnlock(g) ==
  /\ gets[g].pc = "told_locked"
  /\ prompting' = prompting \cup {gets[g].on}
  /\ gets' = [gets EXCEPT ![g].pc = "waiting"]
  /\ UNCHANGED <<store, notices, client>>

\* UNLOCK_TIMEOUT_MS, the timer of the promise.
UnlockTimesOut(c) ==
  /\ c \in prompting
  /\ prompting' = prompting \ {c}
  /\ gets' = Settled(c, "idle")
  /\ UNCHANGED <<store, notices, client>>

-----------------------------------------------------------------------------
(* The handlers of the agent.                                              *)

\* handleVaultUnlocked and notifyUnlocked.
HandleVaultUnlocked ==
  /\ "unlocked" \in notices
  /\ notices' = notices \ {"unlocked"}
  /\ prompting' = prompting \ {client}
  /\ gets' = IF client \in prompting THEN Settled(client, "again") ELSE gets
  /\ UNCHANGED <<store, client>>

\* Mutant: the waiting client is dropped without being told.
DropClientSilently ==
  /\ prompting' = prompting \ {client}
  /\ client' = NoClient
  /\ UNCHANGED gets

\* handleVaultLocked, notifyUnlockFailed: the waiters fail, the client is dropped.
DropClient ==
  /\ prompting' = prompting \ {client}
  /\ gets' = IF client \in prompting THEN Settled(client, "idle") ELSE gets
  /\ client' = NoClient

HandleVaultLocked ==
  /\ "locked" \in notices
  /\ notices' = notices \ {"locked"}
  /\ DropClient
  /\ UNCHANGED store

\* handleWebSocketClose: any socket of the agent that closes locks as well.
HandleWebSocketClose ==
  /\ client # NoClient
  /\ DropClient
  /\ UNCHANGED <<store, notices>>

\* The agent's object is evicted or restarts: its calls are gone.
AgentRestarts ==
  /\ client' = NoClient
  /\ prompting' = {}
  /\ gets' = [g \in Gets |-> Idle]
  /\ UNCHANGED <<store, notices>>

-----------------------------------------------------------------------------
(* The tabs and the store of module Vault.                                 *)

\* A tab unlocks, and tells the agent when its status changes.
TabUnlocks ==
  /\ store' = "open"
  /\ notices' = notices \cup {"unlocked"}
  /\ UNCHANGED <<client, prompting, gets>>

TabLocks ==
  /\ store' = "locked"
  /\ notices' = notices \cup {"locked"}
  /\ UNCHANGED <<client, prompting, gets>>

\* sendVaultStatusToAgent when a tab's socket to the agent opens: the tab tells
\* what it believes, which the store need not share.
TabReports(belief) ==
  /\ notices' = notices \cup {belief}
  /\ UNCHANGED <<store, client, prompting, gets>>

\* The session ends without a word: expiry, eviction, another tab's socket.
SessionEnds ==
  /\ store' \in {"locked", "expired"}
  /\ store = "locked" => store' = "locked"
  /\ UNCHANGED <<notices, client, prompting, gets>>

-----------------------------------------------------------------------------
ClientNext ==
  \/ \E g \in Gets : \/ GetBegins(g)
                     \/ StoreAnswers(g)
                     \/ StoreThrows(g)
                     \/ GetReturns(g)
                     \/ RequestUnlock(g)
  \/ \E c \in Clients : UnlockTimesOut(c)
  \/ HandleVaultUnlocked
  \/ HandleVaultLocked
  \/ HandleWebSocketClose
  \/ AgentRestarts
  \/ TabUnlocks
  \/ TabLocks
  \/ \E belief \in {"unlocked", "locked"} : TabReports(belief)
  \/ SessionEnds

\* The store answers, the event loop goes on after an answer, and timers fire.
ClientFairness ==
  /\ \A g \in Gets : /\ WF_clientVars(StoreAnswers(g))
                     /\ WF_clientVars(GetReturns(g))
                     /\ WF_clientVars(RequestUnlock(g))
  /\ \A c \in Clients : WF_clientVars(UnlockTimesOut(c))

ClientSpec == ClientInit /\ [][ClientNext]_clientVars /\ ClientFairness

-----------------------------------------------------------------------------
(* Properties.                                                             *)

\* Exactly the promises somebody waits on are pending: no get waits on a promise
\* that its client has forgotten, which neither an unlock nor the timer could
\* settle, and no client keeps a promise that would swallow the next prompt.
\* The three fields of SecretsClient are cleared in three places, and a client
\* the agent has dropped can still start waiting.
PromptsAreAwaited == prompting = {gets[g].on : g \in {h \in Gets : gets[h].pc = "waiting"}}

\* Whatever the vault, the tabs and the sockets do, every get comes back: with a
\* value, with nothing, or by the timer ("Blocking until unlock completes or
\* times out", SecretsClient.ts).
GetsEnd == \A g \in Gets : gets[g].pc # "idle" ~> gets[g].pc = "idle"
=============================================================================
