-------------------------------- MODULE Vault --------------------------------
(***************************************************************************)
(* The secrets vault of one user.  UserSecretsStore is a Durable Object    *)
(* that keeps the rows in SQL and, in memory, ONE session: the vault       *)
(* master key, wrapped under a session key, that some tab handed over.     *)
(* The tabs of the user (vault-context.tsx) talk to it over sockets of     *)
(* their own, so what a tab believes, what is on its way and what the      *)
(* store holds can differ.                                                 *)
(*                                                                         *)
(* A master key is a number: the n-th key that a setup derived.  Key 0 is  *)
(* no key; the key derived from a recovery code of vault n is MaxKeys + n. *)
(* Ciphertexts are known by the key they are encrypted under.              *)
(***************************************************************************)
EXTENDS Integers, Sequences, FiniteSets

CONSTANTS
  Tabs,        \* the open tabs of the user
  MaxKeys,     \* bound: setups that derive a key
  MaxSockets,  \* bound: connections opened
  MaxSecrets,  \* bound: rows of the table
  MaxInbox     \* bound: messages on their way over one socket

ASSUME VaultAssumption ==
  /\ MaxKeys \in Nat
  /\ MaxSockets \in Nat
  /\ MaxSecrets \in Nat
  /\ MaxInbox \in Nat

VARIABLES
  vault,      \* the key that vault_config verifies, 0 when there is no row
  keys,       \* the keys derived by setups so far
  secrets,    \* the rows of the table secrets, oldest first
  session,    \* this.session of the store
  sockets,    \* the connections, in the order they were opened
  tabs,       \* what each tab keeps in its refs and its state
  resetUnder  \* history: a reset arrived while a key of the old vault was held

vaultVars == <<vault, keys, secrets, session, sockets, tabs, resetUnder>>

NoSession == [key |-> 0, socket |-> 0, expired |-> FALSE]

Keys == 0..2 * MaxKeys

Message == [type : {"init", "store"}, key : Keys]
             \cup [type : {"close", "closed"}] \cup [type : {"delete"}, row : Nat]

Tab == [status : {"unknown", "not_setup", "locked", "unlocked"},
        vmk : Keys,           \* vmkRef
        ws : Nat,             \* vaultWsRef
        step : {"idle", "deriving", "connecting", "resetting", "refreshing"},
        pending : Keys,       \* the key of the unlock under way
        conn : Nat,           \* the socket of the unlock under way
        codeRefused : BOOLEAN \* the error 'Invalid recovery code'
       ]

\* Types of the whole state (vault-types.ts, vault-context.tsx).
VaultTypeOK ==
  /\ vault \in Keys
  /\ keys \in 0..MaxKeys
  /\ secrets \in Seq([key : Keys, deleted : BOOLEAN])
  /\ session \in [key : Keys, socket : Nat, expired : BOOLEAN]
  /\ sockets \in Seq([tab : Tabs, inbox : Seq(Message), ready : BOOLEAN,
                      open : BOOLEAN, late : BOOLEAN])
  /\ tabs \in [Tabs -> Tab]
  /\ resetUnder \in BOOLEAN

NewTab == [status |-> "unknown", vmk |-> 0, ws |-> 0, step |-> "refreshing",
           pending |-> 0, conn |-> 0, codeRefused |-> FALSE]

VaultInit ==
  /\ vault = 0
  /\ keys = 0
  /\ secrets = <<>>
  /\ session = NoSession
  /\ sockets = <<>>
  /\ tabs = [t \in Tabs |-> NewTab]
  /\ resetUnder = FALSE

-----------------------------------------------------------------------------
(* What can be said of a socket.                                           *)

Closing(s) == \E i \in DOMAIN sockets[s].inbox : sockets[s].inbox[i].type = "closed"

\* What is left of a connection that both ends closed.
ClosedSocketOf(t) == [tab |-> t, inbox |-> <<>>, ready |-> FALSE, open |-> FALSE, late |-> FALSE]

\* Room for n more messages.
Room(s, n) == Len(sockets[s].inbox) + n <= MaxInbox

\* The socket s of ss after its tab sent the messages ms.
Sent(ss, s, ms) == IF s = 0 THEN ss ELSE [ss EXCEPT ![s].inbox = @ \o ms]

\* A key that somebody still holds, or that is on its way to the store.
KeyHeld(k) ==
  \/ \E t \in Tabs : tabs[t].vmk = k \/ tabs[t].pending = k
  \/ \E s \in DOMAIN sockets : \E i \in DOMAIN sockets[s].inbox :
       sockets[s].inbox[i].type \in {"init", "store"} /\ sockets[s].inbox[i].key = k

-----------------------------------------------------------------------------
(* The tab.                                                                *)

\* The key a method of unlocking derives from the configuration of vault v.
\* A code is run through the same derivation as a password, with the same
\* salt: it gives a key of its own.
DerivedKey(v, method) == IF method = "recovery" THEN MaxKeys + v ELSE v

\* verifyVMK: the blob of vault v opens under the key it was made with.
Verifies(v, k) == k = v

\* setupVaultWithPassword / WithPasskey: a fresh key, and setupVault of the
\* store, which refuses when there is a row already (409).
SetupVault(t) ==
  /\ tabs[t].step = "idle" /\ tabs[t].status = "not_setup"
  /\ \/ /\ vault = 0 /\ keys < MaxKeys
        /\ keys' = keys + 1
        /\ vault' = keys + 1
        /\ tabs' = [tabs EXCEPT ![t].step = "deriving", ![t].pending = keys + 1,
                                ![t].codeRefused = FALSE]
     \/ /\ vault # 0
        /\ tabs' = [tabs EXCEPT ![t].codeRefused = FALSE]
        /\ UNCHANGED <<vault, keys>>
  /\ UNCHANGED <<secrets, session, sockets, resetUnder>>

\* unlockWithPassword, WithPasskey and WithRecoveryCode: read the
\* configuration, derive a key, verify it.
UnlockDerives(t, method) ==
  /\ tabs[t].step = "idle" /\ tabs[t].status \in {"unknown", "locked"}
  /\ vault # 0
  /\ LET k == DerivedKey(vault, method)
     IN  tabs' = IF Verifies(vault, k)
                   THEN [tabs EXCEPT ![t].step = "deriving", ![t].pending = k,
                                     ![t].codeRefused = FALSE]
                   ELSE [tabs EXCEPT ![t].codeRefused = TRUE]
  /\ UNCHANGED <<vault, keys, secrets, session, sockets, resetUnder>>

\* unlockWithDerivedKey and connectVaultWebSocket: a new socket, and the
\* wrapped key as its first message.
Connect(t) ==
  /\ tabs[t].step = "deriving"
  /\ Len(sockets) < MaxSockets
  /\ sockets' = Append(sockets,
       [tab |-> t, inbox |-> <<[type |-> "init", key |-> tabs[t].pending]>>,
        ready |-> FALSE, open |-> TRUE, late |-> FALSE])
  /\ tabs' = [tabs EXCEPT ![t].step = "connecting", ![t].conn = Len(sockets) + 1]
  /\ UNCHANGED <<vault, keys, secrets, session, resetUnder>>

\* 'vault_session_ready' arrives: the socket becomes vaultWsRef, even when the
\* promise it resolves has timed out and the unlock was given up.
Ready(t, s) ==
  /\ sockets[s].tab = t /\ sockets[s].ready /\ sockets[s].open /\ ~Closing(s)
  /\ sockets' = [sockets EXCEPT ![s].ready = FALSE]
  /\ tabs' = IF tabs[t].step = "connecting" /\ tabs[t].conn = s
               THEN [tabs EXCEPT ![t].ws = s, ![t].step = "idle", ![t].status = "unlocked",
                                 ![t].vmk = tabs[t].pending, ![t].pending = 0, ![t].conn = 0]
               ELSE [tabs EXCEPT ![t].ws = s]
  /\ UNCHANGED <<vault, keys, secrets, session, resetUnder>>

\* The 10 seconds of connectVaultWebSocket: the unlock fails, the socket stays.
ConnectTimesOut(t) ==
  /\ tabs[t].step = "connecting"
  /\ tabs' = [tabs EXCEPT ![t].step = "idle", ![t].pending = 0, ![t].conn = 0]
  /\ sockets' = [sockets EXCEPT ![tabs[t].conn].late = TRUE]
  /\ UNCHANGED <<vault, keys, secrets, session, resetUnder>>

\* What lockVault sends over the socket of the tab.
Goodbye(ss, s) == Sent(ss, s, <<[type |-> "close"], [type |-> "closed"]>>)

\* Mutant: the tab forgets its socket instead of closing it.
LockVaultQuietly(t) ==
  /\ tabs[t].step = "idle" /\ tabs[t].status \in {"unknown", "unlocked"}
  /\ tabs' = [tabs EXCEPT ![t].ws = 0, ![t].vmk = 0, ![t].status = "locked"]
  /\ UNCHANGED <<vault, keys, secrets, session, sockets, resetUnder>>

LockVault(t) ==
  /\ tabs[t].step = "idle" /\ tabs[t].status \in {"unknown", "unlocked"}
  /\ tabs[t].ws # 0 => Room(tabs[t].ws, 2)
  /\ sockets' = Goodbye(sockets, tabs[t].ws)
  /\ tabs' = [tabs EXCEPT ![t].ws = 0, ![t].vmk = 0, ![t].status = "locked"]
  /\ UNCHANGED <<vault, keys, secrets, session, resetUnder>>

\* resetVault of the tab, down to its request: the tab forgets its key first.
ResetBegins(t) ==
  /\ tabs[t].step = "idle" /\ tabs[t].status \in {"unknown", "locked", "unlocked"}
  /\ tabs[t].ws # 0 => Room(tabs[t].ws, 2)
  /\ sockets' = Goodbye(sockets, tabs[t].ws)
  /\ tabs' = [tabs EXCEPT ![t].ws = 0, ![t].vmk = 0, ![t].step = "resetting",
                          ![t].codeRefused = FALSE]
  /\ UNCHANGED <<vault, keys, secrets, session, resetUnder>>

\* The request of resetVault fails: the status of the tab stays what it was.
ResetFails(t) ==
  /\ tabs[t].step = "resetting"
  /\ tabs' = [tabs EXCEPT ![t].step = "idle"]
  /\ UNCHANGED <<vault, keys, secrets, session, sockets, resetUnder>>

\* refreshStatus: locked unless this tab has a socket and a key.
RefreshStatus(t) ==
  /\ tabs[t].step = "refreshing"
  /\ tabs' = [tabs EXCEPT
       ![t].step = "idle",
       ![t].codeRefused = FALSE,
       ![t].status = IF vault = 0 THEN "not_setup"
                     ELSE IF tabs[t].vmk # 0 /\ tabs[t].ws # 0 THEN "unlocked" ELSE "locked",
       ![t].vmk = IF vault # 0 /\ tabs[t].ws = 0 THEN 0 ELSE tabs[t].vmk]
  /\ UNCHANGED <<vault, keys, secrets, session, sockets, resetUnder>>

\* Its request fails: the status is unknown, the key and the socket stay.
RefreshFails(t) ==
  /\ tabs[t].step = "refreshing"
  /\ tabs' = [tabs EXCEPT ![t].step = "idle", ![t].status = "unknown"]
  /\ UNCHANGED <<vault, keys, secrets, session, sockets, resetUnder>>

\* encryptAndStoreSecret and deleteSecret.
SendStore(t) ==
  /\ tabs[t].vmk # 0 /\ tabs[t].ws # 0
  /\ Room(tabs[t].ws, 1)
  /\ sockets' = Sent(sockets, tabs[t].ws, <<[type |-> "store", key |-> tabs[t].vmk]>>)
  /\ UNCHANGED <<vault, keys, secrets, session, tabs, resetUnder>>

SendDelete(t, row) ==
  /\ tabs[t].ws # 0
  /\ Room(tabs[t].ws, 1)
  /\ sockets' = Sent(sockets, tabs[t].ws, <<[type |-> "delete", row |-> row]>>)
  /\ UNCHANGED <<vault, keys, secrets, session, tabs, resetUnder>>

\* The user logs out, or closes or reloads the tab.  The tab closes the socket
\* of vaultWsRef; a page that goes away closes every socket it opened.
TabLeaves(t, unload) ==
  LET closes(s) == /\ sockets[s].tab = t /\ sockets[s].open /\ ~Closing(s)
                   /\ unload \/ s = tabs[t].ws
  IN  /\ tabs[t].step \in {"idle", "connecting"}
      /\ tabs[t] # NewTab
      /\ tabs[t].step = "connecting" => unload
      /\ \A s \in DOMAIN sockets : closes(s) => Room(s, 1)
      /\ sockets' = [s \in DOMAIN sockets |->
                      IF closes(s) THEN [sockets[s] EXCEPT !.inbox = Append(@, [type |-> "closed"])]
                                   ELSE sockets[s]]
      /\ tabs' = [tabs EXCEPT ![t] = NewTab]
      /\ UNCHANGED <<vault, keys, secrets, session, resetUnder>>

\* The network drops a connection: what it still carried is cut off somewhere,
\* the store hears of the close, and onclose of the tab clears its ref.
SocketDrops(s, kept) ==
  /\ sockets[s].open /\ ~Closing(s)
  /\ kept \in 0..Len(sockets[s].inbox) /\ kept < MaxInbox
  /\ sockets' = [sockets EXCEPT
       ![s].inbox = Append(SubSeq(sockets[s].inbox, 1, kept), [type |-> "closed"])]
  /\ tabs' = [tabs EXCEPT ![sockets[s].tab].ws = IF @ = s THEN 0 ELSE @]
  /\ UNCHANGED <<vault, keys, secrets, session, resetUnder>>

-----------------------------------------------------------------------------
(* The store.                                                              *)

\* validateAndRefreshSession, and what is left of the session after it.
SessionValid == session # NoSession /\ ~session.expired
AfterValidation == IF SessionValid THEN session ELSE NoSession

HandleSessionInit(s, k) ==
  /\ session' = [key |-> k, socket |-> s, expired |-> FALSE]
  /\ UNCHANGED secrets

\* handleSessionClose, webSocketClose and webSocketError: whoever's socket it is.
ClearSession ==
  /\ session' = NoSession
  /\ UNCHANGED secrets

HandleStoreSecret(k) ==
  /\ session' = AfterValidation
  /\ secrets' = IF SessionValid THEN Append(secrets, [key |-> k, deleted |-> FALSE])
                                ELSE secrets

HandleDeleteSecret(row) ==
  /\ session' = AfterValidation
  /\ secrets' = IF SessionValid /\ row \in DOMAIN secrets
                  THEN [secrets EXCEPT ![row].deleted = TRUE]
                  ELSE secrets

\* The store takes the next message, or the close, of an open socket.
Deliver(s) ==
  /\ sockets[s].open /\ sockets[s].inbox # <<>>
  /\ LET m == Head(sockets[s].inbox)
     IN  /\ m.type = "store" => Len(secrets) < MaxSecrets
         /\ CASE m.type = "init" -> HandleSessionInit(s, m.key)
              [] m.type \in {"close", "closed"} -> ClearSession
              [] m.type = "store" -> HandleStoreSecret(m.key)
              [] m.type = "delete" -> HandleDeleteSecret(m.row)
         /\ sockets' = IF m.type = "closed"
                         THEN [sockets EXCEPT ![s] = ClosedSocketOf(sockets[s].tab)]
                         ELSE [sockets EXCEPT ![s].inbox = Tail(@),
                                              ![s].ready = @ \/ m.type = "init"]
  /\ UNCHANGED <<vault, keys, tabs, resetUnder>>

\* Mutant: the table of the secrets is not dropped.
ResetVaultKeepsSecrets(t) ==
  /\ tabs[t].step = "resetting"
  /\ session' = NoSession
  /\ vault' = 0
  /\ tabs' = [tabs EXCEPT ![t].step = "refreshing"]
  /\ resetUnder' = (resetUnder \/ \E k \in Keys \ {0} : KeyHeld(k))
  /\ UNCHANGED <<keys, sockets, secrets>>

\* resetVault of the store: both tables are dropped and created anew.
ResetVault(t) ==
  /\ tabs[t].step = "resetting"
  /\ session' = NoSession
  /\ secrets' = <<>>
  /\ vault' = 0
  /\ tabs' = [tabs EXCEPT ![t].step = "refreshing"]
  /\ resetUnder' = (resetUnder \/ \E k \in Keys \ {0} : KeyHeld(k))
  /\ UNCHANGED <<keys, sockets>>

\* SESSION_TIMEOUT_MS pass without an access.
SessionExpires ==
  /\ session # NoSession /\ ~session.expired
  /\ session' = [session EXCEPT !.expired = TRUE]
  /\ UNCHANGED <<vault, keys, secrets, sockets, tabs, resetUnder>>

\* alarm, every CLEANUP_INTERVAL_MS, and isVaultUnlocked on an expired session.
Cleanup ==
  /\ session # NoSession /\ session.expired
  /\ session' = NoSession
  /\ UNCHANGED <<vault, keys, secrets, sockets, tabs, resetUnder>>

\* The object is evicted: the sockets hibernate, the session is gone.
Evict ==
  /\ session # NoSession
  /\ session' = NoSession
  /\ UNCHANGED <<vault, keys, secrets, sockets, tabs, resetUnder>>

-----------------------------------------------------------------------------
TabStep(t) ==
  \/ SetupVault(t)
  \/ \E method \in {"password", "recovery"} : UnlockDerives(t, method)
  \/ Connect(t)
  \/ \E s \in DOMAIN sockets : Ready(t, s)
  \/ ConnectTimesOut(t)
  \/ LockVault(t)
  \/ ResetBegins(t)
  \/ ResetFails(t)
  \/ ResetVault(t)
  \/ RefreshStatus(t)
  \/ RefreshFails(t)
  \/ SendStore(t)
  \/ \E row \in DOMAIN secrets : SendDelete(t, row)
  \/ \E unload \in BOOLEAN : TabLeaves(t, unload)

VaultNext ==
  \/ \E t \in Tabs : TabStep(t)
  \/ \E s \in DOMAIN sockets : Deliver(s)
  \/ \E s \in DOMAIN sockets : \E kept \in 0..Len(sockets[s].inbox) : SocketDrops(s, kept)
  \/ SessionExpires
  \/ Cleanup
  \/ Evict

VaultSpec == VaultInit /\ [][VaultNext]_vaultVars

-----------------------------------------------------------------------------
(* Properties.                                                             *)

\* A tab gave a connection up: connectVaultWebSocket timed out and left its
\* socket open.
GaveUp(t) == \E s \in DOMAIN sockets : sockets[s].tab = t /\ sockets[s].late

\* The session of the store never outlives the tab that opened it: while it is
\* there, its socket is the one the tab works with or is opening, or the close
\* of that socket is on its way.  The exception is a tab that gave a connection
\* up: what that connection still brings, or its late 'ready', which replaces
\* vaultWsRef, leaves the session with a socket the tab no longer knows.
SessionHasAHolder ==
  session # NoSession =>
    LET s == session.socket
        t == sockets[s].tab
    IN  /\ s \in DOMAIN sockets /\ sockets[s].open
        /\ Closing(s) \/ GaveUp(t) \/ tabs[t].ws = s \/ tabs[t].conn = s

\* Unless somebody reset the vault while a key of it was still held elsewhere,
\* every row can be read with the key of the vault, and so can the key the
\* session hands to the agent: setup, unlock, lock, expiry, eviction, lost
\* connections and any order of the tabs' messages never mix two keys.
KeysAgree ==
  ~resetUnder =>
    /\ session # NoSession => session.key = vault
    /\ \A i \in DOMAIN secrets : secrets[i].key = vault

\* "These are one-time use codes to recover your vault if you lose access":
\* a code of the vault is never refused.
RecoveryCodesRecover == \A t \in Tabs : ~tabs[t].codeRefused
=============================================================================
