-------------------------------- MODULE MCUser --------------------------------
(* What the application keeps of one user, in two parts that share no variable: the conversation with
   an agent and the vault of the secrets.  A behaviour is one of either. *)
EXTENDS Conversation, Vault, TLC
VARIABLE kept

\* Turns are numbered in the order they begin: which names they have makes no difference.
InOrder == \A t \in Turns : turn[t].pc = "unsent" => \A u \in Turns : u > t => turn[u].pc = "unsent"

\* Bound: one tab at a time shows a status it could not fetch, and only one that failed to before
\* the first connection.
Unfetched(t) == tabs[t].status = "unknown" /\ tabs[t].step # "refreshing"
OneUnfetched ==
    \A t \in Tabs : Unfetched(t)' /\ ~Unfetched(t) =>
        sockets = <<>> /\ \A u \in Tabs : ~Unfetched(u)

\* Bound: no recovery code is tried; it would be refused, which changes nothing else.
NoCodes == \A t \in Tabs : ~tabs'[t].codeRefused

\* Bound: of a clear, a failed INSERT and a restart a behaviour has two.
TwoMishaps == clears' + saveFailures' + restarts' <= 2

UserInit == Init /\ VaultInit /\ kept \in {"conversation", "vault"}
UserNext ==
    \/ kept = "conversation" /\ Next /\ InOrder' /\ TwoMishaps /\ UNCHANGED <<vaultVars, kept>>
    \/ kept = "vault" /\ VaultNext /\ OneUnfetched /\ NoCodes /\ UNCHANGED <<vars, kept>>
UserSpec == UserInit /\ [][UserNext]_<<vars, vaultVars, kept>>

Symmetry == Permutations(Tabs)
\* The two type invariants together.
UserTypeOK == TypeOK /\ VaultTypeOK
=============================================================================
