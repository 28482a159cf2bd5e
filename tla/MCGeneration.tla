---------------------------- MODULE MCGeneration ----------------------------
(* Generation on a small set of messages. *)
EXTENDS Generation

\* One message is as good as another: of those that were not sent, the first is sent next.
TurnsInTurn ==
    \A i \in Inputs :
        chat[i].pc = "unsent" /\ chat'[i].pc # "unsent" => i = CHOOSE j \in Inputs : chat[j].pc = "unsent"

\* FairSpec, with that: neither Work nor ChatEnds sends a message.
TurnsSpec ==
    /\ Init /\ [][Next /\ TurnsInTurn]_vars
    /\ WF_vars(Work) /\ \A i \in Inputs : WF_vars(ChatEnds(i))
=============================================================================
