-------------------------- MODULE SharedDeployment --------------------------
(***************************************************************************)
(* What deployToSandbox promises its callers, without loops, attempts,     *)
(* sessions or instances: a caller boards the flight in preparation, or    *)
(* opens one of its own if there is none; one flight at a time boards; a   *)
(* caller is served only by the flight it boarded, and only once that      *)
(* flight has landed; it may give up earlier.                              *)
(***************************************************************************)
CONSTANTS Callers, None

VARIABLES
    boarding,  \* the caller whose flight may be boarded, or None
    status,    \* of each caller
    flight,    \* the flight each caller is on: the caller that opened it
    landed     \* the flights that have landed

vars == <<boarding, status, flight, landed>>

Init ==
    /\ boarding = None
    /\ status = [c \in Callers |-> "idle"]
    /\ flight = [c \in Callers |-> None]
    /\ landed = {}

\* A caller arrives: it boards the flight that is boarding, or opens its own.
Arrive(c) ==
    /\ status[c] = "idle"
    /\ status' = [status EXCEPT ![c] = "waiting"]
    /\ boarding' = IF boarding = None THEN c ELSE boarding
    /\ flight' = [flight EXCEPT ![c] = boarding']
    /\ UNCHANGED landed

\* A flight somebody opened lands, whether or not its opener still waits.
Land(f) ==
    /\ flight[f] = f
    /\ landed' = landed \cup {f}
    /\ UNCHANGED <<boarding, status, flight>>

\* A caller leaves, served by its flight or empty-handed; with the opener the
\* boarding of its flight ends.
Leave(c) ==
    /\ status[c] = "waiting"
    /\ \E outcome \in {"served", "gaveUp"} :
          /\ outcome = "served" <=> flight[c] \in landed
          /\ status' = [status EXCEPT ![c] = outcome]
    /\ boarding' = IF boarding = c THEN None ELSE boarding
    /\ UNCHANGED <<flight, landed>>

\* A restart: nobody is served any more, and nothing is boarding.
Lose ==
    /\ boarding' = None
    /\ status' = [c \in Callers |-> IF status[c] = "waiting" THEN "gone" ELSE status[c]]
    /\ UNCHANGED <<flight, landed>>

Next == Lose \/ \E c \in Callers : Arrive(c) \/ Land(c) \/ Leave(c)

Spec == Init /\ [][Next]_vars
=============================================================================
