----------------------------- MODULE MCServices -----------------------------
(* Four parts that share no variable: a behaviour is one of the client of the secrets store, of the
   rate limiter, of the SDK's connection to an agent, or of an agent with the agentic behaviour. *)
EXTENDS SecretsClient, RateLimit, SdkConnection, Agentic
VARIABLE service
\* Two keys with limits of their own and, as in the default settings, a daily limit each; counted in
\* half credits, so that a request counts for 0 or for 1.5 credits.
TwoConfigs ==
  [k \in LimitKeys |->
    IF k = "apps" THEN [limit |-> 2, period |-> 4, burst |-> 0, burstWindow |-> 2, dailyLimit |-> 4]
                  ELSE [limit |-> 6, period |-> 5, burst |-> 4, burstWindow |-> 2, dailyLimit |-> 8]]
ServicesInit ==
    /\ ClientInit /\ LimitInit /\ SdkInit /\ AgenticInit
    /\ service \in {"secrets", "limits", "sdk", "agentic"}
ServicesNext ==
    \/ service = "secrets" /\ ClientNext /\ UNCHANGED <<limitVars, sdkVars, agenticVars, service>>
    \/ service = "limits" /\ LimitNext /\ UNCHANGED <<clientVars, sdkVars, agenticVars, service>>
    \/ service = "sdk" /\ SdkNext /\ UNCHANGED <<clientVars, limitVars, agenticVars, service>>
    \/ service = "agentic" /\ AgenticNext /\ UNCHANGED <<clientVars, limitVars, sdkVars, service>>
ServicesSpec ==
    /\ ServicesInit /\ [][ServicesNext]_<<clientVars, limitVars, sdkVars, agenticVars, service>>
    /\ ClientFairness /\ AgenticFairness
\* The four type invariants together.
ServicesTypeOK == ClientTypeOK /\ LimitTypeOK /\ SdkTypeOK /\ AgenticTypeOK
=============================================================================
