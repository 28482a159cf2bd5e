-------------------------- MODULE DeploymentProofs --------------------------
(* Proofs about Deployment, for all sets of calls and attempts. *)
EXTENDS Deployment, TLAPS

LEMMA SettleType ==
    ASSUME NEW r \in RunRecords, NEW pc \in Settled
    PROVE  Settle(r, pc) \in RunRecords
BY DEF Settle, Over, NoRun, RunRecords, Settled, Pending, Sessions

LEMMA OverType ==
    ASSUME NEW r \in RunRecords
    PROVE  Over(r) \in RunRecords
BY DEF Over, NoRun, RunRecords, Settled, Pending, Sessions

LEMMA BeginAttemptType ==
    ASSUME TypeOK, NEW l \in Calls, NEW a \in Attempts, NEW tries \in Nat,
           NEW files \in SUBSET Calls, NEW redeploy \in BOOLEAN, NEW g \in SUBSET Calls,
           BeginAttempt(l, a, tries, files, redeploy, g)
    PROVE  /\ sessionId' \in Sessions
           /\ sandboxInstanceId' \in Attempts \cup {None}
           /\ cachedSandboxClient' \in Sessions
           /\ loop' \in [Calls -> LoopRecords]
           /\ run' \in [Attempts -> RunRecords]
<1> DEFINE s == IF redeploy THEN sessionId + 1 ELSE sessionId
           cl == ClientFor(IF redeploy THEN None ELSE cachedSandboxClient, s)
           r == [NoRun EXCEPT !.loop = l]
<1>1. s \in Sessions /\ cl \in Sessions
  BY DEF TypeOK, Sessions, ClientFor
<1>2. r \in RunRecords
  BY DEF NoRun, RunRecords, Pending, Settled, Sessions
<1>3. CreateNewInstance(r, cl, g) \in RunRecords
  BY <1>1, <1>2 DEF CreateNewInstance, RunRecords, Pending, Settled, Sessions
<1>4. \A i \in Attempts :
         [r EXCEPT !.pc = "status", !.client = cl, !.inst = i] \in RunRecords
  BY <1>1, <1>2 DEF RunRecords, Pending, Settled, Sessions
<1>5. [pc |-> "attempt", attempt |-> a, tries |-> tries, files |-> files,
       redeploy |-> redeploy, inst |-> None] \in LoopRecords
  BY DEF LoopRecords, Active
<1>. QED
  BY <1>1, <1>3, <1>4, <1>5 DEF BeginAttempt, TypeOK

LEMMA InstanceReadyType ==
    ASSUME TypeOK, NEW a \in Attempts, NEW i \in Attempts, NEW redeployed \in BOOLEAN,
           run[a].loop \in Calls, InstanceReady(a, i, redeployed)
    PROVE  /\ run' \in [Attempts -> RunRecords]
           /\ cachedSandboxClient' \in Sessions \cup {None}
<1> DEFINE r == [run[a] EXCEPT !.inst = i, !.redeployed = redeployed]
           asked == loop[run[a].loop].files
           files == IF asked = {} \/ redeployed THEN generatedFilesMap ELSE asked
           w == [r EXCEPT !.pc = "write", !.files = files, !.client = GetClient]
<1>1. r \in RunRecords
  BY DEF TypeOK, RunRecords
<1>2. Settle(r, "ok") \in RunRecords
  BY <1>1, SettleType DEF Settled
<1>3. GetClient \in Sessions
  BY DEF GetClient, ClientFor, TypeOK, Sessions
<1>4. files \in SUBSET Calls
  BY DEF TypeOK, LoopRecords
<1>7. w \in RunRecords
  BY <1>1, <1>3, <1>4 DEF RunRecords, Pending, Settled
<1>5. CASE files = {}
  <2>1. /\ run' = [run EXCEPT ![a] = Settle(r, "ok")]
        /\ cachedSandboxClient' \in Sessions \cup {None}
    BY <1>3, <1>5 DEF InstanceReady, ClearLogs, TypeOK
  <2>. QED
    BY <2>1, <1>2 DEF TypeOK
<1>6. CASE files # {}
  <2>1. run' = [run EXCEPT ![a] = w] /\ cachedSandboxClient' = GetClient
    BY <1>6 DEF InstanceReady
  <2>. QED
    BY <2>1, <1>3, <1>7 DEF TypeOK
<1>. QED
  BY <1>5, <1>6

LEMMA TypeInit == Init => Wired
BY NoneAssumption
DEF Init, Wired, TypeOK, RunsWired, LoopsWired, NoCall, NoLoop, NoRun, CallRecords,
    LoopRecords, RunRecords, SandboxRecords, Sessions, Active, Pending, Settled

\* The parts of the state a step of a call can disturb.
LEMMA DeployToSandboxType ==
    ASSUME TypeOK, NEW c \in Calls, NEW files \in SUBSET Calls, NEW redeploy \in BOOLEAN,
           NEW g \in SUBSET Calls, DeployToSandbox(c, files, redeploy, g)
    PROVE  /\ sessionId' \in Sessions
           /\ sandboxInstanceId' \in Attempts \cup {None}
           /\ cachedSandboxClient' \in Sessions \cup {None}
           /\ currentDeploymentPromise' \in Calls \cup {None}
           /\ call' \in [Calls -> CallRecords]
           /\ loop' \in [Calls -> LoopRecords]
           /\ run' \in [Attempts -> RunRecords]
<1>1. CASE Join(c)
  BY <1>1 DEF Join, TypeOK, NoCall, CallRecords
<1>2. CASE Lead(c, files, redeploy, g)
  <2>1. PICK a \in Attempts : BeginAttempt(c, a, 1, files, redeploy, g)
    BY <1>2 DEF Lead
  <2>2. call' \in [Calls -> CallRecords] /\ currentDeploymentPromise' = c
    BY <1>2 DEF Lead, TypeOK, NoCall, CallRecords
  <2>3. /\ sessionId' \in Sessions
        /\ sandboxInstanceId' \in Attempts \cup {None}
        /\ cachedSandboxClient' \in Sessions
        /\ loop' \in [Calls -> LoopRecords]
        /\ run' \in [Attempts -> RunRecords]
    <3>1. 1 \in Nat
      OBVIOUS
    <3>. HIDE <2>1
    <3>. QED
      BY <2>1, <3>1, BeginAttemptType
  <2>. QED
    BY <2>2, <2>3
<1>. QED
  BY <1>1, <1>2 DEF DeployToSandbox

LEMMA SetupType ==
    ASSUME NEW r \in LoopRecords, NEW i \in Attempts
    PROVE  [r EXCEPT !.pc = "setup", !.attempt = None, !.inst = i] \in LoopRecords
BY DEF LoopRecords, Active

LEMMA CreateNewInstanceType ==
    ASSUME NEW r \in RunRecords, NEW cl \in Sessions, NEW g \in SUBSET Calls
    PROVE  CreateNewInstance(r, cl, g) \in RunRecords
BY DEF CreateNewInstance, RunRecords, Pending

LEMMA LateType ==
    ASSUME NEW r \in RunRecords
    PROVE  [r EXCEPT !.late = TRUE] \in RunRecords
BY DEF RunRecords

LEMMA SendType ==
    ASSUME NEW r \in RunRecords, NEW cl \in Sessions, NEW g \in SUBSET Calls
    PROVE  [r EXCEPT !.pc = "create", !.client = cl, !.files = g] \in RunRecords
BY DEF RunRecords, Pending

LEMMA BackOffType ==
    ASSUME NEW r \in LoopRecords
    PROVE  BackOff(r) \in LoopRecords
BY DEF BackOff, LoopRecords, Active

LEMMA HandleFailureType ==
    ASSUME TypeOK, NEW l \in Calls, NEW sessionLevel \in BOOLEAN,
           HandleFailure(l, sessionLevel)
    PROVE  /\ sessionId' \in Sessions
           /\ sandboxInstanceId' = None
           /\ cachedSandboxClient' \in Sessions \cup {None}
           /\ loop' \in [Calls -> LoopRecords]
<1>1. Resets(l, sessionLevel) \in Nat
  BY DEF Resets
<1>2. BackOff(loop[l]) \in LoopRecords
  BY BackOffType DEF TypeOK
<1>. QED
  BY <1>1, <1>2 DEF HandleFailure, TypeOK, Sessions

LEMMA TypeStep == Wired /\ [Next]_vars => TypeOK'
<1> SUFFICES ASSUME Wired, [Next]_vars  PROVE TypeOK'
  OBVIOUS
<1>0. TypeOK /\ RunsWired /\ LoopsWired
  BY DEF Wired
<1>1. ASSUME NEW c \in Calls, Request(c)  PROVE TypeOK'
  <2>1. generatedFilesMap' \in SUBSET Calls
    BY <1>0, <1>1 DEF Request, TypeOK
  <2>2. PICK files \in {{}, {c}}, redeploy \in BOOLEAN :
           DeployToSandbox(c, files, redeploy, generatedFilesMap')
    BY <1>1 DEF Request
  <2>3. files \in SUBSET Calls
    BY <2>2
  <2>. QED
    BY <1>0, <1>1, <2>1, <2>2, <2>3, DeployToSandboxType, SMTT(30) DEF Request, TypeOK
<1>2. ASSUME NEW c \in Calls, LeaderReturns(c)  PROVE TypeOK'
  BY <1>0, <1>2 DEF LeaderReturns, TypeOK, CallRecords
<1>3. ASSUME NEW c \in Calls, JoinerReturns(c)  PROVE TypeOK'
  BY <1>0, <1>3 DEF JoinerReturns, TypeOK, CallRecords, memory
<1>4. ASSUME NEW c \in Calls, TickStarts(c)  PROVE TypeOK'
  <2>1. GetClient \in Sessions
    BY <1>0 DEF GetClient, ClientFor, TypeOK, Sessions
  <2>. QED
    BY <1>0, <1>4, <2>1 DEF TickStarts, TypeOK, CallRecords
<1>5. ASSUME NEW c \in Calls, TickEnds(c)  PROVE TypeOK'
  BY <1>0, <1>5 DEF TickEnds, TypeOK, CallRecords, NoCall, memory
<1>6. ASSUME NEW c \in Calls, TickUnhealthy(c)  PROVE TypeOK'
  <2>1. generatedFilesMap \in SUBSET Calls /\ {} \in SUBSET Calls /\ FALSE \in BOOLEAN
    BY <1>0 DEF TypeOK
  <2>2. DeployToSandbox(c, {}, FALSE, generatedFilesMap)
    BY <1>6 DEF TickUnhealthy
  <2>. QED
    BY <1>0, <1>6, <2>1, <2>2, DeployToSandboxType DEF TickUnhealthy, TypeOK
<1>7. ASSUME NEW l \in Calls, DeploySucceeds(l)  PROVE TypeOK'
  <2>1. loop[l].attempt \in Attempts /\ run[loop[l].attempt] \in RunRecords
    BY <1>0, <1>7 DEF DeploySucceeds, LoopsWired, TypeOK
  <2>2. run[loop[l].attempt].inst \in Attempts
    BY <1>0, <1>7, <2>1 DEF DeploySucceeds, RunsWired
  <2>3. GetClient \in Sessions
    BY <1>0 DEF GetClient, ClientFor, TypeOK, Sessions
  <2>4. Over(run[loop[l].attempt]) \in RunRecords
    BY <2>1, OverType
  <2>5. Return(l, run[loop[l].attempt].inst) \in LoopRecords
    BY <1>0, <2>2 DEF Return, NoLoop, LoopRecords, TypeOK, Active
  <2>6. [loop[l] EXCEPT !.pc = "setup", !.attempt = None,
                        !.inst = run[loop[l].attempt].inst] \in LoopRecords
    <3>1. loop[l] \in LoopRecords
      BY <1>0 DEF TypeOK
    <3>. QED
      BY <3>1, <2>2, SetupType
  <2>7. loop' \in [Calls -> LoopRecords] /\ run' \in [Attempts -> RunRecords]
    BY <1>0, <1>7, <2>4, <2>5, <2>6 DEF DeploySucceeds, TypeOK
  <2>. QED
    BY <1>0, <1>7, <2>2, <2>3, <2>7 DEF DeploySucceeds, TypeOK
<1>8. ASSUME NEW l \in Calls, DeployFails(l)  PROVE TypeOK'
  <2>1. loop[l].attempt \in Attempts /\ Over(run[loop[l].attempt]) \in RunRecords
    BY <1>0, <1>8, OverType DEF DeployFails, LoopsWired, TypeOK
  <2>2. HandleFailure(l, TRUE) \/ HandleFailure(l, FALSE)
    BY <1>8 DEF DeployFails
  <2>. QED
    BY <1>0, <1>8, <2>1, <2>2, HandleFailureType DEF DeployFails, TypeOK
<1>9. ASSUME NEW l \in Calls, AttemptTimesOut(l)  PROVE TypeOK'
  <2>1. loop[l].attempt \in Attempts
    BY <1>0, <1>9 DEF AttemptTimesOut, LoopsWired
  <2>2. [run[loop[l].attempt] EXCEPT !.late = TRUE] \in RunRecords
    BY <1>0, <2>1, LateType DEF TypeOK
  <2>3. HandleFailure(l, FALSE)
    BY <1>9 DEF AttemptTimesOut
  <2>. QED
    BY <1>0, <1>9, <2>1, <2>2, <2>3, HandleFailureType DEF AttemptTimesOut, TypeOK
<1>10. ASSUME NEW l \in Calls, SetupSucceeds(l)  PROVE TypeOK'
  <2>1. Return(l, loop[l].inst) \in LoopRecords
    BY <1>0 DEF Return, NoLoop, LoopRecords, TypeOK, Active
  <2>. QED
    BY <1>0, <1>10, <2>1 DEF SetupSucceeds, TypeOK, memory
<1>11. ASSUME NEW l \in Calls, SetupFails(l)  PROVE TypeOK'
  <2>1. HandleFailure(l, TRUE) \/ HandleFailure(l, FALSE)
    BY <1>11 DEF SetupFails
  <2>. QED
    BY <1>0, <1>11, <2>1, HandleFailureType DEF SetupFails, TypeOK
<1>12. ASSUME NEW l \in Calls, Retry(l)  PROVE TypeOK'
  <2>1. /\ loop[l].tries + 1 \in Nat
        /\ loop[l].files \in SUBSET Calls
        /\ loop[l].redeploy \in BOOLEAN
        /\ generatedFilesMap \in SUBSET Calls
    BY <1>0 DEF TypeOK, LoopRecords
  <2>2. PICK a \in Attempts, tries \in Nat, files \in SUBSET Calls, redeploy \in BOOLEAN :
           BeginAttempt(l, a, tries, files, redeploy, generatedFilesMap)
    BY <1>12, <2>1 DEF Retry
  <2>3. /\ sessionId' \in Sessions
        /\ sandboxInstanceId' \in Attempts \cup {None}
        /\ cachedSandboxClient' \in Sessions
        /\ loop' \in [Calls -> LoopRecords]
        /\ run' \in [Attempts -> RunRecords]
    BY <1>0, <2>1, <2>2, BeginAttemptType
  <2>. QED
    BY <1>0, <1>12, <2>3 DEF Retry, TypeOK
<1>13. ASSUME NEW a \in Attempts, StatusHealthy(a)  PROVE TypeOK'
  <2>1. run[a].inst \in Attempts /\ run[a].loop \in Calls
    BY <1>0, <1>13 DEF StatusHealthy, RunsWired, Pending
  <2>. QED
    BY <1>0, <1>13, <2>1, InstanceReadyType DEF StatusHealthy, TypeOK
<1>14. ASSUME NEW a \in Attempts, StatusUnhealthy(a)  PROVE TypeOK'
  <2>1. run[a] \in RunRecords /\ GetClient \in Sessions /\ generatedFilesMap \in SUBSET Calls
    BY <1>0 DEF GetClient, ClientFor, TypeOK, Sessions
  <2>2. CreateNewInstance(run[a], GetClient, generatedFilesMap) \in RunRecords
    BY <2>1, CreateNewInstanceType
  <2>. QED
    BY <1>0, <1>14, <2>1, <2>2 DEF StatusUnhealthy, TypeOK
<1>15. ASSUME NEW a \in Attempts, TokenAnswers(a)  PROVE TypeOK'
  <2>1. run[a] \in RunRecords /\ GetClient \in Sessions /\ generatedFilesMap \in SUBSET Calls
    BY <1>0 DEF GetClient, ClientFor, TypeOK, Sessions
  <2>2. [run[a] EXCEPT !.pc = "create", !.client = GetClient, !.files = generatedFilesMap]
           \in RunRecords
    BY <2>1, SendType
  <2>. QED
    BY <1>0, <1>15, <2>1, <2>2 DEF TokenAnswers, TypeOK
<1>16. ASSUME NEW a \in Attempts, CreateAnswers(a)  PROVE TypeOK'
  <2>1. run[a].loop \in Calls
    BY <1>0, <1>16 DEF CreateAnswers, RunsWired, Pending
  <2>2. [session |-> run[a].client, files |-> run[a].files] \in SandboxRecords
    BY <1>0 DEF TypeOK, RunRecords, SandboxRecords
  <2>. QED
    BY <1>0, <1>16, <2>1, <2>2, InstanceReadyType DEF CreateAnswers, TypeOK
<1>17. ASSUME NEW a \in Attempts, WriteAnswers(a)  PROVE TypeOK'
  <2>1. run[a].inst \in Attempts
    BY <1>0, <1>17 DEF WriteAnswers, RunsWired
  <2>2. Settle(run[a], "ok") \in RunRecords
    BY <1>0, SettleType DEF TypeOK, Settled
  <2>3. sandboxes' \in [Attempts -> SandboxRecords]
    BY <1>0, <1>17, <2>1 DEF WriteAnswers, TypeOK, SandboxRecords, RunRecords
  <2>4. cachedSandboxClient' \in Sessions \cup {None}
    BY <1>0, <1>17 DEF WriteAnswers, ClearLogs, GetClient, ClientFor, TypeOK
  <2>. QED
    BY <1>0, <1>17, <2>2, <2>3, <2>4 DEF WriteAnswers, TypeOK
<1>18. ASSUME NEW a \in Attempts, RunFails(a)  PROVE TypeOK'
  <2>1. \A pc \in {"error", "lost"} : Settle(run[a], pc) \in RunRecords
    BY <1>0, SettleType DEF TypeOK, Settled
  <2>. QED
    BY <1>0, <1>18, <2>1 DEF RunFails, TypeOK, memory
<1>19. CASE Restart
  <2>1. call' \in [Calls -> CallRecords]
    BY <1>0, <1>19, SMTT(30) DEF Restart, TypeOK, CallRecords, NoCall, Waiting
  <2>2. loop' \in [Calls -> LoopRecords]
    BY <1>0, <1>19 DEF Restart, TypeOK, LoopRecords, NoLoop, Active
  <2>3. NoRun \in RunRecords /\ \A a \in Attempts : Over(run[a]) \in RunRecords
    BY <1>0, OverType DEF TypeOK, NoRun, RunRecords, Sessions
  <2>4. run' \in [Attempts -> RunRecords]
    BY <1>19, <2>3 DEF Restart
  <2>. QED
    BY <1>0, <1>19, <2>1, <2>2, <2>4 DEF Restart, TypeOK
<1>20. CASE UNCHANGED vars
  BY <1>0, <1>20 DEF vars, memory, TypeOK
<1>. QED
  BY <1>1, <1>2, <1>3, <1>4, <1>5, <1>6, <1>7, <1>8, <1>9, <1>10, <1>11, <1>12, <1>13,
     <1>14, <1>15, <1>16, <1>17, <1>18, <1>19, <1>20 DEF Next
\* An attempt that begins is the one its loop awaits, and no other run was.
LEMMA BeginWiring ==
    ASSUME Wired, NEW l \in Calls, NEW a \in Attempts, NEW tries \in Nat,
           NEW files \in SUBSET Calls, NEW redeploy \in BOOLEAN, NEW g \in SUBSET Calls,
           BeginAttempt(l, a, tries, files, redeploy, g),
           loop[l].pc \in {"none", "backoff"},
           call'[l].loop = l, call'[l].pc \in {"lead", "null"},
           \A c \in Calls \ {l} : call'[c] = call[c]
    PROVE  RunsWired' /\ LoopsWired'
<1>0. TypeOK /\ RunsWired /\ LoopsWired
  BY DEF Wired
<1>1. /\ run'[a].pc \in Pending
      /\ run'[a].loop = l
      /\ run'[a].late = FALSE
      /\ run'[a].pc = "status" => run'[a].inst \in Attempts
      /\ run'[a].pc # "write" /\ run'[a].pc # "ok"
  BY <1>0 DEF BeginAttempt, CreateNewInstance, NoRun, TypeOK, Pending
<1>2. /\ \A b \in Attempts \ {a} : run'[b] = run[b]
      /\ \A k \in Calls \ {l} : loop'[k] = loop[k]
      /\ loop'[l].pc = "attempt"
      /\ loop'[l].attempt = a
      /\ run[a].pc = "unused"
  BY <1>0 DEF BeginAttempt, TypeOK
<1>3. \A k \in Calls \ {l} : loop[k].pc = "attempt" => loop[k].attempt # a
  BY <1>0, <1>2 DEF LoopsWired, Pending, Settled
<1>4. \A b \in Attempts \ {a} :
         run[b].pc \in Pending \cup Settled /\ ~run[b].late => run[b].loop # l
  BY <1>0 DEF RunsWired
<1>5. RunsWired'
  BY <1>0, <1>1, <1>2, <1>4 DEF RunsWired
<1>6. LoopsWired'
  BY <1>0, <1>1, <1>2, <1>3 DEF LoopsWired, Active
<1>. QED
  BY <1>5, <1>6

LEMMA DeployToSandboxWiring ==
    ASSUME Wired, NEW c \in Calls, NEW files \in SUBSET Calls, NEW redeploy \in BOOLEAN,
           NEW g \in SUBSET Calls, DeployToSandbox(c, files, redeploy, g),
           call[c].pc \in {"idle", "tick"}
    PROVE  RunsWired' /\ LoopsWired'
<1>0. TypeOK /\ RunsWired /\ LoopsWired
  BY DEF Wired
<1>1. CASE Join(c)
  <2>1. /\ \A k \in Calls \ {c} : call'[k] = call[k]
        /\ call'[c].pc = "join"
        /\ loop' = loop /\ run' = run
    BY <1>0, <1>1 DEF Join, TypeOK, NoCall
  <2>2. loop[c].pc = "none"
    BY <1>0 DEF LoopsWired
  <2>. QED
    BY <1>0, <2>1, <2>2 DEF RunsWired, LoopsWired, Active
<1>2. CASE Lead(c, files, redeploy, g)
  <2>1. PICK a \in Attempts : BeginAttempt(c, a, 1, files, redeploy, g)
    BY <1>2 DEF Lead
  <2>2. /\ \A k \in Calls \ {c} : call'[k] = call[k]
        /\ call'[c].pc = "lead" /\ call'[c].loop = c
    BY <1>0, <1>2 DEF Lead, TypeOK, NoCall
  <2>3. loop[c].pc = "none"
    BY <1>0 DEF LoopsWired
  <2>4. 1 \in Nat
    OBVIOUS
  <2>. QED
    BY <2>1, <2>2, <2>3, <2>4, BeginWiring
<1>. QED
  BY <1>1, <1>2 DEF DeployToSandbox

\* A loop that is done with the attempt it awaited, whatever becomes of the run.
LEMMA LeaveAttemptWiring ==
    ASSUME Wired, NEW l \in Calls, loop[l].pc = "attempt",
           NEW r, NEW q, loop' = [loop EXCEPT ![l] = r],
           run' = [run EXCEPT ![loop[l].attempt] = q], UNCHANGED call,
           r.pc \in {"backoff", "setup", "done"},
           r.pc \in {"setup", "done"} => r.inst \in Attempts,
           q = Over(run[loop[l].attempt])
             \/ q = [run[loop[l].attempt] EXCEPT !.late = TRUE]
    PROVE  RunsWired' /\ LoopsWired'
<1>0. TypeOK /\ RunsWired /\ LoopsWired
  BY DEF Wired
<1> DEFINE a == loop[l].attempt
<1>1. a \in Attempts /\ run[a].loop = l /\ ~run[a].late /\ run[a] \in RunRecords
  BY <1>0 DEF LoopsWired, TypeOK
<1>2. /\ \A b \in Attempts \ {a} : run'[b] = run[b]
      /\ \A k \in Calls \ {l} : loop'[k] = loop[k]
      /\ loop'[l] = r
      /\ run'[a] = q
  BY <1>0, <1>1 DEF TypeOK
<1>3. \/ q.pc = "over"
      \/ q.late /\ q.loop = run[a].loop /\ q.inst = run[a].inst /\ q.pc = run[a].pc
  BY <1>1 DEF Over, NoRun, RunRecords
<1>4. \A k \in Calls \ {l} : loop[k].pc = "attempt" => loop[k].attempt # a
  BY <1>0, <1>1 DEF LoopsWired
<1>5. \A b \in Attempts \ {a} :
         run[b].pc \in Pending \cup Settled /\ ~run[b].late => run[b].loop # l
  BY <1>0 DEF RunsWired
<1>6. RunsWired'
  BY <1>0, <1>1, <1>2, <1>3, <1>5 DEF RunsWired, Pending, Settled
<1>7. LoopsWired'
  BY <1>0, <1>1, <1>2, <1>4 DEF LoopsWired, Active
<1>. QED
  BY <1>6, <1>7
\* A run in progress that moves on, settles or is forgotten when it is late.
LEMMA RunMovesWiring ==
    ASSUME Wired, NEW a \in Attempts, run[a].pc \in Pending, NEW q,
           run' = [run EXCEPT ![a] = q], UNCHANGED <<call, loop>>,
           \/ /\ q.pc \in Pending \cup Settled
              /\ q.loop = run[a].loop /\ q.late = run[a].late
              /\ q.pc \in {"status", "write", "ok"} => q.inst \in Attempts
           \/ q.pc = "over" /\ run[a].late
    PROVE  RunsWired' /\ LoopsWired'
<1>0. TypeOK /\ RunsWired /\ LoopsWired
  BY DEF Wired
<1>1. run'[a] = q /\ \A b \in Attempts \ {a} : run'[b] = run[b]
  BY <1>0 DEF TypeOK
<1>2. RunsWired'
  BY <1>0, <1>1 DEF RunsWired, Pending, Settled
<1>3. \A l \in Calls : loop[l].pc = "attempt" /\ loop[l].attempt = a => ~run[a].late
  BY <1>0 DEF LoopsWired
<1>4. LoopsWired'
  BY <1>0, <1>1, <1>3 DEF LoopsWired, Pending, Settled
<1>. QED
  BY <1>2, <1>4

LEMMA SettleShape ==
    ASSUME NEW r \in RunRecords, NEW pc \in Settled
    PROVE  \/ r.late /\ Settle(r, pc).pc = "over"
           \/ /\ Settle(r, pc).pc = pc
              /\ Settle(r, pc).loop = r.loop
              /\ Settle(r, pc).late = r.late
              /\ Settle(r, pc).inst = r.inst
BY DEF Settle, Over, NoRun, RunRecords

LEMMA InstanceReadyWiring ==
    ASSUME Wired, NEW a \in Attempts, NEW i \in Attempts, NEW redeployed \in BOOLEAN,
           run[a].pc \in Pending, InstanceReady(a, i, redeployed), UNCHANGED <<call, loop>>
    PROVE  RunsWired' /\ LoopsWired'
<1> DEFINE r == [run[a] EXCEPT !.inst = i, !.redeployed = redeployed]
<1>1. run[a] \in RunRecords
  BY DEF Wired, TypeOK
<1>2. r \in RunRecords /\ r.loop = run[a].loop /\ r.late = run[a].late /\ r.inst = i
  BY <1>1 DEF RunRecords
<1>3. PICK q : /\ run' = [run EXCEPT ![a] = q]
               /\ \/ q = Settle(r, "ok")
                  \/ \E F \in {TRUE} : /\ q.pc = "write" /\ q.inst = r.inst
                                       /\ q.loop = r.loop /\ q.late = r.late
  <2> DEFINE asked == loop[run[a].loop].files
             files == IF asked = {} \/ redeployed THEN generatedFilesMap ELSE asked
             w == [r EXCEPT !.pc = "write", !.files = files, !.client = GetClient]
  <2>1. \/ run' = [run EXCEPT ![a] = Settle(r, "ok")]
        \/ run' = [run EXCEPT ![a] = w]
    BY DEF InstanceReady
  <2>2. w.pc = "write" /\ w.inst = r.inst /\ w.loop = r.loop /\ w.late = r.late
    BY <1>2 DEF RunRecords
  <2>. HIDE DEF r, w
  <2>. QED
    BY <2>1, <2>2
<1>4. \/ /\ q.pc \in Pending \cup Settled
         /\ q.loop = run[a].loop /\ q.late = run[a].late
         /\ q.pc \in {"status", "write", "ok"} => q.inst \in Attempts
      \/ q.pc = "over" /\ run[a].late
  <2>. HIDE DEF r
  <2>1. "ok" \in Settled
    BY DEF Settled
  <2>2. CASE q = Settle(r, "ok")
    BY <2>2, <1>2, <2>1, SettleShape
  <2>. QED
    BY <1>3, <2>2, <1>2 DEF Pending
<1>. QED
  BY <1>3, <1>4, RunMovesWiring

LEMMA WiringStep == Wired /\ [Next]_vars => RunsWired' /\ LoopsWired'
<1> SUFFICES ASSUME Wired, [Next]_vars  PROVE RunsWired' /\ LoopsWired'
  OBVIOUS
<1>0. TypeOK /\ RunsWired /\ LoopsWired
  BY DEF Wired
<1>1. ASSUME NEW c \in Calls, Request(c)  PROVE RunsWired' /\ LoopsWired'
  <2>1. generatedFilesMap' \in SUBSET Calls /\ call[c].pc \in {"idle", "tick"}
    BY <1>0, <1>1 DEF Request, TypeOK
  <2>2. PICK files \in SUBSET Calls, redeploy \in BOOLEAN :
           DeployToSandbox(c, files, redeploy, generatedFilesMap')
    BY <1>1 DEF Request
  <2>. QED
    BY <2>1, <2>2, DeployToSandboxWiring
<1>2. ASSUME NEW c \in Calls, LeaderReturns(c)  PROVE RunsWired' /\ LoopsWired'
  <2>1. /\ \A k \in Calls \ {c} : call'[k] = call[k]
        /\ call'[c].loop = call[c].loop
        /\ call'[c].pc = IF loop[c].pc = "done" THEN "ok" ELSE "null"
        /\ loop' = loop /\ run' = run
    BY <1>0, <1>2 DEF LeaderReturns, TypeOK, CallRecords
  <2>. QED
    BY <1>0, <2>1 DEF RunsWired, LoopsWired, Active
<1>3. ASSUME NEW c \in Calls, JoinerReturns(c)  PROVE RunsWired' /\ LoopsWired'
  <2>1. /\ \A k \in Calls \ {c} : call'[k] = call[k]
        /\ call[c].pc = "join"
        /\ call'[c].pc \in {"ok", "null"}
        /\ loop' = loop /\ run' = run
    BY <1>0, <1>3 DEF JoinerReturns, TypeOK, CallRecords
  <2>2. loop[c].pc = "none"
    BY <1>0, <2>1 DEF LoopsWired
  <2>. QED
    BY <1>0, <2>1, <2>2 DEF RunsWired, LoopsWired, Active
<1>4. ASSUME NEW c \in Calls, TickStarts(c) \/ TickEnds(c)
      PROVE RunsWired' /\ LoopsWired'
  <2>1. /\ \A k \in Calls \ {c} : call'[k] = call[k]
        /\ call[c].pc \in {"idle", "tick"}
        /\ call'[c].pc \in {"idle", "tick"}
        /\ loop' = loop /\ run' = run
    BY <1>0, <1>4 DEF TickStarts, TickEnds, TypeOK, NoCall
  <2>2. loop[c].pc = "none"
    BY <1>0, <2>1 DEF LoopsWired
  <2>. QED
    BY <1>0, <2>1, <2>2 DEF RunsWired, LoopsWired, Active
<1>5. ASSUME NEW c \in Calls, TickUnhealthy(c)  PROVE RunsWired' /\ LoopsWired'
  <2>1. /\ generatedFilesMap \in SUBSET Calls /\ {} \in SUBSET Calls
        /\ FALSE \in BOOLEAN /\ call[c].pc \in {"idle", "tick"}
    BY <1>0, <1>5 DEF TickUnhealthy, TypeOK
  <2>2. DeployToSandbox(c, {}, FALSE, generatedFilesMap)
    BY <1>5 DEF TickUnhealthy
  <2>. QED
    BY <2>1, <2>2, DeployToSandboxWiring
<1>6. ASSUME NEW l \in Calls, DeploySucceeds(l)  PROVE RunsWired' /\ LoopsWired'
  <2> DEFINE a == loop[l].attempt
             ready == [loop[l] EXCEPT !.pc = "setup", !.attempt = None, !.inst = run[a].inst]
  <2>1. /\ loop[l].pc = "attempt" /\ UNCHANGED call
        /\ run' = [run EXCEPT ![a] = Over(run[a])]
        /\ \/ loop' = [loop EXCEPT ![l] = Return(l, run[a].inst)]
           \/ loop' = [loop EXCEPT ![l] = ready]
    BY <1>6 DEF DeploySucceeds
  <2>2. run[a].inst \in Attempts
    BY <1>0, <1>6 DEF DeploySucceeds, RunsWired, LoopsWired
  <2>3. ready.pc = "setup" /\ ready.inst = run[a].inst
    BY <1>0 DEF TypeOK, LoopRecords
  <2>4. Return(l, run[a].inst).pc = "done" /\ Return(l, run[a].inst).inst = run[a].inst
    BY DEF Return, NoLoop
  <2>. HIDE DEF ready
  <2>5. CASE loop' = [loop EXCEPT ![l] = Return(l, run[a].inst)]
    BY <2>1, <2>2, <2>4, <2>5, LeaveAttemptWiring
  <2>6. CASE loop' = [loop EXCEPT ![l] = ready]
    BY <2>1, <2>2, <2>3, <2>6, LeaveAttemptWiring
  <2>. QED
    BY <2>1, <2>5, <2>6
<1>7. ASSUME NEW l \in Calls, DeployFails(l)  PROVE RunsWired' /\ LoopsWired'
  <2>1. /\ loop[l].pc = "attempt" /\ UNCHANGED call
        /\ run' = [run EXCEPT ![loop[l].attempt] = Over(run[loop[l].attempt])]
        /\ loop' = [loop EXCEPT ![l] = BackOff(loop[l])]
    BY <1>7 DEF DeployFails, HandleFailure
  <2>2. BackOff(loop[l]).pc = "backoff"
    BY <1>0 DEF BackOff, TypeOK, LoopRecords
  <2>. QED
    BY <2>1, <2>2, LeaveAttemptWiring
<1>8. ASSUME NEW l \in Calls, AttemptTimesOut(l)  PROVE RunsWired' /\ LoopsWired'
  <2>1. /\ loop[l].pc = "attempt" /\ UNCHANGED call
        /\ run' = [run EXCEPT ![loop[l].attempt] = [run[loop[l].attempt] EXCEPT !.late = TRUE]]
        /\ loop' = [loop EXCEPT ![l] = BackOff(loop[l])]
    BY <1>8 DEF AttemptTimesOut, HandleFailure
  <2>2. BackOff(loop[l]).pc = "backoff"
    BY <1>0 DEF BackOff, TypeOK, LoopRecords
  <2>. QED
    BY <2>1, <2>2, LeaveAttemptWiring
<1>9. ASSUME NEW l \in Calls, SetupSucceeds(l) \/ SetupFails(l)
      PROVE RunsWired' /\ LoopsWired'
  <2>1. /\ loop[l].pc = "setup" /\ UNCHANGED <<call, run>>
        /\ \A k \in Calls \ {l} : loop'[k] = loop[k]
        /\ \/ loop'[l].pc = "backoff"
           \/ loop'[l].pc = "done" /\ loop'[l].inst = loop[l].inst
    <3>1. BackOff(loop[l]).pc = "backoff"
      BY <1>0 DEF BackOff, TypeOK, LoopRecords
    <3>2. /\ Return(l, loop[l].inst).pc = "done"
          /\ Return(l, loop[l].inst).inst = loop[l].inst
      BY DEF Return, NoLoop
    <3>3. CASE SetupSucceeds(l)
      BY <1>0, <3>2, <3>3 DEF SetupSucceeds, TypeOK, memory
    <3>4. CASE SetupFails(l)
      BY <1>0, <3>1, <3>4 DEF SetupFails, HandleFailure, TypeOK, memory
    <3>. QED
      BY <1>9, <3>3, <3>4
  <2>. QED
    BY <1>0, <2>1 DEF RunsWired, LoopsWired, Active
<1>10. ASSUME NEW l \in Calls, Retry(l)  PROVE RunsWired' /\ LoopsWired'
  <2>1. /\ loop[l].tries + 1 \in Nat
        /\ loop[l].files \in SUBSET Calls
        /\ loop[l].redeploy \in BOOLEAN
        /\ generatedFilesMap \in SUBSET Calls
    BY <1>0 DEF TypeOK, LoopRecords
  <2>2. PICK a \in Attempts, tries \in Nat, files \in SUBSET Calls, redeploy \in BOOLEAN :
           BeginAttempt(l, a, tries, files, redeploy, generatedFilesMap)
    BY <1>10, <2>1 DEF Retry
  <2>3. /\ loop[l].pc = "backoff" /\ call' = call
        /\ call[l].loop = l /\ call[l].pc \in {"lead", "null"}
    BY <1>0, <1>10 DEF Retry, LoopsWired, Active
  <2>. QED
    BY <2>1, <2>2, <2>3, BeginWiring
<1>11. ASSUME NEW a \in Attempts, StatusHealthy(a)  PROVE RunsWired' /\ LoopsWired'
  <2>1. /\ run[a].pc \in Pending /\ run[a].inst \in Attempts
        /\ InstanceReady(a, run[a].inst, FALSE) /\ UNCHANGED <<call, loop>>
    BY <1>0, <1>11 DEF StatusHealthy, RunsWired, Pending
  <2>. QED
    BY <2>1, InstanceReadyWiring
<1>12. ASSUME NEW a \in Attempts, StatusUnhealthy(a) \/ TokenAnswers(a)
       PROVE RunsWired' /\ LoopsWired'
  <2>1. run[a] \in RunRecords /\ run[a].pc \in Pending
    BY <1>0, <1>12 DEF TypeOK, StatusUnhealthy, TokenAnswers, Pending
  <2>2. PICK q : /\ run' = [run EXCEPT ![a] = q]
                 /\ q.pc \in {"token", "create"}
                 /\ q.loop = run[a].loop /\ q.late = run[a].late
    <3> DEFINE made == CreateNewInstance(run[a], GetClient, generatedFilesMap)
               sent == [run[a] EXCEPT !.pc = "create", !.client = GetClient,
                                      !.files = generatedFilesMap]
    <3>1. /\ made.pc \in {"token", "create"}
          /\ made.loop = run[a].loop /\ made.late = run[a].late
      BY <2>1 DEF CreateNewInstance, RunRecords
    <3>2. /\ sent.pc \in {"token", "create"}
          /\ sent.loop = run[a].loop /\ sent.late = run[a].late
      BY <2>1 DEF RunRecords
    <3>3. run' = [run EXCEPT ![a] = made] \/ run' = [run EXCEPT ![a] = sent]
      BY <1>12 DEF StatusUnhealthy, TokenAnswers
    <3>. HIDE DEF made, sent
    <3>. QED
      BY <3>1, <3>2, <3>3
  <2>3. UNCHANGED <<call, loop>>
    BY <1>12 DEF StatusUnhealthy, TokenAnswers
  <2>. QED
    BY <2>1, <2>2, <2>3, RunMovesWiring DEF Pending
<1>13. ASSUME NEW a \in Attempts, CreateAnswers(a)  PROVE RunsWired' /\ LoopsWired'
  <2>1. run[a].pc \in Pending /\ InstanceReady(a, a, TRUE) /\ UNCHANGED <<call, loop>>
    BY <1>13 DEF CreateAnswers, Pending
  <2>. QED
    BY <2>1, InstanceReadyWiring
<1>14. ASSUME NEW a \in Attempts, WriteAnswers(a) \/ RunFails(a)
       PROVE RunsWired' /\ LoopsWired'
  <2>1. run[a] \in RunRecords /\ run[a].pc \in Pending /\ UNCHANGED <<call, loop>>
    BY <1>0, <1>14 DEF TypeOK, WriteAnswers, RunFails, Pending
  <2>2. PICK pc \in Settled : /\ run' = [run EXCEPT ![a] = Settle(run[a], pc)]
                              /\ pc = "ok" => run[a].inst \in Attempts
    BY <1>0, <1>14 DEF WriteAnswers, RunFails, Settled, RunsWired
  <2>3. \/ run[a].late /\ Settle(run[a], pc).pc = "over"
        \/ /\ Settle(run[a], pc).pc = pc
           /\ Settle(run[a], pc).loop = run[a].loop
           /\ Settle(run[a], pc).late = run[a].late
           /\ Settle(run[a], pc).inst = run[a].inst
    BY <2>1, <2>2, SettleShape
  <2>. QED
    BY <2>1, <2>2, <2>3, RunMovesWiring DEF Settled
<1>15. CASE Restart
  <2>1. \A a \in Attempts : run'[a].pc \in {"unused", "over"}
    BY <1>0, <1>15 DEF Restart, Over, NoRun
  <2>2. \A c \in Calls :
           /\ loop'[c].pc \in {"none", "done"}
           /\ loop'[c].pc # "none" => loop'[c] = loop[c]
           /\ loop[c].pc # "none" => /\ call'[c].loop = call[c].loop
                                     /\ call'[c].pc \in {"ok", "null", "gone"}
    BY <1>0, <1>15 DEF Restart, NoLoop, TypeOK, LoopRecords, CallRecords, Active, Waiting,
                       LoopsWired
  <2>3. RunsWired'
    BY <2>1 DEF RunsWired, Pending, Settled
  <2>4. LoopsWired'
    BY <1>0, <2>2 DEF LoopsWired, Active
  <2>. QED
    BY <2>3, <2>4
<1>16. CASE UNCHANGED vars
  BY <1>0, <1>16 DEF vars, RunsWired, LoopsWired
<1>. QED
  BY <1>1, <1>2, <1>3, <1>4, <1>5, <1>6, <1>7, <1>8, <1>9, <1>10, <1>11, <1>12, <1>13,
     <1>14, <1>15, <1>16 DEF Next

\* Type correctness holds in every reachable state; with it the wiring of calls,
\* loops and runs that TypeOK needs to be inductive.
LEMMA WiredAlways == Spec => []Wired
<1>1. Init => Wired
  BY TypeInit
<1>2. Wired /\ [Next]_vars => Wired'
  BY TypeStep, WiringStep DEF Wired
<1>. QED
  BY <1>1, <1>2, PTL DEF Spec

\* Type correctness, for any number of calls and attempts.
THEOREM TypeCorrect == Spec => []TypeOK
<1>1. Wired => TypeOK
  BY DEF Wired
<1>. QED
  BY <1>1, WiredAlways, PTL DEF Spec
-----------------------------------------------------------------------------
\* The promise is there exactly while the call that made it waits as its leader.
THEOREM LeaderOwnsPromiseAlways == Spec => []LeaderOwnsPromise
<1>1. Init => LeaderOwnsPromise
  BY NoneAssumption DEF Init, LeaderOwnsPromise, NoCall
<1>2. TypeOK /\ LeaderOwnsPromise /\ [Next]_vars => LeaderOwnsPromise'
  <2> SUFFICES ASSUME TypeOK, LeaderOwnsPromise, [Next]_vars  PROVE LeaderOwnsPromise'
    OBVIOUS
  <2>1. ASSUME NEW c \in Calls, NEW files, NEW redeploy, NEW g,
               call[c].pc \in {"idle", "tick"}, DeployToSandbox(c, files, redeploy, g)
        PROVE  LeaderOwnsPromise'
    <3>1. CASE Join(c)
      BY <2>1, <3>1, NoneAssumption DEF Join, NoCall, LeaderOwnsPromise, TypeOK
    <3>2. CASE Lead(c, files, redeploy, g)
      BY <2>1, <3>2, NoneAssumption DEF Lead, NoCall, LeaderOwnsPromise, TypeOK
    <3>. QED
      BY <2>1, <3>1, <3>2 DEF DeployToSandbox
  <2>2. ASSUME NEW c \in Calls, Request(c) \/ TickUnhealthy(c)  PROVE LeaderOwnsPromise'
    <3>1. CASE Request(c)
      <4>1. PICK files, redeploy : DeployToSandbox(c, files, redeploy, generatedFilesMap')
        BY <3>1 DEF Request
      <4>. QED
        BY <2>1, <3>1, <4>1 DEF Request
    <3>2. CASE TickUnhealthy(c)
      <4>1. \E redeploy : DeployToSandbox(c, {}, redeploy, generatedFilesMap)
        BY <3>2, Zenon DEF TickUnhealthy
      <4>2. call[c].pc = "tick"
        BY <3>2 DEF TickUnhealthy
      <4>. QED
        BY <2>1, <4>1, <4>2
    <3>. QED
      BY <2>2, <3>1, <3>2
  <2>3. ASSUME NEW c \in Calls, LeaderReturns(c)  PROVE LeaderOwnsPromise'
    BY <2>3, NoneAssumption DEF LeaderReturns, LeaderOwnsPromise, TypeOK, CallRecords
  <2>4. ASSUME NEW c \in Calls, JoinerReturns(c)  PROVE LeaderOwnsPromise'
    BY <2>4 DEF JoinerReturns, LeaderOwnsPromise, TypeOK, CallRecords, memory
  <2>5. ASSUME NEW c \in Calls, TickStarts(c) \/ TickEnds(c)  PROVE LeaderOwnsPromise'
    BY <2>5 DEF TickStarts, TickEnds, NoCall, LeaderOwnsPromise, TypeOK, memory
  <2>6. CASE Restart
    <3>1. \A c \in Calls : call'[c].pc # "lead"
      BY <2>6 DEF Restart, NoCall, TypeOK, CallRecords, Waiting
    <3>. QED
      BY <2>6, <3>1, NoneAssumption DEF Restart, LeaderOwnsPromise
  <2>7. CASE UNCHANGED <<call, currentDeploymentPromise>>
    BY <2>7 DEF LeaderOwnsPromise
  <2>8. ASSUME NEW l \in Calls,
               \/ DeploySucceeds(l) \/ DeployFails(l) \/ AttemptTimesOut(l)
               \/ SetupSucceeds(l) \/ SetupFails(l) \/ Retry(l)
        PROVE  UNCHANGED <<call, currentDeploymentPromise>>
    BY <2>8 DEF DeploySucceeds, DeployFails, AttemptTimesOut, SetupSucceeds, SetupFails,
                Retry, memory
  <2>9. ASSUME NEW a \in Attempts,
               \/ StatusHealthy(a) \/ StatusUnhealthy(a) \/ TokenAnswers(a)
               \/ CreateAnswers(a) \/ WriteAnswers(a) \/ RunFails(a)
        PROVE  UNCHANGED <<call, currentDeploymentPromise>>
    BY <2>9 DEF StatusHealthy, StatusUnhealthy, TokenAnswers, CreateAnswers, WriteAnswers,
                RunFails, memory
  <2>. QED
    BY <2>2, <2>3, <2>4, <2>5, <2>6, <2>7, <2>8, <2>9 DEF Next, vars, memory
<1>. QED
  BY <1>1, <1>2, TypeCorrect, PTL DEF Spec

\* A step that begins or resets a session drops the client of the old one.
LEMMA ClientStep ==
    ASSUME TypeOK, ClientOfSession, [Next]_vars  PROVE ClientOfSession'
<1>1. GetClient = sessionId
  BY DEF GetClient, ClientFor, ClientOfSession
<1>2. ASSUME NEW l \in Calls, NEW a \in Attempts, NEW tries, NEW files, NEW redeploy, NEW g,
             BeginAttempt(l, a, tries, files, redeploy, g)
      PROVE  ClientOfSession'
  BY <1>2 DEF BeginAttempt, ClientFor, ClientOfSession
<1>3. ASSUME NEW c \in Calls, NEW files, NEW redeploy, NEW g,
             DeployToSandbox(c, files, redeploy, g)
      PROVE  ClientOfSession'
  BY <1>2, <1>3 DEF DeployToSandbox, Join, Lead, ClientOfSession
<1>4. ASSUME NEW l \in Calls, NEW sessionLevel, HandleFailure(l, sessionLevel)
      PROVE  ClientOfSession'
  BY <1>4 DEF HandleFailure, Resets, ClientOfSession, TypeOK, Sessions
<1>5. ASSUME NEW a \in Attempts, NEW i, NEW redeployed, InstanceReady(a, i, redeployed),
             sessionId' = sessionId
      PROVE  ClientOfSession'
  BY <1>1, <1>5 DEF InstanceReady, ClearLogs, ClientOfSession
<1>6. ASSUME NEW c \in Calls, Request(c) \/ TickUnhealthy(c)  PROVE ClientOfSession'
  BY <1>3, <1>6 DEF Request, TickUnhealthy
<1>7. ASSUME NEW l \in Calls, DeployFails(l) \/ AttemptTimesOut(l) \/ SetupFails(l)
      PROVE  ClientOfSession'
  BY <1>4, <1>7 DEF DeployFails, AttemptTimesOut, SetupFails
<1>8. ASSUME NEW l \in Calls, Retry(l)  PROVE ClientOfSession'
  BY <1>2, <1>8 DEF Retry
<1>9. ASSUME NEW a \in Attempts, StatusHealthy(a) \/ CreateAnswers(a)  PROVE ClientOfSession'
  BY <1>5, <1>9 DEF StatusHealthy, CreateAnswers
<1>10. ASSUME NEW a \in Attempts, StatusUnhealthy(a) \/ TokenAnswers(a)
       PROVE  ClientOfSession'
  BY <1>1, <1>10 DEF StatusUnhealthy, TokenAnswers, ClientOfSession
<1>11. ASSUME NEW c \in Calls, TickStarts(c) \/ DeploySucceeds(c)  PROVE ClientOfSession'
  BY <1>1, <1>11 DEF TickStarts, DeploySucceeds, ClientOfSession
<1>12. CASE Restart
  BY <1>12 DEF Restart, ClientOfSession
<1>13. CASE UNCHANGED <<sessionId, cachedSandboxClient>>
  BY <1>13 DEF ClientOfSession
<1>14. ASSUME NEW c \in Calls,
              LeaderReturns(c) \/ JoinerReturns(c) \/ TickEnds(c) \/ SetupSucceeds(c)
       PROVE  UNCHANGED <<sessionId, cachedSandboxClient>>
  BY <1>14 DEF LeaderReturns, JoinerReturns, TickEnds, SetupSucceeds, memory
<1>15. ASSUME NEW a \in Attempts, RunFails(a)
       PROVE  UNCHANGED <<sessionId, cachedSandboxClient>>
  BY <1>15 DEF RunFails, memory
<1>16. ASSUME NEW a \in Attempts, WriteAnswers(a)  PROVE ClientOfSession'
  BY <1>1, <1>16 DEF WriteAnswers, ClearLogs, ClientOfSession
<1>. QED
  BY <1>6, <1>7, <1>8, <1>9, <1>10, <1>11, <1>12, <1>13, <1>14, <1>15, <1>16
     DEF Next, vars, memory

\* The cached client is one of the current session.
THEOREM ClientOfSessionAlways == Spec => []ClientOfSession
<1>1. Init => ClientOfSession
  BY DEF Init, ClientOfSession
<1>2. TypeOK /\ ClientOfSession /\ [Next]_vars => ClientOfSession'
  BY ClientStep
<1>. QED
  BY <1>1, <1>2, TypeCorrect, PTL DEF Spec

-----------------------------------------------------------------------------
\* A step that leaves a session goes on to a later one, without an instance.
LEMMA SessionStep ==
    ASSUME TypeOK, [Next]_vars, sessionId' # sessionId
    PROVE  sessionId < sessionId' /\ sandboxInstanceId' = None
<1>0. sessionId \in Nat
  BY DEF TypeOK, Sessions
<1>. DEFINE Later == sessionId' # sessionId => sessionId < sessionId' /\ sandboxInstanceId' = None
<1>1. ASSUME NEW l \in Calls, NEW a \in Attempts, NEW tries, NEW files, NEW redeploy, NEW g,
             BeginAttempt(l, a, tries, files, redeploy, g)
      PROVE  Later
  BY <1>0, <1>1 DEF BeginAttempt
<1>2. ASSUME NEW c \in Calls, NEW files, NEW redeploy, NEW g,
             DeployToSandbox(c, files, redeploy, g)
      PROVE  Later
  BY <1>1, <1>2 DEF DeployToSandbox, Join, Lead
<1>3. ASSUME NEW l \in Calls, NEW sessionLevel, HandleFailure(l, sessionLevel)
      PROVE  Later
  <2>1. Resets(l, sessionLevel) \in Nat
    BY DEF Resets
  <2>. QED
    BY <1>0, <1>3, <2>1 DEF HandleFailure
<1>4. ASSUME NEW c \in Calls, Request(c) \/ TickUnhealthy(c)  PROVE Later
  BY <1>2, <1>4 DEF Request, TickUnhealthy
<1>5. ASSUME NEW l \in Calls, DeployFails(l) \/ AttemptTimesOut(l) \/ SetupFails(l)
      PROVE  Later
  BY <1>3, <1>5 DEF DeployFails, AttemptTimesOut, SetupFails
<1>6. ASSUME NEW l \in Calls, Retry(l)  PROVE Later
  BY <1>1, <1>6 DEF Retry
<1>7. ASSUME NEW c \in Calls,
             \/ LeaderReturns(c) \/ JoinerReturns(c) \/ TickStarts(c) \/ TickEnds(c)
             \/ DeploySucceeds(c) \/ SetupSucceeds(c)
      PROVE  UNCHANGED sessionId
  BY <1>7 DEF LeaderReturns, JoinerReturns, TickStarts, TickEnds, DeploySucceeds, SetupSucceeds
<1>8. ASSUME NEW a \in Attempts,
             \/ StatusHealthy(a) \/ StatusUnhealthy(a) \/ TokenAnswers(a)
             \/ CreateAnswers(a) \/ WriteAnswers(a) \/ RunFails(a)
      PROVE  UNCHANGED sessionId
  BY <1>8 DEF StatusHealthy, StatusUnhealthy, TokenAnswers, CreateAnswers, WriteAnswers, RunFails
<1>9. Restart \/ UNCHANGED vars => UNCHANGED sessionId
  BY DEF Restart, vars
<1>. QED
  BY <1>4, <1>5, <1>6, <1>7, <1>8, <1>9 DEF Next

\* Sessions move forward, and no instance that was stored under a session outlives the step that
\* leaves it.
THEOREM ResetAlwaysClears == Spec => ResetClearsInstance
<1>1. TypeOK /\ [Next]_vars
        => [sessionId' # sessionId => sessionId < sessionId' /\ sandboxInstanceId' = None]_vars
  BY SessionStep
<1>. QED
  BY <1>1, TypeCorrect, PTL DEF Spec, ResetClearsInstance

-----------------------------------------------------------------------------
Created(i) == sandboxes[i].session # None

\* Instances named by the state, a run or a loop were created, an attempt creates
\* its instance once, and the file of a loop's caller is among those that its runs
\* write and in the instance once a run has returned: for a run, ...
RunServed(a) ==
    /\ run[a].pc \in {"status", "write", "ok"} => Created(run[a].inst)
    /\ run[a].pc \in {"unused", "status", "token", "create"} => ~Created(a)
    /\ run[a].loop \in generatedFilesMap =>
          /\ run[a].pc = "write" => run[a].loop \in run[a].files
          /\ run[a].pc = "ok" => run[a].loop \in sandboxes[run[a].inst].files

\* ... for a loop, ...
LoopServed(l) ==
    /\ loop[l].files \in {{}, {l}}
    /\ loop[l].pc \in {"setup", "done"} =>
          /\ Created(loop[l].inst)
          /\ l \in generatedFilesMap => l \in sandboxes[loop[l].inst].files

\* ... and together.
Served ==
    /\ sandboxInstanceId # None => Created(sandboxInstanceId)
    /\ \A a \in Attempts : RunServed(a)
    /\ \A l \in Calls : LoopServed(l)

\* A run that is over, or that goes on with the same instance and files.
LEMMA RunKept ==
    ASSUME NEW a \in Attempts, RunServed(a),
           UNCHANGED <<sandboxes, generatedFilesMap>>,
           \/ run'[a] = run[a]
           \/ run'[a].pc = "over"
           \/ run'[a].pc \in {"error", "lost"}
           \/ /\ run'[a].pc = run[a].pc /\ run'[a].inst = run[a].inst
              /\ run'[a].files = run[a].files /\ run'[a].loop = run[a].loop
           \/ run'[a].pc \in {"token", "create"} /\ run[a].pc \in {"status", "token"}
    PROVE  RunServed(a)'
BY DEF RunServed, Created

\* A loop that is not asked to serve, or that goes on with the same instance.
LEMMA LoopKept ==
    ASSUME NEW l \in Calls, LoopServed(l),
           UNCHANGED <<sandboxes, generatedFilesMap>>,
           loop'[l].files \in {{}, loop[l].files},
           \/ loop'[l].pc \notin {"setup", "done"}
           \/ loop'[l].inst = loop[l].inst /\ loop[l].pc \in {"setup", "done"}
    PROVE  LoopServed(l)'
BY DEF LoopServed, Created

\* An attempt that begins has the instance of the state, or none yet; whoever
\* saved a file just now had nothing under way.
LEMMA BeginServed ==
    ASSUME Wired, Served, NEW l \in Calls, NEW a \in Attempts, NEW tries \in Nat,
           NEW files \in {{}, {l}}, NEW redeploy \in BOOLEAN, NEW g \in SUBSET Calls,
           BeginAttempt(l, a, tries, files, redeploy, g),
           UNCHANGED sandboxes,
           \/ generatedFilesMap' = generatedFilesMap
           \/ /\ generatedFilesMap' = generatedFilesMap \cup {l}
              /\ call[l].pc = "idle"
    PROVE  Served'
<1>0. TypeOK /\ RunsWired /\ LoopsWired
  BY DEF Wired
<1>1. /\ run'[a].pc \in {"status", "token", "create"}
      /\ run'[a].pc = "status" => run'[a].inst = sandboxInstanceId /\ sandboxInstanceId # None
  BY <1>0 DEF BeginAttempt, CreateNewInstance, NoRun, TypeOK
<1>2. /\ \A b \in Attempts \ {a} : run'[b] = run[b]
      /\ \A k \in Calls \ {l} : loop'[k] = loop[k]
      /\ loop'[l].pc = "attempt" /\ loop'[l].files = files
      /\ run[a].pc = "unused"
      /\ sandboxInstanceId' \in {None, sandboxInstanceId}
  BY <1>0 DEF BeginAttempt, TypeOK
<1>3. RunServed(a)'
  BY <1>1, <1>2 DEF Served, RunServed, Created
<1>4. ASSUME NEW b \in Attempts \ {a}  PROVE RunServed(b)'
  BY <1>0, <1>2 DEF Served, RunServed, Created, RunsWired, Pending, Settled
<1>5. ASSUME NEW k \in Calls  PROVE LoopServed(k)'
  BY <1>0, <1>2 DEF Served, LoopServed, Created
<1>6. (sandboxInstanceId # None => Created(sandboxInstanceId))'
  BY <1>2 DEF Served, Created
<1>. QED
  BY <1>3, <1>4, <1>5, <1>6 DEF Served

LEMMA DeployToSandboxServed ==
    ASSUME Wired, Served, NEW c \in Calls, NEW files \in {{}, {c}},
           NEW redeploy \in BOOLEAN, NEW g \in SUBSET Calls,
           DeployToSandbox(c, files, redeploy, g), UNCHANGED sandboxes,
           \/ generatedFilesMap' = generatedFilesMap
           \/ /\ generatedFilesMap' = generatedFilesMap \cup {c}
              /\ call[c].pc = "idle"
    PROVE  Served'
<1>0. TypeOK /\ RunsWired /\ LoopsWired
  BY DEF Wired
<1>1. CASE Join(c)
  <2>1. /\ run' = run /\ loop' = loop /\ sandboxInstanceId' = sandboxInstanceId
    BY <1>1 DEF Join
  <2>2. ASSUME NEW b \in Attempts  PROVE RunServed(b)'
    BY <1>0, <2>1 DEF Served, RunServed, Created, RunsWired, Pending, Settled
  <2>3. ASSUME NEW k \in Calls  PROVE LoopServed(k)'
    BY <1>0, <2>1 DEF Served, LoopServed, Created, LoopsWired
  <2>. QED
    BY <2>1, <2>2, <2>3 DEF Served, Created
<1>2. CASE Lead(c, files, redeploy, g)
  <2>1. PICK a \in Attempts : BeginAttempt(c, a, 1, files, redeploy, g)
    BY <1>2 DEF Lead
  <2>2. 1 \in Nat
    OBVIOUS
  <2>. QED
    BY <2>1, <2>2, BeginServed
<1>. QED
  BY <1>1, <1>2 DEF DeployToSandbox

\* A run whose instance i was created, and is not about to be, with the files it
\* is asked for: what it settles for or goes on to write serves its loop.
LEMMA ReadyServed ==
    ASSUME Wired, NEW a \in Attempts, NEW i \in Attempts, NEW redeployed \in BOOLEAN,
           run[a].pc \in Pending, LoopServed(run[a].loop),
           InstanceReady(a, i, redeployed), Created(i)',
           UNCHANGED generatedFilesMap
    PROVE  /\ \A b \in Attempts \ {a} : run'[b] = run[b]
           /\ RunServed(a)'
<1> DEFINE r == [run[a] EXCEPT !.inst = i, !.redeployed = redeployed]
           asked == loop[run[a].loop].files
           files == IF asked = {} \/ redeployed THEN generatedFilesMap ELSE asked
           w == [r EXCEPT !.pc = "write", !.files = files, !.client = GetClient]
<1>0. TypeOK /\ RunsWired
  BY DEF Wired
<1>1. run[a].loop \in Calls /\ run[a] \in RunRecords
  BY <1>0 DEF RunsWired, TypeOK
<1>2. asked \in {{}, {run[a].loop}}
  BY DEF LoopServed
<1>3. run[a].loop \in generatedFilesMap => run[a].loop \in files
  BY <1>2
<1>4. r \in RunRecords /\ r.loop = run[a].loop /\ r.inst = i
  BY <1>1 DEF RunRecords
<1>5. CASE files = {}
  <2>1. run' = [run EXCEPT ![a] = Settle(r, "ok")]
    BY <1>5 DEF InstanceReady
  <2>2. \/ Settle(r, "ok").pc = "over"
        \/ /\ Settle(r, "ok").pc = "ok"
           /\ Settle(r, "ok").inst = i /\ Settle(r, "ok").loop = run[a].loop
    <3>1. "ok" \in Settled
      BY DEF Settled
    <3>. HIDE DEF r
    <3>. QED
      BY <1>4, <3>1, SettleShape
  <2>3. run[a].loop \notin generatedFilesMap
    BY <1>3, <1>5
  <2>4. run'[a] = Settle(r, "ok") /\ \A b \in Attempts \ {a} : run'[b] = run[b]
    BY <1>0, <2>1 DEF TypeOK
  <2>. HIDE DEF r
  <2>. QED
    BY <2>2, <2>3, <2>4 DEF RunServed
<1>6. CASE files # {}
  <2>1. run' = [run EXCEPT ![a] = w]
    BY <1>6 DEF InstanceReady
  <2>2. w.pc = "write" /\ w.inst = i /\ w.loop = run[a].loop /\ w.files = files
    BY <1>4 DEF RunRecords
  <2>3. run'[a] = w /\ \A b \in Attempts \ {a} : run'[b] = run[b]
    BY <1>0, <2>1 DEF TypeOK
  <2>. HIDE DEF w, r, files
  <2>. QED
    BY <1>3, <2>2, <2>3 DEF RunServed
<1>. QED
  BY <1>5, <1>6

LEMMA FailureServed ==
    ASSUME Wired, Served, NEW l \in Calls, NEW sessionLevel, HandleFailure(l, sessionLevel),
           UNCHANGED <<sandboxes, generatedFilesMap>>,
           \A b \in Attempts :
              \/ run'[b] = run[b]
              \/ run'[b].pc = "over"
              \/ /\ run'[b].pc = run[b].pc /\ run'[b].inst = run[b].inst
                 /\ run'[b].files = run[b].files /\ run'[b].loop = run[b].loop
    PROVE  Served'
<1>1. /\ BackOff(loop[l]).pc = "backoff" /\ BackOff(loop[l]).files = loop[l].files
  BY DEF BackOff, Wired, TypeOK, LoopRecords
<1>2. /\ loop'[l].pc = "backoff" /\ loop'[l].files = loop[l].files
      /\ \A k \in Calls \ {l} : loop'[k] = loop[k]
      /\ sandboxInstanceId' = None
  BY <1>1 DEF HandleFailure, Wired, TypeOK
<1>3. ASSUME NEW b \in Attempts  PROVE RunServed(b)'
  BY RunKept DEF Served
<1>4. ASSUME NEW k \in Calls  PROVE LoopServed(k)'
  BY <1>2 DEF Served, LoopServed, Created
<1>. QED
  BY <1>2, <1>3, <1>4 DEF Served

\* Every step keeps the loops served.
LEMMA ServedStep == Wired /\ Served /\ [Next]_vars => Served'
<1> SUFFICES ASSUME Wired, Served, [Next]_vars  PROVE Served'
  OBVIOUS
<1>0. TypeOK /\ RunsWired /\ LoopsWired
  BY DEF Wired
<1>1. ASSUME NEW c \in Calls, Request(c)  PROVE Served'
  <2>1. /\ generatedFilesMap' \in SUBSET Calls /\ call[c].pc = "idle" /\ UNCHANGED sandboxes
        /\ generatedFilesMap' = generatedFilesMap \cup {c}
    BY <1>0, <1>1 DEF Request, TypeOK
  <2>2. PICK files \in {{}, {c}}, redeploy \in BOOLEAN :
           DeployToSandbox(c, files, redeploy, generatedFilesMap')
    BY <1>1 DEF Request
  <2>. QED
    BY <2>1, <2>2, DeployToSandboxServed
<1>2. ASSUME NEW c \in Calls, TickUnhealthy(c)  PROVE Served'
  <2>1. /\ generatedFilesMap \in SUBSET Calls /\ {} \in {{}, {c}} /\ FALSE \in BOOLEAN
        /\ generatedFilesMap' = generatedFilesMap /\ UNCHANGED sandboxes
    BY <1>0, <1>2 DEF TickUnhealthy, TypeOK
  <2>2. DeployToSandbox(c, {}, FALSE, generatedFilesMap)
    BY <1>2 DEF TickUnhealthy
  <2>. QED
    BY <2>1, <2>2, DeployToSandboxServed
<1>3. ASSUME NEW c \in Calls,
             LeaderReturns(c) \/ JoinerReturns(c) \/ TickStarts(c) \/ TickEnds(c)
      PROVE  UNCHANGED <<loop, run, sandboxes, generatedFilesMap, sandboxInstanceId>>
  BY <1>3 DEF LeaderReturns, JoinerReturns, TickStarts, TickEnds
<1>4. ASSUME UNCHANGED <<loop, run, sandboxes, generatedFilesMap, sandboxInstanceId>>
      PROVE  Served'
  BY <1>4 DEF Served, RunServed, LoopServed, Created
<1>5. ASSUME NEW l \in Calls, DeploySucceeds(l)  PROVE Served'
  <2> DEFINE a == loop[l].attempt
             ready == [loop[l] EXCEPT !.pc = "setup", !.attempt = None, !.inst = run[a].inst]
             back == Return(l, run[a].inst)
  <2>1. /\ loop[l].pc = "attempt" /\ run[a].pc = "ok"
        /\ run' = [run EXCEPT ![a] = Over(run[a])]
        /\ \/ loop' = [loop EXCEPT ![l] = back]
           \/ loop' = [loop EXCEPT ![l] = ready]
        /\ UNCHANGED <<sandboxes, generatedFilesMap, sandboxInstanceId>>
    BY <1>5 DEF DeploySucceeds
  <2>2. a \in Attempts /\ run[a].loop = l /\ run[a].inst \in Attempts
    BY <1>0, <2>1 DEF LoopsWired, RunsWired
  <2>3. ready.inst = run[a].inst /\ ready.files = loop[l].files
    BY <1>0 DEF TypeOK, LoopRecords
  <2>4. back.inst = run[a].inst /\ back.files = loop[l].files
    BY DEF Return, NoLoop
  <2>5. /\ loop'[l].inst = run[a].inst /\ loop'[l].files = loop[l].files
        /\ \A k \in Calls \ {l} : loop'[k] = loop[k]
    <3>. HIDE DEF ready, back
    <3>. QED
      BY <1>0, <2>1, <2>3, <2>4 DEF TypeOK
  <2>6. run'[a].pc = "over" /\ \A b \in Attempts \ {a} : run'[b] = run[b]
    <3>1. Over(run[a]).pc = "over"
      BY DEF Over, NoRun
    <3>. QED
      BY <1>0, <2>1, <2>2, <3>1 DEF TypeOK
  <2>7. ASSUME NEW b \in Attempts  PROVE RunServed(b)'
    BY <2>1, <2>6, RunKept DEF Served
  <2>8. LoopServed(l)'
    <3>1. Created(run[a].inst) /\ (l \in generatedFilesMap => l \in sandboxes[run[a].inst].files)
      BY <2>1, <2>2 DEF Served, RunServed
    <3>. QED
      BY <2>1, <2>5, <3>1 DEF Served, LoopServed, Created
  <2>9. ASSUME NEW k \in Calls \ {l}  PROVE LoopServed(k)'
    BY <2>1, <2>5 DEF Served, LoopServed, Created
  <2>. QED
    BY <2>1, <2>7, <2>8, <2>9 DEF Served, Created
<1>6. ASSUME NEW l \in Calls, DeployFails(l) \/ AttemptTimesOut(l) \/ SetupFails(l)
      PROVE  Served'
  <2> DEFINE a == loop[l].attempt
  <2>1. UNCHANGED <<sandboxes, generatedFilesMap>>
    BY <1>6 DEF DeployFails, AttemptTimesOut, SetupFails
  <2>2. \E sessionLevel : HandleFailure(l, sessionLevel)
    BY <1>6, Zenon DEF DeployFails, AttemptTimesOut, SetupFails
  <2>3. \/ UNCHANGED run
        \/ /\ loop[l].pc = "attempt"
           /\ \/ run' = [run EXCEPT ![a] = Over(run[a])]
              \/ run' = [run EXCEPT ![a].late = TRUE]
    BY <1>6 DEF DeployFails, AttemptTimesOut, SetupFails
  <2>4. ASSUME NEW b \in Attempts
        PROVE  \/ run'[b] = run[b]
               \/ run'[b].pc = "over"
               \/ /\ run'[b].pc = run[b].pc /\ run'[b].inst = run[b].inst
                  /\ run'[b].files = run[b].files /\ run'[b].loop = run[b].loop
    <3>1. run[b] \in RunRecords
      BY <1>0 DEF TypeOK
    <3>2. /\ Over(run[b]).pc = "over"
          /\ LET q == [run[b] EXCEPT !.late = TRUE]
             IN  q.pc = run[b].pc /\ q.inst = run[b].inst /\ q.files = run[b].files
                 /\ q.loop = run[b].loop
      BY <3>1 DEF Over, NoRun, RunRecords
    <3>. QED
      BY <1>0, <2>3, <3>2 DEF TypeOK
  <2>. QED
    BY <2>1, <2>2, <2>4, FailureServed
<1>7. ASSUME NEW l \in Calls, SetupSucceeds(l)  PROVE Served'
  <2>1. /\ Return(l, loop[l].inst).inst = loop[l].inst
        /\ Return(l, loop[l].inst).files = loop[l].files
    BY DEF Return, NoLoop
  <2>2. /\ loop[l].pc = "setup" /\ loop'[l].inst = loop[l].inst /\ loop'[l].files = loop[l].files
        /\ \A k \in Calls \ {l} : loop'[k] = loop[k]
        /\ UNCHANGED <<sandboxes, generatedFilesMap, sandboxInstanceId, run>>
    BY <1>0, <1>7, <2>1 DEF SetupSucceeds, TypeOK
  <2>3. ASSUME NEW k \in Calls  PROVE LoopServed(k)'
    BY <2>2 DEF Served, LoopServed, Created
  <2>. QED
    BY <2>2, <2>3 DEF Served, RunServed, Created
<1>8. ASSUME NEW l \in Calls, Retry(l)  PROVE Served'
  <2>1. /\ loop[l].tries + 1 \in Nat
        /\ loop[l].files \in {{}, {l}}
        /\ loop[l].redeploy \in BOOLEAN
        /\ generatedFilesMap \in SUBSET Calls
    BY <1>0 DEF TypeOK, LoopRecords, Served, LoopServed
  <2>2. PICK a \in Attempts, tries \in Nat, files \in {{}, {l}}, redeploy \in BOOLEAN :
           BeginAttempt(l, a, tries, files, redeploy, generatedFilesMap)
    BY <1>8, <2>1 DEF Retry
  <2>3. UNCHANGED sandboxes /\ generatedFilesMap' = generatedFilesMap
    BY <1>8 DEF Retry
  <2>4. PICK g \in SUBSET Calls : g = generatedFilesMap
    BY <2>1
  <2>5. BeginAttempt(l, a, tries, files, redeploy, g)
    BY <2>2, <2>4
  <2>. QED
    BY <2>3, <2>5, BeginServed
<1>9. ASSUME NEW a \in Attempts, StatusHealthy(a)  PROVE Served'
  <2>1. /\ run[a].pc \in Pending /\ run[a].inst \in Attempts /\ Created(run[a].inst)
        /\ InstanceReady(a, run[a].inst, FALSE) /\ FALSE \in BOOLEAN
        /\ UNCHANGED <<loop, sandboxes, generatedFilesMap, sandboxInstanceId>>
    BY <1>0, <1>9 DEF StatusHealthy, RunsWired, Pending, Served, RunServed
  <2>2. LoopServed(run[a].loop)
    BY <1>0, <2>1 DEF Served, RunsWired
  <2> PICK i \in Attempts : i = run[a].inst
    BY <2>1
  <2>3. Created(i)' /\ InstanceReady(a, i, FALSE)
    BY <2>1 DEF Created
  <2>4. /\ \A b \in Attempts \ {a} : run'[b] = run[b]
        /\ RunServed(a)'
    BY <2>1, <2>2, <2>3, ReadyServed
  <2>5. ASSUME NEW b \in Attempts  PROVE RunServed(b)'
    BY <2>1, <2>4, RunKept DEF Served
  <2>. QED
    BY <2>1, <2>5 DEF Served, LoopServed, Created
<1>10. ASSUME NEW a \in Attempts, StatusUnhealthy(a) \/ TokenAnswers(a)  PROVE Served'
  <2>1. /\ run[a].pc \in {"status", "token"}
        /\ UNCHANGED <<loop, sandboxes, generatedFilesMap, sandboxInstanceId>>
    BY <1>10 DEF StatusUnhealthy, TokenAnswers
  <2>2. /\ run'[a].pc \in {"token", "create"}
        /\ \A b \in Attempts \ {a} : run'[b] = run[b]
    <3> DEFINE made == CreateNewInstance(run[a], GetClient, generatedFilesMap)
               sent == [run[a] EXCEPT !.pc = "create", !.client = GetClient,
                                      !.files = generatedFilesMap]
    <3>1. run[a] \in RunRecords
      BY <1>0 DEF TypeOK
    <3>2. made.pc \in {"token", "create"} /\ sent.pc = "create"
      BY <3>1 DEF CreateNewInstance, RunRecords
    <3>3. run' = [run EXCEPT ![a] = made] \/ run' = [run EXCEPT ![a] = sent]
      BY <1>10 DEF StatusUnhealthy, TokenAnswers
    <3>. HIDE DEF made, sent
    <3>. QED
      BY <1>0, <3>2, <3>3 DEF TypeOK
  <2>3. ASSUME NEW b \in Attempts  PROVE RunServed(b)'
    BY <2>1, <2>2 DEF Served, RunServed, Created
  <2>. QED
    BY <2>1, <2>3 DEF Served, LoopServed, Created
<1>11. ASSUME NEW a \in Attempts, CreateAnswers(a)  PROVE Served'
  <2> DEFINE made == [session |-> run[a].client, files |-> run[a].files]
  <2>1. /\ run[a].pc = "create" /\ run[a].pc \in Pending
        /\ InstanceReady(a, a, TRUE) /\ TRUE \in BOOLEAN
        /\ sandboxes' = [sandboxes EXCEPT ![a] = made]
        /\ sandboxInstanceId' = a
        /\ UNCHANGED <<loop, generatedFilesMap>>
    BY <1>11 DEF CreateAnswers, Pending
  <2>2. /\ sandboxes'[a] = made
        /\ \A i \in Attempts \ {a} : sandboxes'[i] = sandboxes[i]
    BY <1>0, <2>1 DEF TypeOK
  <2>3. Created(a)' /\ ~Created(a)
    BY <1>0, <2>1, <2>2, NoneAssumption DEF Created, TypeOK, RunRecords, Sessions, Served, RunServed
  <2>4. LoopServed(run[a].loop)
    BY <1>0, <2>1 DEF Served, RunsWired
  <2>5. /\ \A b \in Attempts \ {a} : run'[b] = run[b]
        /\ RunServed(a)'
    BY <2>1, <2>3, <2>4, ReadyServed
  <2>6. ASSUME NEW b \in Attempts \ {a}  PROVE RunServed(b)'
    <3>1. RunServed(b)
      BY DEF Served
    <3>2. run[b].pc \in {"status", "write", "ok"} => run[b].inst \in Attempts \ {a}
      BY <1>0, <2>3, <3>1 DEF RunsWired, RunServed
    <3>. QED
      BY <2>1, <2>2, <2>5, <3>1, <3>2 DEF RunServed, Created
  <2>7. ASSUME NEW k \in Calls  PROVE LoopServed(k)'
    <3>1. LoopServed(k)
      BY DEF Served
    <3>2. loop[k].pc \in {"setup", "done"} => loop[k].inst \in Attempts \ {a}
      BY <1>0, <2>3, <3>1 DEF LoopsWired, LoopServed
    <3>. QED
      BY <2>1, <2>2, <3>1, <3>2 DEF LoopServed, Created
  <2>. QED
    BY <2>1, <2>3, <2>5, <2>6, <2>7 DEF Served
<1>12. ASSUME NEW a \in Attempts, WriteAnswers(a)  PROVE Served'
  <2> DEFINE i == run[a].inst
  <2>1. /\ run[a].pc = "write"
        /\ sandboxes' = [sandboxes EXCEPT ![i].files = @ \cup run[a].files]
        /\ run' = [run EXCEPT ![a] = Settle(run[a], "ok")]
        /\ UNCHANGED <<loop, generatedFilesMap, sandboxInstanceId>>
    BY <1>12 DEF WriteAnswers
  <2>2. i \in Attempts /\ run[a] \in RunRecords /\ "ok" \in Settled
    BY <1>0, <2>1 DEF RunsWired, TypeOK, Settled
  <2>3. \A j \in Attempts : /\ sandboxes'[j].session = sandboxes[j].session
                            /\ sandboxes[j].files \subseteq sandboxes'[j].files
    BY <1>0, <2>1, <2>2 DEF TypeOK, SandboxRecords
  <2>4. run[a].files \subseteq sandboxes'[i].files
    BY <1>0, <2>1, <2>2 DEF TypeOK, SandboxRecords
  <2>5. /\ \A b \in Attempts \ {a} : run'[b] = run[b]
        /\ run'[a] = Settle(run[a], "ok")
    BY <1>0, <2>1 DEF TypeOK
  <2>6. RunServed(a)'
    <3>1. RunServed(a)
      BY DEF Served
    <3>2. \/ Settle(run[a], "ok").pc = "over"
          \/ /\ Settle(run[a], "ok").pc = "ok"
             /\ Settle(run[a], "ok").inst = i /\ Settle(run[a], "ok").loop = run[a].loop
      BY <2>2, SettleShape
    <3>. QED
      BY <2>1, <2>2, <2>3, <2>4, <2>5, <3>1, <3>2 DEF RunServed, Created
  <2>7. ASSUME NEW b \in Attempts \ {a}  PROVE RunServed(b)'
    <3>1. RunServed(b)
      BY DEF Served
    <3>. QED
      BY <1>0, <2>1, <2>3, <2>5, <3>1 DEF RunServed, Created, RunsWired
  <2>8. ASSUME NEW k \in Calls  PROVE LoopServed(k)'
    <3>1. LoopServed(k)
      BY DEF Served
    <3>. QED
      BY <1>0, <2>1, <2>3, <3>1 DEF LoopServed, Created, LoopsWired
  <2>9. (sandboxInstanceId # None => Created(sandboxInstanceId))'
    BY <1>0, <2>1, <2>3 DEF TypeOK, Served, Created
  <2>. QED
    BY <2>6, <2>7, <2>8, <2>9 DEF Served
<1>13. ASSUME NEW a \in Attempts, RunFails(a)  PROVE Served'
  <2>1. PICK pc \in {"error", "lost"} : run' = [run EXCEPT ![a] = Settle(run[a], pc)]
    BY <1>13 DEF RunFails
  <2>2. UNCHANGED <<loop, sandboxes, generatedFilesMap, sandboxInstanceId>>
    BY <1>13 DEF RunFails
  <2>3. run[a] \in RunRecords /\ pc \in Settled
    BY <1>0 DEF TypeOK, Settled
  <2>4. Settle(run[a], pc).pc \in {"over", "error", "lost"}
    BY <2>3, SettleShape
  <2>5. ASSUME NEW b \in Attempts  PROVE RunServed(b)'
    <3>1. run'[b] = run[b] \/ run'[b].pc \in {"over", "error", "lost"}
      BY <1>0, <2>1, <2>4 DEF TypeOK
    <3>. QED
      BY <2>2, <3>1, RunKept DEF Served
  <2>. QED
    BY <2>2, <2>5 DEF Served, LoopServed, Created
<1>14. CASE Restart
  <2>1. UNCHANGED <<sandboxes, generatedFilesMap, sandboxInstanceId>>
    BY <1>14 DEF Restart
  <2>2. ASSUME NEW b \in Attempts  PROVE RunServed(b)'
    <3>1. \/ run'[b].pc = "over"
          \/ run'[b].pc = "unused" /\ run[b].pc = "unused" /\ run'[b].loop = None
      BY <1>14 DEF Restart, Over, NoRun
    <3>. QED
      BY <1>0, <2>1, <3>1, NoneAssumption DEF Served, RunServed, Created, TypeOK
  <2>3. ASSUME NEW k \in Calls  PROVE LoopServed(k)'
    <3>1. \/ loop'[k] = loop[k]
          \/ loop'[k].pc = "none" /\ loop'[k].files = {}
      BY <1>14 DEF Restart, NoLoop
    <3>. QED
      BY <2>1, <3>1 DEF Served, LoopServed, Created
  <2>. QED
    BY <2>1, <2>2, <2>3 DEF Served, Created
<1>15. CASE UNCHANGED vars
  BY <1>4, <1>15 DEF vars
<1>. QED
  BY <1>1, <1>2, <1>3, <1>4, <1>5, <1>6, <1>7, <1>8, <1>9, <1>10, <1>11, <1>12, <1>13,
     <1>14, <1>15 DEF Next

\* A loop that returned has an instance that exists and holds its caller's file,
\* for any number of calls and attempts, early or late, and over restarts.
THEOREM PreviewAlwaysServes == Spec => []PreviewServesRequest
<1>1. Init => Served
  BY DEF Init, Served, RunServed, LoopServed, Created, NoRun, NoLoop
<1>2. Wired /\ Served /\ [Next]_vars => Served'
  BY ServedStep
<1>3. Wired /\ Served => PreviewServesRequest
  BY DEF Wired, LoopsWired, Served, LoopServed, Created, PreviewServesRequest
<1>. QED
  BY <1>1, <1>2, <1>3, WiredAlways, PTL DEF Spec

-----------------------------------------------------------------------------
\* What has not begun is not late.
UnusedOnTime == \A a \in Attempts : run[a].pc = "unused" => ~run[a].late

\* While nothing has timed out, an instance is only created in the current session.
CreatedInSession ==
    NothingTimedOut =>
        \A a \in Attempts : run[a].pc = "create" => run[a].client = sessionId

\* The stored instance is of the current session.
StoredInSession ==
    NothingTimedOut /\ sandboxInstanceId # None =>
        sandboxes[sandboxInstanceId].session = sessionId

\* A loop with work to do has its caller waiting, who holds the promise.
LEMMA OneActiveLoop ==
    ASSUME Wired, LeaderOwnsPromise, NothingTimedOut,
           NEW k \in Calls, loop[k].pc \in Active
    PROVE  currentDeploymentPromise = k
BY DEF Wired, LoopsWired, LeaderOwnsPromise, NothingTimedOut

\* What was late or given up stays so.
LEMMA TimedOutStays ==
    ASSUME Wired, UnusedOnTime, [Next]_vars
    PROVE  /\ UnusedOnTime'
           /\ NothingTimedOut' => NothingTimedOut
<1>0. TypeOK /\ RunsWired /\ LoopsWired
  BY DEF Wired
<1>. DEFINE RunsStay ==
               \A a \in Attempts :
                  /\ run'[a].pc = "unused" => ~run'[a].late
                  /\ run[a].late => run'[a].late
            CallsStay == \A c \in Calls : call[c].pc = "null" => call'[c].pc = "null"
<1>. SUFFICES RunsStay /\ CallsStay
  BY DEF UnusedOnTime, NothingTimedOut
<1>1. UNCHANGED run => RunsStay
  BY DEF UnusedOnTime
<1>2. ASSUME NEW l \in Calls, NEW a \in Attempts, NEW tries, NEW files, NEW redeploy, NEW g,
             BeginAttempt(l, a, tries, files, redeploy, g)
      PROVE  RunsStay
  <2>1. run[a].pc = "unused" /\ run'[a].pc # "unused" /\ \A b \in Attempts \ {a} : run'[b] = run[b]
    BY <1>0, <1>2 DEF BeginAttempt, CreateNewInstance, NoRun, TypeOK
  <2>. QED
    BY <2>1 DEF UnusedOnTime
<1>3. ASSUME NEW c \in Calls, Request(c) \/ TickUnhealthy(c)  PROVE RunsStay /\ CallsStay
  <2>1. PICK files, redeploy, g : DeployToSandbox(c, files, redeploy, g)
    BY <1>3, Zenon DEF Request, TickUnhealthy
  <2>2. call[c].pc \in {"idle", "tick"}
    BY <1>3 DEF Request, TickUnhealthy
  <2>3. CallsStay
    BY <1>0, <2>1, <2>2 DEF DeployToSandbox, Join, Lead, TypeOK
  <2>4. RunsStay
    BY <1>1, <1>2, <2>1 DEF DeployToSandbox, Join, Lead
  <2>. QED
    BY <2>3, <2>4
<1>4. ASSUME NEW l \in Calls, Retry(l)  PROVE RunsStay /\ CallsStay
  <2>1. PICK a \in Attempts : \E tries, files, redeploy, g :
           BeginAttempt(l, a, tries, files, redeploy, g)
    BY <1>4, Zenon DEF Retry
  <2>. QED
    BY <1>2, <1>4, <2>1 DEF Retry
<1>5. ASSUME NEW c \in Calls,
             LeaderReturns(c) \/ JoinerReturns(c) \/ TickStarts(c) \/ TickEnds(c)
      PROVE  RunsStay /\ CallsStay
  <2>1. UNCHANGED run
    BY <1>5 DEF LeaderReturns, JoinerReturns, TickStarts, TickEnds
  <2>2. call[c].pc # "null" /\ \A d \in Calls \ {c} : call'[d] = call[d]
    BY <1>0, <1>5 DEF LeaderReturns, JoinerReturns, TickStarts, TickEnds, TypeOK
  <2>. QED
    BY <1>1, <2>1, <2>2
<1>6. ASSUME NEW l \in Calls, DeploySucceeds(l) \/ DeployFails(l) \/ AttemptTimesOut(l)
      PROVE  RunsStay /\ CallsStay
  <2> DEFINE a == loop[l].attempt
  <2>1. /\ loop[l].pc = "attempt" /\ UNCHANGED call
        /\ \/ run' = [run EXCEPT ![a] = Over(run[a])]
           \/ run' = [run EXCEPT ![a].late = TRUE]
    BY <1>6 DEF DeploySucceeds, DeployFails, AttemptTimesOut
  <2>2. a \in Attempts /\ run[a] \in RunRecords /\ run[a].pc # "unused"
    BY <1>0, <2>1 DEF LoopsWired, TypeOK, Pending, Settled
  <2>3. /\ Over(run[a]).pc = "over" /\ Over(run[a]).late = run[a].late
        /\ [run[a] EXCEPT !.late = TRUE].pc = run[a].pc
        /\ [run[a] EXCEPT !.late = TRUE].late
    BY <2>2 DEF Over, NoRun, RunRecords
  <2>4. /\ \A b \in Attempts \ {a} : run'[b] = run[b]
        /\ run'[a] \in {Over(run[a]), [run[a] EXCEPT !.late = TRUE]}
    BY <1>0, <2>1, <2>2 DEF TypeOK
  <2>. QED
    BY <2>1, <2>2, <2>3, <2>4, ZenonT(40) DEF UnusedOnTime
<1>7. ASSUME NEW l \in Calls, SetupSucceeds(l) \/ SetupFails(l)  PROVE RunsStay /\ CallsStay
  BY <1>1, <1>7 DEF SetupSucceeds, SetupFails
<1>8. ASSUME NEW a \in Attempts, NEW q,
             run' = [run EXCEPT ![a] = q], UNCHANGED call,
             run[a].late => q.late, q.pc # "unused"
      PROVE  RunsStay /\ CallsStay
  BY <1>0, <1>8 DEF TypeOK, UnusedOnTime
<1>9. ASSUME NEW r \in RunRecords, NEW pc \in Settled
      PROVE  /\ Settle(r, pc).pc # "unused"
             /\ r.late => Settle(r, pc).late
  <2>1. CASE r.late
    BY <2>1 DEF Settle, Over, NoRun
  <2>2. CASE ~r.late
    BY <2>2, SettleShape DEF Settled
  <2>. QED
    BY <2>1, <2>2
<1>10. ASSUME NEW a \in Attempts, StatusHealthy(a) \/ CreateAnswers(a)  PROVE RunsStay /\ CallsStay
  <2>1. PICK i \in Attempts, redeployed \in BOOLEAN :
           InstanceReady(a, i, redeployed) /\ UNCHANGED call
    <3>1. CASE StatusHealthy(a)
      <4>1. run[a].inst \in Attempts /\ FALSE \in BOOLEAN
        BY <1>0, <3>1 DEF StatusHealthy, RunsWired
      <4>2. InstanceReady(a, run[a].inst, FALSE) /\ UNCHANGED call
        BY <3>1 DEF StatusHealthy
      <4>. QED
        BY <4>1, <4>2, Zenon
    <3>2. CASE CreateAnswers(a)
      <4>1. InstanceReady(a, a, TRUE) /\ UNCHANGED call /\ TRUE \in BOOLEAN
        BY <3>2 DEF CreateAnswers
      <4>. QED
        BY <4>1, Zenon
    <3>. QED
      BY <1>10, <3>1, <3>2
  <2> DEFINE r == [run[a] EXCEPT !.inst = i, !.redeployed = redeployed]
             asked == loop[run[a].loop].files
             files == IF asked = {} \/ redeployed THEN generatedFilesMap ELSE asked
             w == [r EXCEPT !.pc = "write", !.files = files, !.client = GetClient]
  <2>2. run[a] \in RunRecords
    BY <1>0 DEF TypeOK
  <2>3. r.late = run[a].late /\ w.late = run[a].late /\ w.pc = "write"
    BY <2>2 DEF RunRecords
  <2>4. \/ run' = [run EXCEPT ![a] = Settle(r, "ok")]
        \/ run' = [run EXCEPT ![a] = w]
    BY <2>1 DEF InstanceReady
  <2>5. Settle(r, "ok").pc # "unused" /\ (r.late => Settle(r, "ok").late)
    <3>1. r \in RunRecords
      <4>1. i \in Attempts /\ redeployed \in BOOLEAN
        BY <2>1
      <4>. QED
        BY <2>2, <4>1 DEF RunRecords
    <3>2. "ok" \in Settled
      BY DEF Settled
    <3>. HIDE DEF r
    <3>. QED
      BY <1>9, <3>1, <3>2
  <2>. HIDE DEF r, w
  <2>. QED
    BY <1>8, <2>1, <2>3, <2>4, <2>5
<1>11. ASSUME NEW a \in Attempts, StatusUnhealthy(a) \/ TokenAnswers(a)  PROVE RunsStay /\ CallsStay
  <2> DEFINE made == CreateNewInstance(run[a], GetClient, generatedFilesMap)
             sent == [run[a] EXCEPT !.pc = "create", !.client = GetClient,
                                    !.files = generatedFilesMap]
  <2>1. run[a] \in RunRecords
    BY <1>0 DEF TypeOK
  <2>2. /\ made.pc \in {"token", "create"} /\ sent.pc = "create"
        /\ made.late = run[a].late /\ sent.late = run[a].late
    BY <2>1 DEF CreateNewInstance, RunRecords
  <2>3. /\ run' = [run EXCEPT ![a] = made] \/ run' = [run EXCEPT ![a] = sent]
        /\ UNCHANGED call
    BY <1>11 DEF StatusUnhealthy, TokenAnswers
  <2>. HIDE DEF made, sent
  <2>. QED
    BY <1>8, <2>2, <2>3
<1>12. ASSUME NEW a \in Attempts, WriteAnswers(a) \/ RunFails(a)  PROVE RunsStay /\ CallsStay
  <2>1. PICK pc \in Settled : run' = [run EXCEPT ![a] = Settle(run[a], pc)]
    BY <1>12 DEF WriteAnswers, RunFails, Settled
  <2>2. UNCHANGED call
    BY <1>12 DEF WriteAnswers, RunFails
  <2>3. run[a] \in RunRecords
    BY <1>0 DEF TypeOK
  <2>. QED
    BY <1>8, <1>9, <2>1, <2>2, <2>3
<1>13. CASE Restart
  <2>1. ASSUME NEW a \in Attempts
        PROVE  /\ run'[a].pc = "unused" => ~run'[a].late
               /\ run[a].late => run'[a].late
    BY <1>13 DEF Restart, Over, NoRun, UnusedOnTime
  <2>2. CallsStay
    BY <1>13 DEF Restart, Waiting
  <2>. QED
    BY <2>1, <2>2
<1>14. CASE UNCHANGED vars
  BY <1>1, <1>14 DEF vars
<1>. QED
  BY <1>3, <1>4, <1>5, <1>6, <1>7, <1>10, <1>11, <1>12, <1>13, <1>14 DEF Next

\* An attempt begins when no other is awaited: its client is of the session of this moment.
LEMMA BeginInSession ==
    ASSUME Wired, ClientOfSession, CreatedInSession, StoredInSession, NothingTimedOut,
           NEW l \in Calls, NEW a \in Attempts, NEW tries, NEW files, NEW redeploy \in BOOLEAN,
           NEW g, BeginAttempt(l, a, tries, files, redeploy, g), UNCHANGED sandboxes,
           \A k \in Calls : loop[k].pc # "attempt"
    PROVE  CreatedInSession' /\ StoredInSession'
<1>0. TypeOK /\ RunsWired /\ LoopsWired
  BY DEF Wired
<1>1. \A b \in Attempts \ {a} : run'[b] = run[b] /\ run[b].pc # "create"
  BY <1>0 DEF BeginAttempt, TypeOK, RunsWired, NothingTimedOut, Pending
<1>2. run'[a].pc = "create" => run'[a].client = sessionId'
  BY <1>0 DEF BeginAttempt, CreateNewInstance, NoRun, TypeOK, ClientFor, ClientOfSession
<1>3. /\ sandboxInstanceId' \in {None, sandboxInstanceId}
      /\ sandboxInstanceId' # None => sessionId' = sessionId
  BY DEF BeginAttempt
<1>. QED
  BY <1>1, <1>2, <1>3 DEF CreatedInSession, StoredInSession

\* A failure forgets the instance when no run is about to create one.
LEMMA FailureInSession ==
    ASSUME Wired, LeaderOwnsPromise, NothingTimedOut, NEW l \in Calls, NEW sessionLevel,
           HandleFailure(l, sessionLevel), loop[l].pc \in Active,
           \A a \in Attempts : run[a].pc = "create" => run[a].loop # l,
           \A a \in Attempts : run'[a].pc = "create" => run[a].pc = "create"
    PROVE  CreatedInSession' /\ StoredInSession'
<1>0. TypeOK /\ RunsWired /\ LoopsWired
  BY DEF Wired
<1>1. ASSUME NEW a \in Attempts  PROVE run[a].pc # "create"
  <2>1. run[a].pc = "create" => run[a].loop \in Calls /\ loop[run[a].loop].pc = "attempt"
    BY <1>0 DEF RunsWired, NothingTimedOut, Pending
  <2>2. \A k \in Calls : loop[k].pc = "attempt" => k = l
    BY OneActiveLoop DEF Active
  <2>. QED
    BY <2>1, <2>2
<1>. QED
  BY <1>1 DEF CreatedInSession, StoredInSession, HandleFailure

SessionInv ==
    /\ Wired
    /\ LeaderOwnsPromise
    /\ ClientOfSession
    /\ UnusedOnTime
    /\ CreatedInSession
    /\ StoredInSession

LEMMA InSessionStep ==
    ASSUME SessionInv, [Next]_vars, NothingTimedOut'
    PROVE  CreatedInSession' /\ StoredInSession'
<1>0. TypeOK /\ RunsWired /\ LoopsWired
  BY DEF Wired, SessionInv
<1>1. NothingTimedOut
  BY TimedOutStays DEF SessionInv
<1>2. GetClient = sessionId
  BY DEF GetClient, ClientFor, ClientOfSession, SessionInv
<1>3. ASSUME UNCHANGED <<sessionId, sandboxInstanceId, sandboxes>>,
             \A a \in Attempts : run'[a].pc = "create" =>
                \/ run[a].pc = "create" /\ run'[a].client = run[a].client
                \/ run'[a].client = sessionId
      PROVE  CreatedInSession' /\ StoredInSession'
  BY <1>1, <1>3 DEF SessionInv, CreatedInSession, StoredInSession
<1>4. ASSUME NEW c \in Calls, Request(c) \/ TickUnhealthy(c)
      PROVE  CreatedInSession' /\ StoredInSession'
  <2>1. PICK redeploy \in BOOLEAN : \E files, g : DeployToSandbox(c, files, redeploy, g)
    <3>1. CASE Request(c)
      BY <3>1, Zenon DEF Request
    <3>2. CASE TickUnhealthy(c)
      <4>1. FALSE \in BOOLEAN /\ DeployToSandbox(c, {}, FALSE, generatedFilesMap)
        BY <3>2 DEF TickUnhealthy
      <4>. QED
        BY <4>1, Zenon
    <3>. QED
      BY <1>4, <3>1, <3>2
  <2>2. UNCHANGED sandboxes
    BY <1>4 DEF Request, TickUnhealthy
  <2> PICK files, g : DeployToSandbox(c, files, redeploy, g)
    BY <2>1
  <2>3. CASE Join(c)
    BY <1>3, <2>2, <2>3 DEF Join
  <2>4. CASE Lead(c, files, redeploy, g)
    <3>1. PICK a \in Attempts : BeginAttempt(c, a, 1, files, redeploy, g)
      BY <2>4 DEF Lead
    <3>2. \A k \in Calls : loop[k].pc # "attempt"
      BY <1>1, <2>4, OneActiveLoop, NoneAssumption DEF Lead, Active, SessionInv
    <3>. QED
      BY <1>1, <2>2, <3>1, <3>2, BeginInSession DEF SessionInv
  <2>. QED
    BY <2>1, <2>3, <2>4 DEF DeployToSandbox
<1>5. ASSUME NEW l \in Calls, Retry(l)  PROVE CreatedInSession' /\ StoredInSession'
  <2>2. loop[l].pc = "backoff" /\ UNCHANGED sandboxes
    BY <1>5 DEF Retry
  <2>3. \A k \in Calls : loop[k].pc # "attempt"
    BY <1>1, <2>2, OneActiveLoop DEF Active, SessionInv
  <2>4. PICK d \in BOOLEAN : d = loop[l].redeploy
    BY <1>0 DEF TypeOK, LoopRecords
  <2>5. PICK b \in Attempts : \E n, f, h : BeginAttempt(l, b, n, f, d, h)
    BY <1>5, <2>4, Zenon DEF Retry
  <2> PICK n, f, h : BeginAttempt(l, b, n, f, d, h)
    BY <2>5
  <2>. QED
    BY <1>1, <2>2, <2>3, <2>5, BeginInSession DEF SessionInv
<1>6. ASSUME NEW c \in Calls,
             LeaderReturns(c) \/ JoinerReturns(c) \/ TickStarts(c) \/ TickEnds(c) \/ SetupSucceeds(c)
      PROVE  CreatedInSession' /\ StoredInSession'
  <2>1. UNCHANGED <<sessionId, sandboxInstanceId, sandboxes, run>>
    BY <1>6 DEF LeaderReturns, JoinerReturns, TickStarts, TickEnds, SetupSucceeds
  <2>. QED
    BY <1>3, <2>1
<1>7. ASSUME NEW l \in Calls, DeploySucceeds(l)  PROVE CreatedInSession' /\ StoredInSession'
  <2>1. UNCHANGED <<sessionId, sandboxInstanceId, sandboxes>>
    BY <1>7 DEF DeploySucceeds
  <2>2. \A a \in Attempts : run'[a] = run[a] \/ run'[a].pc = "over"
    <3>1. run' = [run EXCEPT ![loop[l].attempt] = Over(run[loop[l].attempt])]
      BY <1>7 DEF DeploySucceeds
    <3>2. Over(run[loop[l].attempt]).pc = "over"
      BY DEF Over, NoRun
    <3>. QED
      BY <1>0, <3>1, <3>2 DEF TypeOK
  <2>. QED
    BY <1>3, <2>1, <2>2
<1>8. ASSUME NEW l \in Calls, DeployFails(l)  PROVE CreatedInSession' /\ StoredInSession'
  <2> DEFINE a == loop[l].attempt
  <2>1. /\ loop[l].pc = "attempt" /\ run[a].pc \in {"error", "lost"}
        /\ HandleFailure(l, run[a].pc = "lost")
        /\ run' = [run EXCEPT ![a] = Over(run[a])]
    BY <1>8 DEF DeployFails
  <2>2. \A b \in Attempts : run[b].pc = "create" => run[b].loop # l
    BY <1>0, <1>1, <2>1 DEF RunsWired, NothingTimedOut, Pending
  <2>3. \A b \in Attempts : run'[b].pc = "create" => run[b].pc = "create"
    <3>1. Over(run[a]).pc = "over"
      BY DEF Over, NoRun
    <3>. QED
      BY <1>0, <2>1, <3>1 DEF TypeOK
  <2>4. PICK sessionLevel : HandleFailure(l, sessionLevel)
    BY <2>1, Zenon
  <2>. QED
    BY <1>1, <2>1, <2>2, <2>3, <2>4, FailureInSession DEF SessionInv, Active
<1>9. ASSUME NEW l \in Calls, SetupFails(l)  PROVE CreatedInSession' /\ StoredInSession'
  <2>1. PICK sessionLevel : HandleFailure(l, sessionLevel)
    BY <1>9, Zenon DEF SetupFails
  <2>2. loop[l].pc = "setup" /\ UNCHANGED run
    BY <1>9 DEF SetupFails
  <2>3. \A b \in Attempts : run[b].pc = "create" => run[b].loop # l
    BY <1>0, <1>1, <2>2 DEF RunsWired, NothingTimedOut, Pending
  <2>. QED
    BY <1>1, <2>1, <2>2, <2>3, FailureInSession DEF SessionInv, Active
<1>10. ASSUME NEW l \in Calls  PROVE ~AttemptTimesOut(l)
  <2>1. SUFFICES ASSUME AttemptTimesOut(l)  PROVE FALSE
    OBVIOUS
  <2>2. PICK a \in Attempts : a = loop[l].attempt
    BY <1>0, <2>1 DEF AttemptTimesOut, LoopsWired
  <2>3. run' = [run EXCEPT ![a].late = TRUE]
    BY <2>1, <2>2 DEF AttemptTimesOut
  <2>4. run'[a].late
    BY <1>0, <2>3 DEF TypeOK, RunRecords
  <2>. QED
    BY <2>4 DEF NothingTimedOut
<1>11. ASSUME NEW a \in Attempts, NEW i \in Attempts, NEW redeployed \in BOOLEAN,
              InstanceReady(a, i, redeployed), NEW b \in Attempts, run'[b].pc = "create"
       PROVE  b # a /\ run'[b] = run[b]
  <2> DEFINE r == [run[a] EXCEPT !.inst = i, !.redeployed = redeployed]
             asked == loop[run[a].loop].files
             files == IF asked = {} \/ redeployed THEN generatedFilesMap ELSE asked
             w == [r EXCEPT !.pc = "write", !.files = files, !.client = GetClient]
  <2>1. r \in RunRecords /\ w.pc = "write"
    BY <1>0, ZenonT(40) DEF TypeOK, RunRecords
  <2>2. Settle(r, "ok").pc \in {"over", "ok"}
    <3>1. "ok" \in Settled
      BY DEF Settled
    <3>. HIDE DEF r
    <3>. QED
      BY <2>1, <3>1, SettleShape
  <2>3. \/ run' = [run EXCEPT ![a] = Settle(r, "ok")]
        \/ run' = [run EXCEPT ![a] = w]
    BY <1>11 DEF InstanceReady
  <2>. HIDE DEF r, w
  <2>. QED
    BY <1>0, <1>11, <2>1, <2>2, <2>3 DEF TypeOK
<1>12. ASSUME NEW a \in Attempts, StatusHealthy(a)  PROVE CreatedInSession' /\ StoredInSession'
  <2>1. /\ run[a].inst \in Attempts /\ FALSE \in BOOLEAN
        /\ InstanceReady(a, run[a].inst, FALSE)
        /\ UNCHANGED <<sessionId, sandboxInstanceId, sandboxes>>
    BY <1>0, <1>12 DEF StatusHealthy, RunsWired
  <2>2. PICK i \in Attempts : InstanceReady(a, i, FALSE)
    BY <2>1
  <2>. QED
    BY <1>3, <1>11, <2>1, <2>2
<1>13. ASSUME NEW a \in Attempts, StatusUnhealthy(a) \/ TokenAnswers(a)
       PROVE  CreatedInSession' /\ StoredInSession'
  <2> DEFINE made == CreateNewInstance(run[a], GetClient, generatedFilesMap)
             sent == [run[a] EXCEPT !.pc = "create", !.client = GetClient,
                                    !.files = generatedFilesMap]
  <2>1. made.client = sessionId /\ sent.client = sessionId
    BY <1>0, <1>2 DEF CreateNewInstance, TypeOK, RunRecords
  <2>2. /\ run' = [run EXCEPT ![a] = made] \/ run' = [run EXCEPT ![a] = sent]
        /\ UNCHANGED <<sessionId, sandboxInstanceId, sandboxes>>
    BY <1>13 DEF StatusUnhealthy, TokenAnswers
  <2>. HIDE DEF made, sent
  <2>3. \A b \in Attempts : run'[b] = run[b] \/ run'[b].client = sessionId
    BY <1>0, <2>1, <2>2 DEF TypeOK
  <2>. QED
    BY <1>3, <2>2, <2>3
<1>14. ASSUME NEW a \in Attempts, CreateAnswers(a)  PROVE CreatedInSession' /\ StoredInSession'
  <2>1. /\ run[a].pc = "create" /\ InstanceReady(a, a, TRUE) /\ TRUE \in BOOLEAN
        /\ sandboxes' = [sandboxes EXCEPT ![a] = [session |-> run[a].client, files |-> run[a].files]]
        /\ sandboxInstanceId' = a /\ UNCHANGED sessionId
    BY <1>14 DEF CreateAnswers
  <2>2. sandboxes'[a].session = sessionId
    BY <1>0, <1>1, <2>1 DEF TypeOK, SessionInv, CreatedInSession
  <2>3. \A b \in Attempts : run'[b].pc = "create" => run'[b] = run[b]
    BY <1>11, <2>1
  <2>. QED
    BY <1>1, <2>1, <2>2, <2>3 DEF CreatedInSession, StoredInSession, SessionInv
<1>15. ASSUME NEW a \in Attempts, WriteAnswers(a) \/ RunFails(a)
       PROVE  CreatedInSession' /\ StoredInSession'
  <2>1. PICK pc \in Settled : run' = [run EXCEPT ![a] = Settle(run[a], pc)]
    BY <1>15 DEF WriteAnswers, RunFails, Settled
  <2>2. Settle(run[a], pc).pc # "create"
    BY <1>0, SettleShape DEF TypeOK, Settled
  <2>3. /\ UNCHANGED <<sessionId, sandboxInstanceId>>
        /\ \A i \in Attempts : sandboxes'[i].session = sandboxes[i].session
    <3>1. CASE WriteAnswers(a)
      BY <1>0, <3>1 DEF WriteAnswers, TypeOK, SandboxRecords, RunsWired
    <3>2. CASE RunFails(a)
      BY <3>2 DEF RunFails
    <3>. QED
      BY <1>15, <3>1, <3>2
  <2>4. \A b \in Attempts : run'[b].pc = "create" => run'[b] = run[b]
    BY <1>0, <2>1, <2>2 DEF TypeOK
  <2>. QED
    BY <1>0, <1>1, <2>3, <2>4 DEF SessionInv, CreatedInSession, StoredInSession, TypeOK
<1>16. CASE Restart
  <2>1. \A b \in Attempts : run'[b].pc # "create"
    BY <1>16 DEF Restart, Over, NoRun
  <2>2. UNCHANGED <<sessionId, sandboxInstanceId, sandboxes>>
    BY <1>16 DEF Restart
  <2>. QED
    BY <1>3, <2>1, <2>2
<1>17. CASE UNCHANGED vars
  BY <1>3, <1>17 DEF vars
<1>. QED
  BY <1>4, <1>5, <1>6, <1>7, <1>8, <1>9, <1>10, <1>12, <1>13, <1>14, <1>15, <1>16, <1>17 DEF Next

\* As long as no timer has fired, for any number of calls and attempts: one loop
\* at a time, and the stored instance is of the current session.
THEOREM SoundWithoutTimeouts == Spec => []SoundUntilTimeout
<1> DEFINE Rest == UnusedOnTime /\ CreatedInSession /\ StoredInSession
<1>1. Init => Rest
  BY DEF Init, UnusedOnTime, CreatedInSession, StoredInSession, NoRun
<1>2. Wired /\ LeaderOwnsPromise /\ ClientOfSession /\ Rest /\ [Next]_vars => Rest'
  <2> SUFFICES ASSUME SessionInv, [Next]_vars  PROVE Rest'
    BY DEF SessionInv
  <2>1. UnusedOnTime'
    BY TimedOutStays DEF SessionInv
  <2>2. CASE NothingTimedOut'
    BY <2>1, <2>2, InSessionStep
  <2>3. CASE ~NothingTimedOut'
    BY <2>1, <2>3 DEF CreatedInSession, StoredInSession
  <2>. QED
    BY <2>2, <2>3
<1>3. Wired /\ LeaderOwnsPromise /\ Rest => SoundUntilTimeout
  BY OneActiveLoop DEF SoundUntilTimeout, StoredInSession
<1>. QED
  BY <1>1, <1>2, <1>3, WiredAlways, LeaderOwnsPromiseAlways, ClientOfSessionAlways, PTL DEF Spec

-----------------------------------------------------------------------------
\* A call that waits is on the flight of some call, a call that has not asked on none.
OnFlights ==
    \A c \in Calls :
        /\ call[c].pc \in {"idle", "tick"} => call[c].loop = None
        /\ call[c].pc = "lead" => call[c].loop = c
        /\ call[c].pc = "join" => call[c].loop \in Calls

\* A step of the deployment that its callers cannot tell from none.
Unseen ==
    /\ UNCHANGED currentDeploymentPromise
    /\ \A c \in Calls : /\ StatusOf(call'[c].pc) = StatusOf(call[c].pc)
                        /\ call'[c].loop = call[c].loop
                        /\ loop'[c].pc = "done" <=> loop[c].pc = "done"

LEMMA Statuses ==
    /\ \A pc \in {"idle", "tick"} : StatusOf(pc) = "idle"
    /\ \A pc \in {"lead", "join"} : StatusOf(pc) = "waiting"
    /\ StatusOf("ok") = "served"
    /\ StatusOf("null") = "gaveUp"
    /\ StatusOf("gone") = "gone"
BY DEF StatusOf, Waiting

LEMMA UnseenStutters == Unseen => UNCHANGED Shared!vars
<1> SUFFICES ASSUME Unseen  PROVE UNCHANGED Shared!vars
  OBVIOUS
<1>1. [c \in Calls |-> StatusOf(call[c].pc)]' = [c \in Calls |-> StatusOf(call[c].pc)]
  BY DEF Unseen
<1>2. [c \in Calls |-> call[c].loop]' = [c \in Calls |-> call[c].loop]
  BY DEF Unseen
<1>3. {l \in Calls : loop[l].pc = "done"}' = {l \in Calls : loop[l].pc = "done"}
  BY DEF Unseen
<1>. QED
  BY <1>1, <1>2, <1>3 DEF Unseen, Shared!vars

\* A call asks: its caller boards, or opens a flight.
LEMMA AskArrives ==
    ASSUME Wired, OnFlights, NEW c \in Calls, call[c].pc \in {"idle", "tick"},
           NEW files, NEW redeploy, NEW g, DeployToSandbox(c, files, redeploy, g)
    PROVE  Shared!Arrive(c) /\ OnFlights'
<1>0. TypeOK /\ LoopsWired /\ loop[c].pc = "none"
  BY DEF Wired, LoopsWired
<1>1. /\ \A k \in Calls \ {c} : call'[k] = call[k]
      /\ call'[c].pc \in {"lead", "join"}
      /\ call'[c].loop = currentDeploymentPromise'
      /\ currentDeploymentPromise' = IF currentDeploymentPromise = None
                                     THEN c ELSE currentDeploymentPromise
      /\ call'[c].pc = "lead" => currentDeploymentPromise' = c
      /\ \A k \in Calls : loop'[k].pc = "done" <=> loop[k].pc = "done"
  <2>1. CASE Join(c)
    BY <1>0, <2>1 DEF Join, NoCall, TypeOK
  <2>2. CASE Lead(c, files, redeploy, g)
    <3>1. PICK a \in Attempts : BeginAttempt(c, a, 1, files, redeploy, g)
      BY <2>2 DEF Lead
    <3>2. loop'[c].pc = "attempt" /\ \A k \in Calls \ {c} : loop'[k] = loop[k]
      BY <1>0, <3>1 DEF BeginAttempt, TypeOK
    <3>. QED
      BY <1>0, <2>2, <3>2 DEF Lead, NoCall, TypeOK
  <2>. QED
    BY <2>1, <2>2 DEF DeployToSandbox
<1>2. /\ StatusOf(call[c].pc) = "idle"
      /\ StatusOf(call'[c].pc) = "waiting"
  BY <1>1, Statuses
<1>3. {l \in Calls : loop[l].pc = "done"}' = {l \in Calls : loop[l].pc = "done"}
  BY <1>1
<1>4. [k \in Calls |-> StatusOf(call[k].pc)]'
        = [[k \in Calls |-> StatusOf(call[k].pc)] EXCEPT ![c] = "waiting"]
  BY <1>1, <1>2
<1>5. [k \in Calls |-> call[k].loop]'
        = [[k \in Calls |-> call[k].loop] EXCEPT ![c] = currentDeploymentPromise']
  BY <1>1
<1>6. OnFlights'
  BY <1>0, <1>1 DEF OnFlights, TypeOK
<1>. QED
  BY <1>1, <1>2, <1>3, <1>4, <1>5, <1>6 DEF Shared!Arrive

\* A caller that waited leaves, with the preview if its flight has landed.
LEMMA ReturnLeaves ==
    ASSUME Wired, LeaderOwnsPromise, OnFlights, NEW c \in Calls,
           LeaderReturns(c) \/ JoinerReturns(c)
    PROVE  Shared!Leave(c) /\ OnFlights'
<1>0. TypeOK
  BY DEF Wired
<1>1. call[c].pc \in {"lead", "join"} /\ call[c].loop \in Calls
  BY DEF LeaderReturns, JoinerReturns, OnFlights
<1>2. /\ \A k \in Calls \ {c} : call'[k] = call[k]
      /\ call'[c].loop = call[c].loop
      /\ call'[c].pc = IF loop[call[c].loop].pc = "done" THEN "ok" ELSE "null"
      /\ UNCHANGED loop
  BY <1>0 DEF LeaderReturns, JoinerReturns, OnFlights, TypeOK, CallRecords
<1>3. currentDeploymentPromise' = IF currentDeploymentPromise = c THEN None
                                  ELSE currentDeploymentPromise
  BY NoneAssumption DEF LeaderReturns, JoinerReturns, LeaderOwnsPromise, memory, Wired, TypeOK
<1> DEFINE landed == {l \in Calls : loop[l].pc = "done"}
           outcome == IF call[c].loop \in landed THEN "served" ELSE "gaveUp"
<1>4. StatusOf(call[c].pc) = "waiting" /\ StatusOf(call'[c].pc) = outcome
  BY <1>1, <1>2, Statuses
<1>5. [k \in Calls |-> StatusOf(call[k].pc)]'
        = [[k \in Calls |-> StatusOf(call[k].pc)] EXCEPT ![c] = outcome]
  BY <1>2, <1>4
<1>6. [k \in Calls |-> call[k].loop]' = [k \in Calls |-> call[k].loop]
  BY <1>2
<1>7. landed' = landed
  BY <1>2
<1>8. OnFlights'
  BY <1>2 DEF OnFlights
<1>9. outcome \in {"served", "gaveUp"} /\ (outcome = "served" <=> call[c].loop \in landed)
  OBVIOUS
<1>. QED
  BY <1>1, <1>3, <1>4, <1>5, <1>6, <1>7, <1>8, <1>9 DEF Shared!Leave

\* A loop returns its preview: its flight lands.
LEMMA LoopLands ==
    ASSUME Wired, NEW l \in Calls, UNCHANGED <<call, currentDeploymentPromise>>,
           loop[l].pc # "none", \A k \in Calls \ {l} : loop'[k] = loop[k],
           loop'[l].pc = "done"
    PROVE  Shared!Land(l)
<1>1. call[l].loop = l
  BY DEF Wired, LoopsWired
<1>2. {k \in Calls : loop[k].pc = "done"}' = {k \in Calls : loop[k].pc = "done"} \cup {l}
  OBVIOUS
<1>. QED
  BY <1>1, <1>2 DEF Shared!Land

LEMMA RefinementStep ==
    ASSUME Wired, LeaderOwnsPromise, OnFlights, [Next]_vars
    PROVE  [Shared!Next]_(Shared!vars) /\ OnFlights'
<1>0. TypeOK /\ RunsWired /\ LoopsWired
  BY DEF Wired
<1>1. UNCHANGED call => OnFlights'
  BY DEF OnFlights
<1>2. ASSUME UNCHANGED <<call, currentDeploymentPromise>>, NEW l \in Calls,
             \A k \in Calls \ {l} : loop'[k] = loop[k],
             loop[l].pc # "done", loop'[l].pc # "done"
      PROVE  Unseen
  BY <1>2 DEF Unseen
<1>3. ASSUME NEW c \in Calls, Request(c) \/ TickUnhealthy(c)
      PROVE  Shared!Next /\ OnFlights'
  <2>1. call[c].pc \in {"idle", "tick"} /\ \E files, redeploy, g : DeployToSandbox(c, files, redeploy, g)
    BY <1>3, Zenon DEF Request, TickUnhealthy
  <2>. QED
    BY <2>1, AskArrives DEF Shared!Next
<1>4. ASSUME NEW c \in Calls, LeaderReturns(c) \/ JoinerReturns(c)
      PROVE  Shared!Next /\ OnFlights'
  BY <1>4, ReturnLeaves DEF Shared!Next
<1>5. ASSUME NEW c \in Calls, TickStarts(c) \/ TickEnds(c)  PROVE Unseen /\ OnFlights'
  <2>1. /\ call[c].pc \in {"idle", "tick"} /\ call'[c].pc \in {"idle", "tick"}
        /\ call'[c].loop = None
        /\ \A k \in Calls \ {c} : call'[k] = call[k]
        /\ UNCHANGED <<loop, currentDeploymentPromise>>
    BY <1>0, <1>5 DEF TickStarts, TickEnds, TypeOK, NoCall, memory
  <2>2. call[c].loop = None
    BY <2>1 DEF OnFlights
  <2>. QED
    BY <2>1, <2>2, Statuses DEF Unseen, OnFlights
<1>6. ASSUME NEW l \in Calls, DeploySucceeds(l) \/ SetupSucceeds(l)
      PROVE  (Shared!Next \/ Unseen) /\ OnFlights'
  <2>1. /\ loop[l].pc \in {"attempt", "setup"}
        /\ UNCHANGED <<call, currentDeploymentPromise>>
        /\ \E r : loop' = [loop EXCEPT ![l] = r]
    BY <1>6 DEF DeploySucceeds, SetupSucceeds, memory
  <2>2. \A k \in Calls \ {l} : loop'[k] = loop[k]
    BY <1>0, <2>1 DEF TypeOK
  <2>3. CASE loop'[l].pc = "done"
    BY <1>1, <2>1, <2>2, <2>3, LoopLands DEF Shared!Next
  <2>4. CASE loop'[l].pc # "done"
    BY <1>1, <1>2, <2>1, <2>2, <2>4
  <2>. QED
    BY <2>3, <2>4
<1>7. ASSUME NEW l \in Calls, DeployFails(l) \/ AttemptTimesOut(l) \/ SetupFails(l)
      PROVE  Unseen /\ OnFlights'
  <2>1. /\ loop[l].pc \in {"attempt", "setup"}
        /\ UNCHANGED <<call, currentDeploymentPromise>>
        /\ loop' = [loop EXCEPT ![l] = BackOff(loop[l])]
    BY <1>7 DEF DeployFails, AttemptTimesOut, SetupFails, HandleFailure
  <2>2. BackOff(loop[l]).pc = "backoff"
    BY <1>0 DEF BackOff, TypeOK, LoopRecords
  <2>3. loop'[l].pc = "backoff" /\ \A k \in Calls \ {l} : loop'[k] = loop[k]
    BY <1>0, <2>1, <2>2 DEF TypeOK
  <2>. QED
    BY <1>1, <1>2, <2>1, <2>3
<1>8. ASSUME NEW l \in Calls, Retry(l)  PROVE Unseen /\ OnFlights'
  <2>1. loop[l].pc = "backoff" /\ UNCHANGED <<call, currentDeploymentPromise>>
    BY <1>8 DEF Retry
  <2>2. PICK a \in Attempts : \E tries, files, redeploy, g : BeginAttempt(l, a, tries, files, redeploy, g)
    BY <1>8, Zenon DEF Retry
  <2>3. loop'[l].pc = "attempt" /\ \A k \in Calls \ {l} : loop'[k] = loop[k]
    BY <1>0, <2>2 DEF BeginAttempt, TypeOK
  <2>. QED
    BY <1>1, <1>2, <2>1, <2>3
<1>9. UNCHANGED <<call, loop, currentDeploymentPromise>> => Unseen /\ OnFlights'
  BY DEF Unseen, OnFlights
<1>10. ASSUME NEW a \in Attempts,
              \/ StatusHealthy(a) \/ StatusUnhealthy(a) \/ TokenAnswers(a)
              \/ CreateAnswers(a) \/ WriteAnswers(a) \/ RunFails(a)
       PROVE  UNCHANGED <<call, loop, currentDeploymentPromise>>
  BY <1>10 DEF StatusHealthy, StatusUnhealthy, TokenAnswers, CreateAnswers, WriteAnswers,
               RunFails, memory
<1>11. CASE Restart
  <2>1. ASSUME NEW c \in Calls
        PROVE  /\ call'[c].loop = call[c].loop
               /\ call'[c].pc = IF call[c].pc \in Waiting THEN "gone"
                                ELSE IF call[c].pc = "tick" THEN "idle" ELSE call[c].pc
               /\ loop'[c].pc = "done" <=> loop[c].pc = "done"
    BY <1>0, <1>11 DEF Restart, NoCall, NoLoop, Active, OnFlights, TypeOK, CallRecords
  <2>2. ASSUME NEW c \in Calls
        PROVE  StatusOf(call'[c].pc) = IF StatusOf(call[c].pc) = "waiting"
                                       THEN "gone" ELSE StatusOf(call[c].pc)
    <3>1. call[c].pc \in {"idle", "tick", "lead", "join", "ok", "null", "gone"}
      BY <1>0 DEF TypeOK, CallRecords
    <3>. QED
      BY <2>1, <3>1, Statuses DEF Waiting
  <2>3. [c \in Calls |-> StatusOf(call[c].pc)]'
          = [c \in Calls |-> IF [d \in Calls |-> StatusOf(call[d].pc)][c] = "waiting"
                             THEN "gone" ELSE [d \in Calls |-> StatusOf(call[d].pc)][c]]
    BY <2>2
  <2>4. [c \in Calls |-> call[c].loop]' = [c \in Calls |-> call[c].loop]
    BY <2>1
  <2>5. {l \in Calls : loop[l].pc = "done"}' = {l \in Calls : loop[l].pc = "done"}
    BY <2>1
  <2>6. currentDeploymentPromise' = None
    BY <1>11 DEF Restart
  <2>7. Shared!Lose
    BY <2>3, <2>4, <2>5, <2>6 DEF Shared!Lose
  <2>8. OnFlights'
    BY <2>1 DEF OnFlights, Waiting
  <2>. QED
    BY <2>7, <2>8 DEF Shared!Next
<1>12. CASE UNCHANGED vars
  BY <1>9, <1>12, UnseenStutters DEF vars, memory
<1>. QED
  BY <1>3, <1>4, <1>5, <1>6, <1>7, <1>8, <1>9, <1>10, <1>11, <1>12, UnseenStutters DEF Next

\* Sessions, attempts, timers and restarts are an implementation of the flights
\* that callers share, for any number of calls and attempts.
THEOREM DeploymentIsShared == Spec => ImplementsSharedDeployment
<1>1. Init => Shared!Init /\ OnFlights
  <2> SUFFICES ASSUME Init  PROVE Shared!Init /\ OnFlights
    OBVIOUS
  <2>1. \A c \in Calls : call[c].pc = "idle" /\ call[c].loop = None /\ loop[c].pc = "none"
    BY DEF Init, NoCall, NoLoop
  <2>2. [c \in Calls |-> StatusOf(call[c].pc)] = [c \in Calls |-> "idle"]
    BY <2>1, Statuses
  <2>3. [c \in Calls |-> call[c].loop] = [c \in Calls |-> None]
    BY <2>1
  <2>. QED
    BY <2>1, <2>2, <2>3 DEF Init, Shared!Init, OnFlights
<1>2. Wired /\ LeaderOwnsPromise /\ OnFlights /\ [Next]_vars
        => [Shared!Next]_(Shared!vars) /\ OnFlights'
  BY RefinementStep
<1>. QED
  BY <1>1, <1>2, WiredAlways, LeaderOwnsPromiseAlways, PTL
     DEF Spec, ImplementsSharedDeployment, Shared!Spec

-----------------------------------------------------------------------------
\* One failure more is a reset more only at a multiple of the limit.
LEMMA Quotients ==
    ASSUME NEW m \in Nat \ {0}, NEW t \in Nat \ {0}
    PROVE  /\ (t - 1) \div m \in Nat /\ t \div m \in Nat
           /\ t % m = 0 => t \div m <= ((t - 1) \div m) + 1
           /\ t % m # 0 => t \div m <= (t - 1) \div m
<1> DEFINE q == t \div m
           p == (t - 1) \div m
<1>1. /\ q \in Nat /\ p \in Nat
      /\ t = m * q + (t % m) /\ t - 1 = m * p + ((t - 1) % m)
      /\ t % m \in 0..(m - 1) /\ (t - 1) % m \in 0..(m - 1)
  OBVIOUS
<1>. QED
  BY <1>1

\* A loop with work to do is at its first attempt or later, and has been through
\* the resets that its failures call for.
Failed(l) == IF loop[l].pc = "backoff" THEN loop[l].tries ELSE loop[l].tries - 1
LoopCounts(l) ==
    loop[l].pc \in Active =>
        /\ loop[l].tries \in Nat \ {0}
        /\ sessionId >= Failed(l) \div MaxAttemptsBeforeSessionReset
FailuresCounted == \A l \in Calls : LoopCounts(l)

\* A loop stays counted while it does not fail, since sessions only move forward.
LEMMA CountKept ==
    ASSUME TypeOK, TypeOK', [Next]_vars, NEW l \in Calls, LoopCounts(l),
           loop'[l].pc \in Active => /\ loop[l].pc \in Active
                                     /\ loop'[l].tries \in Nat \ {0}
                                     /\ Failed(l)' = Failed(l)
    PROVE  LoopCounts(l)'
<1>1. sessionId \in Nat /\ sessionId' \in Nat /\ sessionId <= sessionId'
  BY SessionStep DEF TypeOK, Sessions
<1>2. CASE loop'[l].pc \in Active
  <2>1. PICK n \in Nat : n = Failed(l) \div MaxAttemptsBeforeSessionReset
    <3>1. Failed(l) \in Nat
      BY <1>2 DEF LoopCounts, Failed
    <3>. QED
      BY <3>1, ResetAssumption
  <2>2. sessionId >= n
    BY <1>2, <2>1 DEF LoopCounts
  <2>3. sessionId' >= n
    BY <1>1, <2>2
  <2>. QED
    BY <1>2, <2>1, <2>3 DEF LoopCounts
<1>. QED
  BY <1>2 DEF LoopCounts

\* A first attempt has no failure behind it.
LEMMA BeginCounts ==
    ASSUME TypeOK, [Next]_vars, NEW l \in Calls, sessionId' \in Nat,
           loop'[l].pc = "attempt", loop'[l].tries = 1
    PROVE  LoopCounts(l)'
<1>1. 0 \div MaxAttemptsBeforeSessionReset = 0
  BY ResetAssumption
<1>2. Failed(l)' = 0
  BY DEF Failed
<1>. QED
  BY <1>1, <1>2 DEF LoopCounts

LEMMA FailureCounts ==
    ASSUME TypeOK, TypeOK', [Next]_vars, FailuresCounted, NEW l \in Calls, NEW sessionLevel,
           loop[l].pc \in {"attempt", "setup"}, HandleFailure(l, sessionLevel)
    PROVE  FailuresCounted'
<1> DEFINE t == loop[l].tries
           m == MaxAttemptsBeforeSessionReset
<1>1. t \in Nat \ {0} /\ sessionId \in Nat /\ sessionId >= (t - 1) \div m /\ m \in Nat \ {0}
  BY ResetAssumption DEF FailuresCounted, LoopCounts, Failed, Active, TypeOK, Sessions
<1>2. sessionId' = sessionId + Resets(l, sessionLevel)
  BY DEF HandleFailure
<1>3. Resets(l, sessionLevel) \in Nat /\ (t % m = 0 => Resets(l, sessionLevel) >= 1)
  BY DEF Resets
<1>4. sessionId' >= t \div m
  <2>1. /\ (t - 1) \div m \in Nat /\ t \div m \in Nat
        /\ t % m = 0 => t \div m <= ((t - 1) \div m) + 1
        /\ t % m # 0 => t \div m <= (t - 1) \div m
    BY <1>1, Quotients
  <2> DEFINE p == (t - 1) \div m
             q == t \div m
             d == Resets(l, sessionLevel)
             z == t % m = 0
  <2>2. /\ p \in Nat /\ q \in Nat /\ d \in Nat /\ sessionId >= p
        /\ z => q <= p + 1 /\ d >= 1
        /\ ~z => q <= p
    BY <1>1, <1>3, <2>1
  <2>. HIDE DEF p, q, d, z
  <2>3. sessionId + d >= q
    BY <1>1, <2>2
  <2>. QED
    BY <1>2, <2>3 DEF d, q
<1>5. /\ loop'[l].pc = "backoff" /\ loop'[l].tries = t
      /\ \A k \in Calls \ {l} : loop'[k] = loop[k]
  <2>1. BackOff(loop[l]).pc = "backoff" /\ BackOff(loop[l]).tries = t
    BY DEF BackOff, TypeOK, LoopRecords
  <2>. QED
    BY <2>1 DEF HandleFailure, TypeOK
<1>6. LoopCounts(l)'
  BY <1>1, <1>4, <1>5 DEF LoopCounts, Failed
<1>7. ASSUME NEW k \in Calls \ {l}  PROVE LoopCounts(k)'
  BY <1>1, <1>5, CountKept DEF FailuresCounted, LoopCounts, Failed
<1>. QED
  BY <1>6, <1>7 DEF FailuresCounted

LEMMA FailuresStep ==
    ASSUME Wired, FailuresCounted, [Next]_vars  PROVE FailuresCounted'
<1>0. TypeOK /\ TypeOK' /\ LoopsWired
  BY TypeStep DEF Wired
<1>1. sessionId' \in Nat
  BY <1>0 DEF TypeOK, Sessions
<1>2. ASSUME NEW l \in Calls, loop'[l] = loop[l]  PROVE LoopCounts(l)'
  BY <1>0, <1>2, CountKept DEF FailuresCounted, LoopCounts, Failed
<1>3. UNCHANGED loop => FailuresCounted'
  BY <1>2 DEF FailuresCounted
<1>4. ASSUME NEW c \in Calls, Request(c) \/ TickUnhealthy(c)  PROVE FailuresCounted'
  <2>1. PICK files, redeploy, g : DeployToSandbox(c, files, redeploy, g)
    BY <1>4, Zenon DEF Request, TickUnhealthy
  <2>2. CASE Join(c)
    BY <1>3, <2>2 DEF Join
  <2>3. CASE Lead(c, files, redeploy, g)
    <3>1. PICK a \in Attempts : BeginAttempt(c, a, 1, files, redeploy, g)
      BY <2>3 DEF Lead
    <3>2. /\ loop'[c].pc = "attempt" /\ loop'[c].tries = 1
          /\ \A k \in Calls \ {c} : loop'[k] = loop[k]
      BY <1>0, <3>1 DEF BeginAttempt, TypeOK
    <3>. QED
      BY <1>0, <1>1, <1>2, <3>2, BeginCounts DEF FailuresCounted
  <2>. QED
    BY <2>1, <2>2, <2>3 DEF DeployToSandbox
<1>5. ASSUME NEW l \in Calls, DeployFails(l) \/ AttemptTimesOut(l) \/ SetupFails(l)
      PROVE  FailuresCounted'
  <2>1. loop[l].pc \in {"attempt", "setup"}
    BY <1>5 DEF DeployFails, AttemptTimesOut, SetupFails
  <2>2. PICK sessionLevel : HandleFailure(l, sessionLevel)
    BY <1>5, Zenon DEF DeployFails, AttemptTimesOut, SetupFails
  <2>. QED
    BY <1>0, <2>1, <2>2, FailureCounts
<1>6. ASSUME NEW l \in Calls, Retry(l)  PROVE FailuresCounted'
  <2>1. PICK a \in Attempts : \E files, redeploy, g :
           BeginAttempt(l, a, loop[l].tries + 1, files, redeploy, g)
    BY <1>6, Zenon DEF Retry
  <2>2. /\ loop'[l].pc = "attempt" /\ loop'[l].tries = loop[l].tries + 1
        /\ \A k \in Calls \ {l} : loop'[k] = loop[k]
    BY <1>0, <2>1 DEF BeginAttempt, TypeOK
  <2>3. loop[l].pc = "backoff" /\ LoopCounts(l)
    BY <1>6 DEF Retry, FailuresCounted
  <2>4. Failed(l)' = Failed(l) /\ loop'[l].tries \in Nat \ {0}
    BY <2>2, <2>3 DEF Failed, LoopCounts, Active
  <2>5. LoopCounts(l)'
    BY <1>0, <2>3, <2>4, CountKept DEF Active
  <2>. QED
    BY <1>2, <2>2, <2>5 DEF FailuresCounted
<1>7. ASSUME NEW l \in Calls, DeploySucceeds(l) \/ SetupSucceeds(l)  PROVE FailuresCounted'
  <2> DEFINE ready == [loop[l] EXCEPT !.pc = "setup", !.attempt = None,
                                      !.inst = run[loop[l].attempt].inst]
  <2>1. /\ loop[l].pc \in {"attempt", "setup"}
        /\ \/ loop' = [loop EXCEPT ![l] = ready]
           \/ \E i : loop' = [loop EXCEPT ![l] = Return(l, i)]
    BY <1>7 DEF DeploySucceeds, SetupSucceeds
  <2>2. \A i : Return(l, i).pc = "done"
    BY DEF Return, NoLoop
  <2>3. ready.pc = "setup" /\ ready.tries = loop[l].tries
    BY <1>0 DEF TypeOK, LoopRecords
  <2>. HIDE DEF ready
  <2>4. /\ \/ loop'[l].pc = "done"
           \/ loop'[l].pc = "setup" /\ loop'[l].tries = loop[l].tries
        /\ \A k \in Calls \ {l} : loop'[k] = loop[k]
    BY <1>0, <2>1, <2>2, <2>3 DEF TypeOK
  <2>5. LoopCounts(l)
    BY DEF FailuresCounted
  <2>6. LoopCounts(l)'
    BY <1>0, <2>1, <2>4, <2>5, CountKept DEF LoopCounts, Failed, Active
  <2>. QED
    BY <1>2, <2>4, <2>6 DEF FailuresCounted
<1>8. CASE Restart
  <2>1. ASSUME NEW c \in Calls  PROVE loop'[c].pc \notin Active
    BY <1>8 DEF Restart, NoLoop, Active
  <2>. QED
    BY <2>1 DEF FailuresCounted, LoopCounts
<1>9. ASSUME NEW c \in Calls,
             LeaderReturns(c) \/ JoinerReturns(c) \/ TickStarts(c) \/ TickEnds(c)
      PROVE  UNCHANGED loop
  BY <1>9 DEF LeaderReturns, JoinerReturns, TickStarts, TickEnds
<1>10. ASSUME NEW a \in Attempts,
              \/ StatusHealthy(a) \/ StatusUnhealthy(a) \/ TokenAnswers(a)
              \/ CreateAnswers(a) \/ WriteAnswers(a) \/ RunFails(a)
       PROVE  UNCHANGED loop
  BY <1>10 DEF StatusHealthy, StatusUnhealthy, TokenAnswers, CreateAnswers, WriteAnswers, RunFails
<1>. QED
  BY <1>3, <1>4, <1>5, <1>6, <1>7, <1>8, <1>9, <1>10 DEF Next, vars

\* A loop that failed has been through the resets it should have forced, whatever
\* the limit and however many other calls reset sessions meanwhile.
THEOREM FailuresAlwaysForce == Spec => []FailuresForceSessions
<1>1. Init => FailuresCounted
  BY DEF Init, FailuresCounted, LoopCounts, NoLoop, Active
<1>2. Wired /\ FailuresCounted /\ [Next]_vars => FailuresCounted'
  BY FailuresStep
<1>3. FailuresCounted => FailuresForceSessions
  BY DEF FailuresCounted, LoopCounts, Failed, FailuresForceSessions
<1>. QED
  BY <1>1, <1>2, <1>3, WiredAlways, PTL DEF Spec
=============================================================================
