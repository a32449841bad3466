--------------------------- MODULE FileJobsProofs ---------------------------
(***************************************************************************)
(* Theorems about three parts of the panel: FileJobs, for any number of    *)
(* jobs, users and faults, with the inductive invariant IInv of FileJobs;  *)
(* the rounds of Scheduler, for any tasks, crons and clock; and the        *)
(* searches of Cron, for every expression and calendar.                    *)
(***************************************************************************)
EXTENDS FileJobs, Scheduler, Cron, TLAPS, FiniteSetTheorems, WellFoundedInduction

\* What Next does, one disjunct per action, for the case splits below.
LEMMA NextCases ==
  ASSUME Next
  PROVE  \/ \E j \in Jobs : Create(j)
         \/ StartRound
         \/ \E j \in Jobs : PumpNext(j)
         \/ \E t \in Threads : Read(t)
         \/ \E t \in Threads : SubmitAnswered(t)
         \/ \E t \in Threads : SubmitFails(t)
         \/ \E t \in Threads : GetAnswered(t)
         \/ \E t \in Threads : GetNothing(t) \/ WriteFails(t)
         \/ \E t \in Threads : Write(t)
         \/ \E j \in Jobs : Age(j)
         \/ \E u \in Users, j \in Jobs : AskCancel(u, j)
         \/ \E u \in Users : Mark(u)
         \/ \E u \in Users : MarkFails(u)
         \/ \E u \in Users : Notify(u)
         \/ \E j \in Jobs : NodeBegins(j)
         \/ \E j \in Jobs, outcome \in Finished : NodeEnds(j, outcome)
         \/ \E j \in Jobs : NodeForgets(j)
         \/ NodeRestarts
         \/ PanelRestarts
         \/ \E j \in Jobs : DeleteInstance(j)
  BY DEF Next, ThreadStep, NodeStep

-----------------------------------------------------------------------------
(* What the node's actions do to its records.                              *)

Records == node \in [Jobs -> Daemon!States] /\ asked \in [Jobs -> BOOLEAN]

LEMMA AcceptEffect ==
  ASSUME Records, NEW j \in Jobs, NodeAccepts(j)
  PROVE  /\ j \notin Refused /\ inst[j] = "there" /\ asked' = asked
         /\ ended' = ended /\ lost' = lost
         /\ \/ node[j] # "none" /\ node' = node
            \/ node[j] = "none" /\ node' = [node EXCEPT ![j] = "queued"]
<1>1. CASE node[j] = "none"
  <2>1. node' = [node EXCEPT ![j] = "queued"]
    BY <1>1 DEF NodeAccepts, Records, Daemon!Accept
  <2>2. asked' = asked
    BY <1>1, Zenon DEF NodeAccepts, Records, Daemon!Accept
  <2> QED BY <1>1, <2>1, <2>2 DEF NodeAccepts
<1>2. CASE node[j] # "none"
  BY <1>2 DEF NodeAccepts
<1> QED BY <1>1, <1>2

LEMMA CancelEffect ==
  ASSUME Records, NEW j \in Jobs, NodeCancels(j)
  PROVE  /\ node[j] \in {"queued", "running"}
         /\ node' = [node EXCEPT ![j] = IF @ = "queued" THEN "canceled" ELSE @]
         /\ asked' = [asked EXCEPT ![j] = TRUE]
<1>1. CASE Daemon!Withdraw(j)
  BY <1>1 DEF Daemon!Withdraw, Records
<1>2. CASE Daemon!AskCancel(j)
  BY <1>2 DEF Daemon!AskCancel, Records
<1> QED BY <1>1, <1>2 DEF NodeCancels

LEMMA ForgetEffect ==
  ASSUME Records, NEW j \in Jobs, Daemon!Forget({j})
  PROVE  /\ node[j] \in Finished
         /\ node' = [node EXCEPT ![j] = "none"]
         /\ asked' = [asked EXCEPT ![j] = FALSE]
<1>1. node[j] \in Finished /\ node' = [node EXCEPT ![j] = "none"]
  BY DEF Daemon!Forget, Daemon!Finished, Finished, Records
<1>2. asked' = [asked EXCEPT ![j] = FALSE]
  BY Zenon DEF Daemon!Forget, Records
<1> QED BY <1>1, <1>2

-----------------------------------------------------------------------------
(* Type correctness.                                                       *)

LEMMA TypeInit == Init => TypeOK
<1> SUFFICES ASSUME Init PROVE TypeOK
  OBVIOUS
<1>1. th \in [Threads -> Dispatches]
  BY DEF Init, Idle, Dispatches
<1>2. can \in [Users -> CancelRequests]
  BY DEF Init, NoCancel, CancelRequests
<1>3. 0 \in 0..MaxCancels /\ 0 \in 0..MaxRestarts
  BY ConstantsAssumption
<1> QED BY <1>1, <1>2, <1>3 DEF Init, TypeOK, RowStates, Daemon!States

\* Every dispatch a thread can be put in is one.
LEMMA DispatchTypes ==
  ASSUME TypeOK, NEW t \in Threads
  PROVE  /\ Idle \in Dispatches
         /\ \A j \in Jobs : Dispatch(j) \in Dispatches
         /\ th[t].job \in Jobs /\ row[th[t].job] \in {"queued", "running"} =>
              /\ [th[t] EXCEPT !.pc = "write", !.saw = row[th[t].job], !.reply = "failed"]
                   \in Dispatches
              /\ [th[t] EXCEPT !.pc = "call", !.saw = row[th[t].job],
                               !.since = since[th[t].job]] \in Dispatches
         /\ \A r \in {"running"} \cup Finished :
              [th[t] EXCEPT !.pc = "write", !.reply = r, !.since = "no"] \in Dispatches
<1>1. th[t] \in Dispatches
  BY DEF TypeOK
<1>2. Idle \in Dispatches
  BY DEF Idle, Dispatches
<1>3. \A j \in Jobs : Dispatch(j) \in Dispatches
  BY DEF Dispatch, Idle, Dispatches
<1>4. ASSUME th[t].job \in Jobs, row[th[t].job] \in {"queued", "running"}
      PROVE  /\ [th[t] EXCEPT !.pc = "write", !.saw = row[th[t].job], !.reply = "failed"]
                  \in Dispatches
             /\ [th[t] EXCEPT !.pc = "call", !.saw = row[th[t].job],
                              !.since = since[th[t].job]] \in Dispatches
  <2>1. since[th[t].job] \in {"no", "recent", "old"}
    BY <1>4 DEF TypeOK
  <2> QED BY <1>1, <1>4, <2>1 DEF Dispatches, Finished
<1>5. \A r \in {"running"} \cup Finished :
        [th[t] EXCEPT !.pc = "write", !.reply = r, !.since = "no"] \in Dispatches
  BY <1>1 DEF Dispatches
<1> QED BY <1>2, <1>3, <1>4, <1>5

LEMMA TypeStep ==
  ASSUME TypeOK, ThreadFacts, UserFacts, [Next]_vars
  PROVE  TypeOK'
<1> USE DEF Finished
<1>0. Records
  BY DEF TypeOK, Records
<1>1. CASE \E j \in Jobs : Create(j)
  <2> PICK j \in Jobs : Create(j)
    BY <1>1
  <2>1. j \in Threads /\ Dispatch(j) \in Dispatches
    BY DispatchTypes DEF Threads
  <2>2. th' \in [Threads -> Dispatches]
    BY <2>1 DEF Create, TypeOK
  <2> QED BY <2>2 DEF Create, TypeOK, RowStates, userVars, nodeVars
<1>2. CASE StartRound
  BY <1>2 DEF StartRound, Round, Active, TypeOK, panelVars, userVars, nodeVars
<1>3. CASE \E j \in Jobs : PumpNext(j)
  <2> PICK j \in Jobs : PumpNext(j)
    BY <1>3
  <2>1. Pump \in Threads /\ Dispatch(j) \in Dispatches
    BY DispatchTypes DEF Threads
  <2>2. th' \in [Threads -> Dispatches]
    BY <2>1 DEF PumpNext, TypeOK
  <2> QED BY <2>2 DEF PumpNext, TypeOK, panelVars, userVars, nodeVars
<1>4. CASE \E t \in Threads : Read(t)
  <2> PICK t \in Threads : Read(t)
    BY <1>4
  <2>1. th[t].job \in Jobs
    BY DEF Read, ThreadFacts, ThreadFact
  <2>2. th' \in [Threads -> Dispatches]
    <3>1. CASE th[t].job \notin Active
      BY <3>1, DispatchTypes DEF Read, TypeOK
    <3>2. CASE th[t].job \in Active
      <4>1. row[th[t].job] \in {"queued", "running"}
        BY <3>2 DEF Active
      <4> QED BY <2>1, <3>2, <4>1, DispatchTypes DEF Read, TypeOK
    <3> QED BY <3>1, <3>2
  <2> QED BY <2>2 DEF Read, TypeOK, panelVars, userVars, nodeVars
<1>5. ASSUME NEW t \in Threads, NEW r \in {"running"} \cup Finished, Answer(t, r)
      PROVE  th' \in [Threads -> Dispatches]
  BY <1>5, DispatchTypes DEF Answer, TypeOK
<1>6. ASSUME NEW t \in Threads, th' = [th EXCEPT ![t] = Idle]
      PROVE  th' \in [Threads -> Dispatches]
  BY <1>6, DispatchTypes DEF TypeOK
<1>7. ASSUME NEW j \in Jobs, NodeAccepts(j)
      PROVE  /\ node' \in [Jobs -> Daemon!States] /\ asked' = asked
             /\ ended' = ended /\ lost' = lost
  BY <1>0, <1>7, AcceptEffect DEF Records, Daemon!States
<1>8. CASE \E t \in Threads : SubmitAnswered(t)
  <2> PICK t \in Threads : SubmitAnswered(t)
    BY <1>8
  <2>1. th[t].job \in Jobs
    BY DEF SubmitAnswered, ThreadFacts, ThreadFact
  <2>2. th' \in [Threads -> Dispatches]
    BY <1>5 DEF SubmitAnswered
  <2>3. /\ node' \in [Jobs -> Daemon!States] /\ asked' = asked
        /\ ended' = ended /\ lost' = lost
    BY <1>7, <2>1 DEF SubmitAnswered, NodeRefuses, nodeVars, TypeOK
  <2> QED BY <2>2, <2>3 DEF SubmitAnswered, TypeOK, panelVars, userVars
<1>9. CASE \E t \in Threads : SubmitFails(t)
  <2> PICK t \in Threads : SubmitFails(t)
    BY <1>9
  <2>1. th[t].job \in Jobs
    BY DEF SubmitFails, ThreadFacts, ThreadFact
  <2>2. th' \in [Threads -> Dispatches]
    BY <1>6 DEF SubmitFails
  <2>3. /\ node' \in [Jobs -> Daemon!States] /\ asked' = asked
        /\ ended' = ended /\ lost' = lost
    BY <1>7, <2>1 DEF SubmitFails, nodeVars, TypeOK
  <2> QED BY <2>2, <2>3 DEF SubmitFails, TypeOK, panelVars, userVars
<1>10. CASE \E t \in Threads : GetAnswered(t)
  <2> PICK t \in Threads : GetAnswered(t)
    BY <1>10
  <2>1. th' \in [Threads -> Dispatches]
    BY <1>5 DEF GetAnswered
  <2> QED BY <2>1 DEF GetAnswered, TypeOK, panelVars, userVars, nodeVars
<1>11. CASE \E t \in Threads : GetNothing(t) \/ WriteFails(t)
  <2>1. th' \in [Threads -> Dispatches]
    BY <1>6, <1>11 DEF GetNothing, WriteFails
  <2> QED BY <1>11, <2>1 DEF GetNothing, WriteFails, TypeOK, panelVars, userVars, nodeVars
<1>12. CASE \E t \in Threads : Write(t)
  <2> PICK t \in Threads : Write(t)
    BY <1>12
  <2>1. th[t].reply \in RowStates
    BY DEF TypeOK, Dispatches, RowStates
  <2>2. th' \in [Threads -> Dispatches]
    BY <1>6 DEF Write
  <2> QED BY <2>1, <2>2 DEF Write, TypeOK, userVars, nodeVars
<1>13. CASE \E j \in Jobs : Age(j)
  BY <1>13 DEF Age, TypeOK, userVars, nodeVars
<1>14. CASE \E u \in Users, j \in Jobs : AskCancel(u, j)
  <2> PICK u \in Users, j \in Jobs : AskCancel(u, j)
    BY <1>14
  <2>1. [pc |-> "mark", job |-> j] \in CancelRequests
    BY DEF CancelRequests
  <2>2. can' \in [Users -> CancelRequests]
    BY <2>1 DEF AskCancel, TypeOK
  <2>3. cancels' \in 0..MaxCancels
    BY ConstantsAssumption DEF AskCancel, TypeOK
  <2> QED BY <2>2, <2>3 DEF AskCancel, TypeOK, panelVars, nodeVars
<1>15. NoCancel \in CancelRequests
  BY DEF NoCancel, CancelRequests
<1>16. CASE \E u \in Users : Mark(u)
  <2> PICK u \in Users : Mark(u)
    BY <1>16
  <2>1. can[u].job \in Jobs /\ can[u] \in CancelRequests
    BY DEF Mark, UserFacts, TypeOK
  <2>2. can' \in [Users -> CancelRequests]
    BY <2>1 DEF Mark, TypeOK, CancelRequests
  <2> QED BY <2>1, <2>2 DEF Mark, TypeOK, RowStates, nodeVars
<1>17. CASE \E u \in Users : MarkFails(u)
  BY <1>15, <1>17 DEF MarkFails, TypeOK, panelVars, nodeVars
<1>18. CASE \E u \in Users : Notify(u)
  <2> PICK u \in Users : Notify(u)
    BY <1>18
  <2>1. can[u].job \in Jobs
    BY DEF Notify, UserFacts
  <2>2. can' \in [Users -> CancelRequests]
    BY <1>15 DEF Notify, TypeOK
  <2>3. Records'
    <3>1. CASE UNCHANGED <<node, asked>>
      BY <1>0, <3>1 DEF Records
    <3>2. CASE NodeCancels(can[u].job)
      BY <1>0, <2>1, <3>2, CancelEffect DEF Records, Daemon!States
    <3> QED BY <3>1, <3>2 DEF Notify
  <2> QED BY <2>1, <2>2, <2>3 DEF Notify, Records, TypeOK, panelVars
<1>19. CASE \E j \in Jobs : NodeBegins(j)
  <2>1. Records'
    BY <1>0, <1>19 DEF NodeBegins, Records, Daemon!Begin, Daemon!States
  <2> QED BY <1>19, <2>1 DEF NodeBegins, Records, TypeOK, panelVars, userVars
<1>20. CASE \E j \in Jobs, outcome \in Finished : NodeEnds(j, outcome)
  <2> PICK j \in Jobs, outcome \in Finished : NodeEnds(j, outcome)
    BY <1>20
  <2>1. Records'
    BY <1>0 DEF NodeEnds, Records, Daemon!End, Daemon!States
  <2>2. ended' \in [Jobs -> SUBSET Finished]
    BY DEF NodeEnds, TypeOK
  <2> QED BY <2>1, <2>2 DEF NodeEnds, Records, TypeOK, panelVars, userVars
<1>21. CASE \E j \in Jobs : NodeForgets(j)
  <2>1. Records'
    BY <1>0, <1>21, ForgetEffect DEF NodeForgets, Records, Daemon!States
  <2> QED BY <1>21, <2>1 DEF NodeForgets, Records, TypeOK, panelVars, userVars
<1>22. CASE NodeRestarts
  <2>1. restarts' \in 0..MaxRestarts
    BY <1>22, ConstantsAssumption DEF NodeRestarts, TypeOK
  <2> QED BY <1>22, <2>1 DEF NodeRestarts, TypeOK, Daemon!States, panelVars, userVars
<1>23. CASE PanelRestarts
  <2>1. th' \in [Threads -> Dispatches]
    BY <1>23 DEF PanelRestarts, Idle, Dispatches
  <2>2. restarts' \in 0..MaxRestarts
    BY <1>23, ConstantsAssumption DEF PanelRestarts, TypeOK
  <2> QED BY <1>15, <1>23, <2>1, <2>2 DEF PanelRestarts, TypeOK, panelVars, nodeVars
<1>24. CASE \E j \in Jobs : DeleteInstance(j)
  BY <1>24 DEF DeleteInstance, TypeOK, panelVars, userVars, nodeVars
<1>25. CASE UNCHANGED vars
  BY <1>25 DEF vars, TypeOK, panelVars, userVars, nodeVars
<1> QED
  BY NextCases, <1>1, <1>2, <1>3, <1>4, <1>8, <1>9, <1>10, <1>11, <1>12, <1>13, <1>14,
     <1>16, <1>17, <1>18, <1>19, <1>20, <1>21, <1>22, <1>23, <1>24, <1>25

-----------------------------------------------------------------------------
(* The node's records and the causes of a final state.                     *)

\* What never goes back: an outcome, a loss, a request to cancel, a deletion,
\* and that the node knows the job.
Grows ==
  \A j \in Jobs :
    /\ ended[j] \subseteq ended'[j]
    /\ j \in lost => j \in lost'
    /\ j \in marked => j \in marked'
    /\ inst[j] # "there" => inst'[j] # "there"
    /\ node[j] # "none" => node'[j] # "none" \/ j \in lost'

LEMMA CauseGrows ==
  ASSUME Grows, NEW j \in Jobs, NEW s
  PROVE  (Cause(j, s) => Cause(j, s)') /\ (Known(j) => Known(j)')
  BY DEF Grows, Cause, Known

\* One call of the node by a submission, and what it changes.
LEMMA SubmitEffect ==
  ASSUME Records, NodeFacts, NEW j \in Jobs, UNCHANGED inst, UNCHANGED marked,
         NodeAccepts(j)
  PROVE  NodeFacts' /\ Grows /\ Known(j)'
<1>1. CASE node' = node
  <2>1. NodeFacts' /\ Grows
    BY <1>1, AcceptEffect DEF NodeFacts, Grows
  <2>2. node[j] # "none"
    BY <1>1, AcceptEffect DEF Records
  <2> QED BY <1>1, <2>1, <2>2 DEF Known
<1>2. CASE node[j] = "none" /\ node' = [node EXCEPT ![j] = "queued"]
  <2>1. NodeFacts'
    BY <1>2, AcceptEffect DEF NodeFacts, Records, Finished
  <2>2. Grows /\ Known(j)'
    BY <1>2, AcceptEffect DEF Grows, Known, Records
  <2> QED BY <2>1, <2>2
<1> QED BY <1>1, <1>2, AcceptEffect

LEMMA NodeFactsStep ==
  ASSUME IInv, [Next]_vars
  PROVE  NodeFacts' /\ Grows
<1> USE DEF IInv
<1>0. Records
  BY DEF TypeOK, Records
<1>1. ASSUME UNCHANGED <<inst, marked, nodeVars>> PROVE NodeFacts' /\ Grows
  BY <1>1 DEF NodeFacts, Grows, nodeVars
<1>2. CASE \/ \E j \in Jobs : Create(j) \/ PumpNext(j) \/ Age(j)
           \/ StartRound \/ PanelRestarts \/ UNCHANGED vars
           \/ \E t \in Threads :
                Read(t) \/ GetAnswered(t) \/ GetNothing(t) \/ WriteFails(t) \/ Write(t)
           \/ \E u \in Users : MarkFails(u) \/ \E j \in Jobs : AskCancel(u, j)
  BY <1>1, <1>2 DEF Create, PumpNext, Age, StartRound, PanelRestarts, vars, Read,
     GetAnswered, GetNothing, WriteFails, Write, MarkFails, AskCancel, userVars
<1>3. CASE \E t \in Threads : SubmitAnswered(t) \/ SubmitFails(t)
  <2> PICK t \in Threads : SubmitAnswered(t) \/ SubmitFails(t)
    BY <1>3
  <2>1. th[t].job \in Jobs /\ UNCHANGED <<inst, marked>>
    BY DEF SubmitAnswered, SubmitFails, ThreadFacts, ThreadFact, userVars
  <2>2. NodeAccepts(th[t].job) \/ UNCHANGED nodeVars
    BY DEF SubmitAnswered, SubmitFails, NodeRefuses
  <2> QED BY <1>0, <1>1, <2>1, <2>2, SubmitEffect
<1>4. CASE \E u \in Users : Mark(u)
  BY <1>4 DEF Mark, NodeFacts, Grows, nodeVars
<1>5. CASE \E u \in Users : Notify(u)
  <2> PICK u \in Users : Notify(u)
    BY <1>5
  <2>1. can[u].job \in Jobs /\ can[u].job \in marked
    BY DEF Notify, UserFacts
  <2>2. UNCHANGED <<inst, marked, ended, lost>>
    BY DEF Notify
  <2>3. CASE UNCHANGED <<node, asked>>
    BY <1>1, <2>2, <2>3 DEF nodeVars
  <2>4. CASE NodeCancels(can[u].job)
    <3> PICK j \in Jobs : j = can[u].job
      BY <2>1
    <3>1. /\ node[j] \in {"queued", "running"}
          /\ node' = [node EXCEPT ![j] = IF @ = "queued" THEN "canceled" ELSE @]
          /\ asked' = [asked EXCEPT ![j] = TRUE]
      BY <1>0, <2>4, CancelEffect
    <3>2. \A k \in Jobs \ {j} : node'[k] = node[k] /\ (asked'[k] <=> asked[k])
      BY <1>0, <3>1 DEF Records
    <3>3. node'[j] \in {"running", "canceled"} /\ (node[j] # "none")
      BY <1>0, <3>1 DEF Records
    <3>4. j \notin Refused
      BY <3>1 DEF NodeFacts
    <3>5. Grows
      BY <2>2, <3>2, <3>3 DEF Grows
    <3>6. ASSUME NEW k \in Jobs
          PROVE  /\ node'[k] \in {"success", "failed"} => node'[k] \in ended[k]
                 /\ node'[k] = "canceled" \/ asked'[k] => k \in marked
                 /\ node'[k] \notin Finished /\ ended[k] # {} => k \in lost
                 /\ k \in Refused => node'[k] = "none" /\ ended[k] = {}
      <4>1. CASE k = j
        BY <2>1, <3>1, <3>3, <3>4, <4>1 DEF NodeFacts, Finished
      <4>2. CASE k # j
        BY <3>2, <4>2 DEF NodeFacts
      <4> QED BY <4>1, <4>2
    <3> QED BY <2>2, <3>5, <3>6 DEF NodeFacts
  <2> QED BY <2>3, <2>4 DEF Notify
<1>6. CASE \E j \in Jobs : NodeBegins(j)
  <2> PICK j \in Jobs : NodeBegins(j)
    BY <1>6
  <2>1. node[j] = "queued" /\ node' = [node EXCEPT ![j] = "running"] /\ asked' = asked
    BY DEF NodeBegins, Daemon!Begin
  <2>2. UNCHANGED <<inst, marked, ended, lost>>
    BY DEF NodeBegins, userVars
  <2> QED BY <1>0, <2>1, <2>2 DEF NodeFacts, Grows, Records, Finished
<1>7. CASE \E j \in Jobs, outcome \in Finished : NodeEnds(j, outcome)
  <2> PICK j \in Jobs, outcome \in Finished : NodeEnds(j, outcome)
    BY <1>7
  <2>1. /\ node[j] = "running" /\ node' = [node EXCEPT ![j] = outcome]
        /\ asked' = asked /\ ended' = [ended EXCEPT ![j] = @ \cup {outcome}]
    BY DEF NodeEnds, Daemon!End
  <2>2. outcome = "canceled" => asked[j]
    BY DEF NodeEnds, Daemon!End
  <2>3. UNCHANGED <<inst, marked, lost>>
    BY DEF NodeEnds, userVars
  <2>4. ended \in [Jobs -> SUBSET Finished]
    BY DEF TypeOK
  <2>5. Grows
    BY <1>0, <2>1, <2>3, <2>4 DEF Grows, Records, Finished
  <2>6. ASSUME NEW k \in Jobs
        PROVE  /\ node'[k] \in {"success", "failed"} => node'[k] \in ended'[k]
               /\ node'[k] = "canceled" \/ asked[k] => k \in marked
               /\ node'[k] \notin Finished /\ ended'[k] # {} => k \in lost
               /\ k \in Refused => node'[k] = "none" /\ ended'[k] = {}
    <3>1. CASE k = j
      <4>1. node'[k] = outcome /\ outcome \in ended'[k] /\ outcome \in Finished
        BY <1>0, <2>1, <2>4, <3>1 DEF Records
      <4>2. k \notin Refused
        BY <2>1, <3>1 DEF NodeFacts
      <4>3. outcome = "canceled" \/ asked[k] => k \in marked
        BY <2>2, <3>1 DEF NodeFacts
      <4> QED BY <4>1, <4>2, <4>3
    <3>2. CASE k # j
      BY <1>0, <2>1, <2>4, <3>2 DEF NodeFacts, Records
    <3> QED BY <3>1, <3>2
  <2> QED BY <2>1, <2>3, <2>5, <2>6 DEF NodeFacts
<1>8. CASE \E j \in Jobs : NodeForgets(j)
  <2> PICK j \in Jobs : NodeForgets(j)
    BY <1>8
  <2>1. /\ node[j] \in Finished /\ node' = [node EXCEPT ![j] = "none"]
        /\ asked' = [asked EXCEPT ![j] = FALSE]
    BY <1>0, ForgetEffect DEF NodeForgets
  <2>2. lost' = lost \cup {j} /\ UNCHANGED <<inst, marked, ended>>
    BY DEF NodeForgets, userVars
  <2>3. \A k \in Jobs : asked'[k] => asked[k]
    BY <1>0, <2>1 DEF Records
  <2>4. /\ node'[j] = "none" /\ \A k \in Jobs \ {j} : node'[k] = node[k]
    BY <1>0, <2>1 DEF Records
  <2>5. Grows
    BY <2>2, <2>4 DEF Grows
  <2>6. ASSUME NEW k \in Jobs
        PROVE  /\ node'[k] \in {"success", "failed"} => node'[k] \in ended[k]
               /\ node'[k] = "canceled" \/ asked'[k] => k \in marked
               /\ node'[k] \notin Finished /\ ended[k] # {} => k \in lost'
               /\ k \in Refused => node'[k] = "none" /\ ended[k] = {}
    BY <2>2, <2>3, <2>4 DEF NodeFacts, Finished
  <2> QED BY <2>2, <2>5, <2>6 DEF NodeFacts
<1>9. CASE NodeRestarts
  <2>1. /\ \A k \in Jobs : node'[k] = "none" /\ ~asked'[k]
        /\ \A k \in Jobs : node[k] # "none" => k \in lost'
        /\ \A k \in Jobs : k \in lost => k \in lost'
        /\ UNCHANGED <<inst, marked, ended>>
    BY <1>9 DEF NodeRestarts, userVars
  <2>2. Grows
    BY <2>1 DEF Grows
  <2>3. ASSUME NEW k \in Jobs, ended[k] # {} PROVE k \in lost'
    BY <2>1, <2>3 DEF NodeFacts, Finished
  <2> QED BY <2>1, <2>2, <2>3 DEF NodeFacts, Finished
<1>10. CASE \E j \in Jobs : DeleteInstance(j)
  BY <1>10 DEF DeleteInstance, NodeFacts, Grows, nodeVars, userVars, TypeOK
<1> QED
  BY NextCases, <1>2, <1>3, <1>4, <1>5, <1>6, <1>7, <1>8, <1>9, <1>10

\* A thread that does not move keeps its facts, and so does one that starts a
\* dispatch or returns.
LEMMA ThreadKeeps ==
  ASSUME TypeOK, ThreadFacts, Grows, NEW t \in Threads,
         \/ th'[t] = th[t]
         \/ th'[t] = Idle
         \/ \E j \in Jobs : th'[t] = Dispatch(j)
  PROVE  ThreadFact(t)'
<1>1. CASE th'[t] = th[t]
  <2>1. Known(th[t].job) /\ th[t].job \in Jobs => Known(th[t].job)'
    BY <1>1 DEF Grows, Known
  <2>2. Cause(th[t].job, th[t].reply) /\ th[t].job \in Jobs => Cause(th[t].job, th[t].reply)'
    BY <1>1 DEF Grows, Cause
  <2>3. ThreadFact(t)
    BY DEF ThreadFacts
  <2> QED BY <1>1, <2>1, <2>2, <2>3 DEF ThreadFact
<1>2. CASE th'[t] = Idle
  BY <1>2 DEF Idle, ThreadFact
<1>3. CASE \E j \in Jobs : th'[t] = Dispatch(j)
  BY <1>3 DEF Dispatch, Idle, ThreadFact
<1> QED BY <1>1, <1>2, <1>3

\* What a dispatch knows when it goes on to call the node or to write the row.
LEMMA MovesOn ==
  ASSUME IInv, NodeFacts', Grows, NEW t \in Threads,
         Read(t) \/ SubmitAnswered(t) \/ GetAnswered(t)
  PROVE  ThreadFact(t)'
<1>0. /\ ThreadFact(t) /\ RowFacts /\ th \in [Threads -> Dispatches]
      /\ th[t].job \in Jobs
  BY DEF IInv, TypeOK, ThreadFacts, ThreadFact, Read, SubmitAnswered, GetAnswered
<1> PICK j \in Jobs : j = th[t].job
  BY <1>0
<1>1. CASE Read(t) /\ j \notin Active
  <2>1. th'[t] = Idle
    BY <1>0, <1>1 DEF Read
  <2> QED BY <2>1 DEF Idle, ThreadFact
<1>2. CASE Read(t) /\ j \in Active /\ inst[j] = "gone"
  <2>1. /\ th'[t].pc = "write" /\ th'[t].job = j /\ th'[t].saw = row[j]
        /\ th'[t].reply = "failed"
    BY <1>0, <1>2 DEF Read, Dispatches
  <2>2. Cause(j, "failed")'
    BY <1>2 DEF Read, Cause
  <2>3. row[j] # "none" /\ (row[j] = "running" => Known(j)')
    BY <1>0, <1>2 DEF Active, RowFacts, Known, Grows
  <2> QED BY <2>1, <2>2, <2>3 DEF ThreadFact
<1>3. CASE Read(t) /\ j \in Active /\ inst[j] # "gone"
  <2>1. /\ th'[t].pc = "call" /\ th'[t].job = j /\ th'[t].saw = row[j]
        /\ th'[t].reply = th[t].reply
    BY <1>0, <1>3 DEF Read, Dispatches
  <2>2. row[j] # "none" /\ (row[j] = "running" \/ th[t].reply = "running" => Known(j)')
    BY <1>0, <1>3 DEF Active, RowFacts, Known, Grows, ThreadFact
  <2> QED BY <2>1, <2>2 DEF ThreadFact
<1>4. ASSUME NEW r \in {"running"} \cup Finished, Answer(t, r), th[t].pc = "call",
             Cause(j, r)', r = "running" \/ th[t].saw = "running" => Known(j)'
      PROVE  ThreadFact(t)'
  <2>1. /\ th'[t].pc = "write" /\ th'[t].job = j /\ th'[t].saw = th[t].saw
        /\ th'[t].reply = r
    BY <1>0, <1>4 DEF Answer, Dispatches
  <2>2. th[t].saw # "none" /\ r # "none"
    BY <1>0, <1>4 DEF ThreadFact, Finished
  <2> QED BY <1>4, <2>1, <2>2 DEF ThreadFact
<1>5. th[t].saw = "running" => Known(j)'
  BY <1>0 DEF ThreadFact, Known, Grows
<1>6. CASE SubmitAnswered(t) /\ NodeAccepts(j)
  <2>1. Answer(t, "running") \/ Answer(t, "failed")
    BY <1>6 DEF SubmitAnswered
  <2>2. Records /\ j \notin Refused /\ inst[j] = "there"
    BY <1>6 DEF NodeAccepts, IInv, TypeOK, Records
  <2>3. Known(j)'
    BY <1>6, <2>2, AcceptEffect DEF Known, Records
  <2>4. Cause(j, "running")'
    BY DEF Cause
  <2>5. Answer(t, "running")
    BY <1>6, <2>2 DEF SubmitAnswered, NodeRefuses
  <2> QED BY <1>4, <1>6, <2>3, <2>4, <2>5 DEF SubmitAnswered
<1>7. CASE SubmitAnswered(t) /\ NodeRefuses(j) /\ Answer(t, "failed")
  <2>1. Cause(j, "failed")'
    BY <1>7 DEF SubmitAnswered, NodeRefuses, Cause
  <2>2. th[t].pc = "call" /\ "failed" \in {"running"} \cup Finished
    BY <1>7 DEF SubmitAnswered, Finished
  <2> QED BY <1>4, <1>5, <1>7, <2>1, <2>2
<1>8. CASE GetAnswered(t)
  <2>1. th[t].pc = "call" /\ th[t].saw = "running" /\ UNCHANGED <<node, ended, lost, marked, inst>>
    BY <1>8 DEF GetAnswered, nodeVars, userVars
  <2>2. Known(j)
    BY <1>0, <2>1 DEF ThreadFact
  <2>3. CASE node[j] = "none"
    <3>1. Answer(t, "failed")
      BY <1>8, <2>3 DEF GetAnswered
    <3>2. Cause(j, "failed")'
      BY <2>1, <2>2, <2>3 DEF Known, Cause
    <3>3. "failed" \in {"running"} \cup Finished
      BY DEF Finished
    <3> QED BY <1>4, <1>5, <2>1, <3>1, <3>2, <3>3
  <2>4. CASE node[j] \in Finished
    <3>1. Answer(t, node[j])
      BY <1>8, <2>4 DEF GetAnswered, Finished
    <3> PICK r \in Finished : r = node[j]
      BY <2>4
    <3>2. Cause(j, r)'
      BY <2>1 DEF IInv, NodeFacts, Cause
    <3> QED BY <1>4, <1>5, <2>1, <3>1, <3>2
  <2>5. CASE node[j] \notin Finished /\ node[j] # "none"
    <3>1. Answer(t, "running")
      BY <1>8, <2>5 DEF GetAnswered
    <3>2. Cause(j, "running")'
      BY DEF Cause
    <3> QED BY <1>4, <1>5, <2>1, <3>1, <3>2
  <2> QED BY <2>3, <2>4, <2>5
<1> QED BY <1>1, <1>2, <1>3, <1>6, <1>7, <1>8 DEF SubmitAnswered

\* Every other action leaves each thread where it is, or returns it, or starts it.
LEMMA ThreadFactsStep ==
  ASSUME IInv, [Next]_vars, NodeFacts', Grows
  PROVE  ThreadFacts'
<1> SUFFICES ASSUME NEW s \in Threads PROVE ThreadFact(s)'
  BY DEF ThreadFacts
<1>0. /\ TypeOK /\ ThreadFacts /\ th \in [Threads -> Dispatches]
  BY DEF IInv, TypeOK
<1>1. ASSUME NEW t \in Threads, \A r \in Threads \ {t} : th'[r] = th[r],
             Read(t) \/ SubmitAnswered(t) \/ GetAnswered(t)
      PROVE  ThreadFact(s)'
  <2>1. CASE s = t
    BY <1>1, <2>1, MovesOn
  <2>2. CASE s # t
    BY <1>0, <1>1, <2>2, ThreadKeeps
  <2> QED BY <2>1, <2>2
<1>2. ASSUME \/ th'[s] = th[s] \/ th'[s] = Idle \/ \E j \in Jobs : th'[s] = Dispatch(j)
      PROVE  ThreadFact(s)'
  BY <1>0, <1>2, ThreadKeeps
<1>3. CASE \E t \in Threads : Read(t) \/ SubmitAnswered(t) \/ GetAnswered(t)
  <2> PICK t \in Threads : Read(t) \/ SubmitAnswered(t) \/ GetAnswered(t)
    BY <1>3
  <2>1. \A r \in Threads \ {t} : th'[r] = th[r]
    BY <1>0 DEF Read, SubmitAnswered, GetAnswered, Answer
  <2> QED BY <1>1, <2>1
<1>4. CASE \E t \in Threads : SubmitFails(t) \/ GetNothing(t) \/ WriteFails(t) \/ Write(t)
  <2>1. th'[s] = th[s] \/ th'[s] = Idle
    BY <1>0, <1>4 DEF SubmitFails, GetNothing, WriteFails, Write
  <2> QED BY <1>2, <2>1
<1>5. CASE (\E j \in Jobs : Create(j) \/ PumpNext(j)) \/ PanelRestarts
  <2>1. th'[s] = th[s] \/ th'[s] = Idle \/ \E j \in Jobs : th'[s] = Dispatch(j)
    BY <1>0, <1>5 DEF Create, PumpNext, PanelRestarts
  <2> QED BY <1>2, <2>1
<1>6. CASE \/ StartRound \/ NodeRestarts \/ UNCHANGED vars
           \/ \E j \in Jobs : Age(j) \/ NodeBegins(j) \/ NodeForgets(j) \/ DeleteInstance(j)
           \/ \E j \in Jobs, outcome \in Finished : NodeEnds(j, outcome)
           \/ \E u \in Users : Mark(u) \/ MarkFails(u) \/ Notify(u)
                              \/ \E j \in Jobs : AskCancel(u, j)
  <2>1. th' = th
    BY <1>6 DEF StartRound, NodeRestarts, vars, Age, NodeBegins, NodeForgets, DeleteInstance,
       NodeEnds, Mark, MarkFails, Notify, AskCancel
  <2> QED BY <1>2, <2>1
<1> QED BY NextCases, <1>3, <1>4, <1>5, <1>6

\* The rows: running means that the node knows the job, and every final state
\* has a cause.
LEMMA RowFactsStep ==
  ASSUME IInv, [Next]_vars, Grows
  PROVE  RowFacts' /\ EndsForACause'
<1>0. /\ RowFacts /\ EndsForACause /\ row \in [Jobs -> RowStates]
  BY DEF IInv, TypeOK
<1> SUFFICES ASSUME NEW k \in Jobs
             PROVE  (row'[k] = "running" => Known(k)') /\ Cause(k, row[k])'
  BY DEF RowFacts, EndsForACause
<1>1. CASE row'[k] = row[k]
  <2>1. Known(k) => Known(k)'
    BY DEF Grows, Known
  <2>2. Cause(k, row[k])'
    BY <1>0, <1>1 DEF EndsForACause, Cause, Grows
  <2> QED BY <1>0, <1>1, <2>1, <2>2 DEF RowFacts
<1>2. CASE row'[k] = "queued"
  BY <1>2 DEF Cause
<1>3. CASE row'[k] = "canceled" /\ k \in marked'
  BY <1>3 DEF Cause
<1>4. CASE \E t \in Threads : Write(t) /\ th[t].job = k
  <2> PICK t \in Threads : Write(t) /\ th[t].job = k
    BY <1>4
  <2>1. ThreadFact(t) /\ th[t].pc = "write" /\ row'[k] = th[t].reply
    BY <1>0 DEF Write, IInv, ThreadFacts
  <2>2. Cause(k, th[t].reply) /\ (th[t].reply = "running" => Known(k))
    BY <2>1 DEF ThreadFact
  <2> QED BY <2>1, <2>2 DEF Cause, Known, Grows
<1>5. CASE \E j \in Jobs : Create(j)
  <2>1. row'[k] = row[k] \/ row'[k] = "queued"
    BY <1>0, <1>5 DEF Create
  <2> QED BY <1>1, <1>2, <2>1
<1>6. CASE \E t \in Threads : Write(t)
  <2>1. row'[k] = row[k] \/ \E t \in Threads : Write(t) /\ th[t].job = k
    BY <1>0, <1>6 DEF Write
  <2> QED BY <1>1, <1>4, <2>1
<1>7. CASE \E u \in Users : Mark(u)
  <2>1. row'[k] = row[k] \/ (row'[k] = "canceled" /\ k \in marked')
    BY <1>0, <1>7 DEF Mark
  <2> QED BY <1>1, <1>3, <2>1
<1>8. CASE \/ StartRound \/ NodeRestarts \/ PanelRestarts \/ UNCHANGED vars
           \/ \E j \in Jobs : \/ PumpNext(j) \/ Age(j) \/ NodeBegins(j)
                             \/ NodeForgets(j) \/ DeleteInstance(j)
           \/ \E j \in Jobs, outcome \in Finished : NodeEnds(j, outcome)
           \/ \E t \in Threads : \/ Read(t) \/ SubmitAnswered(t) \/ SubmitFails(t)
                                \/ GetAnswered(t) \/ GetNothing(t) \/ WriteFails(t)
           \/ \E u \in Users : MarkFails(u) \/ Notify(u) \/ \E j \in Jobs : AskCancel(u, j)
  <2>1. row' = row
    BY <1>8 DEF StartRound, NodeRestarts, PanelRestarts, vars, PumpNext, Age, NodeBegins,
       NodeForgets, DeleteInstance, NodeEnds, Read, SubmitAnswered, SubmitFails, GetAnswered,
       GetNothing, WriteFails, MarkFails, Notify, AskCancel, panelVars
  <2> QED BY <1>1, <2>1
<1> QED BY NextCases, <1>5, <1>6, <1>7, <1>8

\* A cancel request names a job, marked before the node is told.
LEMMA UserFactsStep ==
  ASSUME IInv, [Next]_vars, Grows
  PROVE  UserFacts'
<1>0. UserFacts /\ can \in [Users -> CancelRequests]
  BY DEF IInv, TypeOK
<1> SUFFICES ASSUME NEW v \in Users
             PROVE  /\ can'[v].pc # "idle" => can'[v].job \in Jobs
                    /\ can'[v].pc = "notify" => can'[v].job \in marked'
  BY DEF UserFacts
<1>1. CASE can'[v] = can[v]
  BY <1>0, <1>1 DEF UserFacts, Grows
<1>2. CASE can'[v] = NoCancel
  BY <1>2 DEF NoCancel
<1>3. CASE \E u \in Users, j \in Jobs : AskCancel(u, j)
  <2>1. can'[v] = can[v] \/ \E j \in Jobs : can'[v] = [pc |-> "mark", job |-> j]
    BY <1>0, <1>3 DEF AskCancel
  <2>2. ASSUME NEW j \in Jobs, can'[v] = [pc |-> "mark", job |-> j]
        PROVE  can'[v].pc = "mark" /\ can'[v].job \in Jobs
    BY <2>2
  <2> QED BY <1>1, <2>1, <2>2
<1>4. CASE \E u \in Users : Mark(u)
  <2> PICK u \in Users : Mark(u)
    BY <1>4
  <2>1. can[u].job \in Jobs /\ can[u].job \in marked'
    BY <1>0 DEF Mark, UserFacts
  <2>2. CASE v = u
    BY <1>0, <2>1, <2>2 DEF Mark, CancelRequests
  <2>3. CASE v # u
    BY <1>0, <1>1, <2>3 DEF Mark
  <2> QED BY <2>2, <2>3
<1>5. CASE (\E u \in Users : MarkFails(u) \/ Notify(u)) \/ PanelRestarts
  <2>1. can'[v] = can[v] \/ can'[v] = NoCancel
    BY <1>0, <1>5 DEF MarkFails, Notify, PanelRestarts
  <2> QED BY <1>1, <1>2, <2>1
<1>6. CASE \/ StartRound \/ NodeRestarts \/ UNCHANGED vars
           \/ \E j \in Jobs : \/ Create(j) \/ PumpNext(j) \/ Age(j) \/ NodeBegins(j)
                             \/ NodeForgets(j) \/ DeleteInstance(j)
           \/ \E j \in Jobs, outcome \in Finished : NodeEnds(j, outcome)
           \/ \E t \in Threads : \/ Read(t) \/ SubmitAnswered(t) \/ SubmitFails(t)
                                \/ GetAnswered(t) \/ GetNothing(t) \/ WriteFails(t) \/ Write(t)
  <2>1. can' = can
    BY <1>6 DEF StartRound, NodeRestarts, vars, Create, PumpNext, Age, NodeBegins,
       NodeForgets, DeleteInstance, NodeEnds, Read, SubmitAnswered, SubmitFails, GetAnswered,
       GetNothing, WriteFails, Write, userVars
  <2> QED BY <1>1, <2>1
<1> QED BY NextCases, <1>3, <1>4, <1>5, <1>6

-----------------------------------------------------------------------------
(* The theorems.                                                           *)

LEMMA IInvInit == Init => IInv
<1> SUFFICES ASSUME Init PROVE IInv
  OBVIOUS
<1>1. TypeOK
  BY TypeInit
<1>2. NodeFacts /\ RowFacts /\ UserFacts /\ EndsForACause
  BY DEF Init, NodeFacts, RowFacts, UserFacts, EndsForACause, Cause, NoCancel, Finished
<1>3. ThreadFacts
  BY DEF Init, ThreadFacts, ThreadFact, Idle
<1> QED BY <1>1, <1>2, <1>3 DEF IInv

LEMMA IInvStep == IInv /\ [Next]_vars => IInv'
<1> SUFFICES ASSUME IInv, [Next]_vars PROVE IInv'
  OBVIOUS
<1>1. TypeOK'
  BY TypeStep DEF IInv
<1>2. NodeFacts' /\ Grows
  BY NodeFactsStep
<1>3. ThreadFacts'
  BY <1>2, ThreadFactsStep
<1>4. RowFacts' /\ EndsForACause'
  BY <1>2, RowFactsStep
<1>5. UserFacts'
  BY <1>2, UserFactsStep
<1> QED BY <1>1, <1>2, <1>3, <1>4, <1>5 DEF IInv

\* The inductive invariant of a file job's row, its dispatches and its record on
\* the node.
THEOREM Inductive == Spec => []IInv
BY IInvInit, IInvStep, PTL DEF Spec

\* Every variable of the panel's and of the node's side keeps its type.
THEOREM TypeCorrect == Spec => []TypeOK
<1>1. IInv => TypeOK
  BY DEF IInv
<1> QED BY <1>1, Inductive, PTL

\* A final state shown to the user has a cause: no lost call, lost answer or
\* failed UPDATE makes dispatchJob report an end that did not happen.
THEOREM EndsAreCaused == Spec => []EndsForACause
<1>1. IInv => EndsForACause
  BY DEF IInv
<1> QED BY <1>1, Inductive, PTL

\* The node neither runs nor will run a job whose row says success or failed,
\* unless it lost the record or the instance was deleted.
THEOREM NoHiddenWork == Spec => []NoWorkBehindFinishedRow
<1>1. IInv => NoWorkBehindFinishedRow
  <2> SUFFICES ASSUME IInv, NEW j \in Jobs, row[j] \in {"success", "failed"},
                      node[j] \in {"queued", "running"}
               PROVE  j \in lost \/ inst[j] # "there"
    BY DEF NoWorkBehindFinishedRow
  <2>1. Cause(j, row[j]) /\ NodeFacts
    BY DEF IInv, EndsForACause
  <2>2. j \notin Refused
    BY <2>1 DEF NodeFacts
  <2>3. ended[j] # {} => j \in lost
    BY <2>1 DEF NodeFacts, Finished
  <2> QED BY <2>1, <2>2, <2>3 DEF Cause
<1> QED BY <1>1, Inductive, PTL

\* A finished row is rewritten only by a dispatch or a cancel that read it while
\* it was unfinished: the pump never goes back to it.
THEOREM FinishedRowsStay == Spec => FinishedStays
<1>1. IInv /\ [Next]_vars =>
        [\A j \in Jobs : row[j] \in Finished /\ row'[j] # row[j] => ReadUnfinished(j)]_vars
  <2> SUFFICES ASSUME IInv, [Next]_vars, NEW j \in Jobs, row[j] \in Finished, row'[j] # row[j]
               PROVE  ReadUnfinished(j)
    OBVIOUS
  <2>0. row \in [Jobs -> RowStates]
    BY DEF IInv, TypeOK
  <2>1. CASE \E k \in Jobs : Create(k)
    BY <2>0, <2>1 DEF Create, Finished
  <2>2. CASE \E t \in Threads : Write(t)
    <3> PICK t \in Threads : Write(t)
      BY <2>2
    <3>1. th[t].job = j
      BY <2>0 DEF Write
    <3>2. th[t].saw \in {"queued", "running"}
      BY DEF Write, IInv, ThreadFacts, ThreadFact, TypeOK, Dispatches
    <3> QED BY <3>1, <3>2 DEF ReadUnfinished
  <2>3. CASE \E u \in Users : Mark(u)
    BY <2>0, <2>3 DEF Mark, ReadUnfinished
  <2>4. CASE \/ StartRound \/ NodeRestarts \/ PanelRestarts \/ UNCHANGED vars
             \/ \E k \in Jobs : \/ PumpNext(k) \/ Age(k) \/ NodeBegins(k)
                               \/ NodeForgets(k) \/ DeleteInstance(k)
             \/ \E k \in Jobs, outcome \in Finished : NodeEnds(k, outcome)
             \/ \E t \in Threads : \/ Read(t) \/ SubmitAnswered(t) \/ SubmitFails(t)
                                  \/ GetAnswered(t) \/ GetNothing(t) \/ WriteFails(t)
             \/ \E u \in Users : MarkFails(u) \/ Notify(u) \/ \E k \in Jobs : AskCancel(u, k)
    BY <2>4 DEF StartRound, NodeRestarts, PanelRestarts, vars, PumpNext, Age, NodeBegins,
       NodeForgets, DeleteInstance, NodeEnds, Read, SubmitAnswered, SubmitFails, GetAnswered,
       GetNothing, WriteFails, MarkFails, Notify, AskCancel, panelVars
  <2> QED BY NextCases, <2>1, <2>2, <2>3, <2>4
<1> QED BY <1>1, Inductive, PTL DEF Spec, FinishedStays

-----------------------------------------------------------------------------
(* The scheduler's rounds: module Scheduler *)

\* A round has the fields it is read by.
RoundShape == round = [phase |-> round.phase, list |-> round.list, item |-> round.item, at |-> round.at]

\* What the round is about to run: one slot per task, passed, and after the last one run.
ListedSlots == round.phase = "tasks" =>
  /\ \A x \in round.list : x.task \in Tasks /\ x.slot \in 1..now /\ x.slot > ran[x.task].last
  /\ \A x, y \in round.list : x.task = y.task => x = y

\* A run has ended and is not recorded yet.
Unrecorded(t) == round.phase = "tasks" /\ round.item # <<>> /\ round.item[1].task = t

RunsAreRecorded == \A t \in Tasks : ran[t].last <= tasks[t].lastRun \/ Unrecorded(t)

TaskTypes ==
  /\ now \in 1..MaxTime
  /\ tasks \in [Tasks -> [action : TaskActions, cron : Crons, enabled : BOOLEAN, lastRun : 0..MaxTime]]
  /\ ran \in [Tasks -> [last : 0..MaxTime, again : BOOLEAN]]
  /\ \A t \in Tasks : ran[t].last <= now

SlotInv == TaskTypes /\ RoundShape /\ ListedSlots /\ RunsAreRecorded /\ SlotsRunOnce

-----------------------------------------------------------------------------

\* The latest match of an expression is one of its minutes, and has passed.
LEMMA PrevMatches ==
  ASSUME NEW cron \in Crons, NEW t \in Nat, Prev(cron, t) > 0
  PROVE  Prev(cron, t) \in 1..t
<1> DEFINE M == Matches(cron, t)
<1> DEFINE Ranges == {m..MaxTime : m \in M}
<1>1. M # {} /\ M \subseteq 1..MaxTime /\ MaxTime \in Nat /\ \A m \in M : m <= t
  <2>1. cron \subseteq 1..MaxTime /\ MaxTime \in Nat
    BY SchedulerAssumption
  <2>2. M # {}
    BY DEF Prev
  <2> QED BY <2>1, <2>2 DEF Matches
<1>2. Prev(cron, t) = CHOOSE m \in M : \A n \in M : n <= m
  BY <1>1 DEF Prev
<1> HIDE DEF M
<1>3. Ranges \subseteq FiniteSubsetsOf(Nat) /\ Ranges # {}
  <2>1. ASSUME NEW m \in M PROVE IsFiniteSet(m..MaxTime) /\ m..MaxTime \subseteq Nat
    <3>1. m \in Int /\ MaxTime \in Int
      BY <1>1
    <3>2. m..MaxTime \subseteq Nat
      BY <1>1
    <3> QED BY <3>1, <3>2, FS_Interval
  <2> QED BY <1>1, <2>1 DEF FiniteSubsetsOf
<1>4. PICK b \in Ranges : \A c \in Ranges : <<c, b>> \notin StrictSubsetOrdering(Nat)
  BY <1>3, FS_StrictSubsetOrderingWellFounded, WFMin
<1>5. PICK top \in M : b = top..MaxTime
  BY <1>4
<1>6. ASSUME NEW n \in M PROVE n <= top
  <2>1. n..MaxTime \in Ranges /\ n..MaxTime \subseteq Nat /\ top..MaxTime \subseteq Nat
    BY <1>1
  <2>2. ~(n..MaxTime \subseteq top..MaxTime /\ n..MaxTime # top..MaxTime)
    BY <1>4, <1>5, <2>1 DEF StrictSubsetOrdering
  <2>3. CASE top < n
    <3>1. n..MaxTime \subseteq top..MaxTime /\ top \in top..MaxTime /\ top \notin n..MaxTime
      BY <1>1, <2>3
    <3> QED BY <2>2, <3>1
  <2> QED BY <1>1, <2>3
<1> DEFINE Last(m) == m \in M /\ \A n \in M : n <= m
<1>7. Last(top)
  BY <1>6
<1>8. Prev(cron, t) = CHOOSE m : Last(m)
  BY <1>2
<1>9. Last(Prev(cron, t))
  <2> HIDE DEF Last
  <2>1. \E m : Last(m)
    BY <1>7
  <2>2. Last(CHOOSE m : Last(m))
    BY <2>1, Zenon
  <2> QED BY <1>8, <2>2
<1>10. Prev(cron, t) \in M
  BY <1>9
<1>11. Prev(cron, t) \in 1..MaxTime /\ Prev(cron, t) <= t
  BY <1>1, <1>10
<1> QED BY <1>11

\* What the round reads is due: after every slot that was run.
LEMMA DueSlots ==
  ASSUME SlotInv, round.phase # "tasks", NEW t \in Tasks, Due(tasks[t])
  PROVE  Prev(tasks[t].cron, now) \in 1..now /\ Prev(tasks[t].cron, now) > ran[t].last
<1>1. ran[t].last <= tasks[t].lastRun /\ ran[t].last \in Nat /\ tasks[t].lastRun \in Nat /\ tasks[t].cron \in Crons
      /\ now \in Nat
  BY DEF SlotInv, RunsAreRecorded, Unrecorded, TaskTypes
<1>2. Prev(tasks[t].cron, now) > 0 /\ (tasks[t].lastRun # 0 => Prev(tasks[t].cron, now) > tasks[t].lastRun)
  BY DEF Due, Never
<1>3. Prev(tasks[t].cron, now) \in 1..now
  BY <1>1, <1>2, PrevMatches
<1> QED BY <1>1, <1>2, <1>3

\* Steps that leave tasks, slots and the part of a round that runs them alone.
LEMMA OtherSteps ==
  ASSUME SlotInv, now' \in now..MaxTime, UNCHANGED <<tasks, ran>>, RoundShape',
         \/ UNCHANGED round
         \/ round.phase # "tasks" /\ round'.phase # "tasks"
         \/ round.list = {} /\ round.item = <<>> /\ round'.phase = "idle"
  PROVE  SlotInv'
<1>1. TaskTypes' /\ SlotsRunOnce'
  BY DEF SlotInv, TaskTypes, SlotsRunOnce
<1>2. ListedSlots' /\ RunsAreRecorded'
  BY DEF SlotInv, ListedSlots, RunsAreRecorded, Unrecorded, TaskTypes
<1> QED BY <1>1, <1>2 DEF SlotInv

\* A request or a round writes last_run: never back.
LEMMA LastRunStep ==
  ASSUME SlotInv, UNCHANGED <<now, ran>>, NEW t, tasks' = [tasks EXCEPT ![t].lastRun = now],
         \/ UNCHANGED round
         \/ Unrecorded(t) /\ round' = [round EXCEPT !.item = <<>>]
  PROVE  SlotInv'
<1>0. now \in 0..MaxTime /\ TaskTypes
  BY DEF SlotInv, TaskTypes
<1>1. SlotsRunOnce' /\ RoundShape'
  BY DEF SlotInv, SlotsRunOnce, RoundShape
<1>2. /\ tasks' \in [Tasks -> [action : TaskActions, cron : Crons, enabled : BOOLEAN, lastRun : 0..MaxTime]]
      /\ \A u \in Tasks : tasks'[u].lastRun = IF u = t THEN now ELSE tasks[u].lastRun
  BY <1>0 DEF TaskTypes
<1>5. TaskTypes'
  BY <1>0, <1>2 DEF TaskTypes
<1>3. ListedSlots' /\ \A u \in Tasks \ {t} : Unrecorded(u) => UNCHANGED round
  BY DEF SlotInv, ListedSlots, Unrecorded, RoundShape
<1>4. RunsAreRecorded'
  BY <1>2, <1>3 DEF SlotInv, RunsAreRecorded, Unrecorded, TaskTypes
<1> QED BY <1>1, <1>3, <1>4, <1>5 DEF SlotInv

LEMMA RunDueTaskKeeps == SlotInv /\ RunDueTask => SlotInv'
<1> SUFFICES ASSUME SlotInv, RunDueTask PROVE SlotInv'
  OBVIOUS
<1>1. PICK x \in round.list :
        /\ round' = [round EXCEPT !.list = @ \ {x}, !.item = <<x>>]
        /\ ran' = [ran EXCEPT ![x.task] = [last |-> x.slot, again |-> @.again \/ x.slot <= @.last]]
  BY DEF RunDueTask
<1>2. /\ round.phase = "tasks" /\ round.item = <<>> /\ UNCHANGED <<now, tasks>>
      /\ x.task \in Tasks /\ x.slot \in 1..now /\ x.slot > ran[x.task].last
  BY DEF RunDueTask, SlotInv, ListedSlots, table
<1>3. /\ ran' \in [Tasks -> [last : 0..MaxTime, again : BOOLEAN]]
      /\ ran'[x.task].last = x.slot /\ ~ran'[x.task].again
      /\ \A u \in Tasks \ {x.task} : ran'[u] = ran[u]
  <2>1. x.slot \in 0..MaxTime /\ ~(x.slot <= ran[x.task].last)
    <3>1. now \in Nat /\ now <= MaxTime /\ MaxTime \in Nat /\ ran[x.task].last \in Nat
      BY <1>2, SchedulerAssumption DEF SlotInv, TaskTypes
    <3> QED BY <1>2, <3>1
  <2>2. ~ran[x.task].again
    BY <1>2 DEF SlotInv, SlotsRunOnce
  <2>3. ran' = [ran EXCEPT ![x.task] = [last |-> x.slot, again |-> FALSE]]
    BY <1>1, <2>1, <2>2
  <2> QED BY <1>2, <2>1, <2>3 DEF SlotInv, TaskTypes
<1>4. /\ RoundShape' /\ round'.phase = "tasks" /\ round'.list = round.list \ {x} /\ round'.item = <<x>>
  BY <1>1, <1>2 DEF SlotInv, RoundShape
<1>5. TaskTypes' /\ SlotsRunOnce'
  <2>1. \A u \in Tasks : ran'[u].last <= now
    <3>1. ran'[x.task].last <= now
      BY <1>2, <1>3, SchedulerAssumption DEF SlotInv, TaskTypes
    <3>2. \A u \in Tasks : ran[u].last <= now
      BY DEF SlotInv, TaskTypes
    <3> QED BY <1>3, <3>1, <3>2
  <2>2. \A u \in Tasks : ~ran'[u].again
    BY <1>3 DEF SlotInv, SlotsRunOnce
  <2> QED BY <1>2, <1>3, <2>1, <2>2 DEF SlotInv, TaskTypes, SlotsRunOnce
<1>6. ListedSlots'
  BY <1>2, <1>3, <1>4 DEF SlotInv, ListedSlots
<1>7. RunsAreRecorded'
  BY <1>2, <1>3, <1>4 DEF SlotInv, RunsAreRecorded, Unrecorded
<1> QED BY <1>4, <1>5, <1>6, <1>7 DEF SlotInv

LEMMA ReadTasksKeeps == SlotInv /\ ReadTasks => SlotInv'
<1> SUFFICES ASSUME SlotInv, ReadTasks PROVE SlotInv'
  OBVIOUS
<1>1. /\ round.phase = "expiry" /\ UNCHANGED <<now, tasks, ran>>
      /\ round' = [phase |-> "tasks", item |-> <<>>, at |-> round'.at,
                   list |-> {[task |-> t, slot |-> Prev(tasks[t].cron, now)] : t \in {u \in Tasks : Due(tasks[u])}}]
  BY DEF ReadTasks, Phase, world, table, hist
<1>2. RoundShape' /\ TaskTypes' /\ SlotsRunOnce'
  BY <1>1 DEF SlotInv, RoundShape, TaskTypes, SlotsRunOnce
<1>3. \A t \in Tasks : Due(tasks[t]) => Prev(tasks[t].cron, now) \in 1..now /\ Prev(tasks[t].cron, now) > ran[t].last
  BY <1>1, DueSlots
<1>4. ListedSlots'
  <2>1. ASSUME NEW x \in round'.list
        PROVE  x.task \in Tasks /\ x = [task |-> x.task, slot |-> Prev(tasks[x.task].cron, now)] /\ Due(tasks[x.task])
    BY <1>1, <2>1
  <2> QED BY <1>1, <1>3, <2>1 DEF ListedSlots
<1>5. RunsAreRecorded'
  BY <1>1 DEF SlotInv, RunsAreRecorded, Unrecorded
<1> QED BY <1>2, <1>4, <1>5 DEF SlotInv

\* The panel ends: a run it did not record is not the slot's.
LEMMA PanelStopsKeeps == SlotInv /\ PanelStops => SlotInv'
<1> SUFFICES ASSUME SlotInv, PanelStops PROVE SlotInv'
  OBVIOUS
<1>1. /\ UNCHANGED <<now, tasks>> /\ RoundShape' /\ round'.phase = "idle"
      /\ ran' = IF round.phase = "tasks" /\ round.item # <<>>
                  THEN [ran EXCEPT ![round.item[1].task].last = 0] ELSE ran
  BY DEF PanelStops, Phase, table, RoundShape
<1>2. /\ ran' \in [Tasks -> [last : 0..MaxTime, again : BOOLEAN]]
      /\ \A t \in Tasks : /\ ran'[t].again = ran[t].again
                          /\ ran'[t].last = IF Unrecorded(t) THEN 0 ELSE ran[t].last
  <2>1. ran \in [Tasks -> [last : 0..MaxTime, again : BOOLEAN]] /\ 0 \in 0..MaxTime
    BY SchedulerAssumption DEF SlotInv, TaskTypes
  <2>2. CASE round.phase = "tasks" /\ round.item # <<>>
    <3>1. ran' = [ran EXCEPT ![round.item[1].task].last = 0] /\ \A t : Unrecorded(t) <=> t = round.item[1].task
      BY <1>1, <2>2 DEF Unrecorded
    <3> DEFINE u == round.item[1].task
    <3> HIDE DEF u
    <3> QED BY <2>1, <3>1 DEF u
  <2>3. CASE ~(round.phase = "tasks" /\ round.item # <<>>)
    BY <1>1, <2>1, <2>3 DEF Unrecorded
  <2> QED BY <2>2, <2>3
<1>3. TaskTypes' /\ SlotsRunOnce' /\ ListedSlots'
  BY <1>1, <1>2 DEF SlotInv, TaskTypes, SlotsRunOnce, ListedSlots
<1>4. RunsAreRecorded'
  BY <1>1, <1>2 DEF SlotInv, TaskTypes, RunsAreRecorded
<1> QED BY <1>1, <1>3, <1>4 DEF SlotInv

\* An administrator edits a task: last_run stays.
LEMMA UpdateTaskKeeps ==
  ASSUME SlotInv, NEW r \in Requests, HandleUpdateTask(r)
  PROVE  SlotInv'
<1>1. PICK t \in Tasks, a \in TaskActions, c \in Crons, on \in BOOLEAN :
        tasks' = [tasks EXCEPT ![t].action = a, ![t].cron = c, ![t].enabled = on]
  BY Zenon DEF HandleUpdateTask
<1>2. UNCHANGED <<now, ran, round>>
  BY DEF HandleUpdateTask, world, hist
<1>3. /\ tasks' \in [Tasks -> [action : TaskActions, cron : Crons, enabled : BOOLEAN, lastRun : 0..MaxTime]]
      /\ \A u \in Tasks : tasks'[u].lastRun = tasks[u].lastRun
  <2> DEFINE Rows == [action : TaskActions, cron : Crons, enabled : BOOLEAN, lastRun : 0..MaxTime]
             edited == [tasks[t] EXCEPT !.action = a, !.cron = c, !.enabled = on]
  <2>1. tasks \in [Tasks -> Rows] /\ tasks[t] \in Rows
    BY DEF SlotInv, TaskTypes
  <2>2. edited \in Rows /\ edited.lastRun = tasks[t].lastRun
    BY <2>1
  <2>3. tasks' = [tasks EXCEPT ![t] = edited]
    BY <1>1, <2>1
  <2> HIDE DEF Rows, edited
  <2>4. tasks' \in [Tasks -> Rows] /\ \A u \in Tasks : tasks'[u].lastRun = tasks[u].lastRun
    BY <2>1, <2>2, <2>3
  <2> QED BY <2>4 DEF Rows
<1>4. TaskTypes' /\ SlotsRunOnce' /\ RoundShape' /\ ListedSlots' /\ RunsAreRecorded'
  BY <1>2, <1>3 DEF SlotInv, TaskTypes, SlotsRunOnce, RoundShape, ListedSlots, RunsAreRecorded, Unrecorded
<1> QED BY <1>4 DEF SlotInv

LEMMA RoundKeeps == SlotInv /\ RoundStep => SlotInv'
<1> SUFFICES ASSUME SlotInv, RoundStep PROVE SlotInv'
  OBVIOUS
<1>0. now \in now..MaxTime
  BY DEF SlotInv, TaskTypes
<1>1. CASE RunOnce \/ ReadExpiries \/ EndRound
  BY <1>0, <1>1, OtherSteps DEF RunOnce, ReadExpiries, EndRound, Phase, RoundShape, world, table, hist
<1>2. CASE ProbeInstance \/ StoreProbe \/ CheckExpiry \/ StopExpired
  <2>1. RoundShape' /\ round.phase # "tasks" /\ round'.phase = round.phase
    BY <1>2 DEF SlotInv, RoundShape, ProbeInstance, StoreProbe, CheckExpiry, StopExpired
  <2>2. UNCHANGED <<now, tasks, ran>>
    BY <1>2 DEF ProbeInstance, StoreProbe, CheckExpiry, StopExpired, world, table, hist
  <2> QED BY <1>0, <2>1, <2>2, OtherSteps
<1>3. CASE RecordRun
  <2>1. Unrecorded(round.item[1].task)
    BY <1>3 DEF RecordRun, Unrecorded
  <2> QED BY <1>3, <2>1, LastRunStep DEF RecordRun, world, hist
<1> QED BY <1>1, <1>2, <1>3, ReadTasksKeeps, RunDueTaskKeeps DEF RoundStep

LEMMA RequestKeeps ==
  ASSUME SlotInv, NEW r \in Requests, Arrives(r) \/ Continues(r)
  PROVE  SlotInv'
<1>0. now \in now..MaxTime
  BY DEF SlotInv, TaskTypes
<1>1. CASE RecordRequest(r)
  BY <1>1, LastRunStep DEF RecordRequest, world, hist
<1>2. CASE HandleInstanceAction(r) \/ ViewInstances(r) \/ HandleSetExpiry(r) \/ HandleResolveAlert(r)
           \/ HandleRunTask(r) \/ CallNode(r) \/ ConfirmStatus(r) \/ WriteStatus(r) \/ ResolveExpiry(r)
  <2>1. UNCHANGED <<now, tasks, ran, round>>
    BY <1>2 DEF HandleInstanceAction, ViewInstances, HandleSetExpiry, HandleResolveAlert, HandleRunTask, CallNode,
                ConfirmStatus, WriteStatus, ResolveExpiry, world, table, hist
  <2> QED BY <1>0, <2>1, OtherSteps DEF SlotInv, RoundShape
<1> QED BY <1>1, <1>2, UpdateTaskKeeps DEF Arrives, Continues

LEMMA SlotsKept == SlotInv /\ [SchedNext]_schedVars => SlotInv'
<1> SUFFICES ASSUME SlotInv, [SchedNext]_schedVars PROVE SlotInv'
  OBVIOUS
<1>1. CASE UNCHANGED schedVars \/ Tick \/ LinkFails \/ LinkReturns \/ PanelStarts
           \/ \E i \in Insts : ServerEnds(i) \/ ServerCrashes(i)
  <2>1. now' \in now..MaxTime /\ UNCHANGED <<tasks, ran, round>>
    <3>1. now' \in {now, now + 1} /\ (now' # now => now < MaxTime) /\ UNCHANGED <<tasks, ran, round>>
      BY <1>1 DEF schedVars, Tick, LinkFails, LinkReturns, PanelStarts, ServerEnds, ServerCrashes,
                  world, table, hist
    <3> QED BY <3>1, SchedulerAssumption DEF SlotInv, TaskTypes
  <2> QED BY <2>1, OtherSteps DEF SlotInv, RoundShape
<1> QED BY <1>1, RoundKeeps, RequestKeeps, PanelStopsKeeps DEF SchedNext

\* No round runs a slot of a task a second time, for any expressions, edits, runs by hand
\* and restarts of the panel; but for a run whose end the panel did not live to record.
THEOREM SlotsAreRunOnce == SchedSpec => []SlotsRunOnce
<1>1. ASSUME SchedInit PROVE SlotInv
  <2>1. now \in 1..MaxTime /\ 0 \in 0..MaxTime /\ Never \in 0..MaxTime
    BY <1>1, SchedulerAssumption DEF SchedInit, Never
  <2>2. \A t \in Tasks : ran[t].last = 0 /\ ran[t].again = FALSE
    BY <1>1 DEF SchedInit
  <2>3. TaskTypes
    <3>1. tasks \in [Tasks -> [action : TaskActions, cron : Crons, enabled : BOOLEAN, lastRun : 0..MaxTime]]
      BY <1>1, <2>1 DEF SchedInit
    <3>2. ran \in [Tasks -> [last : 0..MaxTime, again : BOOLEAN]]
      BY <1>1, <2>1 DEF SchedInit
    <3> QED BY <2>1, <2>2, <3>1, <3>2 DEF TaskTypes
  <2>4. RoundShape /\ ListedSlots
    BY <1>1 DEF SchedInit, RoundShape, ListedSlots
  <2> QED BY <2>2, <2>3, <2>4 DEF SlotInv, RunsAreRecorded, SlotsRunOnce, TaskTypes
<1>2. SlotInv => SlotsRunOnce
  BY DEF SlotInv
<1> QED BY <1>1, <1>2, SlotsKept, PTL DEF SchedSpec
-----------------------------------------------------------------------------
(* The searches over a cron expression (module Cron), on a calendar of any *)
(* size.  What a search is to find has a closed form, the least (greatest) *)
(* match of the minutes it may look at; that form obeys the steps of the   *)
(* search, so a function with these steps exists, and no two differ: at    *)
(* the minute where they would differ last the steps refer to later ones.  *)

\* A set of numbers that is not empty has a least member.
LEMMA LeastOf ==
  ASSUME NEW R, R \subseteq Nat, R # {}
  PROVE  \E r \in R : \A q \in R : r <= q
<1> DEFINE Below == {1..r : r \in R}
<1>1. Below \subseteq FiniteSubsetsOf(Nat) /\ Below # {}
  <2>1. \A r \in R : IsFiniteSet(1..r) /\ 1..r \subseteq Nat
    BY FS_Interval
  <2> QED BY <2>1 DEF FiniteSubsetsOf
<1>2. PICK b \in Below : \A c \in Below : <<c, b>> \notin StrictSubsetOrdering(Nat)
  BY <1>1, FS_StrictSubsetOrderingWellFounded, WFMin
<1>3. PICK r \in R : b = 1..r
  BY <1>2
<1>4. ASSUME NEW q \in R PROVE r <= q
  <2>1. 1..q \in Below /\ 1..q \subseteq Nat /\ 1..r \subseteq Nat
    OBVIOUS
  <2>2. ~(1..q \subseteq 1..r /\ 1..q # 1..r)
    BY <1>2, <1>3, <2>1 DEF StrictSubsetOrdering
  <2>3. SUFFICES ASSUME q < r PROVE FALSE
    OBVIOUS
  <2>4. 1..q \subseteq 1..r /\ r \in 1..r /\ r \notin 1..q
    BY <2>3
  <2> QED BY <2>2, <2>4
<1> QED BY <1>4

\* Multiplying keeps the order.
LEMMA ProductsOrdered ==
  ASSUME NEW m \in Nat, NEW a \in Int, NEW b \in Int, a <= b PROVE m * a <= m * b
<1>1. m * (b - a) \in Nat
  OBVIOUS
<1>2. m * b = m * a + m * (b - a)
  OBVIOUS
<1> QED BY <1>1, <1>2

\* An hour lasts to its last minute.
LEMMA HourLasts ==
  ASSUME MinutesPerHour \in Nat \ {0}, NEW t \in Int, NEW u \in Int,
         StartOfHour(t) <= u, u < StartOfHour(t) + MinutesPerHour
  PROVE  HourOf(u) = HourOf(t)
<1> DEFINE M == MinutesPerHour  q == t \div M  p == u \div M
<1>1. t = M * q + (t % M) /\ q \in Int /\ t % M \in 0..M - 1
  OBVIOUS
<1>2. u = M * p + (u % M) /\ p \in Int /\ u % M \in 0..M - 1
  OBVIOUS
<1>3. u >= M * q /\ u < M * q + M
  BY <1>1 DEF StartOfHour, MinuteOf
<1>4. M * (p + 1) = M * p + M /\ M * (q + 1) = M * q + M /\ M \in Nat
  BY <1>1, <1>2
<1> HIDE DEF p, q
<1>5. ~(p < q)
  <2> SUFFICES ASSUME p < q PROVE FALSE
    OBVIOUS
  <2>1. M * (p + 1) <= M * q
    BY <1>1, <1>2, <1>4, ProductsOrdered
  <2> QED BY <1>1, <1>2, <1>3, <1>4, <2>1
<1>6. ~(q < p)
  <2> SUFFICES ASSUME q < p PROVE FALSE
    OBVIOUS
  <2>1. M * (q + 1) <= M * p
    BY <1>1, <1>2, <1>4, ProductsOrdered
  <2> QED BY <1>1, <1>2, <1>3, <1>4, <2>1
<1>7. p = q
  BY <1>1, <1>2, <1>5, <1>6
<1> QED BY <1>7 DEF HourOf, p, q

\* ------------------------------------------------------------------ searches

Slots(s, lo, hi) == {u \in lo..hi : Match(s, u)}
Earliest(S) == IF S = {} THEN None ELSE CHOOSE u \in S : \A v \in S : u <= v

\* A set of minutes with a lower bound has an earliest one.
LEMMA EarliestIsLeast ==
  ASSUME NEW S, NEW lo \in Int, \A u \in S : u \in Int /\ lo <= u, S # {}
  PROVE  Earliest(S) \in S /\ \A v \in S : Earliest(S) <= v
<1>1. {u - lo : u \in S} \subseteq Nat /\ {u - lo : u \in S} # {}
  OBVIOUS
<1>2. PICK r \in {u - lo : u \in S} : \A q \in {u - lo : u \in S} : r <= q
  BY <1>1, LeastOf
<1>3. PICK u \in S : r = u - lo
  BY <1>2
<1>4. \A v \in S : u <= v
  <2> TAKE v \in S
  <2>1. r <= v - lo
    BY <1>2
  <2> QED BY <1>3, <2>1
<1> QED BY <1>4 DEF Earliest

\* A minute that is not after any other of its set is the earliest.
LEMMA EarliestIsOne ==
  ASSUME NEW S, NEW u \in S, S \subseteq Int, \A v \in S : u <= v
  PROVE  Earliest(S) = u
<1>1. \A w \in S : (\A v \in S : w <= v) => w = u
  OBVIOUS
<1> QED BY <1>1 DEF Earliest

\* A minute only matches if its hour does.
LEMMA MatchNeedsItsHour ==
  ASSUME NEW s, NEW t, Match(s, t) PROVE HourOf(t) \in s.hour
BY DEF Match

\* One step of the search forward, with what the rest of the search finds.
Onward(s, limit, rest, t) ==
  IF t >= limit THEN None
  ELSE IF Match(s, t) THEN t
  ELSE IF HourOf(t) \notin s.hour THEN rest[StartOfHour(t) + MinutesPerHour]
  ELSE rest[t + 1]

\* An hour begins not after its minutes and ends after them.
LEMMA NextHour ==
  ASSUME MinutesPerHour \in Nat \ {0}, NEW t \in Int
  PROVE  /\ StartOfHour(t) \in Int /\ StartOfHour(t) <= t
         /\ t < StartOfHour(t) + MinutesPerHour
BY DEF StartOfHour, MinuteOf

\* A search that steps over what holds no match keeps the earliest match.
LEMMA OnwardKeepsEarliest ==
  ASSUME MinutesPerHour \in Nat \ {0}, NEW s, NEW lo \in Int, NEW limit \in Int,
         NEW t \in lo..limit + MinutesPerHour
  PROVE  LET G == [u \in lo..limit + MinutesPerHour |-> Earliest(Slots(s, u, limit - 1))]
         IN  G[t] = Onward(s, limit, G, t)
<1> DEFINE D == lo..limit + MinutesPerHour
           G == [u \in D |-> Earliest(Slots(s, u, limit - 1))]
<1>0. t \in Int /\ G[t] = Earliest(Slots(s, t, limit - 1))
  OBVIOUS
<1> SUFFICES G[t] = Onward(s, limit, G, t)
  OBVIOUS
<1>1. CASE t >= limit
  <2>1. Slots(s, t, limit - 1) = {}
    BY <1>0, <1>1 DEF Slots
  <2> QED BY <1>0, <1>1, <2>1 DEF Earliest, Onward
<1>2. CASE t < limit /\ Match(s, t)
  <2>1. /\ t \in Slots(s, t, limit - 1) /\ Slots(s, t, limit - 1) \subseteq Int
        /\ \A v \in Slots(s, t, limit - 1) : t <= v
    BY <1>0, <1>2 DEF Slots
  <2>2. Earliest(Slots(s, t, limit - 1)) = t
    BY <2>1, EarliestIsOne
  <2>3. ~(t >= limit)
    BY <1>0, <1>2
  <2> QED BY <1>0, <1>2, <2>2, <2>3 DEF Onward
<1>3. CASE t < limit /\ ~Match(s, t)
  <2> DEFINE next == IF HourOf(t) \notin s.hour THEN StartOfHour(t) + MinutesPerHour ELSE t + 1
  <2>1. next \in Int /\ t < next /\ next <= t + MinutesPerHour
    BY <1>0, NextHour
  <2>2. \A u \in Int : t <= u /\ u < next => ~Match(s, u)
    <3> SUFFICES ASSUME NEW u \in Int, t <= u, u < next PROVE ~Match(s, u)
      OBVIOUS
    <3>1. CASE HourOf(t) \notin s.hour
      <4>1. StartOfHour(t) <= u /\ u < StartOfHour(t) + MinutesPerHour
        BY <1>0, <3>1, NextHour
      <4>2. HourOf(u) = HourOf(t)
        BY <1>0, <4>1, HourLasts
      <4> QED BY <3>1, <4>2, MatchNeedsItsHour
    <3>2. CASE HourOf(t) \in s.hour
      <4>1. u = t
        BY <1>0, <3>2
      <4> QED BY <1>3, <4>1
    <3> QED BY <3>1, <3>2
  <2>3. next \in D
    BY <1>0, <1>3, <2>1
  <2>5. ~(t >= limit)
    BY <1>0, <1>3
  <2>6. Onward(s, limit, G, t) = G[next]
    BY <1>3, <2>5 DEF Onward
  <2>4. Slots(s, t, limit - 1) = Slots(s, next, limit - 1)
    <3> HIDE DEF next
    <3> QED BY <1>0, <2>1, <2>2 DEF Slots
  <2> HIDE DEF next
  <2>7. G[next] = Earliest(Slots(s, next, limit - 1))
    BY <2>3
  <2> QED BY <1>0, <2>4, <2>6, <2>7
<1> QED BY <1>0, <1>1, <1>2, <1>3

\* A set of minutes with an upper bound has a last one.
LEMMA GreatestOf ==
  ASSUME NEW S, NEW hi \in Int, \A u \in S : u \in Int /\ u <= hi, S # {}
  PROVE  \E u \in S : \A v \in S : v <= u
<1>1. {hi - u : u \in S} \subseteq Nat /\ {hi - u : u \in S} # {}
  OBVIOUS
<1>2. PICK r \in {hi - u : u \in S} : \A q \in {hi - u : u \in S} : r <= q
  BY <1>1, LeastOf
<1>3. PICK u \in S : r = hi - u
  BY <1>2
<1>4. \A v \in S : v <= u
  <2> TAKE v \in S
  <2>1. r <= hi - v
    BY <1>2
  <2> QED BY <1>3, <2>1
<1> QED BY <1>4

\* Where a search onward goes next, if it goes on.
OnwardTo(s, t) == IF HourOf(t) \notin s.hour THEN StartOfHour(t) + MinutesPerHour ELSE t + 1

\* A search onward advances, by an hour at most.
LEMMA GoesOnward ==
  ASSUME MinutesPerHour \in Nat \ {0}, NEW s, NEW t \in Int
  PROVE  OnwardTo(s, t) \in Int /\ t < OnwardTo(s, t) /\ OnwardTo(s, t) <= t + MinutesPerHour
BY NextHour DEF OnwardTo

\* F is what the searches onward from lo and later find.
Searches(F, s, lo, limit) == \A t \in lo..limit + MinutesPerHour : F[t] = Onward(s, limit, F, t)

\* Two searches that go by the same steps find the same.
LEMMA OneSearchOnward ==
  ASSUME MinutesPerHour \in Nat \ {0}, NEW s, NEW lo \in Int, NEW limit \in Int,
         NEW F, NEW G, Searches(F, s, lo, limit), Searches(G, s, lo, limit)
  PROVE  \A t \in lo..limit + MinutesPerHour : F[t] = G[t]
<1> DEFINE D == lo..limit + MinutesPerHour
           Wrong == {t \in D : F[t] # G[t]}
<1>1. ASSUME Wrong # {} PROVE FALSE
  <2>1. \A t \in Wrong : t \in Int /\ t <= limit + MinutesPerHour
    OBVIOUS
  <2>2. PICK u \in Wrong : \A v \in Wrong : v <= u
    <3> HIDE DEF Wrong
    <3> QED BY <1>1, <2>1, GreatestOf
  <2>3. u \in D /\ u \in Int /\ F[u] # G[u]
    OBVIOUS
  <2>4. ASSUME NEW v \in D, u < v PROVE F[v] = G[v]
    BY <2>2, <2>3, <2>4
  <2>5. F[u] = Onward(s, limit, F, u) /\ G[u] = Onward(s, limit, G, u)
    BY <2>3 DEF Searches
  <2>6. u < limit /\ ~Match(s, u)
    BY <2>3, <2>5 DEF Onward
  <2>7. F[u] = F[OnwardTo(s, u)] /\ G[u] = G[OnwardTo(s, u)]
    BY <2>3, <2>5, <2>6 DEF Onward, OnwardTo
  <2>8. OnwardTo(s, u) \in D /\ u < OnwardTo(s, u)
    BY <2>3, <2>6, GoesOnward
  <2> HIDE DEF D
  <2> QED BY <2>3, <2>4, <2>7, <2>8
<1> QED BY <1>1

\* Next finds the earliest match of a year and a day.
LEMMA NextFindsEarliest ==
  ASSUME MinutesPerHour \in Nat \ {0}, Year \in Nat, Day \in Nat, NEW s, NEW after \in Int
  PROVE  NextMatch(s, after) = Earliest(Slots(s, after + 1, after + Year + Day))
<1> DEFINE limit == after + 1 + Year + Day
           D == after..limit + MinutesPerHour
           G == [u \in D |-> Earliest(Slots(s, u, limit - 1))]
           Steps(f) == [t \in D |-> IF t >= limit THEN None
                                    ELSE IF Match(s, t) THEN t
                                    ELSE IF HourOf(t) \notin s.hour THEN f[StartOfHour(t) + MinutesPerHour]
                                    ELSE f[t + 1]]
           F == CHOOSE f : f = Steps(f)
<1>1. limit \in Int /\ after + 1 \in D /\ limit - 1 = after + Year + Day
  OBVIOUS
<1>2. G = Steps(G)
  <2>1. \A t \in D : G[t] = Onward(s, limit, G, t)
    BY <1>1, OnwardKeepsEarliest
  <2> QED BY <2>1 DEF Onward
<1>3. F = Steps(F)
  <2> HIDE DEF Steps, G
  <2> QED BY <1>2, Zenon
<1>4. Searches(F, s, after, limit) /\ Searches(G, s, after, limit)
  <2>1. \A t \in D : G[t] = Onward(s, limit, G, t)
    BY <1>1, OnwardKeepsEarliest
  <2>2. \A t \in D : F[t] = Onward(s, limit, F, t)
    <3> HIDE DEF F
    <3> QED BY <1>3 DEF Onward
  <2> QED BY <2>1, <2>2 DEF Searches
<1>5. F[after + 1] = G[after + 1]
  <2> HIDE DEF F, G, limit
  <2>1. \A t \in D : F[t] = G[t]
    BY <1>1, <1>4, OneSearchOnward
  <2> QED BY <1>1, <2>1
<1>6. NextMatch(s, after) = F[after + 1]
  BY Zenon DEF NextMatch
<1> QED BY <1>1, <1>5, <1>6

\* Next (cron.go) returns the first matching minute after a time, within a year and a day,
\* and nothing only if none matches: the hours it skips hold no match, whatever the
\* calendar, the expression and the time.
THEOREM NextIsFirst ==
  ASSUME MinutesPerHour \in Nat \ {0}, Year \in Nat, Day \in Nat
  PROVE  \A s : \A after \in Int : NextIsNearest(s, after)
<1> SUFFICES ASSUME NEW s, NEW after \in Int PROVE NextIsNearest(s, after)
  OBVIOUS
<1> DEFINE later == {t \in after + 1..after + Year + Day : Match(s, t)}
<1>1. NextMatch(s, after) = Earliest(later)
  BY NextFindsEarliest DEF Slots
<1>2. later # {} => Earliest(later) \in later /\ \A t \in later : Earliest(later) <= t
  <2>1. \A u \in later : u \in Int /\ after + 1 <= u
    OBVIOUS
  <2> HIDE DEF later
  <2> QED BY <2>1, EarliestIsLeast
<1>3. later = {} => Earliest(later) = None
  BY DEF Earliest
<1> QED BY <1>1, <1>2, <1>3, Zenon DEF NextIsNearest

\* ------------------------------------------------------- the search back

Latest(S) == IF S = {} THEN None ELSE CHOOSE u \in S : \A v \in S : u >= v

\* A set of minutes with an upper bound has a latest one.
LEMMA LatestIsGreatest ==
  ASSUME NEW S, NEW hi \in Int, \A u \in S : u \in Int /\ u <= hi, S # {}
  PROVE  Latest(S) \in S /\ \A v \in S : Latest(S) >= v
<1>1. PICK u \in S : \A v \in S : v <= u
  BY GreatestOf
<1>2. \A v \in S : u >= v
  BY <1>1
<1> QED BY <1>2 DEF Latest

\* A minute that is not before any other of its set is the latest.
LEMMA LatestIsOne ==
  ASSUME NEW S, NEW u \in S, S \subseteq Int, \A v \in S : u >= v
  PROVE  Latest(S) = u
<1>1. \A w \in S : (\A v \in S : w >= v) => w = u
  OBVIOUS
<1> QED BY <1>1 DEF Latest

\* One step of the search back, with what the rest of the search finds.
Back(s, limit, rest, t) ==
  IF t <= limit THEN None
  ELSE IF Match(s, t) THEN t
  ELSE IF HourOf(t) \notin s.hour THEN rest[StartOfHour(t) - 1]
  ELSE rest[t - 1]

\* Where it goes next, if it goes on.
BackTo(s, t) == IF HourOf(t) \notin s.hour THEN StartOfHour(t) - 1 ELSE t - 1

\* A search back recedes, by an hour at most.
LEMMA GoesBack ==
  ASSUME MinutesPerHour \in Nat \ {0}, NEW s, NEW t \in Int
  PROVE  BackTo(s, t) \in Int /\ BackTo(s, t) < t /\ t - MinutesPerHour <= BackTo(s, t)
BY NextHour DEF BackTo

\* A search back that steps over what holds no match keeps the latest match.
LEMMA BackKeepsLatest ==
  ASSUME MinutesPerHour \in Nat \ {0}, NEW s, NEW hi \in Int, NEW limit \in Int,
         NEW t \in limit - MinutesPerHour..hi
  PROVE  LET G == [u \in limit - MinutesPerHour..hi |-> Latest(Slots(s, limit + 1, u))]
         IN  G[t] = Back(s, limit, G, t)
<1> DEFINE D == limit - MinutesPerHour..hi
           G == [u \in D |-> Latest(Slots(s, limit + 1, u))]
<1>0. t \in Int /\ G[t] = Latest(Slots(s, limit + 1, t))
  OBVIOUS
<1> SUFFICES G[t] = Back(s, limit, G, t)
  OBVIOUS
<1>1. CASE t <= limit
  <2>1. Slots(s, limit + 1, t) = {}
    BY <1>0, <1>1 DEF Slots
  <2> QED BY <1>0, <1>1, <2>1 DEF Latest, Back
<1>2. CASE t > limit /\ Match(s, t)
  <2>1. /\ t \in Slots(s, limit + 1, t) /\ Slots(s, limit + 1, t) \subseteq Int
        /\ \A v \in Slots(s, limit + 1, t) : t >= v
    BY <1>0, <1>2 DEF Slots
  <2>2. Latest(Slots(s, limit + 1, t)) = t
    BY <2>1, LatestIsOne
  <2>3. ~(t <= limit)
    BY <1>0, <1>2
  <2> QED BY <1>0, <1>2, <2>2, <2>3 DEF Back
<1>3. CASE t > limit /\ ~Match(s, t)
  <2>1. BackTo(s, t) \in Int /\ BackTo(s, t) < t /\ t - MinutesPerHour <= BackTo(s, t)
    BY <1>0, GoesBack
  <2>2. \A u \in Int : BackTo(s, t) < u /\ u <= t => ~Match(s, u)
    <3> SUFFICES ASSUME NEW u \in Int, BackTo(s, t) < u, u <= t PROVE ~Match(s, u)
      OBVIOUS
    <3>1. CASE HourOf(t) \notin s.hour
      <4>1. StartOfHour(t) <= u /\ u < StartOfHour(t) + MinutesPerHour
        BY <1>0, <3>1, NextHour DEF BackTo
      <4>2. HourOf(u) = HourOf(t)
        BY <1>0, <4>1, HourLasts
      <4> QED BY <3>1, <4>2, MatchNeedsItsHour
    <3>2. CASE HourOf(t) \in s.hour
      <4>1. u = t
        BY <1>0, <3>2 DEF BackTo
      <4> QED BY <1>3, <4>1
    <3> QED BY <3>1, <3>2
  <2>3. BackTo(s, t) \in D
    BY <1>0, <1>3, <2>1
  <2>4. ~(t <= limit)
    BY <1>0, <1>3
  <2>5. Back(s, limit, G, t) = G[BackTo(s, t)]
    BY <1>3, <2>4 DEF Back, BackTo
  <2>6. Slots(s, limit + 1, t) = Slots(s, limit + 1, BackTo(s, t))
    BY <1>0, <2>1, <2>2 DEF Slots
  <2>7. G[BackTo(s, t)] = Latest(Slots(s, limit + 1, BackTo(s, t)))
    BY <2>3
  <2> QED BY <1>0, <2>5, <2>6, <2>7
<1> QED BY <1>0, <1>1, <1>2, <1>3

\* F is what the searches back from hi and earlier find.
SearchesBack(F, s, limit, hi) == \A t \in limit - MinutesPerHour..hi : F[t] = Back(s, limit, F, t)

\* Two searches back that go by the same steps find the same.
LEMMA OneSearchBack ==
  ASSUME MinutesPerHour \in Nat \ {0}, NEW s, NEW hi \in Int, NEW limit \in Int,
         NEW F, NEW G, SearchesBack(F, s, limit, hi), SearchesBack(G, s, limit, hi)
  PROVE  \A t \in limit - MinutesPerHour..hi : F[t] = G[t]
<1> DEFINE D == limit - MinutesPerHour..hi
           Wrong == {t \in D : F[t] # G[t]}
<1>1. ASSUME Wrong # {} PROVE FALSE
  <2>1. \A t \in Wrong : t \in Int /\ limit - MinutesPerHour <= t
    OBVIOUS
  <2>2. PICK u \in Wrong : \A v \in Wrong : u <= v
    <3> DEFINE lo == limit - MinutesPerHour
    <3>1. lo \in Int /\ \A t \in Wrong : t \in Int /\ lo <= t
      OBVIOUS
    <3> HIDE DEF Wrong, lo
    <3> QED BY <1>1, <3>1, EarliestIsLeast
  <2>3. u \in D /\ u \in Int /\ F[u] # G[u]
    OBVIOUS
  <2>4. ASSUME NEW v \in D, v < u PROVE F[v] = G[v]
    BY <2>2, <2>3, <2>4
  <2>5. F[u] = Back(s, limit, F, u) /\ G[u] = Back(s, limit, G, u)
    BY <2>3 DEF SearchesBack
  <2>6. u > limit /\ ~Match(s, u)
    BY <2>3, <2>5 DEF Back
  <2>7. F[u] = F[BackTo(s, u)] /\ G[u] = G[BackTo(s, u)]
    BY <2>3, <2>5, <2>6 DEF Back, BackTo
  <2>8. BackTo(s, u) \in D /\ BackTo(s, u) < u
    BY <2>3, <2>6, GoesBack
  <2> HIDE DEF D
  <2> QED BY <2>3, <2>4, <2>7, <2>8
<1> QED BY <1>1

\* Prev finds the latest match of a year.
LEMMA PrevFindsLatest ==
  ASSUME MinutesPerHour \in Nat \ {0}, Year \in Nat, NEW s, NEW before \in Int
  PROVE  PrevMatch(s, before) = Latest(Slots(s, before - Year + 1, before))
<1> DEFINE limit == before - Year
           D == limit - MinutesPerHour..before
           G == [u \in D |-> Latest(Slots(s, limit + 1, u))]
           Steps(f) == [t \in D |-> IF t <= limit THEN None
                                    ELSE IF Match(s, t) THEN t
                                    ELSE IF HourOf(t) \notin s.hour THEN f[StartOfHour(t) - 1]
                                    ELSE f[t - 1]]
           F == CHOOSE f : f = Steps(f)
<1>1. limit \in Int /\ before \in D
  OBVIOUS
<1>2. \A t \in D : G[t] = Back(s, limit, G, t)
  BY <1>1, BackKeepsLatest
<1>3. G = Steps(G)
  BY <1>2 DEF Back
<1>4. F = Steps(F)
  <2> HIDE DEF Steps, G
  <2> QED BY <1>3, Zenon
<1>5. SearchesBack(F, s, limit, before) /\ SearchesBack(G, s, limit, before)
  <2>1. \A t \in D : F[t] = Back(s, limit, F, t)
    <3> HIDE DEF F
    <3> QED BY <1>4 DEF Back
  <2> QED BY <1>2, <2>1 DEF SearchesBack
<1>6. F[before] = G[before]
  <2> HIDE DEF F, G, limit
  <2>1. \A t \in D : F[t] = G[t]
    BY <1>1, <1>5, OneSearchBack
  <2> QED BY <1>1, <2>1
<1>7. PrevMatch(s, before) = F[before]
  BY Zenon DEF PrevMatch
<1> QED BY <1>1, <1>6, <1>7

\* Prev (cron.go) returns the last matching minute up to a time, within a year, and nothing
\* only if none matches.
THEOREM PrevIsLast ==
  ASSUME MinutesPerHour \in Nat \ {0}, Year \in Nat
  PROVE  \A s : \A before \in Int : PrevIsNearest(s, before)
<1> SUFFICES ASSUME NEW s, NEW before \in Int PROVE PrevIsNearest(s, before)
  OBVIOUS
<1> DEFINE earlier == {t \in before - Year + 1..before : Match(s, t)}
<1>1. PrevMatch(s, before) = Latest(earlier)
  BY PrevFindsLatest DEF Slots
<1>2. earlier # {} => Latest(earlier) \in earlier /\ \A t \in earlier : Latest(earlier) >= t
  <2>1. \A u \in earlier : u \in Int /\ u <= before
    OBVIOUS
  <2> HIDE DEF earlier
  <2> QED BY <2>1, LatestIsGreatest
<1>3. earlier = {} => Latest(earlier) = None
  BY DEF Latest
<1> QED BY <1>1, <1>2, <1>3, Zenon DEF PrevIsNearest

\* A run at the latest slot is followed by the next slot (Prev, then Next): none lies
\* between, if the two are no further apart than Next looks ahead.
THEOREM NoSlotBetween ==
  ASSUME MinutesPerHour \in Nat \ {0}, Year \in Nat \ {0}, Day \in Nat
  PROVE  \A s : \A t \in Nat :
           NextMatch(s, t) <= PrevMatch(s, t) + Year + Day => SlotsAdjoin(s, t)
<1> SUFFICES ASSUME NEW s, NEW t \in Nat, NextMatch(s, t) <= PrevMatch(s, t) + Year + Day,
                    PrevMatch(s, t) # None, NextMatch(s, t) # None
             PROVE  /\ NextMatch(s, PrevMatch(s, t)) = NextMatch(s, t)
                    /\ PrevMatch(s, NextMatch(s, t)) = NextMatch(s, t)
  BY Zenon DEF SlotsAdjoin
<1> DEFINE prev == PrevMatch(s, t)  next == NextMatch(s, t)
<1>1. /\ prev \in Int /\ prev <= t /\ Match(s, prev)
      /\ \A u \in Int : prev < u /\ u <= t => ~Match(s, u)
  <2>1. PrevIsNearest(s, t)
    BY PrevIsLast
  <2>2. prev \in {u \in t - Year + 1..t : Match(s, u)} /\ \A u \in {u \in t - Year + 1..t : Match(s, u)} : prev >= u
    BY <2>1 DEF PrevIsNearest
  <2> HIDE DEF prev
  <2> QED BY <2>2
<1>2. /\ next \in Int /\ t < next /\ Match(s, next)
      /\ \A u \in Int : t < u /\ u < next => ~Match(s, u)
  <2>1. NextIsNearest(s, t)
    BY NextIsFirst
  <2>2. next \in {u \in t + 1..t + Year + Day : Match(s, u)} /\ \A u \in {u \in t + 1..t + Year + Day : Match(s, u)} : next <= u
    BY <2>1 DEF NextIsNearest
  <2> HIDE DEF next
  <2> QED BY <2>2
<1>3. next <= prev + Year + Day
  OBVIOUS
<1> HIDE DEF prev, next
<1>4. NextMatch(s, prev) = next
  <2>1. NextIsNearest(s, prev)
    BY <1>1, NextIsFirst
  <2> DEFINE later == {u \in prev + 1..prev + Year + Day : Match(s, u)}
  <2>2. next \in later /\ \A u \in later : next <= u
    BY <1>1, <1>2, <1>3
  <2>3. NextMatch(s, prev) \in later /\ \A u \in later : NextMatch(s, prev) <= u
    BY <2>1, <2>2 DEF NextIsNearest
  <2>4. later \subseteq Int
    BY <1>1
  <2>5. NextMatch(s, prev) <= next /\ next <= NextMatch(s, prev)
    BY <2>2, <2>3
  <2>6. NextMatch(s, prev) \in Int /\ next \in Int
    BY <2>2, <2>3, <2>4
  <2> QED BY <2>5, <2>6
<1>5. PrevMatch(s, next) = next
  <2>1. PrevIsNearest(s, next)
    BY <1>2, PrevIsLast
  <2> DEFINE earlier == {u \in next - Year + 1..next : Match(s, u)}
  <2>2. next \in earlier /\ \A u \in earlier : next >= u
    BY <1>2
  <2>3. PrevMatch(s, next) \in earlier /\ \A u \in earlier : PrevMatch(s, next) >= u
    BY <2>1, <2>2 DEF PrevIsNearest
  <2>4. earlier \subseteq Int
    BY <1>2
  <2>5. PrevMatch(s, next) >= next /\ next >= PrevMatch(s, next)
    BY <2>2, <2>3
  <2>6. PrevMatch(s, next) \in Int /\ next \in Int
    BY <2>2, <2>3, <2>4
  <2> QED BY <2>5, <2>6
<1> QED BY <1>4, <1>5 DEF prev, next

\* The set of minutes that Scheduler takes for an expression is enough: within a year, the
\* slot that Due compares with the last run is the one that Prev of cron.go finds.
THEOREM DueReadsLatestSlot ==
  ASSUME MinutesPerHour \in Nat \ {0}, Year \in Nat, NEW s, NEW cron \in Crons,
         NEW t \in 1..MaxTime, t <= Year, \A u \in 1..MaxTime : u \in cron <=> Match(s, u)
  PROVE  /\ Prev(cron, t) > 0 <=> PrevMatch(s, t) > 0
         /\ Prev(cron, t) > 0 => Prev(cron, t) = PrevMatch(s, t)
<1> DEFINE earlier == {u \in t - Year + 1..t : Match(s, u)}
           found == PrevMatch(s, t)
<1>0. t \in Int /\ MaxTime \in Nat /\ cron \subseteq 1..MaxTime /\ Year \in Int
  BY SchedulerAssumption
<1>1. IF earlier = {} THEN found = None ELSE found \in earlier /\ \A u \in earlier : found >= u
  BY <1>0, PrevIsLast DEF PrevIsNearest
<1>2. Matches(cron, t) = {u \in earlier : u > 0} /\ Matches(cron, t) \subseteq Int
  <2>1. ASSUME NEW u \in cron, u <= t PROVE u \in earlier /\ u > 0 /\ u \in Int
    <3>1. u \in 1..MaxTime /\ Match(s, u)
      BY <1>0
    <3>2. u \in t - Year + 1..t /\ u \in Int /\ u > 0
      BY <1>0, <2>1, <3>1
    <3> QED BY <3>1, <3>2
  <2>2. ASSUME NEW u \in earlier, u > 0 PROVE u \in cron /\ u <= t
    <3>1. u \in 1..MaxTime /\ u <= t /\ Match(s, u)
      BY <1>0, <2>2
    <3> QED BY <3>1
  <2> HIDE DEF earlier
  <2> QED BY <2>1, <2>2 DEF Matches
<1>3. CASE Matches(cron, t) = {}
  <2>1. Prev(cron, t) = 0
    BY <1>3 DEF Prev
  <2>2. ~(found > 0)
    BY <1>1, <1>2, <1>3 DEF None
  <2> QED BY <2>1, <2>2
<1>4. CASE Matches(cron, t) # {}
  <2>1. /\ found \in Matches(cron, t) /\ found > 0
        /\ \A n \in Matches(cron, t) : n <= found
    <3>1. PICK m \in earlier : m > 0
      BY <1>2, <1>4
    <3>2. found \in earlier /\ \A u \in earlier : found >= u
      BY <1>1, <3>1
    <3>3. found >= m /\ found \in Int /\ m \in Int
      BY <1>0, <3>1, <3>2
    <3>4. found > 0
      BY <3>1, <3>3
    <3>5. ASSUME NEW n \in Matches(cron, t) PROVE n <= found
      <4>1. found >= n
        BY <1>2, <3>2, <3>5
      <4> QED BY <4>1
    <3> HIDE DEF earlier, found
    <3> QED BY <1>2, <3>2, <3>4, <3>5
  <2> HIDE DEF found, earlier
  <2>3. \A m \in Matches(cron, t) : (\A n \in Matches(cron, t) : n <= m) => m = found
    BY <1>2, <2>1
  <2>4. Prev(cron, t) = found
    BY <1>4, <2>1, <2>3, Zenon DEF Prev
  <2> QED BY <2>1, <2>4 DEF found
<1> QED BY <1>3, <1>4
=============================================================================
