--------------------------- MODULE JobQueueProofs ---------------------------
(***************************************************************************)
(* Theorems about two parts of the Daemon's gRPC service: JobQueue, for    *)
(* any sets of ids and workers and any bounds, and Console, for any set of *)
(* clients, any capacity of the channels and any bounds.                   *)
(***************************************************************************)
EXTENDS JobQueue, Console, TLAPS, FiniteSetTheorems, SequenceTheorems, WellFoundedInduction

\* What Next does, one disjunct per action, for the case splits below.
LEMMA NextCases ==
  ASSUME Next
  PROVE  \/ \E i \in Ids : Submit(i)
         \/ \E i \in Ids : Cancel(i)
         \/ \E c \in 1..MaxSubmits : CallCancel(c)
         \/ Stop \/ StopSignal
         \/ \E w \in Workers : Claim(w)
         \/ \E w \in Workers : FindNothing(w)
         \/ \E w \in Workers : TakeToken(w)
         \/ \E w \in Workers : TimeOut(w)
         \/ \E w \in Workers : CheckStopped(w)
         \/ \E w \in Workers : BeginRun(w)
         \/ \E w \in Workers, err \in BOOLEAN : EndRun(w, err)
         \/ ReaperTick \/ ReaperSweep \/ Tick
  BY DEF Next, WorkerStep

\* What is left of the FIFO after a claim.
LEMMA TailType ==
  ASSUME NEW s \in Seq(Ids), NEW k \in 1..Len(s)
  PROVE  SubSeq(s, k + 1, Len(s)) \in Seq(Ids)
  OBVIOUS

LEMMA NoneIsRecord == None \in Record /\ None.state = "none"
  BY DEF None, Record, States

-----------------------------------------------------------------------------
(* Type correctness.                                                       *)

LEMMA TypeInit == Init => TypeOK
<1> SUFFICES ASSUME Init PROVE TypeOK
  OBVIOUS
<1>1. jobs \in [Ids -> Record]
  BY NoneIsRecord DEF Init
<1>2. cur \in [Workers -> [id : Ids \cup {"idle"}, seq : Nat]]
  BY DEF Init, Idle
<1>3. pending \in Seq(Ids) /\ pc \in [Workers -> PCs]
  BY DEF Init, PCs
<1>4. submits \in Nat /\ now \in Nat /\ running \in Int /\ wake \in {0, 1}
  BY DEF Init
<1> QED BY <1>1, <1>2, <1>3, <1>4 DEF Init, TypeOK

LEMMA TypeStep == TypeOK /\ ClaimedStaysRunning /\ [Next]_vars => TypeOK'
<1> SUFFICES ASSUME TypeOK, ClaimedStaysRunning, [Next]_vars PROVE TypeOK'
  OBVIOUS
<1> USE ConstantsAssumption
<1>1. ASSUME NEW i \in Ids, Submit(i) PROVE TypeOK'
  <2>1. jobs' \in [Ids -> Record]
    <3>1. PICK E : jobs' = [k \in Ids |->
                  IF k = i THEN [None EXCEPT !.state = "queued", !.seq = submits + 1]
                  ELSE IF k \in E THEN None ELSE jobs[k]]
      BY <1>1 DEF Submit
    <3>2. [None EXCEPT !.state = "queued", !.seq = submits + 1] \in Record
      <4>1. submits + 1 \in Nat
        BY DEF TypeOK
      <4> QED BY <4>1, NoneIsRecord DEF Record, States
    <3> QED BY <3>1, <3>2, NoneIsRecord DEF TypeOK
  <2>2. pending' \in Seq(Ids)
    BY <1>1 DEF Submit, TypeOK
  <2> QED BY <1>1, <2>1, <2>2 DEF Submit, TypeOK
<1>2. ASSUME NEW i \in Ids, Cancel(i) PROVE TypeOK'
  <2>1. jobs[i] \in Record /\ now \in Nat
    BY DEF TypeOK
  <2>2. jobs' \in [Ids -> Record]
    BY <1>2, <2>1 DEF Cancel, TypeOK, Record, States
  <2>3. cancels' \subseteq Nat
    BY <1>2, <2>1 DEF Cancel, TypeOK, Record
  <2> QED BY <1>2, <2>2, <2>3 DEF Cancel, TypeOK
<1>3. ASSUME NEW c \in 1..MaxSubmits, CallCancel(c) PROVE TypeOK'
  BY <1>3 DEF CallCancel, TypeOK
<1>4. CASE Stop
  BY <1>4 DEF Stop, TypeOK
<1>5. CASE StopSignal
  BY <1>5 DEF StopSignal, TypeOK
<1>6. ASSUME NEW w \in Workers, Claim(w) PROVE TypeOK'
  <2>1. PICK k \in 1..Len(pending) :
          /\ jobs' = [jobs EXCEPT ![pending[k]].state = "running", ![pending[k]].ctx = TRUE]
          /\ cur' = [cur EXCEPT ![w] = [id |-> pending[k], seq |-> jobs[pending[k]].seq]]
          /\ pending' = SubSeq(pending, k + 1, Len(pending))
    BY <1>6 DEF Claim
  <2>2. pending[k] \in Ids /\ jobs[pending[k]] \in Record
    BY DEF TypeOK
  <2>3. jobs' \in [Ids -> Record]
    BY <2>1, <2>2 DEF TypeOK, Record, States
  <2>4. cur' \in [Workers -> [id : Ids \cup {"idle"}, seq : Nat]]
    BY <2>1, <2>2 DEF TypeOK, Record
  <2>5. pending' \in Seq(Ids)
    <3>1. pending' = SubSeq(pending, k + 1, Len(pending)) /\ pending \in Seq(Ids)
      BY <2>1 DEF TypeOK
    <3> QED BY <3>1, TailType
  <2>6. running' = running + 1 /\ pc' = [pc EXCEPT ![w] = "begin"]
    BY <1>6 DEF Claim
  <2>7. pc' \in [Workers -> PCs] /\ running' \in Int
    BY <2>6 DEF TypeOK, PCs
  <2> QED BY <1>6, <2>3, <2>4, <2>5, <2>7 DEF Claim, TypeOK
<1>7. ASSUME NEW w \in Workers, FindNothing(w) PROVE TypeOK'
  BY <1>7 DEF FindNothing, TypeOK, PCs
<1>8. ASSUME NEW w \in Workers, TakeToken(w) PROVE TypeOK'
  BY <1>8 DEF TakeToken, TypeOK, PCs
<1>9. ASSUME NEW w \in Workers, TimeOut(w) PROVE TypeOK'
  BY <1>9 DEF TimeOut, TypeOK, PCs
<1>10. ASSUME NEW w \in Workers, CheckStopped(w) PROVE TypeOK'
  BY <1>10 DEF CheckStopped, TypeOK, PCs
<1>11. ASSUME NEW w \in Workers, BeginRun(w) PROVE TypeOK'
  <2>1. /\ pc' = [pc EXCEPT ![w] = "next"] \/ pc' = [pc EXCEPT ![w] = "handler"]
        /\ running' = running - 1 \/ running' = running
    BY <1>11 DEF BeginRun
  <2>3. pc' \in [Workers -> PCs] /\ running' \in Int
    BY <2>1 DEF TypeOK, PCs
  <2>2. cur' \in [Workers -> [id : Ids \cup {"idle"}, seq : Nat]]
    <3>1. cur' = cur \/ cur' = [cur EXCEPT ![w] = Idle]
      BY <1>11 DEF BeginRun
    <3>2. Idle \in [id : Ids \cup {"idle"}, seq : Nat]
      BY DEF Idle
    <3> QED BY <3>1, <3>2 DEF TypeOK
  <2> QED BY <1>11, <2>2, <2>3 DEF BeginRun, TypeOK
<1>12. ASSUME NEW w \in Workers, NEW err \in BOOLEAN, EndRun(w, err) PROVE TypeOK'
  <2>1. jobs' \in [Ids -> Record] /\ signalled' \subseteq Nat
    <3>1. CASE jobs[cur[w].id].state = "none"
      BY <1>12, <3>1 DEF EndRun, TypeOK
    <3>2. CASE jobs[cur[w].id].state # "none"
      <4> DEFINE i == cur[w].id
                 o == Outcome(jobs[i].canceled, err)
      <4>1. o \in States
        BY DEF Outcome, States
      <4>2. jobs' = [jobs EXCEPT ![i].state = o, ![i].ctx = FALSE, ![i].at = now]
        BY <1>12, <3>2 DEF EndRun
      <4>3. i \in Ids /\ jobs[i] \in Record /\ now \in Nat
        BY <1>12 DEF EndRun, Active, TypeOK, ClaimedStaysRunning
      <4>4. jobs' \in [Ids -> Record]
        BY <4>1, <4>2, <4>3 DEF TypeOK, Record
      <4>5. signalled' \subseteq Nat
        BY <1>12, <3>2, <4>3 DEF EndRun, TypeOK, Record
      <4> QED BY <4>4, <4>5
    <3> QED BY <3>1, <3>2
  <2>2. pc' \in [Workers -> PCs] /\ running' \in Int
    BY <1>12 DEF EndRun, TypeOK, PCs
  <2>3. cur' \in [Workers -> [id : Ids \cup {"idle"}, seq : Nat]]
    BY <1>12 DEF EndRun, TypeOK, Idle
  <2> QED BY <1>12, <2>1, <2>2, <2>3 DEF EndRun, TypeOK
<1>13. CASE ReaperTick
  BY <1>13 DEF ReaperTick, TypeOK
<1>14. CASE ReaperSweep
  BY <1>14, NoneIsRecord DEF ReaperSweep, TypeOK
<1>15. CASE Tick
  BY <1>15 DEF Tick, TypeOK
<1>16. CASE UNCHANGED vars
  BY <1>16 DEF vars, TypeOK
<1> QED
  BY <1>1, <1>2, <1>3, <1>4, <1>5, <1>6, <1>7, <1>8, <1>9, <1>10, <1>11,
     <1>12, <1>13, <1>14, <1>15, <1>16, NextCases

-----------------------------------------------------------------------------
(* The inductive invariant.                                                *)

LEMMA InvInit == Init => IInv
<1> SUFFICES ASSUME Init PROVE IInv
  OBVIOUS
<1>1. \A i \in Ids : jobs[i] = None
  BY DEF Init
<1>2. \A w \in Workers : ~Active(w)
  BY DEF Init, Active
<1>3. RunningCounts
  <2>1. {w \in Workers : Active(w)} = {}
    BY <1>2
  <2> QED BY <2>1, FS_EmptySet DEF RunningCounts, Init
<1>4. SeqsNameOneRun
  BY <1>1 DEF SeqsNameOneRun, Present, None, Init
<1>5. /\ NoLostJob /\ CancelIsDelivered /\ NoStrayCancel
      /\ WaitingIsFresh /\ RunningHasContext /\ AbsentIsBlank
  BY <1>1 DEF NoLostJob, CancelIsDelivered, NoStrayCancel, WaitingIsFresh,
              RunningHasContext, AbsentIsBlank, None
<1>6. ClaimedStaysRunning /\ OneWorkerPerJob
  BY <1>1, <1>2 DEF ClaimedStaysRunning, OneWorkerPerJob, None
<1> QED BY <1>3, <1>4, <1>5, <1>6 DEF IInv

\* Only four actions touch who holds what; the others leave pc, cur and the
\* counter alone or move a worker that holds nothing.
LEMMA CountKept ==
  ASSUME RunningCounts, running' = running,
         \A w \in Workers : Active(w)' <=> Active(w)
  PROVE  RunningCounts'
<1>1. {w \in Workers : Active(w)'} = {w \in Workers : Active(w)}
  OBVIOUS
<1> QED BY <1>1 DEF RunningCounts

LEMMA SubmitStep ==
  ASSUME TypeOK, IInv, NEW i \in Ids, Submit(i)
  PROVE  IInv'
<1> DEFINE new == [None EXCEPT !.state = "queued", !.seq = submits + 1]
<1>1. PICK E \in SUBSET FinishedIds :
        jobs' = [k \in Ids |-> IF k = i THEN new ELSE IF k \in E THEN None ELSE jobs[k]]
  BY DEF Submit, EvictChoices
<1>2. /\ jobs[i].state = "none"
      /\ submits' = submits + 1 /\ submits \in Nat
      /\ pending' = Append(pending, i)
      /\ UNCHANGED <<running, pc, cur, cancels, signalled>>
  BY DEF Submit, TypeOK
<1>3. /\ new.state = "queued" /\ new.seq = submits + 1
      /\ new.canceled = FALSE /\ new.ctx = FALSE
      /\ None.state = "none" /\ None.canceled = FALSE
  BY DEF None
<1>4. \A k \in Ids : \/ k = i /\ jobs'[k] = new
                     \/ k # i /\ jobs'[k] = None
                     \/ k # i /\ jobs'[k] = jobs[k]
  BY <1>1
<1>5. \A k \in Ids : jobs[k].state = "running" => jobs'[k] = jobs[k]
  BY <1>1, <1>2 DEF FinishedIds, Terminal
<1>6. NoLostJob'
  <2> SUFFICES ASSUME NEW k \in Ids, jobs'[k].state = "queued"
               PROVE  \E n \in 1..Len(pending') : pending'[n] = k
    BY DEF NoLostJob
  <2>0. pending \in Seq(Ids)
    BY DEF TypeOK
  <2>1. CASE k = i
    BY <1>2, <2>0, <2>1
  <2>2. CASE k # i
    <3>1. PICK n \in 1..Len(pending) : pending[n] = k
      BY <1>3, <1>4, <2>2 DEF IInv, NoLostJob
    <3>2. n \in 1..Len(pending') /\ pending'[n] = k
      BY <1>2, <2>0, <3>1
    <3> QED BY <3>2
  <2> QED BY <2>1, <2>2
<1>7. ClaimedStaysRunning'
  BY <1>2, <1>5 DEF IInv, ClaimedStaysRunning, Active
<1>8. OneWorkerPerJob'
  BY <1>2, <1>3, <1>4 DEF IInv, OneWorkerPerJob, Active
<1>9. RunningCounts'
  BY <1>2, CountKept DEF IInv, Active
<1>10. (CancelIsDelivered /\ NoStrayCancel /\ RunningHasContext /\ AbsentIsBlank)'
  BY <1>2, <1>3, <1>4 DEF IInv, CancelIsDelivered, NoStrayCancel,
                          RunningHasContext, AbsentIsBlank
<1>11. cancels \cup signalled \subseteq 1..submits
  BY DEF IInv, SeqsNameOneRun
<1>12. WaitingIsFresh'
  <2>1. submits + 1 \notin cancels \cup signalled
    BY <1>2, <1>11
  <2> QED BY <1>2, <1>3, <1>4, <2>1 DEF IInv, WaitingIsFresh
<1>13. SeqsNameOneRun'
  <2>1. \A k \in Ids : k \in Present' =>
          \/ k = i /\ jobs'[k].seq = submits + 1
          \/ k # i /\ k \in Present /\ jobs'[k].seq = jobs[k].seq
    BY <1>3, <1>4 DEF Present
  <2>2. \A k \in Present : k \in Ids /\ jobs[k].seq \in 1..submits
    BY DEF IInv, SeqsNameOneRun, Present
  <2>3. \A k \in Present' : k \in Ids /\ jobs'[k].seq \in 1..submits'
    <3>1. \A k \in Present' : k \in Ids
      BY DEF Present
    <3> QED BY <1>2, <2>1, <2>2, <3>1
  <2>4. \A k, l \in Present' : jobs'[k].seq = jobs'[l].seq => k = l
    BY <1>2, <2>1, <2>2, <2>3 DEF IInv, SeqsNameOneRun
  <2>5. cancels' \cup signalled' \subseteq 1..submits'
    BY <1>2, <1>11
  <2> QED BY <2>3, <2>4, <2>5 DEF SeqsNameOneRun
<1> QED
  BY <1>6, <1>7, <1>8, <1>9, <1>10, <1>12, <1>13 DEF IInv

LEMMA CancelStep ==
  ASSUME TypeOK, IInv, NEW i \in Ids, Cancel(i)
  PROVE  IInv'
<1>1. /\ jobs[i] \in Record
      /\ jobs[i].state \in {"queued", "running"}
      /\ UNCHANGED <<pending, running, pc, cur, signalled, submits>>
      /\ cancels' = IF jobs[i].ctx THEN cancels \cup {jobs[i].seq} ELSE cancels
  BY DEF Cancel, TypeOK
<1>2. /\ jobs'[i].canceled /\ jobs'[i].seq = jobs[i].seq /\ jobs'[i].ctx = jobs[i].ctx
      /\ jobs'[i].state = IF jobs[i].state = "queued" THEN "canceled" ELSE jobs[i].state
  BY DEF Cancel, TypeOK, Record
<1>3. \A k \in Ids : k # i => jobs'[k] = jobs[k]
  BY DEF Cancel, TypeOK
<1>4. \A k \in Ids : jobs'[k].state = "queued" => k # i
  BY <1>2
<1>5. Present' = Present /\ \A k \in Ids : jobs'[k].seq = jobs[k].seq
  BY <1>1, <1>2, <1>3 DEF Present
<1>6. \A k \in Ids : (jobs'[k].state = "running") <=> (jobs[k].state = "running")
  BY <1>2, <1>3
<1>7. i \in Present
  BY <1>1 DEF Present
<1>8. NoLostJob'
  BY <1>1, <1>3, <1>4 DEF IInv, NoLostJob
<1>9. (ClaimedStaysRunning /\ OneWorkerPerJob)'
  BY <1>1, <1>5, <1>6 DEF IInv, ClaimedStaysRunning, OneWorkerPerJob, Active
<1>10. RunningCounts'
  BY <1>1, CountKept DEF IInv, Active
<1>11. CancelIsDelivered'
  <2> SUFFICES ASSUME NEW k \in Ids, jobs'[k].state = "running", jobs'[k].canceled
               PROVE  jobs'[k].seq \in cancels' \cup signalled'
    BY DEF CancelIsDelivered
  <2>1. CASE k = i
    BY <1>1, <1>2, <1>6, <2>1 DEF IInv, RunningHasContext
  <2>2. CASE k # i
    BY <1>1, <1>3, <2>2 DEF IInv, CancelIsDelivered
  <2> QED BY <2>1, <2>2
<1>12. (NoStrayCancel /\ WaitingIsFresh)'
  <2> SUFFICES ASSUME NEW k \in Ids, k # i, jobs[k].state \in {"queued", "running"},
                      jobs[k].seq \notin cancels \cup signalled
               PROVE  jobs'[k].seq \notin cancels' \cup signalled'
    BY <1>2, <1>3, <1>4 DEF IInv, NoStrayCancel, WaitingIsFresh
  <2>1. k \in Present
    BY DEF Present
  <2>2. jobs[k].seq # jobs[i].seq
    BY <1>7, <2>1 DEF IInv, SeqsNameOneRun
  <2> QED BY <1>1, <1>3, <2>2
<1>13. (RunningHasContext /\ AbsentIsBlank)'
  BY <1>1, <1>2, <1>3 DEF IInv, RunningHasContext, AbsentIsBlank
<1>14. SeqsNameOneRun'
  <2>1. jobs[i].seq \in 1..submits
    BY <1>7 DEF IInv, SeqsNameOneRun
  <2>2. cancels' \cup signalled' \subseteq 1..submits'
    BY <1>1, <2>1 DEF IInv, SeqsNameOneRun
  <2>3. \A k \in Present : k \in Ids
    BY DEF Present
  <2> QED BY <1>1, <1>5, <2>2, <2>3 DEF IInv, SeqsNameOneRun
<1> QED
  BY <1>8, <1>9, <1>10, <1>11, <1>12, <1>13, <1>14 DEF IInv

LEMMA CallCancelStep ==
  ASSUME TypeOK, IInv, NEW c \in 1..MaxSubmits, CallCancel(c)
  PROVE  IInv'
<1>1. /\ cancels' \cup signalled' = cancels \cup signalled
      /\ UNCHANGED <<jobs, pending, running, pc, cur, submits>>
  BY DEF CallCancel
<1>2. RunningCounts'
  BY <1>1, CountKept DEF IInv, Active
<1> QED
  BY <1>1, <1>2 DEF IInv, NoLostJob, ClaimedStaysRunning, OneWorkerPerJob, Active,
    CancelIsDelivered, NoStrayCancel, WaitingIsFresh, RunningHasContext,
    AbsentIsBlank, SeqsNameOneRun, Present

LEMMA ClaimStep ==
  ASSUME TypeOK, IInv, NEW w \in Workers, Claim(w)
  PROVE  IInv'
<1>1. PICK n \in 1..Len(pending) :
        /\ \A m \in 1..(n - 1) : ~Claimable(pending[m])
        /\ Claimable(pending[n])
        /\ jobs' = [jobs EXCEPT ![pending[n]].state = "running", ![pending[n]].ctx = TRUE]
        /\ cur' = [cur EXCEPT ![w] = [id |-> pending[n], seq |-> jobs[pending[n]].seq]]
        /\ pending' = SubSeq(pending, n + 1, Len(pending))
  BY DEF Claim
<1> DEFINE i == pending[n]
<1>2. /\ pc[w] = "next" /\ pc' = [pc EXCEPT ![w] = "begin"]
      /\ running' = running + 1
      /\ UNCHANGED <<cancels, signalled, submits>>
  BY DEF Claim
<1>3. pending \in Seq(Ids) /\ i \in Ids /\ jobs[i] \in Record
  BY DEF TypeOK
<1>4. jobs[i].state = "queued" /\ ~jobs[i].canceled
  BY <1>1 DEF Claimable
<1>5. /\ jobs'[i].state = "running" /\ jobs'[i].ctx
      /\ jobs'[i].canceled = jobs[i].canceled /\ jobs'[i].seq = jobs[i].seq
  BY <1>1, <1>3 DEF TypeOK, Record
<1>6. \A k \in Ids : k # i => jobs'[k] = jobs[k]
  BY <1>1 DEF TypeOK
<1>7. /\ Active(w)' /\ ~Active(w) /\ cur'[w].id = i /\ cur'[w].seq = jobs[i].seq
      /\ \A v \in Workers : v # w => (Active(v)' <=> Active(v)) /\ cur'[v] = cur[v]
  BY <1>1, <1>2 DEF TypeOK, Active, PCs
<1>8. \A v \in Workers : Active(v) => cur[v].id # i
  BY <1>4 DEF IInv, ClaimedStaysRunning
<1>9. NoLostJob'
  <2> SUFFICES ASSUME NEW k \in Ids, jobs'[k].state = "queued"
               PROVE  \E m \in 1..Len(pending') : pending'[m] = k
    BY DEF NoLostJob
  <2>1. k # i /\ jobs[k].state = "queued" /\ ~jobs[k].canceled
    BY <1>5, <1>6 DEF IInv, WaitingIsFresh
  <2>2. PICK m \in 1..Len(pending) : pending[m] = k
    BY <2>1 DEF IInv, NoLostJob
  <2>3. m > n
    <3>1. m # n
      BY <2>1, <2>2
    <3>2. m \notin 1..(n - 1)
      BY <1>1, <2>1, <2>2 DEF Claimable
    <3> QED BY <1>3, <3>1, <3>2
  <2>4. m - n \in 1..Len(pending') /\ pending'[m - n] = k
    BY <1>1, <1>3, <2>2, <2>3
  <2> QED BY <2>4
<1>10. ClaimedStaysRunning'
  BY <1>3, <1>5, <1>6, <1>7, <1>8 DEF IInv, ClaimedStaysRunning
<1>11. OneWorkerPerJob'
  <2>1. \A u, v \in Workers : Active(u)' /\ Active(v)' /\ cur'[u].id = cur'[v].id => u = v
    BY <1>7, <1>8 DEF IInv, OneWorkerPerJob
  <2>2. \A k \in Ids : jobs'[k].state = "running" =>
          \E v \in Workers : Active(v)' /\ cur'[v].id = k
    <3> SUFFICES ASSUME NEW k \in Ids, jobs'[k].state = "running"
                 PROVE  \E v \in Workers : Active(v)' /\ cur'[v].id = k
      OBVIOUS
    <3>1. CASE k = i
      BY <1>7, <3>1
    <3>2. CASE k # i
      <4>1. PICK v \in Workers : Active(v) /\ cur[v].id = k
        BY <1>6, <3>2 DEF IInv, OneWorkerPerJob
      <4> QED BY <1>7, <4>1
    <3> QED BY <3>1, <3>2
  <2> QED BY <2>1, <2>2 DEF OneWorkerPerJob
<1>12. RunningCounts'
  <2> DEFINE A == {v \in Workers : Active(v)}
  <2>1. IsFiniteSet(A) /\ w \notin A
    BY <1>7, FS_Subset, ConstantsAssumption
  <2>2. {v \in Workers : Active(v)'} = A \cup {w}
    BY <1>7
  <2>3. Cardinality(A \cup {w}) = Cardinality(A) + 1
    BY <2>1, FS_AddElement
  <2> QED BY <1>2, <2>2, <2>3 DEF IInv, RunningCounts
<1>13. (CancelIsDelivered /\ RunningHasContext /\ AbsentIsBlank)'
  BY <1>2, <1>4, <1>5, <1>6 DEF IInv, CancelIsDelivered, RunningHasContext, AbsentIsBlank
<1>14. (NoStrayCancel /\ WaitingIsFresh)'
  BY <1>2, <1>3, <1>4, <1>5, <1>6 DEF IInv, NoStrayCancel, WaitingIsFresh
<1>15. SeqsNameOneRun'
  <2>1. Present' = Present /\ \A k \in Ids : jobs'[k].seq = jobs[k].seq
    BY <1>4, <1>5, <1>6 DEF Present
  <2>2. \A k \in Present : k \in Ids
    BY DEF Present
  <2> QED BY <1>2, <2>1, <2>2 DEF IInv, SeqsNameOneRun
<1> QED
  BY <1>9, <1>10, <1>11, <1>12, <1>13, <1>14, <1>15 DEF IInv

\* A worker that holds nothing moves, and may drop dead entries.
LEMMA IdleMoveStep ==
  ASSUME TypeOK, IInv, NEW w \in Workers,
         FindNothing(w) \/ TakeToken(w) \/ TimeOut(w) \/ CheckStopped(w)
  PROVE  IInv'
<1>1. UNCHANGED <<jobs, running, cur, cancels, signalled, submits>>
  BY DEF FindNothing, TakeToken, TimeOut, CheckStopped
<1>2. \A v \in Workers : Active(v)' <=> Active(v)
  BY DEF FindNothing, TakeToken, TimeOut, CheckStopped, Active, TypeOK, PCs
<1>3. NoLostJob'
  <2>1. CASE FindNothing(w)
    <3>1. \A k \in Ids : jobs[k].state # "queued"
      <4> SUFFICES ASSUME NEW k \in Ids, jobs[k].state = "queued" PROVE FALSE
        OBVIOUS
      <4>1. PICK m \in 1..Len(pending) : pending[m] = k
        BY DEF IInv, NoLostJob
      <4>2. ~jobs[k].canceled
        BY DEF IInv, WaitingIsFresh
      <4> QED BY <2>1, <4>1, <4>2 DEF FindNothing, Claimable
    <3> QED BY <1>1, <3>1 DEF NoLostJob
  <2>2. CASE TakeToken(w) \/ TimeOut(w) \/ CheckStopped(w)
    <3>1. pending' = pending
      BY <2>2 DEF TakeToken, TimeOut, CheckStopped
    <3> QED BY <1>1, <3>1 DEF IInv, NoLostJob
  <2> QED BY <2>1, <2>2
<1>4. RunningCounts'
  BY <1>1, <1>2, CountKept DEF IInv
<1>5. (ClaimedStaysRunning /\ OneWorkerPerJob)'
  BY <1>1, <1>2 DEF IInv, ClaimedStaysRunning, OneWorkerPerJob
<1> QED
  BY <1>1, <1>3, <1>4, <1>5 DEF IInv, CancelIsDelivered, NoStrayCancel,
    WaitingIsFresh, RunningHasContext, AbsentIsBlank, SeqsNameOneRun, Present

LEMMA BeginRunStep ==
  ASSUME TypeOK, IInv, NEW w \in Workers, BeginRun(w)
  PROVE  /\ IInv'
         /\ pc' = [pc EXCEPT ![w] = "handler"]
         /\ UNCHANGED <<jobs, running, cur>>
<1>1. jobs[cur[w].id].state = "running"
  BY DEF BeginRun, Active, IInv, ClaimedStaysRunning
<1>2. /\ pc[w] = "begin" /\ pc' = [pc EXCEPT ![w] = "handler"]
      /\ UNCHANGED <<jobs, pending, running, cur, cancels, signalled, submits>>
  BY <1>1 DEF BeginRun
<1>3. \A v \in Workers : Active(v)' <=> Active(v)
  BY <1>2 DEF Active, TypeOK
<1>4. RunningCounts'
  BY <1>2, <1>3, CountKept DEF IInv
<1>5. (ClaimedStaysRunning /\ OneWorkerPerJob)'
  BY <1>2, <1>3 DEF IInv, ClaimedStaysRunning, OneWorkerPerJob
<1> QED
  BY <1>2, <1>4, <1>5 DEF IInv, NoLostJob, CancelIsDelivered, NoStrayCancel,
    WaitingIsFresh, RunningHasContext, AbsentIsBlank, SeqsNameOneRun, Present

LEMMA EndRunStep ==
  ASSUME TypeOK, IInv, NEW w \in Workers, NEW err \in BOOLEAN, EndRun(w, err)
  PROVE  IInv'
<1> DEFINE i == cur[w].id
           o == Outcome(jobs[i].canceled, err)
<1>1. /\ i \in Ids /\ jobs[i] \in Record /\ jobs[i].state = "running"
      /\ jobs[i].ctx /\ Active(w) /\ pc[w] = "handler"
  BY DEF EndRun, Active, IInv, ClaimedStaysRunning, RunningHasContext, TypeOK
<1>2. /\ jobs' = [jobs EXCEPT ![i].state = o, ![i].ctx = FALSE, ![i].at = now]
      /\ signalled' = signalled \cup {jobs[i].seq}
      /\ running' = running - 1
      /\ pc' = [pc EXCEPT ![w] = "next"]
      /\ cur' = [cur EXCEPT ![w] = Idle]
      /\ UNCHANGED <<pending, cancels, submits>>
  BY <1>1 DEF EndRun
<1>2a. /\ signalled' = signalled \cup {jobs[i].seq}
       /\ UNCHANGED <<pending, cancels, submits>>
  BY <1>2
<1>3. o \in Terminal
  BY DEF Outcome, Terminal
<1>4. /\ jobs'[i].state = o /\ jobs'[i].seq = jobs[i].seq
      /\ jobs'[i].canceled = jobs[i].canceled
  BY <1>1, <1>2 DEF TypeOK, Record
<1>5. \A k \in Ids : k # i => jobs'[k] = jobs[k]
  BY <1>2 DEF TypeOK
<1>6. ~Active(w)' /\ \A v \in Workers : v # w => (Active(v)' <=> Active(v)) /\ cur'[v] = cur[v]
  BY <1>2 DEF TypeOK, Active
<1>7. \A v \in Workers : v # w /\ Active(v) => cur[v].id # i
  BY <1>1 DEF IInv, OneWorkerPerJob
<1>8. \A k \in Ids : jobs'[k].state \in {"queued", "running", "none"} => k # i
  BY <1>3, <1>4 DEF Terminal
<1>9. NoLostJob'
  BY <1>2, <1>5, <1>8 DEF IInv, NoLostJob
<1>10. ClaimedStaysRunning'
  BY <1>5, <1>6, <1>7 DEF IInv, ClaimedStaysRunning
<1>11. OneWorkerPerJob'
  <2>1. \A u, v \in Workers : Active(u)' /\ Active(v)' /\ cur'[u].id = cur'[v].id => u = v
    BY <1>6 DEF IInv, OneWorkerPerJob
  <2>2. \A k \in Ids : jobs'[k].state = "running" =>
          \E v \in Workers : Active(v)' /\ cur'[v].id = k
    BY <1>5, <1>6, <1>8 DEF IInv, OneWorkerPerJob
  <2> QED BY <2>1, <2>2 DEF OneWorkerPerJob
<1>12. RunningCounts'
  <2> DEFINE A == {v \in Workers : Active(v)}
  <2>1. IsFiniteSet(A) /\ w \in A
    BY <1>1, FS_Subset, ConstantsAssumption
  <2>2. {v \in Workers : Active(v)'} = A \ {w}
    BY <1>6
  <2>3. Cardinality(A \ {w}) = Cardinality(A) - 1
    BY <2>1, FS_RemoveElement
  <2> QED BY <1>2, <2>2, <2>3 DEF IInv, RunningCounts
<1>13. (CancelIsDelivered /\ RunningHasContext /\ AbsentIsBlank)'
  <2> HIDE DEF i, o
  <2>1. \A k \in Ids : jobs'[k].state \in {"running", "none"} => jobs'[k] = jobs[k]
    BY <1>5, <1>8
  <2> QED
    BY <1>2a, <2>1 DEF IInv, CancelIsDelivered, RunningHasContext, AbsentIsBlank
<1>14. i \in Present
  BY <1>1 DEF Present
<1>15. (NoStrayCancel /\ WaitingIsFresh)'
  <2> SUFFICES ASSUME NEW k \in Ids, k # i, jobs[k].state \in {"queued", "running"},
                      jobs[k].seq \notin cancels \cup signalled
               PROVE  jobs'[k].seq \notin cancels' \cup signalled'
    BY <1>2a, <1>5, <1>8 DEF IInv, NoStrayCancel, WaitingIsFresh
  <2>1. k \in Present
    BY DEF Present
  <2>2. jobs[k].seq # jobs[i].seq
    BY <1>14, <2>1 DEF IInv, SeqsNameOneRun
  <2> HIDE DEF i, o
  <2>3. jobs'[k] = jobs[k]
    BY <1>5
  <2> QED BY <1>2a, <2>2, <2>3
<1>16. SeqsNameOneRun'
  <2>1. Present' = Present /\ \A k \in Ids : jobs'[k].seq = jobs[k].seq
    BY <1>3, <1>4, <1>5, <1>14 DEF Present, Terminal
  <2>2. jobs[i].seq \in 1..submits
    BY <1>14 DEF IInv, SeqsNameOneRun
  <2>3. \A k \in Present : k \in Ids
    BY DEF Present
  <2> HIDE DEF i, o
  <2>4. cancels' \cup signalled' \subseteq 1..submits'
    BY <1>2a, <2>2 DEF IInv, SeqsNameOneRun
  <2> QED BY <1>2a, <2>1, <2>3, <2>4 DEF IInv, SeqsNameOneRun
<1> QED
  BY <1>9, <1>10, <1>11, <1>12, <1>13, <1>15, <1>16 DEF IInv

LEMMA SweepStep ==
  ASSUME TypeOK, IInv, ReaperSweep
  PROVE  IInv'
<1>1. /\ \A k \in Ids : jobs'[k] = IF Expired(k) THEN None ELSE jobs[k]
      /\ UNCHANGED <<pending, running, pc, cur, cancels, signalled, submits>>
  BY DEF ReaperSweep
<1>2. None.state = "none" /\ None.canceled = FALSE
  BY DEF None
<1>3. \A k \in Ids : jobs'[k].state # "none" => jobs'[k] = jobs[k]
  BY <1>1, <1>2
<1>4. \A k \in Ids : jobs[k].state = "running" => jobs'[k] = jobs[k]
  BY <1>1 DEF Expired, Terminal
<1>5. \A k \in Ids : jobs'[k] = jobs[k] \/ jobs'[k] = None
  BY <1>1
<1>6. RunningCounts'
  BY <1>1, CountKept DEF IInv, Active
<1>7. ClaimedStaysRunning'
  BY <1>1, <1>4 DEF IInv, ClaimedStaysRunning, Active
<1>8. (OneWorkerPerJob /\ NoLostJob)'
  BY <1>1, <1>3 DEF IInv, OneWorkerPerJob, NoLostJob, Active
<1>9. (CancelIsDelivered /\ NoStrayCancel /\ WaitingIsFresh /\ RunningHasContext)'
  BY <1>1, <1>3 DEF IInv, CancelIsDelivered, NoStrayCancel, WaitingIsFresh,
                    RunningHasContext
<1>10. AbsentIsBlank'
  BY <1>2, <1>5 DEF IInv, AbsentIsBlank
<1>11. SeqsNameOneRun'
  <2>1. \A k \in Present' : k \in Present /\ jobs'[k] = jobs[k]
    BY <1>3 DEF Present
  <2> QED BY <1>1, <2>1 DEF IInv, SeqsNameOneRun
<1> QED BY <1>6, <1>7, <1>8, <1>9, <1>10, <1>11 DEF IInv

LEMMA InvStep == TypeOK /\ IInv /\ [Next]_vars => IInv'
<1> SUFFICES ASSUME TypeOK, IInv, [Next]_vars PROVE IInv'
  OBVIOUS
<1>1. ASSUME Stop \/ StopSignal \/ ReaperTick \/ Tick \/ UNCHANGED vars PROVE IInv'
  <2>1. UNCHANGED <<jobs, pending, running, pc, cur, cancels, signalled, submits>>
    BY <1>1 DEF Stop, StopSignal, ReaperTick, Tick, vars
  <2>2. RunningCounts'
    BY <2>1, CountKept DEF IInv, Active
  <2> QED
    BY <2>1, <2>2 DEF IInv, NoLostJob, ClaimedStaysRunning, OneWorkerPerJob, Active,
      CancelIsDelivered, NoStrayCancel, WaitingIsFresh, RunningHasContext,
      AbsentIsBlank, SeqsNameOneRun, Present
<1>2. ASSUME NEW w \in Workers,
             FindNothing(w) \/ TakeToken(w) \/ TimeOut(w) \/ CheckStopped(w)
      PROVE  IInv'
  BY <1>2, IdleMoveStep
<1> QED
  BY <1>1, <1>2, NextCases, SubmitStep, CancelStep, CallCancelStep, ClaimStep,
     BeginRunStep, EndRunStep, SweepStep

-----------------------------------------------------------------------------
(* The theorems.                                                           *)

\* Types and the inductive invariant hold in every reachable state.
THEOREM Inductive == Spec => [](TypeOK /\ IInv)
<1>1. Init => TypeOK /\ IInv
  BY TypeInit, InvInit
<1>2. TypeOK /\ IInv /\ [Next]_vars => (TypeOK /\ IInv)'
  BY TypeStep, InvStep DEF IInv
<1> QED BY <1>1, <1>2, PTL DEF Spec

\* The queue never ill-types its tables, and the wake channel never holds more
\* than one token (queue.go: wake is a channel of capacity one).
THEOREM TypeCorrect == Spec => []TypeOK
  BY Inductive, PTL

\* No accepted job leaves the FIFO before a worker claims it or its user
\* cancels it (Submit, next, evictLocked).
THEOREM NothingIsLost == Spec => []NoLostJob
<1>1. IInv => NoLostJob
  BY DEF IInv
<1> QED BY <1>1, Inductive, PTL

\* However ids are reused, a job is in the hands of exactly one worker while it
\* runs, and its record is there until the worker ends it (next, run).
THEOREM ExclusiveRun == Spec => [](OneWorkerPerJob /\ ClaimedStaysRunning)
<1>1. IInv => OneWorkerPerJob /\ ClaimedStaysRunning
  BY DEF IInv
<1> QED BY <1>1, Inductive, PTL

\* q.running is the number of busy workers, hence at most the pool size.
THEOREM PoolIsBounded == Spec => [](RunningCounts /\ running <= Cardinality(Workers))
<1>1. IInv => RunningCounts /\ running <= Cardinality(Workers)
  <2> SUFFICES ASSUME RunningCounts PROVE running <= Cardinality(Workers)
    BY DEF IInv
  <2>1. Cardinality({w \in Workers : Active(w)}) <= Cardinality(Workers)
    BY FS_Subset, ConstantsAssumption
  <2> QED BY <2>1 DEF RunningCounts
<1> QED BY <1>1, Inductive, PTL

\* A cancel always finds its run and never another one (Cancel, run).
THEOREM CancelsAreExact == Spec => []CancelIsExact
<1>1. IInv => CancelIsExact
  BY DEF IInv, CancelIsExact
<1> QED BY <1>1, Inductive, PTL

-----------------------------------------------------------------------------
(* The queue implements the lifecycle.                                     *)

\* The abstract variables as functions of the concrete ones.
st == [i \in Ids |-> jobs[i].state]
ca == [i \in Ids |-> jobs[i].canceled]

LEMMA LifeInit == Init => Life!Init
  BY DEF Init, Life!Init, None

\* A step that leaves the records and the stop flag alone is a stutter.
LEMMA LifeStutter ==
  ASSUME UNCHANGED <<jobs, stopped>>
  PROVE  UNCHANGED Life!lifeVars
  BY DEF Life!lifeVars

LEMMA LifeSubmit ==
  ASSUME TypeOK, IInv, NEW i \in Ids, Submit(i)
  PROVE  Life!Next
<1>1. PICK E \in SUBSET FinishedIds :
        jobs' = [k \in Ids |->
                   IF k = i THEN [None EXCEPT !.state = "queued", !.seq = submits + 1]
                   ELSE IF k \in E THEN None ELSE jobs[k]]
  BY DEF Submit, EvictChoices
<1>2. E \in SUBSET Ids
  BY DEF FinishedIds
<1>3. jobs[i].state = "none" /\ ~jobs[i].canceled /\ jobs[i].canceled \in BOOLEAN
  BY DEF Submit, IInv, AbsentIsBlank, TypeOK, Record
<1>4. \A k \in E : jobs[k].state \in Life!Finished
  BY DEF FinishedIds, Terminal, Life!Finished
<1>5. st' = [k \in Ids |-> IF k = i THEN "queued" ELSE IF k \in E THEN "none" ELSE st[k]]
  BY <1>1 DEF st, None
<1>6. ca' = [k \in Ids |-> IF k \in E THEN FALSE ELSE ca[k]]
  BY <1>1, <1>3, <1>4 DEF ca, None, Life!Finished
<1>7. ~stopped /\ stopped' = stopped
  BY DEF Submit
<1>8. Life!Accept(i, E)
  BY <1>2, <1>3, <1>4, <1>5, <1>6, <1>7 DEF Life!Accept, st, ca
<1> QED BY <1>2, <1>8 DEF Life!Next

LEMMA LifeCancel ==
  ASSUME TypeOK, NEW i \in Ids, Cancel(i)
  PROVE  Life!Next
<1>1. jobs[i] \in Record /\ jobs[i].state \in {"queued", "running"} /\ stopped' = stopped
  BY DEF Cancel, TypeOK
<1>2. ca' = [ca EXCEPT ![i] = TRUE]
  BY <1>1 DEF Cancel, ca, TypeOK, Record
<1>3. CASE jobs[i].state = "queued"
  <2>1. st' = [st EXCEPT ![i] = "canceled"]
    BY <1>1, <1>3 DEF Cancel, st, TypeOK, Record
  <2>2. Life!Withdraw(i)
    BY <1>1, <1>2, <1>3, <2>1 DEF Life!Withdraw, st, ca
  <2> QED BY <2>2 DEF Life!Next
<1>4. CASE jobs[i].state = "running"
  <2>1. st' = st
    BY <1>1, <1>4 DEF Cancel, st, TypeOK, Record
  <2>2. Life!AskCancel(i)
    BY <1>1, <1>2, <1>4, <2>1 DEF Life!AskCancel, st, ca
  <2> QED BY <2>2 DEF Life!Next
<1> QED BY <1>1, <1>3, <1>4

LEMMA LifeClaim ==
  ASSUME TypeOK, NEW w \in Workers, Claim(w)
  PROVE  Life!Next
<1>1. PICK n \in 1..Len(pending) :
        /\ Claimable(pending[n])
        /\ jobs' = [jobs EXCEPT ![pending[n]].state = "running", ![pending[n]].ctx = TRUE]
  BY DEF Claim
<1>2. PICK i \in Ids : i = pending[n]
  BY DEF TypeOK
<1>3. jobs[i] \in Record /\ jobs[i].state = "queued" /\ ~jobs[i].canceled
  BY <1>1, <1>2 DEF Claimable, TypeOK
<1>4. st' = [st EXCEPT ![i] = "running"] /\ ca' = ca
  BY <1>1, <1>2, <1>3 DEF st, ca, TypeOK, Record
<1>5. stopped' = stopped
  BY DEF Claim
<1>6. Life!Begin(i)
  BY <1>3, <1>4, <1>5 DEF Life!Begin, st, ca
<1> QED BY <1>6 DEF Life!Next

LEMMA LifeEnd ==
  ASSUME TypeOK, IInv, NEW w \in Workers, NEW err \in BOOLEAN, EndRun(w, err)
  PROVE  Life!Next
<1>1. PICK i \in Ids : i = cur[w].id
  BY DEF EndRun, Active, IInv, ClaimedStaysRunning
<1>2. jobs[i] \in Record /\ jobs[i].state = "running"
  BY <1>1 DEF EndRun, Active, IInv, ClaimedStaysRunning, TypeOK
<1>3. PICK o \in Life!Finished :
        /\ o = Outcome(jobs[i].canceled, err)
        /\ o \in IF jobs[i].canceled THEN {"canceled"} ELSE {"success", "failed"}
  BY DEF Outcome, Life!Finished
<1>4. /\ jobs' = [jobs EXCEPT ![i].state = o, ![i].ctx = FALSE, ![i].at = now]
      /\ stopped' = stopped
  BY <1>1, <1>2, <1>3 DEF EndRun
<1>5. st' = [st EXCEPT ![i] = o] /\ ca' = ca
  BY <1>2, <1>4 DEF st, ca, TypeOK, Record
<1>6. Life!End(i, o)
  BY <1>2, <1>3, <1>4, <1>5 DEF Life!End, st, ca
<1> QED BY <1>6 DEF Life!Next

LEMMA LifeSweep ==
  ASSUME TypeOK, ReaperSweep
  PROVE  Life!Next
<1>1. /\ jobs' = [i \in Ids |-> IF Expired(i) THEN None ELSE jobs[i]]
      /\ stopped' = stopped
  BY DEF ReaperSweep
<1>2. PICK S \in SUBSET Ids : S = {i \in Ids : Expired(i)}
  OBVIOUS
<1>3. \A i \in S : jobs[i].state \in Life!Finished
  BY <1>2 DEF Expired, Terminal, Life!Finished
<1>4. st' = [i \in Ids |-> IF i \in S THEN "none" ELSE st[i]]
  BY <1>1, <1>2 DEF st, None
<1>5. ca' = [i \in Ids |-> IF i \in S THEN FALSE ELSE ca[i]]
  BY <1>1, <1>2 DEF ca, None
<1>6. Life!Forget(S)
  BY <1>1, <1>3, <1>4, <1>5 DEF Life!Forget, st, ca
<1> QED BY <1>6 DEF Life!Next

LEMMA LifeStep ==
  TypeOK /\ IInv /\ [Next]_vars => [Life!Next]_(Life!lifeVars)
<1> SUFFICES ASSUME TypeOK, IInv, [Next]_vars
             PROVE  Life!Next \/ UNCHANGED Life!lifeVars
  OBVIOUS
<1>1. ASSUME Stop PROVE Life!Next
  <2>1. Life!Close
    BY <1>1 DEF Stop, Life!Close
  <2> QED BY <2>1 DEF Life!Next
<1>2. ASSUME StopSignal \/ ReaperTick \/ Tick \/ UNCHANGED vars
      PROVE  UNCHANGED Life!lifeVars
  BY <1>2, LifeStutter DEF StopSignal, ReaperTick, Tick, vars
<1>3. ASSUME NEW c \in 1..MaxSubmits, CallCancel(c) PROVE UNCHANGED Life!lifeVars
  BY <1>3, LifeStutter DEF CallCancel
<1>4. ASSUME NEW w \in Workers,
             FindNothing(w) \/ TakeToken(w) \/ TimeOut(w) \/ CheckStopped(w) \/ BeginRun(w)
      PROVE  UNCHANGED Life!lifeVars
  BY <1>4, LifeStutter DEF FindNothing, TakeToken, TimeOut, CheckStopped, BeginRun
<1> QED
  BY <1>1, <1>2, <1>3, <1>4, NextCases, LifeSubmit, LifeCancel, LifeClaim, LifeEnd,
     LifeSweep

\* What callers of Submit, Cancel and Get can see is the lifecycle of
\* JobLifecycle: each accepted job runs at most once, ends once, and ends as
\* canceled if its user canceled it (queue.go as a whole).
THEOREM LifecycleImplemented == Spec => ImplementsLifecycle
<1>1. TypeOK /\ IInv /\ [Next]_vars => [Life!Next]_(Life!lifeVars)
  BY LifeStep
<1> QED BY <1>1, LifeInit, Inductive, PTL DEF Spec, ImplementsLifecycle, Life!Spec

-----------------------------------------------------------------------------
(* The order of starts.                                                    *)

\* Every entry of an earlier submission that still waits has an entry of each
\* later one behind it (Submit appends, next cuts a prefix).
Waits(i) == jobs[i].state = "queued"
FifoOrder ==
  \A i, k \in Ids : Waits(i) /\ Waits(k) /\ jobs[i].seq < jobs[k].seq =>
    \A m \in 1..Len(pending) : pending[m] = i =>
      \E n \in (m + 1)..Len(pending) : pending[n] = k

\* A step that appends nothing to the FIFO and makes nothing wait keeps it.
LEMMA OrderKept ==
  ASSUME FifoOrder, pending' = pending,
         \A i \in Ids : jobs'[i].state = "queued" => jobs'[i] = jobs[i]
  PROVE  FifoOrder'
  BY DEF FifoOrder, Waits

LEMMA OrderSubmit ==
  ASSUME TypeOK, IInv, FifoOrder, NEW j \in Ids, Submit(j)
  PROVE  FifoOrder'
<1>1. PICK E \in SUBSET FinishedIds :
        jobs' = [k \in Ids |->
                   IF k = j THEN [None EXCEPT !.state = "queued", !.seq = submits + 1]
                   ELSE IF k \in E THEN None ELSE jobs[k]]
  BY DEF Submit, EvictChoices
<1>2. /\ jobs'[j].seq = submits + 1 /\ submits \in Nat
      /\ pending \in Seq(Ids) /\ pending' = Append(pending, j)
  BY <1>1 DEF Submit, TypeOK, None
<1>3. \A k \in Ids : k # j /\ Waits(k)' => Waits(k) /\ jobs'[k] = jobs[k]
  BY <1>1 DEF Waits, None
<1>4. \A k \in Ids : Waits(k) => jobs[k].seq \in 1..submits
  BY DEF Waits, IInv, SeqsNameOneRun, Present
<1> SUFFICES ASSUME NEW i \in Ids, NEW k \in Ids, Waits(i)', Waits(k)',
                    jobs'[i].seq < jobs'[k].seq,
                    NEW m \in 1..Len(pending'), pending'[m] = i
             PROVE  \E n \in (m + 1)..Len(pending') : pending'[n] = k
  BY DEF FifoOrder
<1>5. i # j
  <2>1. SUFFICES ASSUME i = j PROVE FALSE
    OBVIOUS
  <2>2. k # j
    BY <1>2, <2>1
  <2> QED BY <1>2, <1>3, <1>4, <2>1, <2>2
<1>6. m \in 1..Len(pending) /\ pending[m] = i
  BY <1>2, <1>5
<1>7. CASE k = j
  BY <1>2, <1>6, <1>7
<1>8. CASE k # j
  <2>1. PICK n \in (m + 1)..Len(pending) : pending[n] = k
    BY <1>3, <1>5, <1>6, <1>8 DEF FifoOrder
  <2> QED BY <1>2, <1>6, <2>1
<1> QED BY <1>7, <1>8

LEMMA OrderClaim ==
  ASSUME TypeOK, FifoOrder, NEW w \in Workers, Claim(w)
  PROVE  FifoOrder'
<1>1. PICK c \in 1..Len(pending) :
        /\ jobs' = [jobs EXCEPT ![pending[c]].state = "running", ![pending[c]].ctx = TRUE]
        /\ pending' = SubSeq(pending, c + 1, Len(pending))
  BY DEF Claim
<1>2. pending \in Seq(Ids) /\ pending[c] \in Ids /\ jobs \in [Ids -> Record]
  BY DEF TypeOK
<1>3. \A k \in Ids : Waits(k)' => Waits(k) /\ jobs'[k] = jobs[k]
  BY <1>1, <1>2 DEF Waits, Record
<1>4. /\ Len(pending') = Len(pending) - c
      /\ \A m \in 1..Len(pending') : pending'[m] = pending[m + c]
  BY <1>1, <1>2
<1> SUFFICES ASSUME NEW i \in Ids, NEW k \in Ids, Waits(i)', Waits(k)',
                    jobs'[i].seq < jobs'[k].seq,
                    NEW m \in 1..Len(pending'), pending'[m] = i
             PROVE  \E n \in (m + 1)..Len(pending') : pending'[n] = k
  BY DEF FifoOrder
<1>5. m + c \in 1..Len(pending) /\ pending[m + c] = i
  BY <1>2, <1>4
<1>6. PICK n \in (m + c + 1)..Len(pending) : pending[n] = k
  BY <1>3, <1>5 DEF FifoOrder
<1>7. /\ n - c \in (m + 1)..Len(pending') /\ n - c \in 1..Len(pending')
      /\ (n - c) + c = n
  BY <1>2, <1>4, <1>6
<1>8. pending'[n - c] = k
  BY <1>4, <1>6, <1>7
<1> QED BY <1>7, <1>8

LEMMA OrderStep == TypeOK /\ IInv /\ FifoOrder /\ [Next]_vars => FifoOrder'
<1> SUFFICES ASSUME TypeOK, IInv, FifoOrder, [Next]_vars PROVE FifoOrder'
  OBVIOUS
<1>1. ASSUME NEW i \in Ids, Cancel(i) PROVE FifoOrder'
  <2>1. \A k \in Ids : jobs'[k].state = "queued" => jobs'[k] = jobs[k]
    BY <1>1 DEF Cancel, TypeOK, Record
  <2>2. pending' = pending
    BY <1>1 DEF Cancel
  <2> QED BY <2>1, <2>2, OrderKept
<1>2. ASSUME NEW w \in Workers, FindNothing(w) PROVE FifoOrder'
  BY <1>2 DEF FindNothing, FifoOrder
<1>3. ASSUME NEW w \in Workers, NEW err \in BOOLEAN, EndRun(w, err) PROVE FifoOrder'
  <2>1. \A k \in Ids : jobs'[k].state = "queued" => jobs'[k] = jobs[k]
    BY <1>3 DEF EndRun, Outcome, TypeOK, Record
  <2>2. pending' = pending
    BY <1>3 DEF EndRun
  <2> QED BY <2>1, <2>2, OrderKept
<1>4. CASE ReaperSweep
  BY <1>4, OrderKept DEF ReaperSweep, None
<1>5. ASSUME NEW c \in 1..MaxSubmits, CallCancel(c) PROVE FifoOrder'
  BY <1>5, OrderKept DEF CallCancel
<1>6. ASSUME NEW w \in Workers,
             TakeToken(w) \/ TimeOut(w) \/ CheckStopped(w) \/ BeginRun(w)
      PROVE  FifoOrder'
  BY <1>6, OrderKept DEF TakeToken, TimeOut, CheckStopped, BeginRun
<1>7. ASSUME Stop \/ StopSignal \/ ReaperTick \/ Tick \/ UNCHANGED vars PROVE FifoOrder'
  BY <1>7, OrderKept DEF Stop, StopSignal, ReaperTick, Tick, vars
<1> QED
  BY <1>1, <1>2, <1>3, <1>4, <1>5, <1>6, <1>7, NextCases, OrderSubmit, OrderClaim

\* Two places of the FIFO that hold one id.
LEMMA TwoOccurrences ==
  ASSUME TypeOK, NEW i \in Ids, NEW m \in 1..Len(pending), NEW n \in 1..Len(pending),
         m # n, pending[m] = i, pending[n] = i
  PROVE  Occurrences(i) > 1
<1> DEFINE S == {k \in 1..Len(pending) : pending[k] = i}
<1>1. IsFiniteSet(S)
  <2>1. Len(pending) \in Nat
    BY DEF TypeOK
  <2>2. IsFiniteSet(1..Len(pending))
    BY <2>1, FS_Interval
  <2> QED BY <2>2, FS_Subset
<1>2. IsFiniteSet(S \ {m}) /\ Cardinality(S \ {m}) = Cardinality(S) - 1
  BY <1>1, FS_RemoveElement
<1>3. Cardinality(S \ {m}) \in Nat /\ Cardinality(S) \in Nat
  BY <1>1, <1>2, FS_CardinalityType
<1>4. Cardinality(S \ {m}) # 0
  BY <1>2, FS_EmptySet
<1>5. Cardinality(S) > 1
  BY <1>2, <1>3, <1>4
<1> QED BY <1>5 DEF Occurrences

\* A claim takes the first entry a worker may take, and that is the oldest
\* submission unless an old entry of its id waits in front.
LEMMA ClaimTakesOldest ==
  ASSUME TypeOK, IInv, FifoOrder, NEW w \in Workers, Claim(w),
         NEW i \in Ids, NEW k \in Ids, Started(i), jobs[k].state = "queued", k # i
  PROVE  jobs[i].seq < jobs[k].seq \/ Occurrences(i) > 1
<1>1. PICK c \in 1..Len(pending) :
        /\ \A m \in 1..(c - 1) : ~Claimable(pending[m])
        /\ jobs' = [jobs EXCEPT ![pending[c]].state = "running", ![pending[c]].ctx = TRUE]
  BY DEF Claim
<1>2. pending[c] = i
  BY <1>1 DEF Started, TypeOK
<1>3. PICK m \in 1..Len(pending) : pending[m] = k
  BY DEF IInv, NoLostJob
<1>4. Claimable(k)
  BY DEF IInv, WaitingIsFresh, Claimable
<1>5. m > c
  <2>1. m # c
    BY <1>2, <1>3
  <2>2. m \notin 1..(c - 1)
    BY <1>1, <1>3, <1>4
  <2>3. Len(pending) \in Nat
    BY DEF TypeOK
  <2> QED BY <2>1, <2>2, <2>3
<1>6. /\ jobs[i].seq \in Nat /\ jobs[k].seq \in Nat /\ jobs[i].seq # jobs[k].seq
  BY DEF Started, IInv, SeqsNameOneRun, Present, TypeOK, Record
<1>7. CASE jobs[k].seq < jobs[i].seq
  <2>1. PICK n \in (m + 1)..Len(pending) : pending[n] = i
    BY <1>3, <1>7 DEF FifoOrder, Waits, Started
  <2>2. n \in 1..Len(pending) /\ n # c
    BY <1>5, <2>1 DEF TypeOK
  <2> QED BY <1>2, <2>1, <2>2, TwoOccurrences
<1> QED BY <1>6, <1>7

\* No other action starts a job.
LEMMA OnlyClaimStarts ==
  ASSUME TypeOK, IInv, [Next]_vars, NEW i \in Ids, Started(i)
  PROVE  \E w \in Workers : Claim(w)
<1>1. ASSUME NEW j \in Ids, Submit(j) PROVE FALSE
  BY <1>1 DEF Submit, Started, None
<1>2. ASSUME NEW j \in Ids, Cancel(j) PROVE FALSE
  BY <1>2 DEF Cancel, Started, TypeOK, Record
<1>3. ASSUME NEW w \in Workers, NEW err \in BOOLEAN, EndRun(w, err) PROVE FALSE
  <2>1. PICK j \in Ids : j = cur[w].id /\ jobs[j].state = "running"
    BY <1>3 DEF EndRun, Active, IInv, ClaimedStaysRunning
  <2>2. jobs' = [jobs EXCEPT ![j].state = Outcome(jobs[j].canceled, err),
                             ![j].ctx = FALSE, ![j].at = now]
    BY <1>3, <2>1 DEF EndRun
  <2>3. i # j /\ jobs'[i] = jobs[i]
    BY <2>1, <2>2 DEF Started, TypeOK
  <2> QED BY <2>3 DEF Started
<1>4. ASSUME NEW w \in Workers,
             FindNothing(w) \/ TakeToken(w) \/ TimeOut(w) \/ CheckStopped(w) \/ BeginRun(w)
      PROVE  FALSE
  BY <1>4 DEF FindNothing, TakeToken, TimeOut, CheckStopped, BeginRun, Started
<1>5. ASSUME NEW c \in 1..MaxSubmits, CallCancel(c) PROVE FALSE
  BY <1>5 DEF CallCancel, Started
<1>6. ASSUME Stop \/ StopSignal \/ ReaperTick \/ ReaperSweep \/ Tick \/ UNCHANGED vars
      PROVE  FALSE
  BY <1>6 DEF Stop, StopSignal, ReaperTick, ReaperSweep, Tick, vars, Started, None
<1> QED BY <1>1, <1>2, <1>3, <1>4, <1>5, <1>6, NextCases

\* Jobs start in the order of their submissions, whatever was canceled or
\* evicted in between; the one exception is an id that was submitted again while
\* an entry of its canceled submission still waits (Submit, next, evictLocked).
THEOREM FirstComeFirstStarted == Spec => StartsInOrder
<1>1. Init => FifoOrder
  BY DEF Init, FifoOrder
<1>2. (TypeOK /\ IInv /\ FifoOrder) /\ [Next]_vars => FifoOrder'
  BY OrderStep
<1>3. TypeOK /\ IInv /\ FifoOrder /\ [Next]_vars =>
        [\A i, k \in Ids :
           Started(i) /\ jobs[k].state = "queued" /\ k # i =>
             jobs[i].seq < jobs[k].seq \/ Occurrences(i) > 1]_vars
  BY ClaimTakesOldest, OnlyClaimStarts
<1> QED BY <1>1, <1>2, <1>3, Inductive, PTL DEF Spec, StartsInOrder

-----------------------------------------------------------------------------
(* The consoles of an instance: module Console.                            *)

Following(g) == tail[g].pc \in {"check", "eof", "send"}

\* A tailer has read no further than the log goes, and what it holds begins at the
\* latest where it has read to.
Positions ==
  \A g \in Gens : tail[g].from \in 1..(tail[g].pos + 1) /\ tail[g].pos <= Len(units)

\* What is in the hands of a tailer was broadcast by none and is held by no other;
\* above the line at which the tailer of the newest launch begins nothing was
\* broadcast, and nothing is held by the tailers that were replaced.
FreshLines ==
  /\ \A u \in Units : said[u] > 0 => u <= Len(units)
  /\ \A g \in Gens : \A u \in Pending(g) : said[u] = 0
  /\ \A g, h \in Gens : g # h => Pending(g) \cap Pending(h) = {}
  /\ \A g \in Gens : g = gen /\ Following(g) =>
       /\ \A u \in Units : u >= tail[g].from => said[u] = 0
       /\ \A h \in Gens \ {g} : \A u \in Pending(h) : u < tail[g].from

\* A broadcast that is under way serves consoles that are attached.
CastsServe ==
  /\ lock.by = "nobody" => lock.todo = {}
  /\ lock.todo \subseteq Subscribed

ConsoleIInv ==
  /\ ConsoleTypeOK /\ Positions /\ FreshLines /\ CastsServe
  /\ BroadcastOnce /\ DropsAreCounted /\ HistoryMeetsLive

-----------------------------------------------------------------------------
(* What a tailer does when it opens, reads or looks.                       *)

\* A set of numbers that is not empty has a least member.
LEMMA LeastOf ==
  ASSUME NEW R, R \subseteq Nat, R # {}
  PROVE  \E r \in R : \A q \in R : r <= q
<1> DEFINE Below == {1..r : r \in R}
<1>1. Below \subseteq FiniteSubsetsOf(Nat) /\ Below # {}
  <2>1. \A r \in R : IsFiniteSet(1..r) /\ 1..r \subseteq Nat
    BY FS_Interval
  <2> QED BY <2>1 DEF FiniteSubsetsOf
<1>2. PICK b \in Below : \A c \in Below : <<c, b>> \notin StrictSubsetOrdering(Nat)
  BY <1>1, FS_StrictSubsetOrderingWellFounded, WFMin
<1>3. PICK r \in R : b = 1..r
  BY <1>2
<1>4. ASSUME NEW q \in R PROVE r <= q
  <2>1. 1..q \in Below /\ 1..q \subseteq Nat /\ 1..r \subseteq Nat
    OBVIOUS
  <2>2. ~(1..q \subseteq 1..r /\ 1..q # 1..r)
    BY <1>2, <1>3, <2>1 DEF StrictSubsetOrdering
  <2>3. SUFFICES ASSUME q < r PROVE FALSE
    OBVIOUS
  <2>4. 1..q \subseteq 1..r /\ r \in 1..r /\ r \notin 1..q
    BY <2>3
  <2> QED BY <2>2, <2>4
<1> QED BY <1>4

\* The unit a read ends at is one of those it may read.
LEMMA Ends ==
  ASSUME NEW n \in Nat, NEW U, U \subseteq 1..n, U # {}
  PROVE  Lowest(U) \in U /\ Highest(U) \in U
<1>1. Lowest(U) \in U
  <2>1. U \subseteq Nat
    OBVIOUS
  <2>2. \E r \in U : \A q \in U : r <= q
    BY <2>1, LeastOf
  <2> QED BY <2>2 DEF Lowest
<1>2. \E u \in U : \A v \in U : v <= u
  <2> DEFINE R == {n - u : u \in U}
  <2>1. R \subseteq Nat /\ R # {}
    <3>1. \A u \in U : n - u \in Nat
      OBVIOUS
    <3> QED BY <3>1
  <2>2. PICK r \in R : \A q \in R : r <= q
    BY <2>1, LeastOf
  <2>3. PICK u \in U : r = n - u
    BY <2>2
  <2>4. ASSUME NEW v \in U PROVE v <= u
    <3>1. n - v \in R
      OBVIOUS
    <3>2. n - u <= n - v
      BY <2>2, <2>3, <3>1
    <3> QED BY <3>2
  <2> QED BY <2>4
<1> QED BY <1>1, <1>2 DEF Highest

\* A tailer opens the file at its end, gives up what it holds, or reads on; only the
\* newest reads on.
Opened(g, t) ==
  /\ t.pc = "check" /\ t.file = file /\ t.start = Len(units)
  /\ t.pos = Len(units) /\ t.from = Len(units) + 1
GaveUp(t) == t.pc = "done" /\ t.from = 1 /\ t.pos = 0
ReadOn(g, t) ==
  /\ g = gen /\ Following(g) /\ t.pc \in {"check", "eof", "send"}
  /\ t.from = tail[g].from /\ t.file = tail[g].file /\ t.start = tail[g].start
  /\ t.pos \in tail[g].pos..Len(units)
Looks(g, t) == Opened(g, t) \/ GaveUp(t) \/ ReadOn(g, t)

\* The log is a sequence of at most MaxUnits units.
LEMMA LogLength ==
  ASSUME ConsoleTypeOK
  PROVE  Len(units) \in Nat /\ Len(units) <= MaxUnits /\ DOMAIN units = 1..Len(units)
BY LenProperties, ConsoleAssumption DEF ConsoleTypeOK

Phases == {"off", "open", "check", "eof", "send", "done"}

\* Records of tailers, field by field.
LEMMA TailUpdates ==
  ASSUME NEW r \in TailRecords, NEW p \in Phases
  PROVE  /\ [r EXCEPT !.pc = p] \in TailRecords
         /\ [r EXCEPT !.final = TRUE, !.pc = p] \in TailRecords
         /\ \A k \in Nat : [r EXCEPT !.pos = k, !.pc = p] \in TailRecords
         /\ \A i \in 0..IdleTicks : [r EXCEPT !.idle = i, !.pc = p] \in TailRecords
         /\ \A k \in Nat, i \in 0..IdleTicks :
              /\ [r EXCEPT !.pos = k, !.idle = i, !.pc = p] \in TailRecords
              /\ [r EXCEPT !.from = k, !.idle = i, !.pc = p] \in TailRecords
<1>1. [r EXCEPT !.pc = p] \in TailRecords /\ [r EXCEPT !.final = TRUE, !.pc = p] \in TailRecords
  BY Zenon DEF TailRecords, Phases
<1>2. ASSUME NEW k \in Nat PROVE [r EXCEPT !.pos = k, !.pc = p] \in TailRecords
  BY Zenon DEF TailRecords, Phases
<1>3. ASSUME NEW i \in 0..IdleTicks PROVE [r EXCEPT !.idle = i, !.pc = p] \in TailRecords
  BY Zenon DEF TailRecords, Phases
<1>4. ASSUME NEW k \in Nat, NEW i \in 0..IdleTicks
      PROVE  [r EXCEPT !.pos = k, !.idle = i, !.pc = p] \in TailRecords
  BY Zenon DEF TailRecords, Phases
<1>5. ASSUME NEW k \in Nat, NEW i \in 0..IdleTicks
      PROVE  [r EXCEPT !.from = k, !.idle = i, !.pc = p] \in TailRecords
  BY Zenon DEF TailRecords, Phases
<1> QED BY <1>1, <1>2, <1>3, <1>4, <1>5

LEMMA TailStarts ==
  ASSUME NEW p \in Phases
  PROVE  /\ NoTail \in TailRecords /\ [NoTail EXCEPT !.pc = p] \in TailRecords
         /\ \A f, s \in Nat :
              /\ [NoTail EXCEPT !.pc = p, !.file = f, !.start = s] \in TailRecords
              /\ \A k, m \in Nat :
                   [NoTail EXCEPT !.pc = p, !.file = f, !.start = s, !.pos = k, !.from = m]
                     \in TailRecords
<1>1. 0 \in Nat /\ 1 \in Nat /\ 0 \in 0..IdleTicks
  BY ConsoleAssumption
<1>2. NoTail \in TailRecords /\ [NoTail EXCEPT !.pc = p] \in TailRecords
  BY <1>1, Zenon DEF TailRecords, Phases, NoTail
<1>3. ASSUME NEW f \in Nat, NEW s \in Nat
      PROVE  [NoTail EXCEPT !.pc = p, !.file = f, !.start = s] \in TailRecords
  BY <1>1, Zenon DEF TailRecords, Phases, NoTail
<1>4. ASSUME NEW f \in Nat, NEW s \in Nat, NEW k \in Nat, NEW m \in Nat
      PROVE  [NoTail EXCEPT !.pc = p, !.file = f, !.start = s, !.pos = k, !.from = m]
               \in TailRecords
  BY <1>1, Zenon DEF TailRecords, Phases, NoTail
<1> QED BY <1>2, <1>3, <1>4

LEMMA OpenLooks ==
  ASSUME ConsoleTypeOK, NEW g \in Gens, Open(g)
  PROVE  \E t \in TailRecords : tail' = [tail EXCEPT ![g] = t] /\ Looks(g, t)
<1> DEFINE t == [NoTail EXCEPT !.pc = "check", !.file = file, !.start = Len(units),
                      !.pos = Len(units), !.from = Len(units) + 1]
<1>1. t \in TailRecords
  <2>1. "check" \in Phases /\ file \in Nat /\ Len(units) \in Nat /\ Len(units) + 1 \in Nat
    BY LogLength DEF ConsoleTypeOK, Phases
  <2> QED BY <2>1, TailStarts
<1>2. tail' = [tail EXCEPT ![g] = t] /\ Opened(g, t)
  BY DEF Open, Opened, NoTail
<1> QED BY <1>1, <1>2 DEF Looks

LEMMA ScanLooks ==
  ASSUME ConsoleTypeOK, Positions, NEW g \in Gens, Scan(g)
  PROVE  \E t \in TailRecords : tail' = [tail EXCEPT ![g] = t] /\ Looks(g, t)
<1> DEFINE new == Unread(g)
<1>0. tail[g] \in TailRecords /\ tail[g].pc = "check" /\ Len(units) \in Nat /\ tail[g].pos <= Len(units)
  BY LogLength DEF ConsoleTypeOK, Scan, Runs, Positions
<1>1. new \subseteq 1..Len(units) /\ new \subseteq (tail[g].pos + 1)..Len(units) /\ LineEnds(new) \subseteq new
  BY <1>0 DEF Unread, LineEnds, TailRecords
<1>2. CASE Stale(g)
  <2>1. tail' = [tail EXCEPT ![g] = [NoTail EXCEPT !.pc = "done"]]
    BY <1>2 DEF Scan
  <2>2. [NoTail EXCEPT !.pc = "done"] \in TailRecords /\ GaveUp([NoTail EXCEPT !.pc = "done"])
    <3>1. "done" \in Phases /\ 0 \in Nat
      BY DEF Phases
    <3> QED BY <3>1, TailStarts DEF GaveUp, NoTail
  <2> QED BY <2>1, <2>2 DEF Looks
<1>3. CASE ~Stale(g) /\ LineEnds(new) # {}
  <2> DEFINE t == [tail[g] EXCEPT !.pos = Lowest(LineEnds(new)), !.pc = "send"]
  <2>1. tail' = [tail EXCEPT ![g] = t]
    BY <1>3 DEF Scan, ConsoleTypeOK
  <2>2. Lowest(LineEnds(new)) \in new
    BY <1>0, <1>1, <1>3, Ends
  <2>3. t \in TailRecords
    <3>1. "send" \in Phases /\ Lowest(LineEnds(new)) \in Nat
      BY <1>1, <2>2 DEF Phases
    <3> QED BY <1>0, <3>1, TailUpdates
  <2>4. ReadOn(g, t)
    BY <1>0, <1>1, <1>3, <2>2 DEF ReadOn, Following, Stale, TailRecords
  <2> QED BY <2>1, <2>3, <2>4 DEF Looks
<1>4. CASE ~Stale(g) /\ LineEnds(new) = {} /\ new # {}
  <2> DEFINE t == [tail[g] EXCEPT !.pos = Highest(new), !.idle = 0, !.pc = "eof"]
  <2>1. tail' = [tail EXCEPT ![g] = t]
    BY <1>4 DEF Scan, ConsoleTypeOK
  <2>2. Highest(new) \in new
    BY <1>0, <1>1, <1>4, Ends
  <2>3. t \in TailRecords
    <3>1. "eof" \in Phases /\ Highest(new) \in Nat /\ 0 \in 0..IdleTicks
      BY <1>1, <2>2, ConsoleAssumption DEF Phases
    <3> QED BY <1>0, <3>1, TailUpdates
  <2>4. ReadOn(g, t)
    BY <1>0, <1>1, <1>4, <2>2 DEF ReadOn, Following, Stale, TailRecords
  <2> QED BY <2>1, <2>3, <2>4 DEF Looks
<1>5. CASE ~Stale(g) /\ LineEnds(new) = {} /\ new = {}
  <2> DEFINE t == [tail[g] EXCEPT !.pc = "eof"]
  <2>1. tail' = [tail EXCEPT ![g] = t]
    BY <1>5 DEF Scan, ConsoleTypeOK
  <2>2. t \in TailRecords
    <3>1. "eof" \in Phases
      BY DEF Phases
    <3> QED BY <1>0, <3>1, TailUpdates
  <2>3. ReadOn(g, t)
    BY <1>0, <1>5 DEF ReadOn, Following, Stale, TailRecords
  <2> QED BY <2>1, <2>2, <2>3 DEF Looks
<1> QED BY <1>2, <1>3, <1>4, <1>5

LEMMA AtEndLooks ==
  ASSUME ConsoleTypeOK, Positions, NEW g \in Gens, AtEnd(g)
  PROVE  \E t \in TailRecords : tail' = [tail EXCEPT ![g] = t] /\ Looks(g, t)
<1>0. tail[g] \in TailRecords /\ tail[g].pc = "eof" /\ Len(units) \in Nat /\ tail[g].pos <= Len(units)
  BY LogLength DEF ConsoleTypeOK, AtEnd, Runs, Positions
<1> DEFINE t == IF Stale(g) THEN [NoTail EXCEPT !.pc = "done"]
                ELSE IF status # "running" /\ ~tail[g].final
                THEN [tail[g] EXCEPT !.final = TRUE, !.pc = "check"]
                ELSE IF status # "running"
                THEN IF Pending(g) = {} THEN Done(g) ELSE [tail[g] EXCEPT !.pc = "send"]
                ELSE IF Pending(g) = {} THEN [tail[g] EXCEPT !.pc = "check"]
                ELSE IF tail[g].idle + 1 < IdleTicks
                THEN [tail[g] EXCEPT !.idle = tail[g].idle + 1, !.pc = "check"]
                ELSE [tail[g] EXCEPT !.pc = "send"]
<1>1. tail' = [tail EXCEPT ![g] = t]
  BY Zenon DEF AtEnd
<1>7. \/ Stale(g) /\ t = [NoTail EXCEPT !.pc = "done"]
      \/ t = Done(g)
      \/ /\ ~Stale(g)
         /\ \/ t = [tail[g] EXCEPT !.final = TRUE, !.pc = "check"]
            \/ t = [tail[g] EXCEPT !.pc = "send"]
            \/ t = [tail[g] EXCEPT !.pc = "check"]
            \/ tail[g].idle + 1 < IdleTicks /\ t = [tail[g] EXCEPT !.idle = tail[g].idle + 1, !.pc = "check"]
  BY Zenon
<1> HIDE DEF t
<1>2. "done" \in Phases /\ "check" \in Phases /\ "send" \in Phases /\ 0 \in Nat
  BY DEF Phases
<1>3. tail[g].file \in Nat /\ tail[g].start \in Nat
  BY <1>0 DEF TailRecords
<1>4. CASE t = [NoTail EXCEPT !.pc = "done"]
  BY <1>1, <1>2, <1>4, TailStarts DEF GaveUp, NoTail, Looks
<1>5. CASE t = Done(g)
  <2>1. t \in TailRecords
    BY <1>2, <1>3, <1>5, TailStarts DEF Done
  <2>2. GaveUp(t)
    BY <1>5 DEF GaveUp, Done, NoTail
  <2> QED BY <1>1, <2>1, <2>2 DEF Looks
<1>6. CASE /\ ~Stale(g)
           /\ \/ t = [tail[g] EXCEPT !.final = TRUE, !.pc = "check"]
              \/ t = [tail[g] EXCEPT !.pc = "send"]
              \/ t = [tail[g] EXCEPT !.pc = "check"]
              \/ tail[g].idle + 1 < IdleTicks /\ t = [tail[g] EXCEPT !.idle = tail[g].idle + 1, !.pc = "check"]
  <2>1. tail[g].idle + 1 < IdleTicks => tail[g].idle + 1 \in 0..IdleTicks
    <3>1. tail[g].idle \in Nat /\ IdleTicks \in Nat
      BY <1>0, ConsoleAssumption DEF TailRecords
    <3> QED BY <3>1
  <2>2. t \in TailRecords
    <3>1. /\ [tail[g] EXCEPT !.final = TRUE, !.pc = "check"] \in TailRecords
          /\ [tail[g] EXCEPT !.pc = "send"] \in TailRecords
          /\ [tail[g] EXCEPT !.pc = "check"] \in TailRecords
      BY <1>0, <1>2, TailUpdates
    <3>2. tail[g].idle + 1 < IdleTicks =>
            [tail[g] EXCEPT !.idle = tail[g].idle + 1, !.pc = "check"] \in TailRecords
      BY <1>0, <1>2, <2>1, TailUpdates
    <3> QED BY <1>6, <3>1, <3>2
  <2>3. /\ t.pc \in {"check", "send"} /\ t.from = tail[g].from /\ t.file = tail[g].file
        /\ t.start = tail[g].start /\ t.pos = tail[g].pos
    BY <1>0, <1>6 DEF TailRecords
  <2>4. tail[g].pos \in Nat
    BY <1>0 DEF TailRecords
  <2>5. ReadOn(g, t)
    BY <1>0, <1>6, <2>3, <2>4 DEF ReadOn, Following, Stale
  <2> QED BY <1>1, <2>2, <2>5 DEF Looks
<1> QED BY <1>4, <1>5, <1>6, <1>7, Zenon

-----------------------------------------------------------------------------
(* What a channel stands for.                                              *)

\* An empty channel stands for nothing.
LEMMA ChannelEmpty == InChannel(<<>>, 0)
<1> DEFINE total == [k \in 0..0 |-> 0]
<1>1. total \in [0..Len(<<>>) -> 0..0] /\ total[0] = 0 /\ Len(<<>>) = 0
  OBVIOUS
<1> HIDE DEF total
<1>2. \A k \in 1..Len(<<>>) : total[k] = total[k - 1] + Stands(<<>>[k])
  BY <1>1
<1> QED BY <1>1, <1>2 DEF InChannel

\* A message put into a channel adds what it stands for.
LEMMA ChannelAppend ==
  ASSUME NEW s \in Seq(Nat), NEW n \in Nat, NEW m \in Nat, InChannel(s, n)
  PROVE  InChannel(Append(s, m), n + Stands(m))
<1> DEFINE a == Append(s, m)  last == n + Stands(m)
<1>1. PICK total \in [0..Len(s) -> 0..n] :
        /\ total[0] = 0 /\ total[Len(s)] = n
        /\ \A k \in 1..Len(s) : total[k] = total[k - 1] + Stands(s[k])
  BY DEF InChannel
<1>2. /\ Len(s) \in Nat /\ Len(a) = Len(s) + 1 /\ a[Len(s) + 1] = m
      /\ \A k \in 1..Len(s) : a[k] = s[k]
  BY LenProperties, AppendProperties
<1>3. Stands(m) \in Nat /\ last \in Nat /\ n <= last
  BY DEF Stands
<1> HIDE DEF a, last
<1> DEFINE new == [k \in 0..Len(a) |-> IF k = Len(a) THEN last ELSE total[k]]
<1>4. new \in [0..Len(a) -> 0..last]
  <2>1. ASSUME NEW k \in 0..Len(a), k # Len(a) PROVE total[k] \in 0..last
    <3>1. k \in 0..Len(s)
      BY <1>2, <2>1
    <3>2. total[k] \in 0..n
      BY <1>1, <3>1
    <3> QED BY <1>3, <3>2
  <2>2. last \in 0..last
    BY <1>3
  <2> QED BY <2>1, <2>2
<1>5. new[0] = 0 /\ new[Len(a)] = last
  BY <1>1, <1>2
<1>6. ASSUME NEW k \in 1..Len(a) PROVE new[k] = new[k - 1] + Stands(a[k])
  <2>1. CASE k = Len(a)
    <3>1. new[k] = last /\ new[k - 1] = n /\ a[k] = m
      BY <1>1, <1>2, <2>1
    <3> QED BY <3>1 DEF last
  <2>2. CASE k # Len(a)
    <3>1. k \in 1..Len(s) /\ k - 1 \in 0..Len(a) /\ k - 1 # Len(a)
      BY <1>2, <2>2
    <3>2. new[k] = total[k] /\ new[k - 1] = total[k - 1] /\ a[k] = s[k]
      BY <1>2, <2>2, <3>1
    <3> QED BY <1>1, <3>1, <3>2
  <2> QED BY <2>1, <2>2
<1> HIDE DEF new
<1>7. InChannel(a, last)
  BY <1>4, <1>5, <1>6 DEF InChannel
<1> QED BY <1>7 DEF a, last

\* The running total never falls below what the first message stands for.
LEMMA ChannelRises ==
  ASSUME NEW s \in Seq(Nat), NEW n \in Nat, NEW total \in [0..Len(s) -> 0..n],
         \A k \in 1..Len(s) : total[k] = total[k - 1] + Stands(s[k])
  PROVE  \A k \in 1..Len(s) : total[1] <= total[k]
<1> DEFINE R == {k \in 1..Len(s) : total[k] < total[1]}
<1>0. ASSUME NEW k \in 1..Len(s) PROVE total[k] \in Int /\ total[1] \in Int
  <2>1. Len(s) \in Nat /\ k \in 0..Len(s) /\ 1 \in 0..Len(s)
    BY LenProperties
  <2>2. total[k] \in 0..n /\ total[1] \in 0..n
    BY <2>1
  <2> QED BY <2>2
<1>1. SUFFICES ASSUME R # {} PROVE FALSE
  <2>1. ASSUME NEW k \in 1..Len(s) PROVE total[1] <= total[k]
    <3>1. k \notin R
      BY <1>1
    <3> QED BY <1>0, <3>1
  <2> QED BY <2>1
<1>2. R \subseteq Nat
  OBVIOUS
<1>3. PICK r \in R : \A q \in R : r <= q
  BY <1>1, <1>2, LeastOf
<1>4. Len(s) \in Nat /\ r \in 1..Len(s) /\ r # 1 /\ total[r] < total[1]
  <2>1. r \in 1..Len(s) /\ Len(s) \in Nat /\ total[r] < total[1]
    BY <1>3, LenProperties
  <2>2. total[1] \in Int
    BY <1>0, <2>1
  <2>3. ~(total[1] < total[1])
    BY <2>2
  <2>4. r # 1
    BY <2>1, <2>3, Zenon
  <2> QED BY <2>1, <2>4
<1>5. r - 1 \in 1..Len(s) /\ r - 1 \notin R
  <2>1. r - 1 \in 1..Len(s) /\ ~(r <= r - 1)
    BY <1>4
  <2> QED BY <1>3, <2>1
<1>6. s[r] \in Nat /\ Stands(s[r]) \in Nat
  BY <1>4, ElementOfSeq DEF Stands
<1>7. total[r - 1] >= total[1] /\ total[r - 1] \in Nat /\ total[r] < total[1] /\ total[r] \in Nat
  <2>1. r - 1 \in 0..Len(s) /\ r \in 0..Len(s) /\ 1 \in 0..Len(s)
    BY <1>4
  <2>2. total[r - 1] \in 0..n /\ total[r] \in 0..n /\ total[1] \in 0..n
    BY <2>1
  <2>3. ~(total[r - 1] < total[1])
    BY <1>5
  <2> QED BY <1>4, <2>2, <2>3
<1>8. total[r] = total[r - 1] + Stands(s[r])
  BY <1>4
<1>9. total[1] \in Nat
  <2>1. 1 \in 0..Len(s)
    BY <1>4
  <2>2. total[1] \in 0..n
    BY <2>1
  <2> QED BY <2>2
<1> QED BY <1>6, <1>7, <1>8, <1>9

\* A message taken from a channel stands for no more than the channel, and takes it away.
LEMMA ChannelTail ==
  ASSUME NEW s \in Seq(Nat), NEW n \in Nat, s # <<>>, InChannel(s, n)
  PROVE  Stands(Head(s)) \in 1..n /\ InChannel(Tail(s), n - Stands(Head(s)))
<1>1. PICK total \in [0..Len(s) -> 0..n] :
        /\ total[0] = 0 /\ total[Len(s)] = n
        /\ \A k \in 1..Len(s) : total[k] = total[k - 1] + Stands(s[k])
  BY DEF InChannel
<1> DEFINE b == Tail(s)  one == Stands(Head(s))
<1>2. /\ Len(s) \in Nat \ {0} /\ Len(b) = Len(s) - 1 /\ Head(s) = s[1] /\ Head(s) \in Nat
      /\ \A k \in 1..Len(b) : b[k] = s[k + 1]
  BY LenProperties, HeadTailProperties, EmptySeq
<1>3. one \in Nat \ {0} /\ total[1] = one
  <2>1. total[1] = total[0] + Stands(s[1]) /\ Stands(s[1]) \in Nat \ {0}
    BY <1>1, <1>2 DEF Stands
  <2> QED BY <1>1, <1>2, <2>1
<1>4. one <= n
  <2>1. 1 \in 0..Len(s)
    BY <1>2
  <2>2. total[1] \in 0..n
    BY <1>1, <2>1
  <2> QED BY <1>3, <2>2
<1>5. \A k \in 1..Len(s) : one <= total[k] /\ total[k] \in 0..n
  <2>1. \A k \in 1..Len(s) : total[1] <= total[k]
    BY <1>1, ChannelRises
  <2>2. ASSUME NEW k \in 1..Len(s) PROVE total[k] \in 0..n
    <3>1. k \in 0..Len(s)
      BY <1>2
    <3> QED BY <1>1, <3>1
  <2> QED BY <1>3, <2>1, <2>2
<1> DEFINE new == [k \in 0..Len(b) |-> total[k + 1] - one]
<1> HIDE DEF b, one
<1>6. new \in [0..Len(b) -> 0..(n - one)]
  <2>1. ASSUME NEW k \in 0..Len(b) PROVE total[k + 1] - one \in 0..(n - one)
    <3>1. k + 1 \in 1..Len(s)
      BY <1>2
    <3>2. one <= total[k + 1] /\ total[k + 1] \in 0..n
      BY <1>5, <3>1
    <3> QED BY <1>3, <1>4, <3>2
  <2> QED BY <2>1
<1>7. new[0] = 0 /\ new[Len(b)] = n - one
  BY <1>1, <1>2, <1>3
<1>8. ASSUME NEW k \in 1..Len(b) PROVE new[k] = new[k - 1] + Stands(b[k])
  <2>1. k + 1 \in 1..Len(s) /\ k \in 1..Len(s) /\ (k + 1) - 1 = k /\ k - 1 \in 0..Len(b) /\ (k - 1) + 1 = k
    BY <1>2
  <2>2. total[k + 1] = total[k] + Stands(s[k + 1])
    BY <1>1, <2>1
  <2>3. new[k] = total[k + 1] - one /\ new[k - 1] = total[k] - one
    BY <2>1
  <2>4. b[k] = s[k + 1] /\ s[k + 1] \in Nat /\ Stands(b[k]) \in Nat
    BY <1>2, <2>1, ElementOfSeq DEF Stands
  <2>5. total[k] \in Nat /\ total[k + 1] \in Nat
    BY <1>5, <2>1
  <2> QED BY <1>3, <2>2, <2>3, <2>4, <2>5
<1> HIDE DEF new
<1>9. InChannel(b, n - one)
  BY <1>6, <1>7, <1>8 DEF InChannel
<1> QED BY <1>3, <1>4, <1>9 DEF b, one

-----------------------------------------------------------------------------
(* Types.                                                                  *)

\* Records of subscriptions, field by field.
LEMMA SubUpdates ==
  ASSUME NEW r \in SubRecords, NEW b \in Seq(Nat), NEW k \in Nat, NEW X \in SUBSET Units
  PROVE  /\ [r EXCEPT !.buf = b] \in SubRecords
         /\ [r EXCEPT !.dropped = k] \in SubRecords
         /\ [r EXCEPT !.buf = b, !.dropped = k] \in SubRecords
         /\ [r EXCEPT !.buf = b, !.owed = k] \in SubRecords
         /\ [r EXCEPT !.owed = k, !.since = X] \in SubRecords
<1>1. [r EXCEPT !.buf = b] \in SubRecords
  BY Zenon DEF SubRecords
<1>2. [r EXCEPT !.dropped = k] \in SubRecords
  BY Zenon DEF SubRecords
<1>3. [r EXCEPT !.buf = b, !.dropped = k] \in SubRecords
  BY Zenon DEF SubRecords
<1>4. [r EXCEPT !.buf = b, !.owed = k] \in SubRecords
  BY Zenon DEF SubRecords
<1>5. [r EXCEPT !.owed = k, !.since = X] \in SubRecords
  BY Zenon DEF SubRecords
<1> QED BY <1>1, <1>2, <1>3, <1>4, <1>5

LEMMA SubStarts ==
  ASSUME NEW k \in Nat
  PROVE  NoSub \in SubRecords /\ [NoSub EXCEPT !.hist = k] \in SubRecords
<1>1. 0 \in Nat /\ <<>> \in Seq(Nat) /\ {} \in SUBSET Units
  BY EmptySeq
<1>2. NoSub \in SubRecords
  BY <1>1, Zenon DEF SubRecords, NoSub
<1>3. [NoSub EXCEPT !.hist = k] \in SubRecords
  BY <1>1, Zenon DEF SubRecords, NoSub
<1> QED BY <1>2, <1>3

LEMMA FreeType == Free \in LockRecords /\ NoWatch \in [pc : {"none", "watch", "tell"}, gen : 0..MaxGen]
BY ConsoleAssumption DEF Free, NoWatch, LockRecords

\* What a step may change of the consoles' side.
ConsoleSide ==
  /\ lock \in LockRecords /\ said \in [Units -> Nat]
  /\ sub \in [Clients -> SubRecords] /\ ses \in [Clients -> {"off", "open"}]
  /\ \A c \in Clients : Len(sub[c].buf) <= Cap

LEMMA BroadcastType ==
  ASSUME ConsoleTypeOK, NEW who \in {"tailer", "waiter", "watcher"}, NEW g \in 0..MaxGen,
         NEW U \in SUBSET Units, Broadcast(who, g, U), ses' = ses
  PROVE  ConsoleSide'
<1>0. /\ Subscribed \in SUBSET Clients /\ sub \in [Clients -> SubRecords] /\ said \in [Units -> Nat]
  BY DEF Subscribed, ConsoleTypeOK
<1>1. lock' \in LockRecords
  BY <1>0, FreeType DEF Broadcast, LockRecords, Free
<1>2. said' \in [Units -> Nat]
  <2>1. ASSUME NEW u \in Units PROVE said[u] \in Nat /\ said[u] + 1 \in Nat
    BY <1>0
  <2> QED BY <2>1 DEF Broadcast
<1> DEFINE r(c) == [sub[c] EXCEPT !.owed = @ + 1, !.since = @ \cup {u \in U : u > sub[c].hist}]
<1>3. ASSUME NEW c \in Clients PROVE r(c) \in SubRecords /\ r(c).buf = sub[c].buf
  <2>1. sub[c] \in SubRecords
    BY <1>0
  <2>2. /\ sub[c].owed + 1 \in Nat /\ sub[c].buf \in Seq(Nat)
        /\ sub[c].since \cup {u \in U : u > sub[c].hist} \in SUBSET Units
    BY <2>1 DEF SubRecords
  <2>3. r(c) \in SubRecords
    BY <2>1, <2>2, SubUpdates
  <2>4. r(c).buf = sub[c].buf
    BY <2>1 DEF SubRecords
  <2> QED BY <2>3, <2>4
<1>4. sub' = [c \in Clients |-> IF c \in Subscribed THEN r(c) ELSE sub[c]]
  BY DEF Broadcast
<1> HIDE DEF r
<1>5. sub' \in [Clients -> SubRecords] /\ \A c \in Clients : Len(sub'[c].buf) <= Cap
  BY <1>0, <1>3, <1>4 DEF ConsoleTypeOK
<1> QED BY <1>1, <1>2, <1>5 DEF ConsoleSide, ConsoleTypeOK

LEMMA ServerTypes ==
  ASSUME ConsoleTypeOK, \/ \E ends \in BOOLEAN : ServerWrites(ends)
                        \/ \E rotates \in BOOLEAN : Start(rotates)
                        \/ ServerExits \/ AdoptedEnded \/ AdoptedStopEnded \/ KillAdopted
  PROVE  ConsoleTypeOK'
<1>1. ASSUME NEW ends \in BOOLEAN, ServerWrites(ends) PROVE ConsoleTypeOK'
  <2>1. [file |-> file, ends |-> ends] \in [file : Nat, ends : BOOLEAN]
    BY Zenon DEF ConsoleTypeOK
  <2>2. /\ units' \in Seq([file : Nat, ends : BOOLEAN])
        /\ Len(units') = Len(units) + 1
    BY <1>1, <2>1, AppendProperties DEF ConsoleTypeOK, ServerWrites
  <2>3. Len(units') <= MaxUnits
    BY <1>1, <2>2, LogLength, ConsoleAssumption DEF ServerWrites
  <2> QED BY <1>1, <2>2, <2>3 DEF ConsoleTypeOK, ServerWrites, instance, bounds
<1>2. ASSUME NEW rotates \in BOOLEAN, Start(rotates) PROVE ConsoleTypeOK'
  <2>1. gen + 1 \in 0..MaxGen /\ gen + 1 \in Gens /\ file + 1 \in Nat
    BY <1>2, ConsoleAssumption DEF ConsoleTypeOK, Start, Gens
  <2>2. [NoTail EXCEPT !.pc = "open"] \in TailRecords
    BY TailStarts DEF Phases
  <2>3. tail' \in [Gens -> TailRecords]
    BY <1>2, <2>1, <2>2 DEF ConsoleTypeOK, Start
  <2> QED BY <1>2, <2>1, <2>3 DEF ConsoleTypeOK, Start, bounds
<1>3. ASSUME ServerExits PROVE ConsoleTypeOK'
  BY <1>3 DEF ConsoleTypeOK, ServerExits, instance, bounds
<1>4. ASSUME AdoptedEnded PROVE ConsoleTypeOK'
  <2>1. watcher' \in [pc : {"none", "watch", "tell"}, gen : 0..MaxGen]
    BY <1>4, FreeType DEF ConsoleTypeOK, AdoptedEnded
  <2> QED BY <1>4, <2>1 DEF ConsoleTypeOK, AdoptedEnded, server, bounds
<1>5. ASSUME AdoptedStopEnded PROVE ConsoleTypeOK'
  BY <1>5 DEF ConsoleTypeOK, AdoptedStopEnded, server, bounds
<1>6. ASSUME KillAdopted PROVE ConsoleTypeOK'
  BY <1>6 DEF ConsoleTypeOK, KillAdopted, bounds
<1> QED BY <1>1, <1>2, <1>3, <1>4, <1>5, <1>6

LEMMA ToldTypes ==
  ASSUME ConsoleTypeOK, Reaped \/ AdoptedTells
  PROVE  ConsoleTypeOK'
<1>1. {} \in SUBSET Units /\ gen \in 0..MaxGen
  BY DEF ConsoleTypeOK
<1>2. CASE Reaped
  <2>1. ConsoleSide'
    BY <1>1, <1>2, BroadcastType DEF Reaped
  <2> QED BY <1>2, <2>1 DEF Reaped, ConsoleSide, ConsoleTypeOK, server, bounds
<1>3. CASE AdoptedTells
  <2>1. ConsoleSide'
    BY <1>1, <1>3, BroadcastType DEF AdoptedTells
  <2> QED BY <1>3, <2>1, FreeType DEF AdoptedTells, ConsoleSide, ConsoleTypeOK, server, bounds
<1> QED BY <1>2, <1>3

LEMMA LooksTypes ==
  ASSUME ConsoleTypeOK, Positions, NEW g \in Gens, Open(g) \/ Scan(g) \/ AtEnd(g)
  PROVE  ConsoleTypeOK'
<1>1. PICK t \in TailRecords : tail' = [tail EXCEPT ![g] = t]
  BY OpenLooks, ScanLooks, AtEndLooks
<1>2. tail' \in [Gens -> TailRecords]
  BY <1>1 DEF ConsoleTypeOK
<1> QED BY <1>2 DEF ConsoleTypeOK, Open, Scan, AtEnd, server, instance, bounds

LEMMA SendTypes ==
  ASSUME ConsoleTypeOK, Positions, NEW g \in Gens, Send(g)
  PROVE  ConsoleTypeOK'
<1>1. tail[g] \in TailRecords /\ Len(units) \in Nat /\ Len(units) <= MaxUnits
  BY LogLength DEF ConsoleTypeOK
<1>2. Pending(g) \in SUBSET Units
  BY <1>1, ConsoleAssumption DEF Positions, Pending, Units, TailRecords
<1>3. g \in 0..MaxGen
  BY ConsoleAssumption DEF Gens
<1>4. ConsoleSide'
  BY <1>2, <1>3, BroadcastType DEF Send
<1>5. tail' \in [Gens -> TailRecords]
  <2>1. tail[g].pos + 1 \in Nat /\ 0 \in 0..IdleTicks /\ "check" \in Phases
    BY <1>1, ConsoleAssumption DEF TailRecords, Phases
  <2>2. [tail[g] EXCEPT !.from = tail[g].pos + 1, !.idle = 0, !.pc = "check"] \in TailRecords
    BY <1>1, <2>1, TailUpdates
  <2>3. tail' = [tail EXCEPT ![g] = [tail[g] EXCEPT !.from = tail[g].pos + 1, !.idle = 0, !.pc = "check"]]
    BY DEF Send, ConsoleTypeOK
  <2> QED BY <2>2, <2>3 DEF ConsoleTypeOK
<1> QED BY <1>4, <1>5 DEF Send, ConsoleSide, ConsoleTypeOK, server, instance, bounds

LEMMA CastTypes ==
  ASSUME ConsoleTypeOK, NEW c \in Clients, CastNotice(c) \/ CastLine(c)
  PROVE  ConsoleTypeOK'
<1>0. /\ sub[c] \in SubRecords /\ lock \in LockRecords /\ sub[c].dropped \in Nat /\ sub[c].buf \in Seq(Nat)
      /\ Len(sub[c].buf) <= Cap /\ Len(sub[c].buf) \in Nat /\ 0 \in Nat /\ sub[c].dropped + 1 \in Nat
  BY LenProperties DEF ConsoleTypeOK, SubRecords
<1>1. ASSUME NEW m \in Nat
      PROVE  /\ Append(sub[c].buf, m) \in Seq(Nat)
             /\ Len(Append(sub[c].buf, m)) = Len(sub[c].buf) + 1
  BY <1>0, AppendProperties
<1>2. lock' \in LockRecords
  <2>1. CASE CastNotice(c)
    BY <1>0, <2>1 DEF CastNotice, LockRecords
  <2>2. CASE CastLine(c)
    BY <1>0, <2>2, FreeType DEF CastLine, Served, LockRecords
  <2> QED BY <2>1, <2>2
<1>3. PICK r : sub' = [sub EXCEPT ![c] = r] /\ r \in SubRecords /\ Len(r.buf) <= Cap
  <2>1. ASSUME NEW m \in Nat, NEW k \in Nat, Room(c)
        PROVE  /\ [sub[c] EXCEPT !.buf = Append(@, m)] \in SubRecords
               /\ [sub[c] EXCEPT !.buf = Append(@, m), !.dropped = k] \in SubRecords
               /\ Len([sub[c] EXCEPT !.buf = Append(@, m)].buf) <= Cap
               /\ Len([sub[c] EXCEPT !.buf = Append(@, m), !.dropped = k].buf) <= Cap
    <3>1. Len(Append(sub[c].buf, m)) <= Cap
      BY <1>0, <1>1, <2>1, ConsoleAssumption DEF Room
    <3>2. /\ [sub[c] EXCEPT !.buf = Append(@, m)].buf = Append(sub[c].buf, m)
          /\ [sub[c] EXCEPT !.buf = Append(@, m), !.dropped = k].buf = Append(sub[c].buf, m)
      BY <1>0 DEF SubRecords
    <3>3. {} \in SUBSET Units
      OBVIOUS
    <3> QED BY <1>0, <1>1, <3>1, <3>2, <3>3, SubUpdates
  <2>2. /\ [sub[c] EXCEPT !.dropped = @ + 1] \in SubRecords
        /\ [sub[c] EXCEPT !.dropped = @ + 1].buf = sub[c].buf
    <3>1. {} \in SUBSET Units
      OBVIOUS
    <3> QED BY <1>0, <3>1, SubUpdates DEF SubRecords
  <2>3. CASE CastNotice(c)
    <3>1. sub' = [sub EXCEPT ![c] = IF Room(c) THEN [sub[c] EXCEPT !.buf = Append(@, sub[c].dropped), !.dropped = 0]
                                    ELSE sub[c]]
      BY <2>3 DEF CastNotice
    <3> QED BY <1>0, <2>1, <3>1
  <2>4. CASE CastLine(c)
    <3>1. sub' = [sub EXCEPT ![c] = IF Room(c) THEN [sub[c] EXCEPT !.buf = Append(@, 0)]
                                    ELSE [sub[c] EXCEPT !.dropped = @ + 1]]
      BY <2>4 DEF CastLine
    <3> QED BY <1>0, <2>1, <2>2, <3>1
  <2> QED BY <2>3, <2>4
<1>4. sub' \in [Clients -> SubRecords] /\ \A d \in Clients : Len(sub'[d].buf) <= Cap
  BY <1>3 DEF ConsoleTypeOK
<1> QED BY <1>2, <1>4 DEF ConsoleTypeOK, CastNotice, CastLine, server, instance, bounds

LEMMA SessionTypes ==
  ASSUME ConsoleTypeOK, DropsAreCounted, CastsServe, NEW c \in Clients,
         Attach(c) \/ Forward(c) \/ Leave(c)
  PROVE  ConsoleTypeOK'
<1>0. sub[c] \in SubRecords /\ sub[c].buf \in Seq(Nat) /\ Len(sub[c].buf) <= Cap /\ {} \in SUBSET Units
  BY DEF ConsoleTypeOK, SubRecords
<1>1. Len(NoSub.buf) <= Cap /\ NoSub.buf = <<>>
  BY ConsoleAssumption DEF NoSub
<1>2. CASE Attach(c)
  <2>1. [NoSub EXCEPT !.hist = Len(units)] \in SubRecords /\ [NoSub EXCEPT !.hist = Len(units)].buf = <<>>
    BY LogLength, SubStarts DEF NoSub
  <2>2. connects' \in 0..MaxConnects
    BY <1>2, ConsoleAssumption DEF Attach, ConsoleTypeOK
  <2> QED BY <1>1, <1>2, <2>1, <2>2 DEF Attach, ConsoleTypeOK, server, instance
<1>3. CASE Forward(c)
  <2> DEFINE r == [sub[c] EXCEPT !.buf = Tail(@), !.owed = @ - Stands(Head(sub[c].buf))]
  <2>1. Tail(sub[c].buf) \in Seq(Nat) /\ Len(Tail(sub[c].buf)) <= Cap
    BY <1>0, <1>3, HeadTailProperties, LenProperties, ConsoleAssumption DEF Forward
  <2>2. sub[c].owed - Stands(Head(sub[c].buf)) \in Nat
    <3>1. c \in Subscribed
      BY <1>3 DEF Forward, Subscribed
    <3>2. sub[c].owed \in Nat /\ Uncast(c) \in Nat /\ sub[c].owed - Uncast(c) \in Nat
      BY <1>0, <3>1 DEF DropsAreCounted, Uncast, SubRecords
    <3>3. InChannel(sub[c].buf, sub[c].owed - Uncast(c)) /\ sub[c].buf # <<>>
      BY <1>3, <3>1 DEF DropsAreCounted, Forward
    <3>4. Stands(Head(sub[c].buf)) \in 1..(sub[c].owed - Uncast(c))
      BY <1>0, <3>2, <3>3, ChannelTail
    <3> QED BY <3>2, <3>4
  <2>3. r \in SubRecords /\ r.buf = Tail(sub[c].buf)
    <3>1. r = [sub[c] EXCEPT !.buf = Tail(sub[c].buf), !.owed = sub[c].owed - Stands(Head(sub[c].buf))]
      OBVIOUS
    <3>2. r \in SubRecords
      BY <1>0, <2>1, <2>2, <3>1, SubUpdates
    <3> QED BY <1>0, <3>2 DEF SubRecords
  <2>4. sub' = [sub EXCEPT ![c] = r]
    BY <1>3 DEF Forward, ConsoleTypeOK
  <2> HIDE DEF r
  <2> QED BY <1>3, <2>1, <2>3, <2>4 DEF Forward, ConsoleTypeOK, server, instance, bounds
<1>4. CASE Leave(c)
  <2>1. NoSub \in SubRecords
    BY SubStarts, LogLength
  <2> QED BY <1>1, <1>4, <2>1 DEF Leave, ConsoleTypeOK, server, instance, bounds
<1> QED BY <1>2, <1>3, <1>4

LEMMA RestartTypes ==
  ASSUME ConsoleTypeOK, DaemonRestarts
  PROVE  ConsoleTypeOK'
<1>1. NoTail \in TailRecords /\ [NoTail EXCEPT !.pc = "open"] \in TailRecords
  BY TailStarts DEF Phases
<1>2. tail' \in [Gens -> TailRecords]
  BY <1>1 DEF DaemonRestarts
<1>3. gen' \in 0..MaxGen /\ crashes' \in 0..MaxCrash
  BY ConsoleAssumption DEF DaemonRestarts, ConsoleTypeOK
<1>4. watcher' \in [pc : {"none", "watch", "tell"}, gen : 0..MaxGen]
  BY <1>3, FreeType DEF DaemonRestarts
<1>5. sub' \in [Clients -> SubRecords] /\ \A c \in Clients : Len(sub'[c].buf) <= Cap
  <2>1. NoSub \in SubRecords /\ Len(NoSub.buf) <= Cap
    BY SubStarts, LogLength, ConsoleAssumption DEF NoSub
  <2> QED BY <2>1 DEF DaemonRestarts
<1> QED BY <1>2, <1>3, <1>4, <1>5, FreeType DEF DaemonRestarts, ConsoleTypeOK, server

-----------------------------------------------------------------------------
(* The lines: no unit is broadcast twice.                                  *)

Lines == Positions /\ FreshLines /\ BroadcastOnce

\* A tailer that opens, gives up or reads on takes nothing that is another's.
LEMMA LooksLines ==
  ASSUME ConsoleTypeOK, Lines, NEW g \in Gens, Open(g) \/ Scan(g) \/ AtEnd(g)
  PROVE  Lines'
<1>1. PICK t \in TailRecords : tail' = [tail EXCEPT ![g] = t] /\ Looks(g, t)
  BY OpenLooks, ScanLooks, AtEndLooks DEF Lines
<1>2. UNCHANGED <<units, gen, said>>
  BY DEF Open, Scan, AtEnd, server, instance
<1>3. /\ tail \in [Gens -> TailRecords] /\ Len(units) \in Nat /\ Units \subseteq Nat
      /\ \A h \in Gens : tail[h].pos \in Nat /\ tail[h].from \in Nat
      /\ t.pos \in Nat /\ t.from \in Nat
  <2>1. tail \in [Gens -> TailRecords]
    BY DEF ConsoleTypeOK
  <2>2. Units \subseteq Nat
    BY ConsoleAssumption DEF Units
  <2>3. \A x \in TailRecords : x.pos \in Nat /\ x.from \in Nat
    BY DEF TailRecords
  <2>4. \A h \in Gens : tail[h] \in TailRecords
    BY <2>1
  <2> QED BY <2>1, <2>2, <2>3, <2>4, LogLength
<1>4. /\ tail'[g] = t /\ \A h \in Gens \ {g} : tail'[h] = tail[h]
  BY <1>1, <1>3
<1>5. \A h \in Gens \ {g} : Pending(h)' = Pending(h) /\ (Following(h)' <=> Following(h))
  BY <1>4 DEF Pending, Following
\* What it holds afterwards it held before, or is above what it held, and it is the newest.
<1>6. /\ Pending(g)' = t.from..t.pos
      /\ \/ Pending(g)' = {} /\ t.from = Len(units) + 1
         \/ Pending(g)' = {} /\ ~Following(g)'
         \/ g = gen /\ Following(g) /\ t.from = tail[g].from /\ t.pos <= Len(units)
  <2>1. Pending(g)' = t.from..t.pos
    BY <1>4 DEF Pending
  <2>2. CASE Opened(g, t)
    BY <1>3, <2>1, <2>2 DEF Opened
  <2>3. CASE GaveUp(t)
    BY <1>4, <2>1, <2>3 DEF GaveUp, Following
  <2>4. CASE ReadOn(g, t)
    BY <1>3, <2>1, <2>4 DEF ReadOn
  <2> QED BY <1>1, <2>1, <2>2, <2>3, <2>4 DEF Looks
<1>7. Positions'
  <2>1. t.from \in 1..(t.pos + 1) /\ t.pos <= Len(units)
    <3>1. CASE Opened(g, t)
      BY <1>3, <3>1 DEF Opened
    <3>2. CASE GaveUp(t)
      BY <1>3, <3>2 DEF GaveUp
    <3>3. CASE ReadOn(g, t)
      BY <1>3, <3>3 DEF ReadOn, Lines, Positions
    <3> QED BY <1>1, <3>1, <3>2, <3>3 DEF Looks
  <2> QED BY <1>2, <1>4, <2>1 DEF Lines, Positions
<1>8. \A u \in Pending(g)' : said[u] = 0 /\ \A h \in Gens \ {g} : u \notin Pending(h)
  <2>1. SUFFICES ASSUME g = gen, Following(g), t.from = tail[g].from, t.pos <= Len(units),
                        NEW u \in Pending(g)'
                 PROVE  said[u] = 0 /\ \A h \in Gens \ {g} : u \notin Pending(h)
    BY <1>6
  <2>2. u \in Nat /\ u >= tail[g].from /\ u \in Units
    BY <1>3, <1>6, <2>1, LogLength, ConsoleAssumption DEF Lines, Positions, Units
  <2>3. ASSUME NEW h \in Gens \ {g}, u \in Pending(h) PROVE FALSE
    <3>1. u < tail[g].from
      BY <2>1, <2>3 DEF Lines, FreshLines
    <3> QED BY <1>3, <2>2, <3>1
  <2> QED BY <2>1, <2>2, <2>3 DEF Lines, FreshLines
<1>9. FreshLines'
  <2>1. \A u \in Units : said'[u] > 0 => u <= Len(units')
    BY <1>2 DEF Lines, FreshLines
  <2>2. \A h \in Gens : \A u \in Pending(h)' : said'[u] = 0
    BY <1>2, <1>5, <1>8 DEF Lines, FreshLines
  <2>3. \A h, k \in Gens : h # k => Pending(h)' \cap Pending(k)' = {}
    BY <1>5, <1>8 DEF Lines, FreshLines
  <2>4. ASSUME NEW h \in Gens, h = gen', Following(h)'
        PROVE  /\ \A u \in Units : u >= tail'[h].from => said'[u] = 0
               /\ \A k \in Gens \ {h} : \A u \in Pending(k)' : u < tail'[h].from
    <3>1. CASE h # g
      <4>1. tail'[h] = tail[h] /\ h = gen /\ Following(h) /\ said' = said
        BY <1>2, <1>4, <1>5, <2>4, <3>1
      <4>2. /\ \A u \in Units : u >= tail[h].from => said[u] = 0
            /\ \A k \in Gens \ {h} : \A u \in Pending(k) : u < tail[h].from
        BY <4>1 DEF Lines, FreshLines
      <4>3. Pending(g)' = {}
        BY <1>6, <3>1, <4>1
      <4> QED BY <1>5, <4>1, <4>2, <4>3
    <3>2. CASE h = g /\ t.from = Len(units) + 1
      <4>1. \A u \in Units : u >= Len(units) + 1 => said[u] = 0
        <5>1. \A u \in Units : said[u] \in Nat /\ (said[u] > 0 => u <= Len(units))
          BY DEF Lines, FreshLines, ConsoleTypeOK
        <5> QED BY <1>3, <5>1
      <4>2. \A k \in Gens \ {g} : \A u \in Pending(k) : u < Len(units) + 1
        BY <1>3 DEF Pending, Lines, Positions
      <4> QED BY <1>2, <1>4, <1>5, <3>2, <4>1, <4>2
    <3>3. CASE h = g /\ g = gen /\ Following(g) /\ t.from = tail[g].from
      <4>1. /\ \A u \in Units : u >= tail[g].from => said[u] = 0
            /\ \A k \in Gens \ {g} : \A u \in Pending(k) : u < tail[g].from
        BY <3>3 DEF Lines, FreshLines
      <4> QED BY <1>2, <1>4, <1>5, <3>3, <4>1
    <3> QED BY <1>6, <2>4, <3>1, <3>2, <3>3
  <2> QED BY <2>1, <2>2, <2>3, <2>4 DEF FreshLines
<1> QED BY <1>2, <1>7, <1>9 DEF Lines, BroadcastOnce

\* What a tailer sends was held by it alone.
LEMMA SendLines ==
  ASSUME ConsoleTypeOK, Lines, NEW g \in Gens, Send(g)
  PROVE  Lines'
<1>1. /\ tail \in [Gens -> TailRecords] /\ said \in [Units -> Nat] /\ Len(units) \in Nat /\ Units \subseteq Nat
      /\ \A h \in Gens : tail[h].pos \in Nat /\ tail[h].from \in Nat
  <2>1. tail \in [Gens -> TailRecords] /\ said \in [Units -> Nat]
    BY DEF ConsoleTypeOK
  <2>2. Units \subseteq Nat
    BY ConsoleAssumption DEF Units
  <2>3. \A h \in Gens : tail[h].pos \in Nat /\ tail[h].from \in Nat
    BY <2>1 DEF TailRecords
  <2> QED BY <2>1, <2>2, <2>3, LogLength
<1>2. /\ UNCHANGED <<units, gen>> /\ \A h \in Gens \ {g} : tail'[h] = tail[h]
      /\ tail'[g].from = tail[g].pos + 1 /\ tail'[g].pos = tail[g].pos
      /\ tail[g].pc = "send" /\ tail'[g].pc = "check"
      /\ \A u \in Units : said'[u] = IF u \in Pending(g) THEN said[u] + 1 ELSE said[u]
  BY <1>1 DEF Send, Broadcast, server, instance, TailRecords
<1>3. /\ \A h \in Gens \ {g} : Pending(h)' = Pending(h) /\ (Following(h)' <=> Following(h))
      /\ Pending(g)' = {} /\ Following(g)
  BY <1>1, <1>2 DEF Pending, Following
<1>4. Positions'
  <2>1. tail'[g].from \in 1..(tail'[g].pos + 1) /\ tail'[g].pos <= Len(units')
    BY <1>1, <1>2 DEF Lines, Positions
  <2> QED BY <1>2, <2>1 DEF Lines, Positions
<1>5. Pending(g) \subseteq Units /\ \A u \in Pending(g) : u <= Len(units) /\ said[u] = 0
  BY <1>1, LogLength, ConsoleAssumption DEF Pending, Lines, Positions, FreshLines, Units
<1>6. BroadcastOnce'
  <2>1. ASSUME NEW u \in Units PROVE said'[u] <= 1
    BY <1>2, <1>5 DEF Lines, BroadcastOnce
  <2> QED BY <2>1 DEF BroadcastOnce
<1>7. FreshLines'
  <2>1. \A u \in Units : said'[u] > 0 => u <= Len(units')
    BY <1>2, <1>5 DEF Lines, FreshLines
  <2>2. ASSUME NEW h \in Gens, NEW u \in Pending(h)' PROVE said'[u] = 0
    <3>1. h # g /\ u \in Pending(h) /\ u \notin Pending(g) /\ said[u] = 0
      BY <1>3, <2>2 DEF Lines, FreshLines
    <3>2. u \in Units
      BY <1>1, <3>1, LogLength, ConsoleAssumption DEF Pending, Lines, Positions, Units
    <3> QED BY <1>2, <3>1, <3>2
  <2>3. \A h, k \in Gens : h # k => Pending(h)' \cap Pending(k)' = {}
    BY <1>3 DEF Lines, FreshLines
  <2>4. ASSUME NEW h \in Gens, h = gen', Following(h)'
        PROVE  /\ \A u \in Units : u >= tail'[h].from => said'[u] = 0
               /\ \A k \in Gens \ {h} : \A u \in Pending(k)' : u < tail'[h].from
    <3>0. h = gen /\ Following(h)
      BY <1>2, <1>3, <2>4
    <3>1. /\ \A u \in Units : u >= tail[h].from => said[u] = 0
          /\ \A k \in Gens \ {h} : \A u \in Pending(k) : u < tail[h].from
      BY <3>0 DEF Lines, FreshLines
    <3>2. CASE h # g
      <4>1. \A u \in Pending(g) : u < tail[h].from
        BY <3>1, <3>2
      <4>2. ASSUME NEW u \in Units, u >= tail[h].from PROVE u \notin Pending(g)
        BY <1>1, <4>1, <4>2
      <4> QED BY <1>2, <1>3, <3>1, <3>2, <4>2
    <3>3. CASE h = g
      <4>1. ASSUME NEW u \in Units, u >= tail[g].pos + 1 PROVE u \notin Pending(g) /\ u >= tail[g].from
        BY <1>1, <4>1 DEF Pending, Lines, Positions
      <4>2. ASSUME NEW k \in Gens \ {g}, NEW u \in Pending(k) PROVE u < tail[g].pos + 1
        <5>1. u < tail[g].from /\ tail[g].from \in 1..(tail[g].pos + 1) /\ u \in Int
          BY <1>1, <3>1, <3>3, <4>2 DEF Lines, Positions, Pending
        <5> QED BY <1>1, <5>1
      <4> QED BY <1>2, <1>3, <3>1, <3>3, <4>1, <4>2
    <3> QED BY <3>2, <3>3
  <2> QED BY <2>1, <2>2, <2>3, <2>4 DEF FreshLines
<1> QED BY <1>4, <1>6, <1>7 DEF Lines

\* A launch or an adoption starts a tailer that has opened nothing yet; what the
\* server writes is held by nobody.
LEMMA LaunchLines ==
  ASSUME ConsoleTypeOK, Lines,
         \/ \E ends \in BOOLEAN : ServerWrites(ends)
         \/ \E rotates \in BOOLEAN : Start(rotates)
         \/ DaemonRestarts
  PROVE  Lines'
<1>1. /\ tail \in [Gens -> TailRecords] /\ said \in [Units -> Nat] /\ Len(units) \in Nat /\ Units \subseteq Nat
      /\ \A h \in Gens : tail[h].pos \in Nat /\ tail[h].from \in Nat
  BY LogLength, ConsoleAssumption DEF ConsoleTypeOK, Units, TailRecords
<1>2. NoTail.from = 1 /\ NoTail.pos = 0 /\ NoTail.pc = "off"
  BY DEF NoTail
<1> DEFINE New == [NoTail EXCEPT !.pc = "open"]
<1>3. New.from = 1 /\ New.pos = 0 /\ New.pc = "open"
  BY DEF NoTail
<1> HIDE DEF New
<1>4. CASE \E ends \in BOOLEAN : ServerWrites(ends)
  <2>1. PICK ends \in BOOLEAN : ServerWrites(ends)
    BY <1>4
  <2>2. UNCHANGED <<tail, gen, said>> /\ Len(units') = Len(units) + 1
    BY <2>1, AppendProperties DEF ServerWrites, instance, ConsoleTypeOK
  <2>3. Positions'
    BY <1>1, <2>2 DEF Lines, Positions
  <2>4. FreshLines'
    BY <1>1, <2>2 DEF Lines, FreshLines, Pending, Following
  <2> QED BY <2>2, <2>3, <2>4 DEF Lines, BroadcastOnce
<1>5. CASE \E rotates \in BOOLEAN : Start(rotates)
  <2>1. PICK n \in Gens : UNCHANGED <<units, said>> /\ gen' = n /\ tail' = [tail EXCEPT ![n] = New]
    <3>1. gen + 1 \in Gens
      BY <1>5, ConsoleAssumption DEF Start, ConsoleTypeOK, Gens
    <3> QED BY <1>5, <3>1 DEF Start, New
  <2>2. tail'[n] = New /\ \A h \in Gens \ {n} : tail'[h] = tail[h]
    BY <1>1, <2>1
  <2>3. Positions'
    BY <1>1, <1>3, <2>1, <2>2 DEF Lines, Positions
  <2>4. Pending(n)' = {} /\ ~Following(n)' /\ \A h \in Gens \ {n} : Pending(h)' = Pending(h)
    BY <1>3, <2>2 DEF Pending, Following
  <2>5. FreshLines'
    <3>1. \A h \in Gens : \A u \in Pending(h)' : said'[u] = 0
      BY <2>1, <2>4 DEF Lines, FreshLines
    <3>2. \A h, k \in Gens : h # k => Pending(h)' \cap Pending(k)' = {}
      BY <2>4 DEF Lines, FreshLines
    <3>3. \A u \in Units : said'[u] > 0 => u <= Len(units')
      BY <2>1 DEF Lines, FreshLines
    <3> QED BY <2>1, <2>4, <3>1, <3>2, <3>3 DEF FreshLines
  <2> QED BY <2>1, <2>3, <2>5 DEF Lines, BroadcastOnce
<1>6. CASE DaemonRestarts
  <2>1. UNCHANGED <<units, said>>
    BY <1>6 DEF DaemonRestarts, server
  <2>2. \A h \in Gens : tail'[h] = NoTail \/ tail'[h] = New
    BY <1>6 DEF DaemonRestarts, New
  <2>3. \A h \in Gens : Pending(h)' = {} /\ ~Following(h)'
    BY <1>2, <1>3, <2>2 DEF Pending, Following
  <2>4. Positions'
    BY <1>1, <1>2, <1>3, <2>1, <2>2 DEF Positions
  <2>5. FreshLines'
    BY <2>1, <2>3 DEF Lines, FreshLines
  <2> QED BY <2>1, <2>4, <2>5 DEF Lines, BroadcastOnce
<1> QED BY <1>4, <1>5, <1>6

\* What is broadcast of a process's end is no line.
LEMMA OtherLines ==
  ASSUME ConsoleTypeOK, Lines, UNCHANGED <<units, tail, gen>>,
         said' = said \/ said' = [u \in Units |-> IF u \in {} THEN said[u] + 1 ELSE said[u]]
  PROVE  Lines'
<1>1. said' = said
  BY DEF ConsoleTypeOK
<1> QED BY <1>1 DEF Lines, Positions, FreshLines, BroadcastOnce, Pending, Following

-----------------------------------------------------------------------------
(* The channels: what is dropped is counted.                               *)

Channels == CastsServe /\ DropsAreCounted

\* A broadcast is owed to every console that is attached.
LEMMA BroadcastChannels ==
  ASSUME ConsoleTypeOK, Channels, NEW who \in {"tailer", "waiter", "watcher"}, NEW g, NEW U,
         Broadcast(who, g, U), ses' = ses
  PROVE  Channels'
<1>1. lock.todo = {} /\ Subscribed' = Subscribed /\ Subscribed \in SUBSET Clients
  BY DEF Channels, CastsServe, Broadcast, LockFree, Subscribed
<1>2. lock'.todo = Subscribed /\ (lock'.by = "nobody" => Subscribed = {})
  BY DEF Broadcast, Free
<1>3. CastsServe'
  BY <1>1, <1>2 DEF CastsServe
<1>4. ASSUME NEW c \in Clients, c \in Subscribed'
      PROVE  sub'[c].owed >= Uncast(c)' /\ InChannel(sub'[c].buf, sub'[c].owed - Uncast(c)')
  <2>1. /\ sub[c] \in SubRecords /\ sub[c].owed \in Nat /\ sub[c].dropped \in Nat
    BY DEF ConsoleTypeOK, SubRecords
  <2>2. sub'[c] = [sub[c] EXCEPT !.owed = @ + 1, !.since = @ \cup {u \in U : u > sub[c].hist}]
    BY <1>1, <1>4 DEF Broadcast
  <2>3. sub'[c].owed = sub[c].owed + 1 /\ sub'[c].dropped = sub[c].dropped /\ sub'[c].buf = sub[c].buf
    BY <2>1, <2>2 DEF SubRecords
  <2>4. Uncast(c) = sub[c].dropped /\ Uncast(c)' = sub[c].dropped + 1
    BY <1>1, <1>2, <1>4, <2>1, <2>3 DEF Uncast
  <2>5. sub[c].owed >= Uncast(c) /\ InChannel(sub[c].buf, sub[c].owed - Uncast(c))
    BY <1>1, <1>4 DEF Channels, DropsAreCounted
  <2>6. sub'[c].owed - Uncast(c)' = sub[c].owed - Uncast(c)
    BY <2>1, <2>3, <2>4
  <2> QED BY <2>1, <2>3, <2>4, <2>5, <2>6
<1> QED BY <1>3, <1>4 DEF Channels, DropsAreCounted

\* A console is sent its message, or its count goes up; a notice takes the count away.
LEMMA CastChannels ==
  ASSUME ConsoleTypeOK, Channels, NEW c \in Clients, CastNotice(c) \/ CastLine(c)
  PROVE  Channels'
<1>0. /\ sub[c] \in SubRecords /\ sub[c].owed \in Nat /\ sub[c].dropped \in Nat /\ sub[c].buf \in Seq(Nat)
      /\ lock \in LockRecords /\ sub \in [Clients -> SubRecords]
      /\ c \in lock.todo /\ lock.by # "nobody" /\ Subscribed' = Subscribed /\ c \in Subscribed
  BY DEF ConsoleTypeOK, SubRecords, CastNotice, CastLine, Channels, CastsServe, Subscribed
<1>1. /\ sub[c].owed >= sub[c].dropped + 1
      /\ InChannel(sub[c].buf, sub[c].owed - (sub[c].dropped + 1))
  BY <1>0 DEF Channels, DropsAreCounted, Uncast
<1>2. \A d \in Clients \ {c} : sub'[d] = sub[d]
  <2>1. \E r : sub' = [sub EXCEPT ![c] = r]
    BY Zenon DEF CastNotice, CastLine
  <2> QED BY <1>0, <2>1
<1> DEFINE n == sub[c].owed - (sub[c].dropped + 1)
<1>3. n \in Nat /\ InChannel(sub[c].buf, n)
  BY <1>0, <1>1
<1>4. CASE CastNotice(c)
  <2>1. lock'.todo = lock.todo /\ lock'.by = lock.by
    BY <1>0, <1>4 DEF CastNotice, LockRecords
  <2>2. CastsServe'
    BY <1>0, <2>1 DEF Channels, CastsServe
  <2>3. sub'[c].owed >= Uncast(c)' /\ InChannel(sub'[c].buf, sub'[c].owed - Uncast(c)')
    <3>1. CASE Room(c)
      <4>1. sub'[c] = [sub[c] EXCEPT !.buf = Append(@, sub[c].dropped), !.dropped = 0]
        BY <1>0, <1>4, <3>1 DEF CastNotice
      <4>2. /\ sub'[c].buf = Append(sub[c].buf, sub[c].dropped) /\ sub'[c].dropped = 0
            /\ sub'[c].owed = sub[c].owed
        BY <1>0, <4>1 DEF SubRecords
      <4>3. Uncast(c)' = 1 /\ Stands(sub[c].dropped) = sub[c].dropped
        BY <1>0, <1>4, <2>1, <4>2 DEF Uncast, Stands, CastNotice
      <4>4. InChannel(sub'[c].buf, n + sub[c].dropped)
        BY <1>0, <1>3, <4>2, <4>3, ChannelAppend
      <4>5. sub'[c].owed - Uncast(c)' = n + sub[c].dropped
        BY <1>0, <4>2, <4>3
      <4> QED BY <1>0, <1>1, <4>2, <4>3, <4>4, <4>5
    <3>2. CASE ~Room(c)
      <4>1. sub'[c] = sub[c]
        BY <1>0, <1>4, <3>2 DEF CastNotice
      <4>2. Uncast(c)' = sub[c].dropped + 1
        BY <1>0, <2>1, <4>1 DEF Uncast
      <4> QED BY <1>1, <4>1, <4>2
    <3> QED BY <3>1, <3>2
  <2>4. ASSUME NEW d \in Clients \ {c}, d \in Subscribed'
        PROVE  sub'[d].owed >= Uncast(d)' /\ InChannel(sub'[d].buf, sub'[d].owed - Uncast(d)')
    <3>1. Uncast(d)' = Uncast(d)
      BY <1>2, <2>1 DEF Uncast
    <3> QED BY <1>0, <1>2, <2>4, <3>1 DEF Channels, DropsAreCounted
  <2> QED BY <2>2, <2>3, <2>4 DEF Channels, DropsAreCounted
<1>5. CASE CastLine(c)
  <2>1. lock'.todo = lock.todo \ {c} /\ (lock'.by = "nobody" => lock'.todo = {})
    BY <1>0, <1>5 DEF CastLine, Served, Free, LockRecords
  <2>2. CastsServe'
    BY <1>0, <2>1 DEF Channels, CastsServe
  <2>3. sub'[c].owed >= Uncast(c)' /\ InChannel(sub'[c].buf, sub'[c].owed - Uncast(c)')
    <3>1. CASE Room(c)
      <4>1. sub'[c] = [sub[c] EXCEPT !.buf = Append(@, 0)]
        BY <1>0, <1>5, <3>1 DEF CastLine
      <4>2. /\ sub'[c].buf = Append(sub[c].buf, 0) /\ sub'[c].dropped = sub[c].dropped
            /\ sub'[c].owed = sub[c].owed
        BY <1>0, <4>1 DEF SubRecords
      <4>3. Uncast(c)' = sub[c].dropped /\ Stands(0) = 1
        BY <1>0, <2>1, <4>2 DEF Uncast, Stands
      <4>4. InChannel(sub'[c].buf, n + 1)
        BY <1>0, <1>3, <4>2, <4>3, ChannelAppend
      <4>5. sub'[c].owed - Uncast(c)' = n + 1
        BY <1>0, <4>2, <4>3
      <4> QED BY <1>0, <1>1, <4>2, <4>3, <4>4, <4>5
    <3>2. CASE ~Room(c)
      <4>1. sub'[c] = [sub[c] EXCEPT !.dropped = @ + 1]
        BY <1>0, <1>5, <3>2 DEF CastLine
      <4>2. sub'[c].buf = sub[c].buf /\ sub'[c].dropped = sub[c].dropped + 1 /\ sub'[c].owed = sub[c].owed
        BY <1>0, <4>1 DEF SubRecords
      <4>3. Uncast(c)' = sub[c].dropped + 1
        BY <1>0, <2>1, <4>2 DEF Uncast
      <4> QED BY <1>1, <4>2, <4>3
    <3> QED BY <3>1, <3>2
  <2>4. ASSUME NEW d \in Clients \ {c}, d \in Subscribed'
        PROVE  sub'[d].owed >= Uncast(d)' /\ InChannel(sub'[d].buf, sub'[d].owed - Uncast(d)')
    <3>1. Uncast(d)' = Uncast(d)
      BY <1>2, <2>1, <2>4 DEF Uncast
    <3> QED BY <1>0, <1>2, <2>4, <3>1 DEF Channels, DropsAreCounted
  <2> QED BY <2>2, <2>3, <2>4 DEF Channels, DropsAreCounted
<1> QED BY <1>4, <1>5

LEMMA SessionChannels ==
  ASSUME ConsoleTypeOK, Channels, NEW c \in Clients, Attach(c) \/ Forward(c) \/ Leave(c)
  PROVE  Channels'
<1>0. /\ sub[c] \in SubRecords /\ sub[c].owed \in Nat /\ sub[c].dropped \in Nat /\ sub[c].buf \in Seq(Nat)
      /\ sub \in [Clients -> SubRecords] /\ ses \in [Clients -> {"off", "open"}]
      /\ lock' = lock /\ \A d \in Clients \ {c} : sub'[d] = sub[d] /\ ses'[d] = ses[d]
  BY DEF ConsoleTypeOK, SubRecords, Attach, Forward, Leave
<1>1. ASSUME NEW d \in Clients \ {c}, d \in Subscribed'
      PROVE  sub'[d].owed >= Uncast(d)' /\ InChannel(sub'[d].buf, sub'[d].owed - Uncast(d)')
  <2>1. Uncast(d)' = Uncast(d) /\ d \in Subscribed
    BY <1>0, <1>1 DEF Uncast, Subscribed
  <2> QED BY <1>0, <2>1 DEF Channels, DropsAreCounted
<1>2. CASE Attach(c)
  <2>1. lock.todo = {} /\ ses'[c] = "open"
    BY <1>0, <1>2 DEF Channels, CastsServe, Attach, LockFree
  <2>2. CastsServe'
    BY <1>0, <2>1 DEF Channels, CastsServe
  <2>3. sub'[c].owed = 0 /\ sub'[c].dropped = 0 /\ sub'[c].buf = <<>>
    BY <1>0, <1>2 DEF Attach, NoSub
  <2>4. Uncast(c)' = 0
    BY <1>0, <2>1, <2>3 DEF Uncast
  <2>5. sub'[c].owed >= Uncast(c)' /\ InChannel(sub'[c].buf, sub'[c].owed - Uncast(c)')
    BY <2>3, <2>4, ChannelEmpty
  <2> QED BY <1>1, <2>2, <2>5 DEF Channels, DropsAreCounted
<1>3. CASE Forward(c)
  <2>1. ses' = ses /\ Subscribed' = Subscribed /\ c \in Subscribed /\ sub[c].buf # <<>>
    BY <1>3 DEF Forward, Subscribed
  <2>2. CastsServe'
    BY <1>0, <2>1 DEF Channels, CastsServe
  <2>3. /\ sub'[c].owed = sub[c].owed - Stands(Head(sub[c].buf)) /\ sub'[c].dropped = sub[c].dropped
        /\ sub'[c].buf = Tail(sub[c].buf)
    BY <1>0, <1>3 DEF Forward, SubRecords
  <2>4. Uncast(c)' = Uncast(c) /\ Uncast(c) \in Nat
    BY <1>0, <2>3 DEF Uncast
  <2>5. sub[c].owed - Uncast(c) \in Nat /\ InChannel(sub[c].buf, sub[c].owed - Uncast(c))
    BY <1>0, <2>1, <2>4 DEF Channels, DropsAreCounted
  <2>6. /\ Stands(Head(sub[c].buf)) \in 1..(sub[c].owed - Uncast(c))
        /\ InChannel(Tail(sub[c].buf), (sub[c].owed - Uncast(c)) - Stands(Head(sub[c].buf)))
    BY <1>0, <2>1, <2>5, ChannelTail
  <2>7. sub'[c].owed - Uncast(c)' = (sub[c].owed - Uncast(c)) - Stands(Head(sub[c].buf))
    BY <1>0, <2>3, <2>4, <2>6
  <2>8. sub'[c].owed >= Uncast(c)'
    BY <1>0, <2>3, <2>4, <2>5, <2>6
  <2> QED BY <1>1, <2>2, <2>3, <2>6, <2>7, <2>8 DEF Channels, DropsAreCounted
<1>4. CASE Leave(c)
  <2>1. lock.todo = {} /\ ses'[c] = "off"
    BY <1>0, <1>4 DEF Channels, CastsServe, Leave, LockFree
  <2>2. CastsServe'
    BY <1>0, <2>1 DEF Channels, CastsServe
  <2>3. c \notin Subscribed'
    BY <2>1 DEF Subscribed
  <2> QED BY <1>1, <2>2, <2>3 DEF Channels, DropsAreCounted
<1> QED BY <1>2, <1>3, <1>4

LEMMA OtherChannels ==
  ASSUME Channels, UNCHANGED <<lock, sub, ses>> \/ DaemonRestarts
  PROVE  Channels'
<1>1. CASE UNCHANGED <<lock, sub, ses>>
  BY <1>1 DEF Channels, CastsServe, DropsAreCounted, Uncast, Subscribed
<1>2. CASE DaemonRestarts
  <2>1. lock'.todo = {} /\ Subscribed' = {}
    BY <1>2 DEF DaemonRestarts, Free, Subscribed
  <2> QED BY <2>1 DEF Channels, CastsServe, DropsAreCounted
<1> QED BY <1>1, <1>2

-----------------------------------------------------------------------------
(* The joint of history and live output.                                   *)

\* A tailer that reads on keeps in hand what it has read.
LEMMA LooksHistory ==
  ASSUME ConsoleTypeOK, Positions, HistoryMeetsLive, NEW g \in Gens, Open(g) \/ Scan(g) \/ AtEnd(g)
  PROVE  HistoryMeetsLive'
<1>1. PICK t \in TailRecords : tail' = [tail EXCEPT ![g] = t] /\ Looks(g, t)
  BY OpenLooks, ScanLooks, AtEndLooks
<1>2. UNCHANGED <<units, file, gen, sub, ses>>
  BY DEF Open, Scan, AtEnd, server, instance
<1>3. SUFFICES ASSUME NEW c \in Clients, c \in Subscribed, gen # 0,
                      tail'[gen].pc \notin {"off", "open", "done"}, tail'[gen].file = file,
                      tail'[gen].start <= sub[c].hist
               PROVE  (sub[c].hist + 1)..tail'[gen].pos \subseteq
                        sub[c].since \cup tail'[gen].from..tail'[gen].pos
  BY <1>2 DEF HistoryMeetsLive, Subscribed
<1>4. /\ tail \in [Gens -> TailRecords] /\ gen \in Gens /\ sub[c].hist \in Nat /\ Len(units) \in Nat
      /\ tail[gen].pos \in Nat /\ tail[gen].from \in Nat /\ tail[gen].start \in Nat
  <2>1. gen \in Gens /\ tail \in [Gens -> TailRecords] /\ sub[c] \in SubRecords
    BY <1>3, ConsoleAssumption DEF ConsoleTypeOK, Gens
  <2>2. tail[gen] \in TailRecords
    BY <2>1
  <2> QED BY <2>1, <2>2, LogLength DEF SubRecords, TailRecords
<1>5. CASE gen # g
  <2>1. tail'[gen] = tail[gen]
    BY <1>1, <1>4, <1>5
  <2> QED BY <1>3, <2>1 DEF HistoryMeetsLive
<1>6. CASE gen = g
  <2>1. tail'[gen] = t
    BY <1>1, <1>4, <1>6
  <2>2. CASE Opened(g, t)
    <3>1. (sub[c].hist + 1)..t.pos = {}
      BY <1>3, <1>4, <2>1, <2>2 DEF Opened
    <3> QED BY <2>1, <3>1
  <2>3. CASE GaveUp(t)
    BY <1>3, <2>1, <2>3 DEF GaveUp
  <2>4. CASE ReadOn(g, t)
    <3>1. /\ tail[gen].pc \notin {"off", "open", "done"} /\ tail[gen].file = file
          /\ tail[gen].start <= sub[c].hist
          /\ t.from = tail[gen].from /\ t.pos \in tail[gen].pos..Len(units)
      BY <1>3, <1>6, <2>1, <2>4 DEF ReadOn, Following
    <3>2. (sub[c].hist + 1)..tail[gen].pos \subseteq sub[c].since \cup tail[gen].from..tail[gen].pos
      BY <1>3, <3>1 DEF HistoryMeetsLive
    <3>3. tail[gen].from <= tail[gen].pos + 1
      BY <1>4 DEF Positions
    <3>4. ASSUME NEW u \in (sub[c].hist + 1)..t.pos PROVE u \in sub[c].since \cup t.from..t.pos
      <4>1. CASE u <= tail[gen].pos
        <5>1. u \in (sub[c].hist + 1)..tail[gen].pos
          BY <1>4, <4>1
        <5>2. u \in sub[c].since \/ u \in tail[gen].from..tail[gen].pos
          BY <3>2, <5>1
        <5> QED BY <1>4, <3>1, <5>2
      <4>2. CASE u > tail[gen].pos
        BY <1>4, <3>1, <3>3, <4>2
      <4> QED BY <1>4, <4>1, <4>2
    <3> QED BY <2>1, <3>4
  <2> QED BY <1>1, <2>2, <2>3, <2>4 DEF Looks
<1> QED BY <1>5, <1>6

\* A broadcast of what the newest tailer holds, or of no line at all.
LEMMA BroadcastHistory ==
  ASSUME ConsoleTypeOK, HistoryMeetsLive, Reaped \/ AdoptedTells
  PROVE  HistoryMeetsLive'
<1>1. UNCHANGED <<file, gen, tail, ses>> /\ Subscribed' = Subscribed
  BY DEF Reaped, AdoptedTells, server, Subscribed
<1>2. ASSUME NEW c \in Clients PROVE sub'[c].hist = sub[c].hist /\ sub'[c].since = sub[c].since
  <2>1. sub[c] \in SubRecords /\ {u \in {} : u > sub[c].hist} = {}
    BY DEF ConsoleTypeOK
  <2>2. \/ sub'[c] = sub[c]
        \/ sub'[c] = [sub[c] EXCEPT !.owed = @ + 1, !.since = @ \cup {u \in {} : u > sub[c].hist}]
    BY DEF Reaped, AdoptedTells, Broadcast
  <2> QED BY <2>1, <2>2 DEF SubRecords
<1> QED BY <1>1, <1>2 DEF HistoryMeetsLive

LEMMA SendHistory ==
  ASSUME ConsoleTypeOK, Positions, HistoryMeetsLive, NEW g \in Gens, Send(g)
  PROVE  HistoryMeetsLive'
<1>1. UNCHANGED <<file, gen, ses>> /\ Subscribed' = Subscribed
  BY DEF Send, server, instance, Subscribed
<1>2. SUFFICES ASSUME NEW c \in Clients, c \in Subscribed, gen # 0,
                      tail'[gen].pc \notin {"off", "open", "done"}, tail'[gen].file = file,
                      tail'[gen].start <= sub'[c].hist
               PROVE  (sub'[c].hist + 1)..tail'[gen].pos \subseteq
                        sub'[c].since \cup tail'[gen].from..tail'[gen].pos
  BY <1>1 DEF HistoryMeetsLive
<1>3. /\ sub[c] \in SubRecords /\ tail \in [Gens -> TailRecords] /\ gen \in Gens /\ sub[c].hist \in Nat
      /\ tail[gen].pos \in Nat /\ tail[gen].from \in Nat
  <2>1. gen \in Gens /\ tail \in [Gens -> TailRecords] /\ sub[c] \in SubRecords
    BY <1>2, ConsoleAssumption DEF ConsoleTypeOK, Gens
  <2>2. tail[gen] \in TailRecords
    BY <2>1
  <2> QED BY <2>1, <2>2 DEF SubRecords, TailRecords
<1>4. sub'[c] = [sub[c] EXCEPT !.owed = @ + 1, !.since = @ \cup {u \in Pending(g) : u > sub[c].hist}]
  BY <1>2 DEF Send, Broadcast
<1>5. /\ sub'[c].hist = sub[c].hist
      /\ sub'[c].since = sub[c].since \cup {u \in Pending(g) : u > sub[c].hist}
  BY <1>3, <1>4 DEF SubRecords
<1>6. /\ tail'[gen].pos = tail[gen].pos /\ tail'[gen].file = tail[gen].file
      /\ tail'[gen].start = tail[gen].start /\ tail[gen].pc \notin {"off", "open", "done"}
      /\ gen # g => tail'[gen].from = tail[gen].from
  BY <1>2, <1>3 DEF Send, TailRecords
<1>7. (sub[c].hist + 1)..tail[gen].pos \subseteq sub[c].since \cup tail[gen].from..tail[gen].pos
  BY <1>2, <1>5, <1>6 DEF HistoryMeetsLive
<1>8. ASSUME NEW u \in (sub[c].hist + 1)..tail[gen].pos
      PROVE  u \in sub'[c].since \cup tail'[gen].from..tail'[gen].pos
  <2>1. CASE gen # g
    BY <1>5, <1>6, <1>7, <2>1
  <2>2. CASE gen = g
    <3>1. u \in sub[c].since \/ (u \in Pending(g) /\ u > sub[c].hist)
      BY <1>3, <1>7, <2>2 DEF Pending
    <3> QED BY <1>5, <3>1
  <2> QED BY <2>1, <2>2
<1> QED BY <1>5, <1>6, <1>8

LEMMA SessionHistory ==
  ASSUME ConsoleTypeOK, Positions, HistoryMeetsLive, NEW c \in Clients,
         CastNotice(c) \/ CastLine(c) \/ Attach(c) \/ Forward(c) \/ Leave(c)
  PROVE  HistoryMeetsLive'
<1>1. /\ UNCHANGED <<file, gen, tail>> /\ sub[c] \in SubRecords /\ sub \in [Clients -> SubRecords]
      /\ ses \in [Clients -> {"off", "open"}]
      /\ \A d \in Clients \ {c} : sub'[d] = sub[d] /\ ses'[d] = ses[d]
  BY DEF ConsoleTypeOK, CastNotice, CastLine, Attach, Forward, Leave, server, instance
<1>2. \A d \in Clients \ {c} : d \in Subscribed' => d \in Subscribed
  BY <1>1 DEF Subscribed
<1>3. \/ c \notin Subscribed'
      \/ c \in Subscribed /\ sub'[c].hist = sub[c].hist /\ sub'[c].since = sub[c].since
      \/ sub'[c].hist = Len(units)
  <2>1. CASE CastNotice(c) \/ CastLine(c)
    <3>1. c \in Subscribed' => c \in Subscribed
      BY <2>1 DEF CastNotice, CastLine, Subscribed
    <3>2. \/ sub'[c] = [sub[c] EXCEPT !.buf = Append(@, sub[c].dropped), !.dropped = 0]
          \/ sub'[c] = [sub[c] EXCEPT !.buf = Append(@, 0)]
          \/ sub'[c] = [sub[c] EXCEPT !.dropped = @ + 1]
          \/ sub'[c] = sub[c]
      BY <1>1, <2>1 DEF CastNotice, CastLine
    <3> QED BY <1>1, <3>1, <3>2 DEF SubRecords
  <2>2. CASE Attach(c)
    BY <1>1, <2>2 DEF Attach, NoSub
  <2>3. CASE Forward(c)
    BY <1>1, <2>3 DEF Forward, Subscribed, SubRecords
  <2>4. CASE Leave(c)
    BY <1>1, <2>4 DEF Leave, Subscribed
  <2> QED BY <2>1, <2>2, <2>3, <2>4
<1>4. sub'[c].hist = Len(units) /\ gen # 0 => (sub'[c].hist + 1)..tail[gen].pos = {}
  <2>1. gen # 0 => tail[gen].pos <= Len(units) /\ tail[gen].pos \in Nat /\ Len(units) \in Nat
    <3>1. gen # 0 => gen \in Gens /\ tail[gen] \in TailRecords
      BY ConsoleAssumption DEF ConsoleTypeOK, Gens
    <3> QED BY <3>1, LogLength DEF Positions, TailRecords
  <2> QED BY <2>1
<1> QED BY <1>1, <1>2, <1>3, <1>4 DEF HistoryMeetsLive

LEMMA OtherHistory ==
  ASSUME ConsoleTypeOK, HistoryMeetsLive,
         \/ UNCHANGED <<file, gen, tail, sub, ses>>
         \/ \E rotates \in BOOLEAN : Start(rotates)
         \/ DaemonRestarts
  PROVE  HistoryMeetsLive'
<1>1. CASE UNCHANGED <<file, gen, tail, sub, ses>>
  BY <1>1 DEF HistoryMeetsLive, Subscribed
<1>2. CASE \E rotates \in BOOLEAN : Start(rotates)
  <2>1. gen + 1 \in Gens
    BY <1>2, ConsoleAssumption DEF Start, ConsoleTypeOK, Gens
  <2>2. tail'[gen'].pc = "open"
    BY <1>2, <2>1 DEF Start, ConsoleTypeOK, NoTail
  <2> QED BY <2>2 DEF HistoryMeetsLive
<1>3. CASE DaemonRestarts
  BY <1>3 DEF DaemonRestarts, Subscribed, HistoryMeetsLive
<1> QED BY <1>1, <1>2, <1>3

-----------------------------------------------------------------------------
(* The theorems on the consoles.                                           *)

LEMMA ConsoleStart == ConsoleInit => ConsoleIInv
<1> SUFFICES ASSUME ConsoleInit PROVE ConsoleIInv
  OBVIOUS
<1>1. units = <<>> /\ Len(units) = 0 /\ units \in Seq([file : Nat, ends : BOOLEAN])
  BY EmptySeq DEF ConsoleInit
<1>2. NoTail \in TailRecords /\ NoSub \in SubRecords /\ Len(NoSub.buf) <= Cap
  <2>1. "off" \in Phases /\ 0 \in Nat
    BY DEF Phases
  <2>2. Len(NoSub.buf) = 0 /\ 0 <= Cap
    BY ConsoleAssumption DEF NoSub
  <2> QED BY <2>1, <2>2, TailStarts, SubStarts
<1>3. ConsoleTypeOK
  <2>1. /\ gen \in 0..MaxGen /\ connects \in 0..MaxConnects /\ crashes \in 0..MaxCrash
        /\ Len(units) <= MaxUnits
    BY <1>1, ConsoleAssumption DEF ConsoleInit
  <2>2. /\ tail \in [Gens -> TailRecords] /\ said \in [Units -> Nat]
        /\ sub \in [Clients -> SubRecords] /\ ses \in [Clients -> {"off", "open"}]
        /\ \A c \in Clients : Len(sub[c].buf) <= Cap
    BY <1>2 DEF ConsoleInit
  <2>3. lock \in LockRecords /\ watcher \in [pc : {"none", "watch", "tell"}, gen : 0..MaxGen]
    BY FreeType DEF ConsoleInit
  <2> QED BY <1>1, <2>1, <2>2, <2>3 DEF ConsoleInit, ConsoleTypeOK
<1>4. \A g \in Gens : tail[g].from = 1 /\ tail[g].pos = 0 /\ tail[g].pc = "off"
  BY DEF ConsoleInit, NoTail
<1>5. Lines
  BY <1>1, <1>4 DEF ConsoleInit, Lines, Positions, FreshLines, BroadcastOnce, Pending, Following
<1>6. Subscribed = {} /\ lock.todo = {}
  BY DEF ConsoleInit, Subscribed, Free
<1>7. Channels /\ HistoryMeetsLive
  BY <1>6 DEF Channels, CastsServe, DropsAreCounted, HistoryMeetsLive
<1> QED BY <1>3, <1>5, <1>7 DEF ConsoleIInv, Lines, Channels

LEMMA ConsoleStep == ConsoleIInv /\ [ConsoleNext]_consoleVars => ConsoleIInv'
<1> SUFFICES ASSUME ConsoleIInv, [ConsoleNext]_consoleVars PROVE ConsoleIInv'
  OBVIOUS
<1>0. /\ ConsoleTypeOK /\ Lines /\ Positions /\ Channels /\ CastsServe /\ DropsAreCounted
      /\ HistoryMeetsLive
  BY DEF ConsoleIInv, Lines, Channels
<1>1. SUFFICES ConsoleTypeOK' /\ Lines' /\ Channels' /\ HistoryMeetsLive'
  BY DEF ConsoleIInv, Lines, Channels
<1>2. CASE \E ends \in BOOLEAN : ServerWrites(ends)
  <2>1. UNCHANGED <<lock, sub, ses, file, gen, tail>>
    BY <1>2 DEF ServerWrites, instance
  <2> QED BY <1>0, <1>2, <2>1, ServerTypes, LaunchLines, OtherChannels, OtherHistory
<1>3. CASE \E rotates \in BOOLEAN : Start(rotates)
  <2>1. UNCHANGED <<lock, sub, ses>>
    BY <1>3 DEF Start
  <2> QED BY <1>0, <1>3, <2>1, ServerTypes, LaunchLines, OtherChannels, OtherHistory
<1>4. CASE ServerExits \/ AdoptedEnded \/ AdoptedStopEnded \/ KillAdopted
  <2>1. UNCHANGED <<units, said, lock, sub, ses, file, gen, tail>>
    BY <1>4 DEF ServerExits, AdoptedEnded, AdoptedStopEnded, KillAdopted, server, instance
  <2> QED BY <1>0, <1>4, <2>1, ServerTypes, OtherLines, OtherChannels, OtherHistory
<1>5. CASE Reaped \/ AdoptedTells
  <2>1. /\ UNCHANGED <<units, tail, gen>> /\ ses' = ses
        /\ said' = [u \in Units |-> IF u \in {} THEN said[u] + 1 ELSE said[u]]
    BY <1>5 DEF Reaped, AdoptedTells, server, Broadcast
  <2>2. Broadcast("waiter", gen, {}) \/ Broadcast("watcher", gen, {})
    BY <1>5 DEF Reaped, AdoptedTells
  <2>3. Channels'
    BY <1>0, <2>1, <2>2, BroadcastChannels
  <2> QED BY <1>0, <1>5, <2>1, <2>3, ToldTypes, OtherLines, BroadcastHistory
<1>6. CASE DaemonRestarts
  BY <1>0, <1>6, RestartTypes, LaunchLines, OtherChannels, OtherHistory
<1>7. ASSUME NEW g \in Gens, Open(g) \/ Scan(g) \/ AtEnd(g)
      PROVE  ConsoleTypeOK' /\ Lines' /\ Channels' /\ HistoryMeetsLive'
  <2>1. UNCHANGED <<lock, sub, ses>>
    BY <1>7 DEF Open, Scan, AtEnd
  <2> QED BY <1>0, <1>7, <2>1, LooksTypes, LooksLines, OtherChannels, LooksHistory
<1>8. ASSUME NEW g \in Gens, Send(g)
      PROVE  ConsoleTypeOK' /\ Lines' /\ Channels' /\ HistoryMeetsLive'
  <2>1. Broadcast("tailer", g, Pending(g)) /\ ses' = ses
    BY <1>8 DEF Send
  <2>2. Channels'
    BY <1>0, <2>1, BroadcastChannels
  <2> QED BY <1>0, <1>8, <2>2, SendTypes, SendLines, SendHistory
<1>9. ASSUME NEW c \in Clients, CastNotice(c) \/ CastLine(c) \/ Attach(c) \/ Forward(c) \/ Leave(c)
      PROVE  ConsoleTypeOK' /\ Lines' /\ Channels' /\ HistoryMeetsLive'
  <2>1. UNCHANGED <<units, tail, gen, said>>
    BY <1>9 DEF CastNotice, CastLine, Attach, Forward, Leave, server, instance
  <2>2. ConsoleTypeOK' /\ Channels'
    BY <1>0, <1>9, CastTypes, SessionTypes, CastChannels, SessionChannels
  <2> QED BY <1>0, <1>9, <2>1, <2>2, OtherLines, SessionHistory
<1>10. CASE UNCHANGED consoleVars
  <2>1. ConsoleTypeOK'
    BY <1>0, <1>10 DEF consoleVars, server, instance, bounds, ConsoleTypeOK
  <2> QED BY <1>0, <1>10, <2>1, OtherLines, OtherChannels, OtherHistory
          DEF consoleVars, server, instance
<1> QED BY <1>2, <1>3, <1>4, <1>5, <1>6, <1>7, <1>8, <1>9, <1>10 DEF ConsoleNext, Tailer, Cast

\* Types and the inductive invariant of the consoles hold in every reachable state.
THEOREM ConsoleHolds == ConsoleSpec => []ConsoleIInv
<1> QED BY ConsoleStart, ConsoleStep, PTL DEF ConsoleSpec

\* No unit of the log is broadcast twice, however launches, adoptions and ends of the
\* Daemon follow one another (tailLog's stale, flushPending).
THEOREM LinesAreSaidOnce == ConsoleSpec => []BroadcastOnce
<1>1. ConsoleIInv => BroadcastOnce
  BY DEF ConsoleIInv
<1> QED BY <1>1, ConsoleHolds, PTL

\* What a console was owed and did not get is in its channel, or counted for the next
\* notice, or being sent, for channels of any capacity (broadcastLocked).
THEOREM DropsAreAccountedFor == ConsoleSpec => []DropsAreCounted
<1>1. ConsoleIInv => DropsAreCounted
  BY DEF ConsoleIInv
<1> QED BY <1>1, ConsoleHolds, PTL

\* A console misses no unit between the end of its snapshot and what it is sent
\* (AttachConsole, flushPending).
THEOREM HistoryJoinsLive == ConsoleSpec => []HistoryMeetsLive
<1>1. ConsoleIInv => HistoryMeetsLive
  BY DEF ConsoleIInv
<1> QED BY <1>1, ConsoleHolds, PTL
=============================================================================
