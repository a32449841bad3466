---------------------------- MODULE JobLifecycle ----------------------------
(***************************************************************************)
(* What the node's job queue (internal/daemon/jobqueue) promises to a      *)
(* caller that only sees Submit, Get, Cancel and Stop: every accepted job  *)
(* walks queued -> running -> success | failed | canceled (or              *)
(* queued -> canceled) exactly once, a job the user canceled never ends as *)
(* anything but canceled, and a finished record stays as it is until the   *)
(* queue forgets it.  JobQueue implements this specification.              *)
(***************************************************************************)

CONSTANT Ids            \* job ids, the idempotence keys the panel generates

VARIABLES state,        \* [Ids -> States]: "none" means no record
          canceled,     \* [Ids -> BOOLEAN]: the user has asked to cancel
          open          \* BOOLEAN: the queue still accepts jobs

States   == {"none", "queued", "running", "success", "failed", "canceled"}
Finished == {"success", "failed", "canceled"}

lifeVars == <<state, canceled, open>>

Init ==
  /\ state = [i \in Ids |-> "none"]
  /\ canceled = [i \in Ids |-> FALSE]
  /\ open = TRUE

\* Forgetting is a side effect of accepting a job (eviction) or of the reaper.
Forget(S) ==
  /\ \A i \in S : state[i] \in Finished
  /\ state' = [i \in Ids |-> IF i \in S THEN "none" ELSE state[i]]
  /\ canceled' = [i \in Ids |-> IF i \in S THEN FALSE ELSE canceled[i]]
  /\ open' = open

Accept(i, S) ==
  /\ open
  /\ state[i] = "none"
  /\ \A k \in S : state[k] \in Finished
  /\ state' = [k \in Ids |-> IF k = i THEN "queued"
                             ELSE IF k \in S THEN "none" ELSE state[k]]
  /\ canceled' = [k \in Ids |-> IF k \in S THEN FALSE ELSE canceled[k]]
  /\ open' = open

Begin(i) ==
  /\ state[i] = "queued"
  /\ ~canceled[i]
  /\ state' = [state EXCEPT ![i] = "running"]
  /\ canceled' = canceled /\ open' = open

Withdraw(i) ==
  /\ state[i] = "queued"
  /\ state' = [state EXCEPT ![i] = "canceled"]
  /\ canceled' = [canceled EXCEPT ![i] = TRUE]
  /\ open' = open

AskCancel(i) ==
  /\ state[i] = "running"
  /\ canceled' = [canceled EXCEPT ![i] = TRUE]
  /\ state' = state /\ open' = open

End(i, outcome) ==
  /\ state[i] = "running"
  /\ outcome \in IF canceled[i] THEN {"canceled"} ELSE {"success", "failed"}
  /\ state' = [state EXCEPT ![i] = outcome]
  /\ canceled' = canceled /\ open' = open

Close ==
  /\ open' = FALSE
  /\ UNCHANGED <<state, canceled>>

Next ==
  \/ \E S \in SUBSET Ids : Forget(S)
  \/ \E i \in Ids, S \in SUBSET Ids : Accept(i, S)
  \/ \E i \in Ids : Begin(i) \/ Withdraw(i) \/ AskCancel(i)
  \/ \E i \in Ids, outcome \in Finished : End(i, outcome)
  \/ Close

Spec == Init /\ [][Next]_lifeVars
=============================================================================
