----------------------------- MODULE TunnelTable -----------------------------
(***************************************************************************)
(* What the frpc manager of a node (internal/frp) promises the callers of  *)
(* ApplyTunnel, RemoveTunnel and DeleteInstance about the tunnels of an    *)
(* instance: it keeps them in a table that is written to disk as a whole,  *)
(* a call may change in memory only the tunnels it is about, it answers    *)
(* when memory and disk agree about them, and a restart reads the disk.    *)
(* FrpManager implements this specification.                               *)
(***************************************************************************)

CONSTANT Tunnels        \* tunnel ids the panel may apply

VARIABLES wanted,       \* SUBSET Tunnels: the table in memory
          stored,       \* SUBSET Tunnels: the table on disk
          answer        \* [Tunnels -> Answers]: what was last answered about each

Answers == {"present", "absent"}

tableVars == <<wanted, stored, answer>>

Init ==
  /\ wanted = {} /\ stored = {}
  /\ answer = [t \in Tunnels |-> "absent"]

Tell(T, says) == answer' = [t \in Tunnels |-> IF t \in T THEN says ELSE answer[t]]

\* Memory changes; from here on nothing is promised about these tunnels.
Change(T) ==
  /\ wanted' \in SUBSET Tunnels
  /\ \A t \in Tunnels \ T : t \in wanted' <=> t \in wanted
  /\ Tell(T, "unknown")
  /\ stored' = stored

Save ==
  /\ stored' = wanted
  /\ wanted' = wanted /\ answer' = answer

\* A table says of these tunnels what the caller is told.
Confirms(table, T, says) == \A t \in T : t \in table <=> says = "present"

\* The call returns, at once after it saved the table or later.
Answer(T, says) ==
  /\ stored' \in {stored, wanted}
  /\ Confirms(wanted, T, says) /\ Confirms(stored', T, says)
  /\ Tell(T, says)
  /\ wanted' = wanted

\* What was not saved is lost.
Restart ==
  /\ wanted' = stored
  /\ stored' = stored /\ answer' = answer

Next ==
  \/ \E T \in SUBSET Tunnels : Change(T)
  \/ \E T \in SUBSET Tunnels, says \in Answers : Answer(T, says)
  \/ Save \/ Restart

Spec == Init /\ [][Next]_tableVars

\* What a caller was told holds in memory and after every restart: only tunnels whose
\* last call has not succeeded can differ between the two (Apply, Remove, RemoveInstance).
Kept == \A t \in Tunnels :
  answer[t] \in Answers => (t \in wanted <=> answer[t] = "present") /\ (t \in stored <=> answer[t] = "present")
=============================================================================
